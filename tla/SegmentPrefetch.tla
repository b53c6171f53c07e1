---------------------------- MODULE SegmentPrefetch ----------------------------
(***************************************************************************)
(* The accelerated transcription loop: while the session transcribes and   *)
(* checkpoints one window, a pool of one thread writes the segment file of *)
(* the next (OrderedSegmentPrefetcher around                               *)
(* AdaptiveTranscriptionExecutor._transcribe_accelerated).                 *)
(*                                                                         *)
(* The windows are the ones a restored prefix left to do.  JobRun has the  *)
(* job around this loop, and the sequential loop a CPU plan uses instead.  *)
(***************************************************************************)
EXTENDS FiniteSets, Naturals, Sequences

CONSTANTS
  N,             \* windows that remain
  MaxFaults,     \* bound: errors and interrupts together
  Interruptible, \* Ctrl-C may be pressed (the CLI)
  NoFuture       \* the prefetcher holds no future

ASSUME LoopAssumption == /\ N \in Nat \ {0}
                           /\ MaxFaults \in Nat /\ Interruptible \in BOOLEAN

Windows == 1 .. N
Future  == [window : Windows, state : {"queued", "running", "done", "failed"}]
Over    == {"gone", "dead"}

ASSUME NoFutureAssumption == NoFuture \notin Future

VARIABLES
  depth,   \* prefetch_depth: what the machine allows when the loop begins
  pc,      \* the next step of the executor's thread
  cur,     \* the window in hand; 0: none
  next,    \* the first window not handed to the pool yet
  future,  \* the pending future, or NoFuture
  file,    \* each window's segment file
  saved,   \* the windows checkpointed, in the order they were
  raised,  \* an exception is leaving the loop
  spoiled, \* windows whose segment file nobody will remove: its unlink failed,
           \* or a Ctrl-C came where no handler and no finally removes it
  faults

loopVars == <<depth, pc, cur, next, future, file, saved, raised, spoiled, faults>>

\* A killed predecessor may have left any segment file behind.
LoopInit ==
  /\ depth \in {0, 1} /\ pc = "await" /\ cur = 0
  /\ next = 1 + depth
  /\ future = IF depth = 1 THEN [window |-> 1, state |-> "queued"]
                           ELSE NoFuture
  /\ file \in [Windows -> {"absent", "stale"}]
  /\ saved = <<>> /\ raised = FALSE /\ spoiled = {} /\ faults = 0

Is(state)     == future # NoFuture /\ future.state = state
Becomes(state) == future' = [future EXCEPT !.state = state]
FileIs(w, state) == file' = [file EXCEPT ![w] = state]
Fault == faults < MaxFaults /\ faults' = faults + 1

-----------------------------------------------------------------------------
(* The pool's thread: WaveAudioSegmenter.materialize.                      *)

PoolOpens ==
  /\ Is("queued") /\ file[future.window] = "absent"
  /\ Becomes("running")
  /\ FileIs(future.window, "partial")
  /\ UNCHANGED <<depth, pc, cur, next, saved, raised, spoiled, faults>>

\* Opened "xb"; a leftover is unlinked and raised over.
PoolRefuses ==
  /\ Is("queued") /\ file[future.window] # "absent"
  /\ Becomes("failed")
  /\ FileIs(future.window, "absent")
  /\ UNCHANGED <<depth, pc, cur, next, saved, raised, spoiled, faults>>

PoolFinishes ==
  /\ Is("running")
  /\ Becomes("done")
  /\ FileIs(future.window, "whole")
  /\ UNCHANGED <<depth, pc, cur, next, saved, raised, spoiled, faults>>

\* Mutant: the exception takes the future with it.
PoolFailsSilently ==
  /\ Is("running") /\ Fault
  /\ FileIs(future.window, "absent")
  /\ future' = NoFuture
  /\ UNCHANGED <<depth, pc, cur, next, saved, raised, spoiled>>

\* The handlers unlink what there is, a leftover too; the unlink may fail, and
\* the directory before them.
PoolFails ==
  /\ Is("queued") \/ Is("running")
  /\ Fault
  /\ Becomes("failed")
  /\ \/ FileIs(future.window, "absent") /\ UNCHANGED spoiled
     \/ spoiled' = spoiled \cup {future.window} /\ UNCHANGED file
  /\ UNCHANGED <<depth, pc, cur, next, saved, raised>>

Pool == PoolOpens \/ PoolRefuses \/ PoolFinishes

-----------------------------------------------------------------------------
(* The executor's thread.                                                  *)

Leaving == pc' = "leave" /\ raised' = TRUE

\* future.result()
Await ==
  /\ pc = "await" /\ Is("done")
  /\ cur' = future.window
  /\ pc' = "hand"
  /\ UNCHANGED <<depth, next, future, file, saved, raised, spoiled, faults>>

\* Mutant: a window that could not be materialized is passed over.
AwaitSkips ==
  /\ pc = "await" /\ Is("failed")
  /\ IF next <= N THEN /\ future' = [window |-> next, state |-> "queued"]
                       /\ next' = next + 1 /\ UNCHANGED pc
                  ELSE future' = NoFuture /\ pc' = "leave" /\ UNCHANGED next
  /\ UNCHANGED <<depth, cur, file, saved, raised, spoiled, faults>>

AwaitFails ==
  /\ pc = "await" /\ Is("failed")
  /\ Leaving
  /\ UNCHANGED <<depth, cur, next, future, file, saved, spoiled, faults>>

\* materialize cut off in the executor's own thread: its handlers catch an
\* error but no Ctrl-C, their unlink may fail, and a Ctrl-C before the try that
\* follows the yield leaves the whole segment.
CutOff(w) ==
  \/ FileIs(w, "absent") /\ UNCHANGED spoiled
  \/ spoiled' = spoiled \cup {w}
     /\ \/ UNCHANGED file
        \/ file[w] = "absent" /\ (FileIs(w, "partial") \/ FileIs(w, "whole"))

\* With a depth of zero the loop materializes in its own thread.
Inline ==
  /\ pc = "await" /\ depth = 0
  /\ \/ /\ file[next] = "absent" /\ FileIs(next, "whole")
        /\ cur' = next /\ next' = next + 1
        /\ pc' = "transcribe" /\ UNCHANGED <<raised, spoiled, faults>>
     \/ /\ file[next] # "absent" /\ FileIs(next, "absent")
        /\ Leaving /\ UNCHANGED <<cur, next, spoiled, faults>>
     \/ /\ Fault /\ CutOff(next)
        /\ Leaving /\ UNCHANGED <<cur, next>>
  /\ UNCHANGED <<depth, future, saved>>

\* What iterate leaves pending when it yields: the following window, if any.
Following ==
  IF next <= N THEN [window |-> next, state |-> "queued"] ELSE NoFuture

\* iterate submits the following window and yields the one in hand.
Hand ==
  /\ pc = "hand"
  /\ future' = Following /\ next' = next + 1
  /\ pc' = "transcribe"
  /\ UNCHANGED <<depth, cur, file, saved, raised, spoiled, faults>>

\* WaveAudioSegmenter.cleanup swallows an OSError: then the file stays.
Cleanup(w) ==
  \/ FileIs(w, "absent") /\ UNCHANGED <<spoiled, faults>>
  \/ Fault /\ spoiled' = spoiled \cup {w} /\ UNCHANGED file

Transcribe ==
  /\ pc = "transcribe"
  /\ Cleanup(cur)
  /\ pc' = "save"
  /\ UNCHANGED <<depth, cur, next, future, saved, raised>>

\* An error or a Ctrl-C; the finally removes the file, unless the unlink fails
\* or the Ctrl-C hits the finally itself.
TranscribeFails ==
  /\ pc = "transcribe" /\ Fault
  /\ \/ FileIs(cur, "absent") /\ UNCHANGED spoiled
     \/ spoiled' = spoiled \cup {cur} /\ UNCHANGED file
  /\ cur' = 0
  /\ Leaving
  /\ UNCHANGED <<depth, next, future, saved>>

\* save_segment and the progress record; the loop asks for the next window,
\* or ends.
Save ==
  /\ pc = "save"
  /\ saved' = Append(saved, cur)
  /\ cur' = 0
  /\ \/ /\ pc' = IF future # NoFuture \/ (depth = 0 /\ next <= N)
                   THEN "await" ELSE "leave"
        /\ UNCHANGED <<raised, faults>>
     \/ Fault /\ Leaving
  /\ UNCHANGED <<depth, next, future, file, spoiled>>

SaveFails ==
  /\ pc = "save" /\ Fault
  /\ cur' = 0
  /\ Leaving
  /\ UNCHANGED <<depth, next, future, file, saved, spoiled>>

\* Mutant: the pool is shut down, and what it made is left.
LeaveAbandons ==
  /\ pc = "leave" /\ ~Is("running")
  /\ future' = NoFuture
  /\ pc' = "gone"
  /\ UNCHANGED <<depth, cur, next, file, saved, raised, spoiled, faults>>

\* __exit__: cancel what has not begun, wait for what has, remove its file.
Leave ==
  /\ pc = "leave" /\ ~Is("running")
  /\ \/ Is("done") /\ Cleanup(future.window)
     \/ ~Is("done") /\ UNCHANGED <<file, spoiled, faults>>
  /\ future' = NoFuture
  /\ pc' = "gone"
  /\ UNCHANGED <<depth, cur, next, saved, raised>>

Caller == \/ Await \/ AwaitFails \/ Inline \/ Hand \/ Transcribe \/ Save
          \/ Leave

\* KeyboardInterrupt in the executor's thread; the pool's thread never sees it.
\* Between result() and the try around transcribe the future is forgotten or
\* still held, and the segment in hand is nobody's; in __exit__ the pending
\* future is let go, and the pool goes on.
Interrupt ==
  /\ Interruptible /\ Fault
  /\ \/ /\ pc = "await" /\ Leaving
        /\ \/ depth = 0 /\ CutOff(next)
           \/ depth = 1 /\ UNCHANGED <<file, spoiled>>
        /\ UNCHANGED <<cur, future>>
     \/ /\ pc = "hand" /\ Leaving /\ cur' = 0
        /\ \/ UNCHANGED <<future, spoiled>>
           \/ future' \in {NoFuture, Following} /\ spoiled' = spoiled \cup {cur}
        /\ UNCHANGED file
     \/ /\ pc = "save" /\ Leaving /\ cur' = 0
        /\ UNCHANGED <<future, file, spoiled>>
     \/ /\ pc = "leave" /\ future # NoFuture
        /\ pc' = "gone" /\ raised' = TRUE
        /\ spoiled' = spoiled \cup {future.window}
        /\ UNCHANGED <<cur, future, file>>
  /\ UNCHANGED <<depth, next, saved>>

\* The worker is killed.
Crash ==
  /\ pc \notin Over
  /\ pc' = "dead" /\ future' = NoFuture
  /\ UNCHANGED <<depth, cur, next, file, saved, raised, spoiled, faults>>

Rest == pc \in Over /\ UNCHANGED loopVars

LoopNext == \/ Pool \/ PoolFails \/ Caller \/ TranscribeFails \/ SaveFails
        \/ Interrupt \/ Crash \/ Rest

LoopSpec == LoopInit /\ [][LoopNext]_loopVars

\* Both threads are scheduled; neither an error nor a crash has to happen.
LoopFairness == WF_loopVars(Pool \/ PoolFails) /\ WF_loopVars(Caller)

FairLoopSpec == LoopSpec /\ LoopFairness

-----------------------------------------------------------------------------
(* Properties.                                                             *)

LoopTypeOK ==
  /\ depth \in {0, 1}
  /\ pc \in {"await", "hand", "transcribe", "save", "leave"} \cup Over
  /\ cur \in 0 .. N /\ next \in 1 .. (N + 2)
  /\ future \in Future \cup {NoFuture}
  /\ file \in [Windows -> {"absent", "stale", "partial", "whole"}]
  /\ saved \in Seq(Windows) /\ raised \in BOOLEAN /\ spoiled \subseteq Windows
  /\ faults \in 0 .. MaxFaults

\* What is checkpointed is a prefix of the plan, all of it unless an exception
\* left the loop, and a window is heard from its own, whole segment file
\* (adaptive-heterogeneous-execution.md: segment N is checkpointed before N+1
\* can become committed work).
InPlanOrder ==
  /\ saved = [i \in 1 .. Len(saved) |-> i]
  /\ pc = "gone" /\ ~raised => Len(saved) = N
  /\ pc = "transcribe" => file[cur] = "whole" /\ cur = Len(saved) + 1

Written == {w \in Windows : file[w] \in {"partial", "whole"}}

\* At most one future segment exists beside the one in hand and those that
\* nobody will remove: the pool is never further ahead than the plan allowed for.
OneAhead == Cardinality(Written \ ({cur} \cup spoiled)) <= 1

\* However the loop is left, it leaves no segment file behind, the one in hand
\* or the one the pool was writing for nobody, but those whose unlink failed and
\* those a Ctrl-C left where no handler and no finally removes them.
NothingLeft == pc = "gone" => Written \subseteq spoiled

\* The two threads never wait for each other for ever.
LoopEnds == <>(pc \in Over)
=============================================================================
