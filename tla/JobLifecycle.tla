---------------------------- MODULE JobLifecycle ----------------------------
(***************************************************************************)
(* The private lifecycle record of one job, and the processes that share   *)
(* it without a lock.                                                      *)
(*                                                                         *)
(* The record is one small JSON file.  Every operation of JobLifecycleStore*)
(* reads it, decides, and replaces it; only the replacement is atomic.     *)
(* Workers (one process per start or resume) write their progress into it, *)
(* clients (a bridge request of the desktop, or a CLI command) reconcile a *)
(* record whose process died, discard the job, or clean its workspace.     *)
(* Here each read, each probe of the operating system and each write is a  *)
(* step of its own.                                                        *)
(*                                                                         *)
(* What a transcription does between two records is JobRun's business: a   *)
(* worker here only creates, fills, publishes and empties its workspace.   *)
(***************************************************************************)
EXTENDS Naturals, FiniteSets

CONSTANTS
  Workers,           \* worker processes, each launched once
  Clients,           \* bridge or CLI processes that may run side by side
  MaxLive,           \* workers that run at once: 1 under the native host
  MaxLost,           \* bound: requests that fail or are killed halfway
  IncludeIncomplete, \* the retention policy's include_incomplete
  Nobody,            \* no process_id in the record
  Screen             \* the job list the user looks at

Procs == Workers \cup Clients

ASSUME ProcsAssumption == /\ Workers \cap Clients = {}
                          /\ {Nobody, Screen} \cap Procs = {}
                          /\ MaxLive \in Nat /\ MaxLost \in Nat
                          /\ IncludeIncomplete \in BOOLEAN

VARIABLES
  rec,        \* the record on disk
  current,    \* the copies that carry the record's present updated_at
  ws,         \* the workspace: absent, without or with a checkpoint manifest
  published,  \* a canonical transcript of the job exists
  pc,         \* the next step of each process
  op,         \* what each process was asked to do
  seen,       \* the record each process read last
  match,      \* what a client read has the updated_at it was asked to act on
  denied,     \* dead workers whose pid a process has that psutil may not read
  lost        \* requests abandoned so far

machine == <<denied, lost>>
world  == <<ws, published, machine>>
memory == <<op, seen, match>>
vars  == <<rec, current, ws, published, pc, op, seen, match, denied, lost>>

Running  == "running"
Settled  == {"interrupted", "failed", "completed"}
Missing  == [status |-> "absent", owner |-> Nobody, old |-> FALSE]
Record(status, owner) == [status |-> status, owner |-> owner, old |-> FALSE]

Requests == {"list", "discard", "erase", "retain", "purge"}
Errands  == {"start", "resume"}
Outcomes == {"failed", "interrupted"}

ScreenCopy == <<"screen", Screen>>
Asked(c)   == <<"asked", c>>
Held(p)    == <<"held", p>>
Copies     == {ScreenCopy} \cup {Asked(c) : c \in Clients}
                           \cup {Held(p) : p \in Procs}

\* psutil finds the process the record names, with its creation time.
Alive(p) == p \in Procs /\ pc[p] \notin {"idle", "gone"}
Live     == {w \in Workers : Alive(w)}

-----------------------------------------------------------------------------
(* Steps of JobLifecycleStore.                                             *)

Goto(p, step) == pc' = [pc EXCEPT ![p] = step]

\* A process ends, and its memory with it; a worker is not launched again.
Exit(p, copies) ==
  /\ Goto(p, IF p \in Workers THEN "gone" ELSE "idle")
  /\ op' = [op EXCEPT ![p] = "none"]
  /\ seen' = [seen EXCEPT ![p] = Missing]
  /\ match' = [match EXCEPT ![p] = FALSE]
  /\ current' = copies \ {Asked(p), Held(p)}

\* _write: the file is replaced, and carries a new updated_at.
Write(p, record) ==
  /\ rec' = record
  /\ current' = {Held(p)}
  /\ seen' = [seen EXCEPT ![p] = record]

\* _load_if_present
Read(p) ==
  /\ seen' = [seen EXCEPT ![p] = rec]
  /\ current' = current \cup {Held(p)}

\* get, its first step: no record, no answer.
Load(p) ==
  /\ pc[p] = "load"
  /\ \/ rec.status = "absent" /\ Exit(p, current)
     \/ /\ rec.status # "absent"
        /\ Read(p)
        /\ match' = [match EXCEPT ![p] = Asked(p) \in current]
        /\ Goto(p, IF rec.status = Running THEN "probe" ELSE "got")
        /\ UNCHANGED op
  /\ UNCHANGED <<rec, world>>

\* Mutant: a record without a process is left alone.
ProbeOwned(p) ==
  /\ pc[p] = "probe" /\ Goto(p, "got")
  /\ UNCHANGED <<rec, current, world, op, seen, match>>

\* _process_is_active: AccessDenied counts as active.
Active(owner) == Alive(owner) \/ owner \in denied

Probe(p) ==
  /\ pc[p] = "probe"
  /\ Goto(p, IF Active(seen[p].owner) THEN "got" ELSE "mark")
  /\ UNCHANGED <<rec, current, world, op, seen, match>>

\* The copy that was read is written back as interrupted.
Mark(p) ==
  /\ pc[p] = "mark"
  /\ Write(p, Record("interrupted", Nobody))
  /\ match' = [match EXCEPT ![p] = FALSE]
  /\ Goto(p, "got")
  /\ UNCHANGED <<world, op>>

-----------------------------------------------------------------------------
(* Clients.                                                                *)

\* A request; what discard and retain are bound to is what the screen shows.
Ask(c, request) ==
  /\ pc[c] = "idle"
  /\ op' = [op EXCEPT ![c] = request]
  /\ current' = IF ScreenCopy \in current THEN current \cup {Asked(c)}
                                          ELSE current
  /\ Goto(c, "load")
  /\ UNCHANGED <<rec, world, seen, match>>

\* jobs(): the list goes back to the screen.
Show(c) ==
  /\ pc[c] = "got" /\ op[c] = "list"
  /\ Exit(c, IF Held(c) \in current THEN current \cup {ScreenCopy}
                                    ELSE current \ {ScreenCopy})
  /\ UNCHANGED <<rec, world>>

\* Mutant: what the screen showed does not matter.
MayDiscardAny(c) == seen[c].status # Running

\* Mutant: a job that runs may be discarded.
MayDiscardRunning(c) == op[c] = "discard" => match[c]

\* discard_job, bound to updated_at; the CLI's discard is not.
MayDiscard(c) ==
  /\ seen[c].status # Running
  /\ op[c] = "discard" => match[c]

\* _retention_candidate, under a plan whose token still holds.
MayRetain(c) ==
  /\ seen[c].status = "completed" \/ (IncludeIncomplete /\ seen[c].status # Running)
  /\ seen[c].old /\ ws # "none" /\ match[c]

\* _execution_action, of a document in the library: no status is asked for.
MayPurge == published /\ ws # "none"

Decide(c) ==
  /\ pc[c] = "got" /\ op[c] # "list"
  /\ LET may == CASE op[c] \in {"discard", "erase"} -> MayDiscard(c)
                  [] op[c] = "retain" -> MayRetain(c)
                  [] op[c] = "purge" -> MayPurge
     IN IF may THEN Goto(c, "rmtree") /\ UNCHANGED <<current, memory>>
               ELSE Exit(c, current)
  /\ UNCHANGED <<rec, world>>

\* delete_directory of the workspace; discard goes on to the record.
RemoveWorkspace(c) ==
  /\ pc[c] = "rmtree"
  /\ ws' = "none"
  /\ IF op[c] \in {"discard", "erase"}
       THEN Goto(c, "unlink") /\ UNCHANGED <<current, memory>>
       ELSE Exit(c, current)
  /\ UNCHANGED <<rec, published, machine>>

RemoveRecord(c) ==
  /\ pc[c] = "unlink"
  /\ rec' = Missing
  /\ Exit(c, {})
  /\ UNCHANGED world

\* The request fails or its process is killed: what it did stays done.
Abandon(c) ==
  /\ pc[c] # "idle" /\ lost < MaxLost
  /\ lost' = lost + 1
  /\ Exit(c, current)
  /\ UNCHANGED <<rec, ws, published, denied>>

Client(c) == \/ \E request \in Requests : Ask(c, request)
             \/ Load(c) \/ Probe(c) \/ Mark(c) \/ Show(c) \/ Decide(c)
             \/ RemoveWorkspace(c) \/ RemoveRecord(c)

-----------------------------------------------------------------------------
(* Workers.                                                                *)

\* The host starts a worker.  A start may be pressed again with the plan it
\* was pressed with before, job id included; a resume asks for the record.
Launch(w, errand) ==
  /\ pc[w] = "idle"
  /\ Cardinality(Live) < MaxLive
  /\ op' = [op EXCEPT ![w] = errand]
  /\ Goto(w, IF errand = "resume" THEN "load" ELSE "begin")
  /\ UNCHANGED <<rec, current, world, seen, match>>

\* plan_resume: the status is not asked for, the checkpoint manifest is.
PlanResume(w) ==
  /\ w \in Workers /\ pc[w] = "got"
  /\ IF ws = "resumable" THEN Goto(w, "begin") /\ UNCHANGED <<current, memory>>
                          ELSE Exit(w, current)
  /\ UNCHANGED <<rec, world>>

\* lifecycle.start writes before the workspace is claimed.
Begin(w) ==
  /\ pc[w] = "begin"
  /\ Write(w, Record(Running, w))
  /\ Goto(w, "enter")
  /\ UNCHANGED <<world, op, match>>

\* create_job or resume_job
Enter(w) ==
  /\ pc[w] = "enter"
  /\ LET claimed == (op[w] = "resume") = (ws # "none") IN
     /\ ws' = IF claimed /\ op[w] = "start" THEN "bare" ELSE ws
     /\ Goto(w, IF claimed THEN "prepare" ELSE "failing")
  /\ UNCHANGED <<rec, current, published, op, seen, match, machine>>

\* checkpoint.prepare: a start writes the manifest, a resume needs it.
Prepare(w) ==
  /\ pc[w] = "prepare"
  /\ \/ /\ ws = IF op[w] = "resume" THEN "resumable" ELSE "bare"
        /\ ws' = "resumable"
        /\ Goto(w, "work")
     \/ /\ ws # IF op[w] = "resume" THEN "resumable" ELSE "bare"
        /\ Goto(w, "failing")
        /\ UNCHANGED ws
  /\ UNCHANGED <<rec, current, published, op, seen, match, machine>>

\* record_progress reads ...
ReadProgress(w) ==
  /\ pc[w] = "work"
  /\ Read(w)
  /\ Goto(w, IF rec.status = "absent" THEN "failing" ELSE "tick")
  /\ UNCHANGED <<rec, world, op, match>>

\* ... and writes: running, whatever it read, with the process it read.
WriteProgress(w) ==
  /\ pc[w] = "tick"
  /\ Write(w, Record(Running, seen[w].owner))
  /\ \E next \in {"work", "publish"} : Goto(w, next)
  /\ UNCHANGED <<world, op, match>>

\* The artifact is written; its name was reserved in the output directory.
Publish(w) ==
  /\ pc[w] = "publish"
  /\ published' = TRUE
  /\ Goto(w, "clear")
  /\ UNCHANGED <<rec, current, ws, op, seen, match, machine>>

\* checkpoint.clear
Clear(w) ==
  /\ pc[w] = "clear"
  /\ ws' = IF ws = "resumable" THEN "bare" ELSE ws
  /\ Goto(w, "done")
  /\ UNCHANGED <<rec, current, published, op, seen, match, machine>>

\* An exception in the executor, or Ctrl-C: the runner reports it.
Fail(w) ==
  /\ pc[w] \in {"enter", "prepare", "work", "publish"}
  /\ Goto(w, "failing")
  /\ UNCHANGED <<rec, current, world, op, seen, match>>

\* Mutant: a job that failed is reported as completed.
ReportCompleted(w) ==
  /\ pc[w] \in {"settle", "ending"}
  /\ rec' = Record("completed", Nobody)
  /\ Exit(w, {})
  /\ UNCHANGED world

\* complete, interrupt and fail read the record, which must be there ...
ReadLast(w) ==
  /\ pc[w] \in {"done", "failing"}
  /\ \/ rec.status = "absent" /\ Exit(w, current)
     \/ /\ rec.status # "absent"
        /\ Read(w)
        /\ Goto(w, IF pc[w] = "done" THEN "settle" ELSE "ending")
        /\ UNCHANGED <<op, match>>
  /\ UNCHANGED <<rec, world>>

\* ... and replace it.
Report(w) ==
  /\ \/ pc[w] = "settle" /\ rec' = Record("completed", Nobody)
     \/ /\ pc[w] = "ending"
        /\ \E status \in Outcomes : rec' = Record(status, Nobody)
  /\ Exit(w, {})
  /\ UNCHANGED world

\* Cancelled by the host, or lost with the machine.
Kill(w) ==
  /\ Alive(w)
  /\ Exit(w, current)
  /\ UNCHANGED <<rec, world>>

Worker(w) == \/ Load(w) \/ Probe(w) \/ Mark(w) \/ PlanResume(w) \/ Begin(w)
             \/ Enter(w) \/ Prepare(w) \/ ReadProgress(w) \/ WriteProgress(w)
             \/ Publish(w) \/ Clear(w) \/ ReadLast(w) \/ Report(w)

-----------------------------------------------------------------------------
Init ==
  /\ rec = Missing /\ current = {} /\ ws = "none" /\ published = FALSE
  /\ pc = [p \in Procs |-> "idle"]
  /\ op = [p \in Procs |-> "none"]
  /\ seen = [p \in Procs |-> Missing]
  /\ match = [p \in Procs |-> FALSE] /\ denied = {} /\ lost = 0

\* execution_days pass.
Age ==
  /\ rec.status \in Settled /\ ~rec.old
  /\ rec' = [rec EXCEPT !.old = TRUE]
  /\ UNCHANGED <<current, world, pc, op, seen, match>>

\* The pid of a dead worker is given to a process that psutil may not read:
\* another user's, or the system's.
Reuse(w) ==
  /\ pc[w] = "gone" /\ w \notin denied
  /\ denied' = denied \cup {w}
  /\ UNCHANGED <<rec, current, ws, published, pc, op, seen, match, lost>>

\* That process ends as well.
Release(w) ==
  /\ w \in denied
  /\ denied' = denied \ {w}
  /\ UNCHANGED <<rec, current, ws, published, pc, op, seen, match, lost>>

Next ==
  \/ \E c \in Clients : Client(c) \/ Abandon(c)
  \/ \E w \in Workers : \/ \E errand \in Errands : Launch(w, errand)
                        \/ Worker(w) \/ Fail(w) \/ Kill(w)
                        \/ Reuse(w) \/ Release(w)
  \/ Age

Spec == Init /\ [][Next]_vars

\* A live process takes its next step, and somebody keeps asking for the
\* job: the Processing Center lists the jobs as long as it is on screen.
FairSpec == /\ Spec
            /\ \A w \in Workers : WF_vars(Worker(w))
            /\ \A c \in Clients : WF_vars(Client(c))

-----------------------------------------------------------------------------
(* Properties.                                                             *)

Workspaces == {"none", "bare", "resumable"}
Steps == {"idle", "load", "probe", "mark", "got", "rmtree", "unlink", "begin",
          "enter", "prepare", "work", "tick", "publish", "clear", "done",
          "settle", "failing", "ending", "gone"}
Statuses == Settled \cup {Running, "absent"}
Records  == {r \in [status : Statuses, owner : Workers \cup {Nobody},
                    old : BOOLEAN] : r.owner # Nobody => r.status = Running}

\* Every file and every process is in a state it can be in; only a record
\* that says running names a process.
TypeOK ==
  /\ rec \in Records /\ current \subseteq Copies
  /\ ws \in Workspaces /\ published \in BOOLEAN
  /\ pc \in [Procs -> Steps]
  /\ op \in [Procs -> Requests \cup Errands \cup {"none"}]
  /\ seen \in [Procs -> Records] /\ match \in [Procs -> BOOLEAN]
  /\ denied \subseteq Workers /\ lost \in 0 .. MaxLost

\* No interleaving of readers and writers produces a record that says
\* completed when no transcript exists.
CompletedIsPublished == rec.status = "completed" => published

\* The job was started once, and nobody has resumed it or started it again.
StartedOnce == \A v, w \in Workers : pc[v] # "idle" /\ pc[w] # "idle" => v = w

\* A worker that has claimed the workspace of a job that was started once keeps
\* it: no client's discard or clean-up removes it under the worker.  A resume
\* loses it to a deletion that was decided before.
Working == {w \in Workers : pc[w] \in {"prepare", "work", "tick", "publish"}}
WorkspaceIsKept == StartedOnce /\ Working # {} => ws # "none"

\* A discard from the screen deletes the very record the screen showed, never
\* one that was written since (processing-center.md, safe discard).  This holds
\* for a job that is started once; a resume breaks it.
DiscardsWhatItShowed ==
  [][\A c \in Clients : StartedOnce /\ RemoveRecord(c) /\ op[c] = "discard" =>
       Asked(c) \in current]_vars

\* Once no worker is left, a record that says running is reconciled, unless the
\* pid it names is found, again and again, to be a process that psutil may not
\* read: such a record stays running however often the jobs are listed.
Orphaned == rec.status = Running /\ Live = {}
OrphansSettle == Orphaned ~> ~Orphaned \/ rec.owner \in denied

(* What the documentation says, and the runs refute.                       *)

\* processing-center.md: what is reconciled to interrupted is a job reported as
\* running whose process is no longer active.
ReconcilesOnlyTheDead ==
  [][\A p \in Procs : Mark(p) => rec.status = Running /\ ~Alive(rec.owner)]_vars
=============================================================================
