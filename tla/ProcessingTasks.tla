--------------------------- MODULE ProcessingTasks ---------------------------
(***************************************************************************)
(* The native supervisor of long-running work (processing.rs) between the  *)
(* Processing Center that asks for it and the worker processes that do it. *)
(*                                                                         *)
(* The host keeps one entry per task id under one mutex, so each command   *)
(* handler is one action.  The commands are asynchronous: they reach the   *)
(* mutex in any order, and their answers reach React in any order, after a *)
(* later task was started or the component is gone.  A worker exits when   *)
(* it likes; the host learns of it only when some handler looks.           *)
(***************************************************************************)
EXTENDS FiniteSets, Naturals

CONSTANTS
  Tasks,       \* task ids, each drawn once by the front end
  MaxCalls,    \* bound: commands in flight together
  MaxSessions, \* bound: launches of the desktop host
  Navigates,   \* the user leaves the Processing Center and comes back
  NoTask       \* nothing on the task card

ASSUME TasksAssumption == NoTask \notin Tasks
ASSUME HostAssumption == /\ MaxCalls \in Nat /\ MaxSessions \in Nat
                           /\ Navigates \in BOOLEAN

VARIABLES
  entry,    \* the host's entries: a state per task id, "none" without one
  process,  \* what has become of each task's worker process
  host,     \* "up", "quit" in order, or "died"
  sessions, \* hosts launched so far
  shown,    \* the task card: the task and the state it shows
  calls     \* commands in flight, with their answers once they have one

vars == <<entry, process, host, sessions, shown, calls>>

Verdicts == {"completed", "failed", "cancelled"}
States   == {"running"} \cup Verdicts
Kinds    == {"start", "status", "cancel"}

\* heard: the component that sent it is still on the screen.
Call == [kind : Kinds, task : Tasks, heard : BOOLEAN,
         answer : States \cup {"pending", "error"}]

Blank == [task |-> NoTask, state |-> "none"]

\* The promises of a component that was unmounted are heard by nobody.
Unheard == {[c EXCEPT !.heard = FALSE] : c \in calls}

-----------------------------------------------------------------------------
(* The supervisor.                                                         *)

\* Mutant: the exit status alone decides.
VerdictOfExit(t) == IF process[t] = "bad" THEN "completed" ELSE "failed"

\* finish: success and an outcome that says ok.
Verdict(t) == IF process[t] = "ok" THEN "completed" ELSE "failed"

\* ProcessEntry.refresh: try_wait on a child that is still held.
Refreshed(t) == IF entry[t] = "running" /\ process[t] # "alive"
                THEN Verdict(t) ELSE entry[t]

RefreshOne(t) == entry' = [entry EXCEPT ![t] = Refreshed(t)]

Answer(c, answer) ==
  calls' = (calls \ {c}) \cup {[c EXCEPT !.answer = answer]}

Pending(kind) == {c \in calls : c.kind = kind /\ c.answer = "pending"}

\* Mutant: a running task does not keep a second one from starting.
NoneRuns == TRUE

\* ensure_no_running_task, after it has refreshed every entry.
NoneRunning == \A t \in Tasks : Refreshed(t) # "running"

\* The child was spawned and has its task, or was killed because it would not
\* take it, or was never spawned.
Spawn(c) ==
  \/ /\ process' = [process EXCEPT ![c.task] = "alive"]
     /\ entry' = [t \in Tasks |-> IF t = c.task THEN "running" ELSE Refreshed(t)]
     /\ Answer(c, "running")
  \/ /\ process' \in {process, [process EXCEPT ![c.task] = "killed"]}
     /\ entry' = [t \in Tasks |-> Refreshed(t)]
     /\ Answer(c, "error")

HandleStart(c) ==
  /\ host = "up" /\ c \in Pending("start")
  /\ \/ /\ entry[c.task] = "none" /\ NoneRunning
        /\ Spawn(c)
     \/ /\ entry[c.task] = "none" /\ ~NoneRunning
        /\ entry' = [t \in Tasks |-> Refreshed(t)]
        /\ Answer(c, "error")
        /\ UNCHANGED process
     \/ /\ entry[c.task] # "none"
        /\ Answer(c, "error")
        /\ UNCHANGED <<entry, process>>
  /\ UNCHANGED <<host, sessions, shown>>

\* Mutant: the status is told from the entry as it was left.
HandleStatusStale(c) ==
  /\ host = "up" /\ c \in Pending("status")
  /\ Answer(c, entry[c.task])
  /\ UNCHANGED <<entry, process, host, sessions, shown>>

HandleStatus(c) ==
  /\ host = "up" /\ c \in Pending("status")
  /\ RefreshOne(c.task)
  /\ Answer(c, Refreshed(c.task))
  /\ UNCHANGED <<process, host, sessions, shown>>

\* Mutant: a task is cancelled whatever became of it.
HandleCancelAnyway(c) ==
  /\ host = "up" /\ c \in Pending("cancel")
  /\ entry' = [entry EXCEPT ![c.task] = "cancelled"]
  /\ process' = [process EXCEPT ![c.task] =
                   IF @ = "alive" THEN "killed" ELSE @]
  /\ Answer(c, "cancelled")
  /\ UNCHANGED <<host, sessions, shown>>

\* Kill and wait.  A child that exits between the look and the kill is
\* cancelled all the same; a kill that fails leaves it running.
HandleCancel(c) ==
  /\ host = "up" /\ c \in Pending("cancel")
  /\ \/ /\ Refreshed(c.task) # "running"
        /\ RefreshOne(c.task)
        /\ Answer(c, Refreshed(c.task))
        /\ UNCHANGED process
     \/ /\ Refreshed(c.task) = "running"
        /\ entry' = [entry EXCEPT ![c.task] = "cancelled"]
        /\ \E end \in {"killed", "ok", "bad"} :
             process' = [process EXCEPT ![c.task] = end]
        /\ Answer(c, "cancelled")
     \/ /\ Refreshed(c.task) = "running"
        /\ Answer(c, "error")
        /\ UNCHANGED <<entry, process>>
  /\ UNCHANGED <<host, sessions, shown>>

\* The worker exits with an outcome that says ok, or in any other way.
WorkerExits(t) ==
  /\ process[t] \in {"alive", "orphaned"}
  /\ \E end \in {"ok", "bad"} : process' = [process EXCEPT ![t] = end]
  /\ UNCHANGED <<entry, host, sessions, shown, calls>>

-----------------------------------------------------------------------------
(* The Processing Center.                                                  *)

Send(kind, t) ==
  /\ host = "up" /\ Cardinality(calls) < MaxCalls
  /\ calls' = calls \cup
       {[kind |-> kind, task |-> t, heard |-> TRUE, answer |-> "pending"]}
  /\ UNCHANGED <<entry, process, host, sessions, shown>>

\* Start, Resume, Retry, or a change to a model: none of the buttons asks
\* whether a task is on the card.
Press(t) ==
  /\ entry[t] = "none" /\ process[t] = "none"
  /\ \A c \in calls : c.task # t
  /\ Send("start", t)

\* The timer's tick, or the Refresh button.
Poll == shown.task # NoTask /\ Send("status", shown.task)

Stop == shown.state = "running" /\ Send("cancel", shown.task)

\* setTask with whatever the answer says, whichever task is on the card.
Deliver(c) ==
  /\ c \in calls /\ c.answer # "pending"
  /\ calls' = calls \ {c}
  /\ shown' = IF c.heard /\ c.answer # "error"
                THEN [task |-> c.task, state |-> c.answer]
                ELSE shown
  /\ UNCHANGED <<entry, process, host, sessions>>

\* Another view is opened, and then this one again: its state is fresh.
Navigate ==
  /\ host = "up" /\ Navigates
  /\ shown' = Blank
  /\ calls' = Unheard
  /\ UNCHANGED <<entry, process, host, sessions>>

-----------------------------------------------------------------------------
(* The host process.                                                       *)

\* Mutant: the children of a session outlive it.
LeaveChildren == process' = process

\* Drop for ProcessingProcesses.
KillChildren ==
  process' = [t \in Tasks |->
                IF entry[t] = "running" /\ process[t] = "alive" THEN "killed"
                ELSE process[t]]

SessionEnds ==
  /\ host = "up"
  /\ entry' = [t \in Tasks |-> "none"]
  /\ shown' = Blank /\ calls' = {}
  /\ UNCHANGED sessions

Quit == SessionEnds /\ host' = "quit" /\ KillChildren

\* The host is killed or crashes: nothing is dropped, and its children go on.
Die ==
  /\ SessionEnds /\ host' = "died"
  /\ process' = [t \in Tasks |-> IF process[t] = "alive" THEN "orphaned"
                                 ELSE process[t]]

Relaunch ==
  /\ host # "up" /\ sessions < MaxSessions
  /\ host' = "up" /\ sessions' = sessions + 1
  /\ UNCHANGED <<entry, process, shown, calls>>

-----------------------------------------------------------------------------
Init ==
  /\ entry = [t \in Tasks |-> "none"]
  /\ process = [t \in Tasks |-> "none"]
  /\ host = "up" /\ sessions = 1
  /\ shown = Blank /\ calls = {}

Handle(c) == HandleStart(c) \/ HandleStatus(c) \/ HandleCancel(c)

Next ==
  \/ \E c \in calls : Handle(c) \/ Deliver(c)
  \/ \E t \in Tasks : Press(t) \/ WorkerExits(t)
  \/ Poll \/ Stop \/ Navigate \/ Quit \/ Die \/ Relaunch

Spec == Init /\ [][Next]_vars

\* The timer ticks while a running task is on the card, the runtime runs every
\* command it was given and resolves its promise.
Tick == shown.state = "running" /\ Poll
Fairness ==
  /\ WF_vars(Tick)
  /\ \A t \in Tasks, kind \in Kinds :
       /\ WF_vars(\E c \in calls : c.task = t /\ c.kind = kind /\ Handle(c))
       /\ WF_vars(\E c \in calls : /\ c.task = t /\ c.kind = kind
                                   /\ c.answer # "running" /\ Deliver(c))
       /\ WF_vars(\E c \in calls : /\ c.task = t /\ c.kind = kind
                                   /\ c.answer = "running" /\ Deliver(c))

FairSpec == Spec /\ Fairness

-----------------------------------------------------------------------------
(* Properties.                                                             *)

\* Entries, processes, the card and the calls have their types; only one
\* session is ever open.
TypeOK ==
  /\ entry \in [Tasks -> States \cup {"none"}]
  /\ process \in [Tasks -> {"none", "alive", "ok", "bad", "killed",
                           "orphaned"}]
  /\ host \in {"up", "quit", "died"} /\ sessions \in 1 .. MaxSessions
  /\ \/ shown = Blank
     \/ shown \in [task : Tasks, state : States]
  /\ calls \subseteq Call

Supervised == {t \in Tasks : entry[t] = "running" /\ process[t] = "alive"}

OneAtATime == \A t, u \in Supervised : t = u

NoneEscapes ==
  \A t \in Tasks : process[t] = "alive" => host = "up" /\ entry[t] = "running"

\* However starts, exits and cancellations interleave, there is at most one
\* worker (processing-center.md: only one task at a time), and it is the running
\* child of an entry of an open session, unless its host died and could not
\* clean up (ensure_no_running_task, drop).
OneSupervised == OneAtATime /\ NoneEscapes

EntriesAreTrue ==
  \A t \in Tasks : /\ entry[t] = "completed" => process[t] = "ok"
                   /\ entry[t] \in Verdicts => process[t] # "alive"

CardIsTrue == shown.state \in Verdicts => entry[shown.task] = shown.state

\* A verdict is what happened (completed, the worker said ok; cancelled or
\* failed, it is not at work any more), and one on the card is the host's,
\* however late the answer that put it there (finish, refresh).
VerdictsAreTrue == EntriesAreTrue /\ CardIsTrue

\* Within a session a verdict is final.
VerdictsAreFinal ==
  [][\A t \in Tasks : entry[t] \in Verdicts /\ host' = "up" =>
                        entry'[t] = entry[t]]_vars

\* The end of a task on the card is noticed there, as long as the user stays.
Unnoticed(t) == /\ shown = [task |-> t, state |-> "running"]
                /\ process[t] # "alive"
EndsAreNoticed == \A t \in Tasks : Unnoticed(t) ~> ~Unnoticed(t)

(* What the documentation says, and the runs refute.                       *)

\* processing-center.md: the native invariant matches React's one-current-task
\* model, and nothing orphans the UI's reference to a child: with no command in
\* flight, a worker that runs is the one on the card.
RunningIsOnTheCard ==
  calls = {} => \A t \in Supervised : shown.task = t
=============================================================================
