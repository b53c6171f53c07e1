------------------------------ MODULE HostProofs ------------------------------
(***************************************************************************)
(* Theorems about the desktop host's components: the processing centre     *)
(* (ProcessingTasks), the accelerated loop of a worker (SegmentPrefetch)   *)
(* and the update channel (UpdateChannel), each for every value of its     *)
(* constants.                                                              *)
(***************************************************************************)
EXTENDS ProcessingTasks, SegmentPrefetch, UpdateChannel, FiniteSetTheorems, TLAPS

-----------------------------------------------------------------------------
\* The processing centre, for any number of tasks, commands in flight and
\* sessions.

Processes == {"none", "alive", "ok", "bad", "killed", "orphaned"}

\* The part of the types the argument needs.
Shapes ==
  /\ entry \in [Tasks -> States \cup {"none"}]
  /\ process \in [Tasks -> Processes]
  /\ calls \subseteq Call
  /\ shown.state \in States => shown.task \in Tasks
  /\ shown.task \in Tasks \cup {NoTask}

\* Nobody shows or asks anything without an open session.
Closed == host # "up" => calls = {} /\ shown = Blank

\* A verdict on its way to the card is the host's.
AnswersAreTrue ==
  \A c \in calls : c.answer \in Verdicts => entry[c.task] = c.answer

\* What the front end asks about, or shows, is known to this session.
Known ==
  /\ shown.task # NoTask => entry[shown.task] # "none"
  /\ \A c \in calls : c.kind # "start" \/ c.answer \in States =>
                       entry[c.task] # "none"

\* The inductive invariant: the properties, and why late answers do no harm.
HonestInv == Shapes /\ Closed /\ Known /\ NoneEscapes /\ EntriesAreTrue
               /\ AnswersAreTrue /\ CardIsTrue

USE DEF Verdicts, States

\* Looking at a child gives an entry a state it can have, leaves a verdict
\* alone, and turns a running entry into a verdict only when its child ended.
LEMMA RefreshedFacts ==
  ASSUME Shapes, EntriesAreTrue, NEW t \in Tasks
  PROVE  /\ Refreshed(t) \in States \cup {"none"}
         /\ entry[t] # "running" => Refreshed(t) = entry[t]
         /\ Refreshed(t) = "none" => entry[t] = "none"
         /\ process[t] = "alive" => Refreshed(t) = entry[t]
         /\ Refreshed(t) = "completed" => process[t] = "ok"
         /\ Refreshed(t) \in Verdicts => process[t] # "alive"
         /\ Refreshed(t) = "running" => process[t] = "alive"
  BY DEF Refreshed, Verdict, Shapes, EntriesAreTrue

\* An entry survives, and its verdict does not change.
Preserves ==
  \A t \in Tasks : /\ entry[t] \in Verdicts => entry'[t] = entry[t]
                   /\ entry[t] # "none" => entry'[t] # "none"

\* Answering a command keeps every call truthful, if the new answer is.
LEMMA Answering ==
  ASSUME Shapes, AnswersAreTrue, CardIsTrue, Known, Preserves,
         NEW c \in calls, NEW answer \in States \cup {"error"},
         Answer(c, answer), shown' = shown,
         answer \in Verdicts => entry'[c.task] = answer,
         answer \in States => entry'[c.task] # "none"
  PROVE  /\ calls' \subseteq Call
         /\ AnswersAreTrue'
         /\ CardIsTrue'
         /\ Known'
<1> DEFINE d == [c EXCEPT !.answer = answer]
<1>1. c \in Call
  BY DEF Shapes
<1>2. d \in Call /\ d.task = c.task /\ d.answer = answer /\ d.kind = c.kind
  BY <1>1 DEF Call
<1>3. calls' = (calls \ {c}) \cup {d}
  BY DEF Answer
<1>4. calls' \subseteq Call
  BY <1>2, <1>3 DEF Shapes
<1>5. ASSUME NEW e \in calls', e.answer \in Verdicts
      PROVE  entry'[e.task] = e.answer
  <2>1. CASE e = d
    BY <2>1, <1>2, <1>5
  <2>2. CASE e \in calls
    <3>1. e \in Call
      BY <2>2 DEF Shapes
    <3>2. entry[e.task] = e.answer /\ e.task \in Tasks
      BY <2>2, <3>1, <1>5 DEF AnswersAreTrue, Call
    <3>3. QED
      BY <3>2, <1>5 DEF Preserves
  <2>3. QED
    BY <2>1, <2>2, <1>3
<1>6. CardIsTrue'
  BY DEF CardIsTrue, Preserves, Shapes
<1>7. ASSUME NEW e \in calls', e.kind # "start" \/ e.answer \in States
      PROVE  entry'[e.task] # "none"
  <2>1. CASE e = d
    <3>1. CASE c.kind # "start"
      BY <2>1, <3>1, <1>1, <1>2 DEF Known, Preserves, Call
    <3>2. CASE answer \in States
      BY <2>1, <3>2, <1>2
    <3>3. QED
      BY <2>1, <3>1, <3>2, <1>2, <1>7
  <2>2. CASE e \in calls
    <3>1. e.task \in Tasks
      BY <2>2 DEF Shapes, Call
    <3>2. entry[e.task] # "none"
      BY <2>2, <1>7 DEF Known
    <3>3. QED
      BY <3>1, <3>2 DEF Preserves
  <2>3. QED
    BY <2>1, <2>2, <1>3
<1>8. shown'.task # NoTask => entry'[shown'.task] # "none"
  BY DEF Known, Preserves, Shapes
<1>9. QED
  BY <1>4, <1>5, <1>6, <1>7, <1>8 DEF AnswersAreTrue, Known

\* The host's handlers.
LEMMA StartHonest ==
  ASSUME HonestInv, NEW c \in calls, HandleStart(c) PROVE HonestInv'
<1> USE DEF HonestInv
<1> c \in Call /\ c.task \in Tasks
  BY DEF Shapes, Call
<1>1. CASE entry[c.task] = "none" /\ NoneRunning /\ Spawn(c)
  <2>1. \A t \in Tasks : Refreshed(t) \in States \cup {"none"}
    BY RefreshedFacts
  <2>2. /\ entry' \in [Tasks -> States \cup {"none"}]
        /\ process' \in [Tasks -> Processes]
    BY <1>1, <2>1 DEF Spawn, Shapes, Processes
  <2>3. Preserves
    BY <1>1, RefreshedFacts DEF Spawn, Preserves, Shapes
  <2>4. NoneEscapes'
    BY <1>1, RefreshedFacts DEF Spawn, NoneEscapes, Shapes, HandleStart
  <2>5. EntriesAreTrue'
    BY <1>1, RefreshedFacts DEF Spawn, EntriesAreTrue, Shapes
  <2>6. \E answer \in {"running", "error"} :
          Answer(c, answer) /\ (answer = "running" => entry'[c.task] = "running")
    BY <1>1 DEF Spawn
  <2>7. shown' = shown /\ host' = host /\ host = "up"
    BY DEF HandleStart
  <2>8. calls' \subseteq Call /\ AnswersAreTrue' /\ CardIsTrue' /\ Known'
    <3>1. PICK answer \in {"running", "error"} :
            Answer(c, answer) /\ (answer = "running" => entry'[c.task] = "running")
      BY <2>6
    <3>2. QED
      BY <2>3, <2>7, <3>1, Answering
  <2>9. QED
    BY <2>2, <2>4, <2>5, <2>7, <2>8 DEF Shapes, Closed
<1>2. CASE /\ ~(entry[c.task] = "none" /\ NoneRunning)
           /\ process' = process /\ Answer(c, "error")
           /\ \/ entry' = [t \in Tasks |-> Refreshed(t)]
              \/ entry' = entry
  <2>1. \A t \in Tasks : /\ entry'[t] \in States \cup {"none"}
                         /\ entry'[t] \in {entry[t], Refreshed(t)}
    BY <1>2, RefreshedFacts DEF Shapes
  <2>2. entry' \in [Tasks -> States \cup {"none"}]
    BY <1>2, <2>1 DEF Shapes
  <2>3. Preserves
    BY <1>2, <2>1, RefreshedFacts DEF Preserves
  <2>4. NoneEscapes'
    BY <1>2, <2>1, RefreshedFacts DEF NoneEscapes, HandleStart
  <2>5. EntriesAreTrue'
    BY <1>2, <2>1, RefreshedFacts DEF EntriesAreTrue
  <2>7. shown' = shown /\ host' = host /\ host = "up"
    BY DEF HandleStart
  <2>8. calls' \subseteq Call /\ AnswersAreTrue' /\ CardIsTrue' /\ Known'
    BY <1>2, <2>3, <2>7, Answering
  <2>9. QED
    BY <1>2, <2>2, <2>4, <2>5, <2>7, <2>8 DEF Shapes, Closed
<1>3. QED
  BY <1>1, <1>2 DEF HandleStart

LEMMA LookHonest ==
  ASSUME HonestInv, NEW c \in calls, RefreshOne(c.task), process' = process,
         Answer(c, Refreshed(c.task)), Refreshed(c.task) # "none",
         host = "up", host' = host, shown' = shown
  PROVE  HonestInv'
<1> USE DEF HonestInv
<1> c \in Call /\ c.task \in Tasks
  BY DEF Shapes, Call
<1>1. /\ entry' \in [Tasks -> States \cup {"none"}]
      /\ \A t \in Tasks : entry'[t] = IF t = c.task THEN Refreshed(t)
                                                    ELSE entry[t]
  BY RefreshedFacts DEF RefreshOne, Shapes
<1>2. Preserves
  BY <1>1, RefreshedFacts DEF Preserves
<1>3. NoneEscapes'
  BY <1>1, RefreshedFacts DEF NoneEscapes
<1>4. EntriesAreTrue'
  BY <1>1, RefreshedFacts DEF EntriesAreTrue
<1>5. Refreshed(c.task) \in States
  BY RefreshedFacts
<1>6. calls' \subseteq Call /\ AnswersAreTrue' /\ CardIsTrue' /\ Known'
  BY <1>1, <1>2, <1>5, Answering
<1>7. QED
  BY <1>1, <1>3, <1>4, <1>6 DEF Shapes, Closed

LEMMA StatusHonest ==
  ASSUME HonestInv, NEW c \in calls, HandleStatus(c) PROVE HonestInv'
<1>1. c \in Call /\ c.task \in Tasks /\ entry[c.task] # "none"
  BY DEF HonestInv, Shapes, Call, HandleStatus, Pending, Known
<1>2. Refreshed(c.task) # "none"
  BY <1>1 DEF Refreshed, Verdict
<1>3. QED
  BY <1>2, LookHonest DEF HandleStatus

LEMMA CancelHonest ==
  ASSUME HonestInv, NEW c \in calls, HandleCancel(c) PROVE HonestInv'
<1> USE DEF HonestInv
<1>1. c \in Call /\ c.task \in Tasks /\ entry[c.task] # "none"
  BY DEF Shapes, Call, HandleCancel, Pending, Known
<1>2. host = "up" /\ host' = host /\ shown' = shown
  BY DEF HandleCancel
<1>3. CASE /\ RefreshOne(c.task) /\ Answer(c, Refreshed(c.task))
           /\ process' = process
  <2>1. Refreshed(c.task) # "none"
    BY <1>1 DEF Refreshed, Verdict
  <2>2. QED
    BY <1>2, <1>3, <2>1, LookHonest
<1>4. CASE /\ Refreshed(c.task) = "running"
           /\ entry' = [entry EXCEPT ![c.task] = "cancelled"]
           /\ \E end \in {"killed", "ok", "bad"} :
                process' = [process EXCEPT ![c.task] = end]
           /\ Answer(c, "cancelled")
  <2>1. entry[c.task] = "running"
    BY <1>1, <1>4 DEF Refreshed, Verdict
  <2>2. PICK end \in {"killed", "ok", "bad"} :
          process' = [process EXCEPT ![c.task] = end]
    BY <1>4
  <2>3. /\ entry' \in [Tasks -> States \cup {"none"}]
        /\ process' \in [Tasks -> Processes]
    BY <1>1, <1>4, <2>2 DEF Shapes, Processes
  <2>4. Preserves
    BY <1>1, <1>4, <2>1 DEF Preserves, Shapes
  <2>5. NoneEscapes'
    BY <1>1, <1>2, <1>4, <2>2 DEF NoneEscapes, Shapes
  <2>6. EntriesAreTrue'
    BY <1>1, <1>4, <2>1, <2>2 DEF EntriesAreTrue, Shapes
  <2>7. entry'[c.task] = "cancelled"
    BY <1>1, <1>4 DEF Shapes
  <2>8. calls' \subseteq Call /\ AnswersAreTrue' /\ CardIsTrue' /\ Known'
    BY <1>2, <1>4, <2>4, <2>7, Answering
  <2>9. QED
    BY <1>2, <2>3, <2>5, <2>6, <2>8 DEF Shapes, Closed
<1>5. CASE Answer(c, "error") /\ UNCHANGED <<entry, process>>
  <2>1. Preserves
    BY <1>5 DEF Preserves
  <2>2. calls' \subseteq Call /\ AnswersAreTrue' /\ CardIsTrue' /\ Known'
    BY <1>2, <1>5, <2>1, Answering
  <2>3. QED
    BY <1>2, <1>5, <2>2 DEF Shapes, Closed, NoneEscapes, EntriesAreTrue
<1>6. QED
  BY <1>3, <1>4, <1>5 DEF HandleCancel

\* The worker and the front end.
LEMMA WorkerHonest ==
  ASSUME HonestInv, NEW t \in Tasks, WorkerExits(t) PROVE HonestInv'
<1> USE DEF HonestInv
<1>1. PICK end \in {"ok", "bad"} : process' = [process EXCEPT ![t] = end]
  BY DEF WorkerExits
<1>2. process' \in [Tasks -> Processes]
  BY <1>1 DEF Shapes, Processes
<1>3. UNCHANGED <<entry, host, shown, calls>> /\ process[t] \in {"alive", "orphaned"}
  BY DEF WorkerExits
<1>4. NoneEscapes' /\ EntriesAreTrue'
  BY <1>1, <1>3 DEF NoneEscapes, EntriesAreTrue, Shapes
<1>5. QED
  BY <1>2, <1>3, <1>4 DEF Shapes, Closed, Known, AnswersAreTrue, CardIsTrue

LEMMA SendHonest ==
  ASSUME HonestInv, NEW kind \in Kinds, NEW t \in Tasks, Send(kind, t),
         kind = "start" \/ entry[t] # "none"
  PROVE  HonestInv'
<1> USE DEF HonestInv
<1> DEFINE d == [kind |-> kind, task |-> t, heard |-> TRUE, answer |-> "pending"]
<1>1. d \in Call /\ d.answer = "pending" /\ d.kind = kind /\ d.task = t
  BY DEF Call
<1> HIDE DEF d
<1>2. calls' = calls \cup {d} /\ host = "up"
  BY DEF Send, d
<1>3. UNCHANGED <<entry, process, host, shown>>
  BY DEF Send
<1>4. calls' \subseteq Call
  BY <1>1, <1>2 DEF Shapes
<1>5. AnswersAreTrue'
  BY <1>1, <1>2, <1>3 DEF AnswersAreTrue
<1>6. Known'
  BY <1>1, <1>2, <1>3 DEF Known
<1>7. QED
  BY <1>2, <1>3, <1>4, <1>5, <1>6 DEF Shapes, Closed, NoneEscapes,
                                      EntriesAreTrue, CardIsTrue

LEMMA DeliverHonest ==
  ASSUME HonestInv, NEW c \in calls, Deliver(c) PROVE HonestInv'
<1> USE DEF HonestInv
<1>1. c \in Call /\ c.task \in Tasks
  BY DEF Shapes, Call
<1>2. UNCHANGED <<entry, process, host>> /\ calls' = calls \ {c} /\ host = "up"
  BY DEF Deliver, Closed
<1>3. \/ shown' = shown
      \/ /\ shown' = [task |-> c.task, state |-> c.answer]
         /\ c.answer \in States
  BY <1>1 DEF Deliver, Call
<1>4. /\ shown'.state \in States => shown'.task \in Tasks
      /\ shown'.task \in Tasks \cup {NoTask}
      /\ shown'.state \in Verdicts => entry[shown'.task] = shown'.state
      /\ shown'.task # NoTask => entry[shown'.task] # "none"
  BY <1>1, <1>3 DEF Shapes, CardIsTrue, AnswersAreTrue, Known
<1>5. QED
  BY <1>2, <1>4 DEF Shapes, Closed, NoneEscapes, EntriesAreTrue, CardIsTrue,
                    AnswersAreTrue, Known

LEMMA NavigateHonest ==
  ASSUME HonestInv, Navigate PROVE HonestInv'
<1> USE DEF HonestInv
<1>1. UNCHANGED <<entry, process, host>> /\ shown' = Blank /\ host = "up"
  BY DEF Navigate
<1>2. ASSUME NEW e \in calls'
      PROVE  /\ e \in Call
             /\ e.answer \in Verdicts => entry[e.task] = e.answer
             /\ e.kind # "start" \/ e.answer \in States =>
                  entry[e.task] # "none"
  <2>1. PICK c \in calls : e = [c EXCEPT !.heard = FALSE]
    BY <1>2 DEF Navigate, Unheard
  <2>2. c \in Call
    BY DEF Shapes
  <2>3. /\ e \in Call /\ e.answer = c.answer /\ e.task = c.task
        /\ e.kind = c.kind
    BY <2>1, <2>2 DEF Call
  <2>4. QED
    BY <2>3 DEF AnswersAreTrue, Known
<1>3. QED
  BY <1>1, <1>2 DEF Shapes, Closed, NoneEscapes, EntriesAreTrue, CardIsTrue,
                    AnswersAreTrue, Known, Blank

\* The host's end and its next beginning.
LEMMA HostHonest ==
  ASSUME HonestInv, Quit \/ Die \/ Relaunch PROVE HonestInv'
<1> USE DEF HonestInv
<1>1. CASE Relaunch
  BY <1>1 DEF Relaunch, Shapes, Closed, NoneEscapes, EntriesAreTrue,
              CardIsTrue, AnswersAreTrue, Known
<1>2. CASE Quit \/ Die
  <2>1. /\ entry' = [t \in Tasks |-> "none"] /\ shown' = Blank /\ calls' = {}
        /\ host = "up"
    BY <1>2 DEF Quit, Die, SessionEnds
  <2>2. process' \in [Tasks -> Processes]
    BY <1>2 DEF Quit, Die, KillChildren, Shapes, Processes
  <2>3. \A t \in Tasks : process'[t] # "alive"
    BY <1>2 DEF Quit, Die, KillChildren, Shapes, NoneEscapes
  <2>4. QED
    BY <2>1, <2>2, <2>3 DEF Shapes, Closed, NoneEscapes, EntriesAreTrue,
                            CardIsTrue, AnswersAreTrue, Known, Blank
<1>3. QED
  BY <1>1, <1>2

LEMMA HonestStep == HonestInv /\ [Next]_vars => HonestInv'
<1> SUFFICES ASSUME HonestInv, [Next]_vars PROVE HonestInv'
  OBVIOUS
<1>1. ASSUME NEW c \in calls, Handle(c) \/ Deliver(c) PROVE HonestInv'
  BY <1>1, StartHonest, StatusHonest, CancelHonest, DeliverHonest DEF Handle
<1>2. ASSUME NEW t \in Tasks, Press(t) \/ WorkerExits(t) PROVE HonestInv'
  BY <1>2, WorkerHonest, SendHonest DEF Press, Kinds
<1>3. CASE Poll \/ Stop
  <2>1. shown.task \in Tasks /\ entry[shown.task] # "none"
    BY <1>3, TasksAssumption DEF Poll, Stop, HonestInv, Shapes, Known
  <2>2. QED
    BY <1>3, <2>1, SendHonest DEF Poll, Stop, Kinds
<1>4. CASE Navigate \/ Quit \/ Die \/ Relaunch
  BY <1>4, NavigateHonest, HostHonest
<1>5. CASE UNCHANGED vars
  BY <1>5 DEF vars, HonestInv, Shapes, Closed, NoneEscapes, EntriesAreTrue,
              CardIsTrue, AnswersAreTrue, Known
<1>6. QED
  BY <1>1, <1>2, <1>3, <1>4, <1>5 DEF Next

LEMMA HonestInit == Init => HonestInv
  BY DEF Init, HonestInv, Shapes, Processes, Closed, Blank, NoneEscapes,
         EntriesAreTrue, CardIsTrue, AnswersAreTrue, Known

\* Every verdict of the host tells what became of the worker, and a verdict on
\* the task card is the host's, however late the answers come and whatever was
\* started, stopped or closed meanwhile.
THEOREM SupervisionHonest == Spec => []VerdictsAreTrue
<1>1. HonestInv => VerdictsAreTrue
  BY DEF HonestInv, VerdictsAreTrue
<1>2. QED
  BY <1>1, HonestInit, HonestStep, PTL DEF Spec

\* Only a start adds to the supervised workers, and only when there are none.
LEMMA OneStep == HonestInv /\ OneAtATime /\ [Next]_vars => OneAtATime'
<1> SUFFICES ASSUME HonestInv, OneAtATime, [Next]_vars PROVE OneAtATime'
  OBVIOUS
<1> USE DEF HonestInv
<1>1. ASSUME NEW c \in calls, HandleStart(c) PROVE OneAtATime'
  <2>1. c.task \in Tasks
    BY DEF Shapes, Call
  <2>2. CASE Spawn(c) /\ NoneRunning
    <3>1. \A t \in Tasks : process[t] # "alive"
      BY <2>2, RefreshedFacts DEF NoneRunning, NoneEscapes
    <3>2. \A t \in Tasks : process'[t] = "alive" => t = c.task
      BY <2>1, <2>2, <3>1 DEF Spawn, Shapes
    <3>3. QED
      BY <3>2 DEF OneAtATime, Supervised
  <2>3. CASE UNCHANGED process
    BY <2>3 DEF OneAtATime, Supervised, NoneEscapes
  <2>4. QED
    BY <1>1, <2>2, <2>3 DEF HandleStart
<1>2. ASSUME NEW c \in calls, HandleStatus(c) \/ HandleCancel(c) \/ Deliver(c)
      PROVE  OneAtATime'
  <2>1. c.task \in Tasks
    BY DEF Shapes, Call
  <2>2. \A t \in Tasks : process'[t] = "alive" => process[t] = "alive"
    BY <1>2, <2>1 DEF HandleStatus, HandleCancel, Deliver, Shapes
  <2>3. QED
    BY <2>2 DEF OneAtATime, Supervised, NoneEscapes
<1>3. CASE \/ \E t \in Tasks : Press(t) \/ WorkerExits(t)
           \/ Poll \/ Stop \/ Navigate \/ Quit \/ Die \/ Relaunch
           \/ UNCHANGED vars
  <2>1. \A t \in Tasks : process'[t] = "alive" => process[t] = "alive"
    BY <1>3 DEF Press, Send, WorkerExits, Poll, Stop, Navigate, Quit, Die,
                Relaunch, KillChildren, Shapes, vars
  <2>2. QED
    BY <2>1 DEF OneAtATime, Supervised, NoneEscapes
<1>4. QED
  BY <1>1, <1>2, <1>3 DEF Next, Handle

\* A session never supervises two workers, however many starts race, and no
\* worker outlives its session unless the host itself was killed.
THEOREM OneTask == Spec => []OneSupervised
<1>1. Init => OneAtATime
  BY DEF Init, OneAtATime, Supervised
<1>2. HonestInv /\ OneAtATime => OneSupervised
  BY DEF HonestInv, OneSupervised
<1>3. QED
  BY <1>1, <1>2, HonestInit, HonestStep, OneStep, PTL DEF Spec

\* An entry that has its verdict keeps it through every command, answer and
\* exit of a worker, as long as the session lasts.
THEOREM Finality == Spec => VerdictsAreFinal
<1>1. HonestInv /\ [Next]_vars =>
        [\A t \in Tasks : entry[t] \in Verdicts /\ host' = "up" =>
                            entry'[t] = entry[t]]_vars
  <2> SUFFICES ASSUME HonestInv, Next, NEW t \in Tasks,
                      entry[t] \in Verdicts, host' = "up"
               PROVE  entry'[t] = entry[t]
    OBVIOUS
  <2> USE DEF HonestInv
  <2>1. Refreshed(t) = entry[t]
    BY RefreshedFacts
  <2>2. \A c \in calls : c.task \in Tasks
    BY DEF Shapes, Call
  <2>3. ASSUME NEW c \in calls, HandleStart(c) PROVE entry'[t] = entry[t]
    BY <2>1, <2>2, <2>3 DEF HandleStart, Spawn, Shapes
  <2>4. ASSUME NEW c \in calls, HandleStatus(c) PROVE entry'[t] = entry[t]
    BY <2>1, <2>2, <2>4 DEF HandleStatus, RefreshOne, Shapes
  <2>5. ASSUME NEW c \in calls, HandleCancel(c) PROVE entry'[t] = entry[t]
    BY <2>1, <2>2, <2>5 DEF HandleCancel, RefreshOne, Shapes
  <2>6. ASSUME NEW c \in calls, Deliver(c) PROVE entry'[t] = entry[t]
    BY <2>6 DEF Deliver
  <2>7. CASE \/ \E u \in Tasks : Press(u) \/ WorkerExits(u)
             \/ Poll \/ Stop \/ Navigate \/ Relaunch
    BY <2>7 DEF Press, Send, WorkerExits, Poll, Stop, Navigate, Relaunch
  <2>8. CASE Quit \/ Die
    BY <2>8 DEF Quit, Die
  <2> QED
    BY <2>3, <2>4, <2>5, <2>6, <2>7, <2>8 DEF Next, Handle
<1> QED
  BY <1>1, HonestInit, HonestStep, PTL DEF Spec, VerdictsAreFinal

HIDE DEF Verdicts, States

-----------------------------------------------------------------------------
\* The accelerated loop, for any number of windows.

Files == {"absent", "stale", "partial", "whole"}

LoopShape ==
  /\ depth \in {0, 1} /\ cur \in Nat /\ next \in Nat
  /\ future \in Future \cup {NoFuture} 
  /\ file \in [Windows -> Files] /\ spoiled \subseteq Windows
  /\ saved \in Seq(Nat) /\ Len(saved) <= N
  /\ \A i \in 1 .. Len(saved) : saved[i] = i

\* Where the two threads are: which window the caller has, which the pool.
AtAwait ==
  pc = "await" =>
    /\ ~raised
    /\ depth = 1 => /\ future # NoFuture /\ future.window = Len(saved) + 1
                    /\ next = Len(saved) + 2
    /\ depth = 0 => /\ future = NoFuture
                    /\ next = Len(saved) + 1 /\ next <= N

AtHand ==
  pc = "hand" =>
    /\ ~raised /\ depth = 1
    /\ Is("done") /\ future.window = cur
    /\ cur = Len(saved) + 1 /\ next = cur + 1 /\ cur <= N

AtWork ==
  pc \in {"transcribe", "save"} =>
    /\ ~raised /\ cur = Len(saved) + 1 /\ cur <= N
    /\ future # NoFuture => depth = 1 /\ cur < N /\ future.window = cur + 1
    /\ depth = 1 => /\ next = cur + 2
                    /\ future = NoFuture => cur = N
    /\ depth = 0 => next = cur + 1

AtEnd == pc \in {"leave", "gone"} /\ ~raised => Len(saved) = N

\* The files that are there: the one in hand, and the one the pool is writing.
Heard ==
  /\ pc \in {"hand", "transcribe"} => file[cur] = "whole"
  /\ future # NoFuture /\ future.state = "done" =>
       file[future.window] = "whole"

Accounted ==
  pc # "dead" =>
    \A w \in Windows \ spoiled :
      file[w] \in {"partial", "whole"} =>
        \/ w = cur /\ pc \in {"hand", "transcribe"}
        \/ future # NoFuture /\ w = future.window
           /\ future.state \in {"running", "done"}

\* What a broken-off __exit__ lets go, the pool may still write.
Released == pc = "gone" /\ future # NoFuture => future.window \in spoiled

LoopInv == /\ LoopShape /\ AtAwait /\ AtHand /\ AtWork /\ AtEnd
       /\ Heard /\ Accounted /\ Released

USE LoopAssumption, NoFutureAssumption

\* The loop begins.
LEMMA LoopInvInit == LoopInit => LoopInv
  BY DEF LoopInit, LoopInv, LoopShape, Files, AtAwait, AtHand, AtWork,
     AtEnd, Heard, Accounted, Released, Windows, Future, Is

\* The pool's thread.
LEMMA PoolStep ==
  ASSUME LoopInv, Pool \/ PoolFails
  PROVE  LoopInv'
<1> USE DEF LoopInv, LoopShape, AtAwait, AtHand, AtWork, AtEnd, Heard, Accounted,
            Released, Is, Becomes, FileIs, Future, Windows, Files
<1>1. CASE PoolOpens
  BY <1>1 DEF PoolOpens
<1>2. CASE PoolRefuses
  BY <1>2 DEF PoolRefuses
<1>3. CASE PoolFinishes
  BY <1>3 DEF PoolFinishes
<1>4. CASE PoolFails
  <2>1. LoopShape'
    BY <1>4 DEF PoolFails
  <2>2. AtAwait' /\ AtHand' /\ AtWork' /\ AtEnd'
    BY <1>4 DEF PoolFails
  <2>3. Heard' /\ Released'
    BY <1>4 DEF PoolFails
  <2>4. Accounted'
    BY <1>4 DEF PoolFails
  <2> QED
    BY <2>1, <2>2, <2>3, <2>4
<1> QED
  BY <1>1, <1>2, <1>3, <1>4 DEF Pool

\* The executor asks for a window and gets it.
LEMMA CallerStep ==
  ASSUME LoopInv, Await \/ AwaitFails \/ Inline \/ Hand
  PROVE  LoopInv'
<1> USE DEF LoopInv, LoopShape, AtAwait, AtHand, AtWork, AtEnd, Heard, Accounted,
            Released, Is, FileIs, Future, Windows, Files, Leaving
<1>1. CASE Await
  BY <1>1 DEF Await
<1>2. CASE AwaitFails
  BY <1>2 DEF AwaitFails
<1>3. CASE Inline
  <2>0. depth = 0 /\ next \in Windows
    BY <1>3 DEF Inline
  <2>1. LoopShape'
    <3>1. spoiled' \subseteq Windows /\ file' \in [Windows -> Files]
      BY <2>0, <1>3 DEF Inline, CutOff
    <3> QED
      BY <3>1, <1>3 DEF Inline
  <2>2. AtAwait' /\ AtHand' /\ AtWork' /\ AtEnd'
    BY <1>3 DEF Inline, CutOff
  <2>3. Heard' /\ Released'
    BY <1>3 DEF Inline, CutOff
  <2>4. Accounted'
    BY <1>3 DEF Inline, CutOff
  <2> QED
    BY <2>1, <2>2, <2>3, <2>4
<1>4. CASE Hand
  BY <1>4 DEF Hand, Following
<1> QED
  BY <1>1, <1>2, <1>3, <1>4

\* It transcribes and saves the window.
LEMMA WorkStep ==
  ASSUME LoopInv, Transcribe \/ TranscribeFails \/ Save \/ SaveFails
  PROVE  LoopInv'
<1> USE DEF LoopInv, LoopShape, AtAwait, AtHand, AtWork, AtEnd, Heard, Accounted,
            Released, Is, FileIs, Future, Windows, Files, Leaving
<1>1. CASE Transcribe
  <2>0. cur \in Windows
    BY <1>1 DEF Transcribe
  <2>1. LoopShape'
    <3>1. spoiled' \subseteq Windows /\ file' \in [Windows -> Files]
      BY <2>0, <1>1 DEF Transcribe, Cleanup
    <3> QED
      BY <3>1, <1>1 DEF Transcribe
  <2>2. AtAwait' /\ AtHand' /\ AtWork' /\ AtEnd'
    BY <1>1 DEF Transcribe, Cleanup
  <2>3. Heard' /\ Released'
    BY <1>1 DEF Transcribe, Cleanup
  <2>4. Accounted'
    BY <1>1 DEF Transcribe, Cleanup
  <2> QED
    BY <2>1, <2>2, <2>3, <2>4
<1>2. CASE TranscribeFails
  <2>0. cur \in Windows
    BY <1>2 DEF TranscribeFails
  <2>1. LoopShape'
    <3>1. spoiled' \subseteq Windows /\ file' \in [Windows -> Files]
      BY <2>0, <1>2 DEF TranscribeFails
    <3> QED
      BY <3>1, <1>2 DEF TranscribeFails
  <2>2. AtAwait' /\ AtHand' /\ AtWork' /\ AtEnd'
    BY <1>2 DEF TranscribeFails
  <2>3. Heard' /\ Released'
    BY <1>2 DEF TranscribeFails
  <2>4. Accounted'
    BY <1>2 DEF TranscribeFails
  <2> QED
    BY <2>1, <2>2, <2>3, <2>4
<1>3. CASE Save
  <2>1. /\ cur = Len(saved) + 1 /\ cur \in Windows
        /\ saved' = Append(saved, cur) /\ cur' = 0 /\ depth' = depth
        /\ next' = next /\ future' = future
        /\ file' = file /\ spoiled' = spoiled /\ pc = "save"
    BY <1>3 DEF Save
  <2>2. /\ saved' \in Seq(Nat) /\ Len(saved') = Len(saved) + 1
        /\ \A i \in 1 .. Len(saved') : saved'[i] = i
    BY <2>1
  <2>3. LoopShape'
    BY <2>1, <2>2
  <2>4. CASE Leaving
    BY <2>1, <2>2, <2>3, <2>4
  <2>5. CASE /\ pc' = IF future # NoFuture \/ (depth = 0 /\ next <= N)
                        THEN "await" ELSE "leave"
             /\ raised' = raised
    BY <2>1, <2>2, <2>3, <2>5
  <2> QED
    BY <1>3, <2>4, <2>5 DEF Save
<1>4. CASE SaveFails
  BY <1>4 DEF SaveFails
<1> QED
  BY <1>1, <1>2, <1>3, <1>4

\* It leaves the loop, one way or another.
LEMMA EndStep ==
  ASSUME LoopInv, Leave \/ Interrupt \/ Crash \/ UNCHANGED loopVars
  PROVE  LoopInv'
<1> USE DEF LoopInv, LoopShape, AtAwait, AtHand, AtWork, AtEnd, Heard, Accounted,
            Released, Is, FileIs, Future, Windows, Files, Leaving
<1>1. CASE Leave
  <2>1. LoopShape'
    BY <1>1 DEF Leave, Cleanup
  <2>2. AtAwait' /\ AtHand' /\ AtWork' /\ AtEnd'
    BY <1>1 DEF Leave, Cleanup
  <2>3. Heard' /\ Released'
    BY <1>1 DEF Leave, Cleanup
  <2>4. Accounted'
    BY <1>1 DEF Leave, Cleanup
  <2> QED
    BY <2>1, <2>2, <2>3, <2>4
<1>2. CASE Interrupt
  <2>0. /\ pc = "await" /\ depth = 0 => next \in Windows
        /\ pc = "hand" => cur \in Windows
        /\ future # NoFuture => future.window \in Windows
    OBVIOUS
  <2>1. LoopShape'
    <3>1. spoiled' \subseteq Windows /\ file' \in [Windows -> Files]
      BY <2>0, <1>2 DEF Interrupt, CutOff
    <3> QED
      BY <3>1, <1>2 DEF Interrupt, Following
  <2>2. AtAwait' /\ AtHand' /\ AtWork' /\ AtEnd'
    BY <1>2 DEF Interrupt, CutOff, Following
  <2>3. Heard' /\ Released'
    BY <1>2 DEF Interrupt, CutOff, Following
  <2>4. Accounted'
    BY <1>2 DEF Interrupt, CutOff, Following
  <2> QED
    BY <2>1, <2>2, <2>3, <2>4
<1>3. CASE Crash
  BY <1>3 DEF Crash, Over
<1>4. CASE UNCHANGED loopVars
  BY <1>4 DEF loopVars
<1> QED
  BY <1>1, <1>2, <1>3, <1>4

\* The invariant holds in every state of the loop.
THEOREM LoopInvariance == LoopSpec => []LoopInv
<1>1. LoopInv /\ [LoopNext]_loopVars => LoopInv'
  BY PoolStep, CallerStep, WorkStep, EndStep DEF LoopNext, Pool, Caller, Rest
<1> QED
  BY LoopInvInit, <1>1, PTL DEF LoopSpec

\* InPlanOrder for any number of windows: the executor saves window after
\* window, each heard from the whole file that the prefetcher made of it.
THEOREM PlanOrder == LoopSpec => []InPlanOrder
<1>1. LoopInv => InPlanOrder
  BY DEF LoopInv, LoopShape, AtEnd, AtWork, Heard, InPlanOrder
<1> QED
  BY LoopInvariance, <1>1, PTL

\* NothingLeft for any number of windows: whatever is raised, __exit__ and the
\* loop between them remove every segment file, but one whose unlink failed and
\* one that a Ctrl-C left outside every handler.
THEOREM NoResidue == LoopSpec => []NothingLeft
<1>1. LoopInv => NothingLeft
  BY DEF LoopInv, Accounted, Released, NothingLeft, Written
<1> QED
  BY LoopInvariance, <1>1, PTL

-----------------------------------------------------------------------------
\* At most one file lies beside the one in hand; a worker that was killed
\* leaves what there was.
Narrow ==
  /\ pc = "dead" => future = NoFuture
  /\ \A v, w \in Written \ ({cur} \cup spoiled) : v = w

\* As long as the worker lives, such a file is the pending future's.
LEMMA NarrowAlive == LoopInv /\ pc # "dead" => Narrow
  BY DEF LoopInv, Accounted, Narrow, Written

\* Nothing but the crash leads to the end of a killed worker, and nothing
\* happens after it.
LEMMA NarrowStep ==
  ASSUME LoopInv, LoopInv', Narrow, [LoopNext]_loopVars
  PROVE  Narrow'
<1>1. CASE pc' # "dead"
  <2>1. (LoopInv /\ pc # "dead" => Narrow)'
    BY NarrowAlive, PTL
  <2> QED
    BY <1>1, <2>1
<1>2. CASE Crash
  BY <1>2 DEF Crash, Narrow, Written
<1>3. CASE UNCHANGED loopVars
  BY <1>3 DEF loopVars, Narrow, Written
<1>4. CASE pc = "dead" /\ LoopNext /\ ~Crash
  <2>1. UNCHANGED loopVars
    BY <1>4 DEF Narrow, Is, LoopNext, Pool, PoolOpens, PoolRefuses, PoolFinishes,
      PoolFails, Caller, Await, AwaitFails, Inline, Hand, Transcribe, Save,
      Leave, TranscribeFails, SaveFails, Interrupt, Rest
  <2> QED
    BY <2>1, <1>3
<1>5. CASE pc # "dead" /\ LoopNext /\ ~Crash
  <2>1. pc' # "dead"
    BY <1>5 DEF LoopNext, Pool, PoolOpens, PoolRefuses, PoolFinishes,
      PoolFails, Caller, Await, AwaitFails, Inline, Hand, Transcribe, Save,
      Leave, TranscribeFails, SaveFails, Interrupt, Rest, Leaving, loopVars
  <2> QED
    BY <2>1, <1>1
<1> QED
  BY <1>2, <1>3, <1>4, <1>5

\* OneAhead for any number of windows: whatever the pool is ahead with, it is
\* one segment, and a killed worker leaves no more than that.
THEOREM AtMostOneAhead == LoopSpec => []OneAhead
<1>1. LoopInit => Narrow
  BY DEF LoopInit, Narrow, Written
<1>2. LoopInv /\ LoopInv' /\ Narrow /\ [LoopNext]_loopVars => Narrow'
  BY NarrowStep
<1>3. Narrow => OneAhead
  <2> DEFINE Ahead == Written \ ({cur} \cup spoiled)
  <2> SUFFICES ASSUME Narrow PROVE Cardinality(Ahead) <= 1
    BY DEF OneAhead
  <2>1. CASE Ahead = {}
    BY <2>1, FS_EmptySet
  <2>2. ASSUME NEW w \in Ahead
        PROVE  Cardinality(Ahead) <= 1
    <3>1. Ahead = {w}
      BY <2>2 DEF Narrow
    <3> QED
      BY <3>1, FS_Singleton
  <2> QED
    BY <2>1, <2>2
<1> QED
  BY LoopInvariance, <1>1, <1>2, <1>3, PTL DEF LoopSpec

-----------------------------------------------------------------------------
\* The update channel, for any signed documents.

TrustFile == [highest : Nat, status : Status, doc : Docs \cup {None}]

TrustShape ==
  /\ trust \in TrustFile /\ seen \in TrustFile
  /\ trust.doc # None => trust.highest = trust.doc.seq
  /\ offer \in Docs \cup {None} /\ ticket \in Docs \cup {None}
  /\ believed \subseteq Docs

\* What the running process read is what is on disk.
Current == step # "idle" => seen = trust

\* The document it goes on with may replace the one that is trusted.
Admitted ==
  /\ step = "trust" => offer \in Docs /\ offer.seq >= trust.highest
  /\ step = "trust" /\ offer.seq = trust.highest /\ trust.doc # None =>
       trust.doc = offer
  /\ step = "staged" => trust.doc # None

\* The trusted document is the last of all that ever were.
Latest ==
  /\ trust.doc # None => trust.doc \in believed
  /\ believed # {} => trust.doc # None
  /\ \A d \in believed : d.seq <= trust.highest
  /\ \A d \in believed : d.seq = trust.highest => d = trust.doc

TrustInv == TrustShape /\ Current /\ Admitted /\ Latest /\ OneContentPerSequence

USE DocsAssumption DEF Trust

\* The first state.
LEMMA TrustInvInit == ChannelInit => TrustInv
  BY DEF ChannelInit, TrustInv, TrustShape, TrustFile, Status, Current, Admitted, Latest,
         OneContentPerSequence

\* Saving what was checked: the one step that changes what is trusted.
LEMMA InvSaveChecked ==
  TrustInv /\ SaveChecked => TrustInv' /\ trust'.highest >= trust.highest
<1> SUFFICES ASSUME TrustInv, SaveChecked
             PROVE  TrustInv' /\ trust'.highest >= trust.highest
  OBVIOUS
<1>1. offer \in Docs /\ offer.seq \in Nat /\ offer.seq >= trust.highest
  BY DEF TrustInv, Admitted, SaveChecked
<1>2. /\ trust' \in TrustFile /\ trust'.highest = offer.seq /\ trust'.doc = offer
      /\ believed' = believed \cup {offer} /\ step' = "idle"
      /\ seen' = Trust(0, "never_checked", None) /\ offer' = None
      /\ ticket' = ticket
  BY <1>1 DEF SaveChecked, Done, TrustFile, Status
<1>3. TrustShape'
  BY <1>1, <1>2 DEF TrustInv, TrustShape, TrustFile, Status
<1>4. Current' /\ Admitted'
  BY <1>2 DEF Current, Admitted
<1>5. \A d \in believed : /\ d \in Docs /\ d.seq \in Nat /\ d.seq <= offer.seq
                          /\ d.seq = offer.seq => d = offer
  BY <1>1 DEF TrustInv, TrustShape, TrustFile, Latest, Admitted, SaveChecked
<1>6. Latest'
  BY <1>1, <1>2, <1>5 DEF Latest
<1>7. OneContentPerSequence'
  BY <1>2, <1>5 DEF TrustInv, OneContentPerSequence
<1> QED
  BY <1>1, <1>2, <1>3, <1>4, <1>6, <1>7 DEF TrustInv

\* Every other step of a bridge process, and every step beside it.
LEMMA InvOther ==
  ASSUME TrustInv, [ChannelNext]_channelVars, ~SaveChecked
  PROVE  TrustInv' /\ trust'.highest >= trust.highest
<1> USE DEF TrustInv, TrustShape, TrustFile, Current, Admitted, Latest, Done,
            OneContentPerSequence
<1>1. ASSUME NEW method \in {"check", "stage", "activate"}, UpdateCall(method)
      PROVE  TrustInv' /\ trust'.highest >= trust.highest
  BY <1>1 DEF UpdateCall
<1>2. ASSUME NEW d \in Docs, Fetch(d)
      PROVE  TrustInv' /\ trust'.highest >= trust.highest
  BY <1>2 DEF Fetch, Verifies, Fresh
<1>3. ASSUME Download PROVE TrustInv' /\ trust'.highest >= trust.highest
  BY <1>3 DEF Download, Usable
<1>4. ASSUME SaveStaged PROVE TrustInv' /\ trust'.highest >= trust.highest
  BY <1>4 DEF SaveStaged, Status
<1>5. ASSUME Grant PROVE TrustInv' /\ trust'.highest >= trust.highest
  BY <1>5 DEF Grant, Usable, Status
<1>6. ASSUME GiveUp PROVE TrustInv' /\ trust'.highest >= trust.highest
  BY <1>6 DEF GiveUp, Status
<1>7. ASSUME Open \/ DropTicket
      PROVE  TrustInv' /\ trust'.highest >= trust.highest
  BY <1>7 DEF Open, DropTicket, bridge
<1>8. ASSUME Install \/ DayPasses
      PROVE  TrustInv' /\ trust'.highest >= trust.highest
  BY <1>8 DEF Install, DayPasses, bridge
<1>9. ASSUME NEW s \in Seqs, Damage(s)
      PROVE  TrustInv' /\ trust'.highest >= trust.highest
  BY <1>9 DEF Damage, bridge
<1>10. ASSUME UNCHANGED channelVars
       PROVE  TrustInv' /\ trust'.highest >= trust.highest
  BY <1>10 DEF channelVars, bridge
<1> QED
  BY <1>1, <1>2, <1>3, <1>4, <1>5, <1>6, <1>7, <1>8, <1>9, <1>10 DEF ChannelNext

\* The invariant holds in every state of the channel.
THEOREM TrustInvariance == ChannelSpec => []TrustInv
<1>1. TrustInv /\ [ChannelNext]_channelVars => TrustInv'
  BY InvSaveChecked, InvOther
<1> QED
  BY TrustInvInit, <1>1, PTL DEF ChannelSpec

\* NeverRollsBack for any documents, stale caches and killed processes: the
\* highest sequence that check and stage persist never falls.
THEOREM NoRollback == ChannelSpec => NeverRollsBack
<1>1. TrustInv /\ [ChannelNext]_channelVars => [trust'.highest >= trust.highest]_channelVars
  BY InvSaveChecked, InvOther
<1> QED
  BY TrustInvariance, <1>1, PTL DEF ChannelSpec, NeverRollsBack

\* OneContentPerSequence for any documents: check never comes to trust two
\* documents of one sequence, not even one after the other.
THEOREM NoEquivocation == ChannelSpec => []OneContentPerSequence
  BY TrustInvariance, PTL DEF TrustInv

-----------------------------------------------------------------------------
\* The package of the ticket lies where the ticket says until it is opened.
Handed ==
  /\ DOMAIN staged = Seqs
  /\ ticket # None => /\ ticket \in believed
                      /\ staged[ticket.seq] = ticket.package
  /\ OpensWhatItGranted

\* A step keeps it: what a concurrent stage may put there is the same
\* package, because one sequence means one document.
LEMMA HandedStep ==
  ASSUME TrustInv, Handed, [ChannelNext]_channelVars
  PROVE  Handed'
<1> USE DEF Handed, OpensWhatItGranted
<1>1. \A d \in believed : d \in Docs /\ d.seq \in Seqs
  BY DEF TrustInv, TrustShape, Seqs
<1>2. ASSUME Download PROVE Handed'
  <2>1. seen.doc \in believed
    BY <1>2 DEF Download, Usable, TrustInv, Current, Latest
  <2>2. \A d \in believed : d.seq = seen.doc.seq => d = seen.doc
    BY <2>1 DEF TrustInv, OneContentPerSequence
  <2> QED
    BY <1>1, <1>2, <2>1, <2>2 DEF Download
<1>3. ASSUME Grant PROVE Handed'
  BY <1>3 DEF Grant, Done, Usable, Measures, TrustInv, Current, Latest
<1>4. ASSUME Open PROVE Handed'
  BY <1>4 DEF Open
<1>5. ASSUME NEW s \in Seqs, Damage(s) PROVE Handed'
  BY <1>5 DEF Damage
<1>6. ASSUME NEW d \in Docs, Fetch(d) PROVE Handed'
  BY <1>6 DEF Fetch
<1>7. ASSUME NEW method \in {"check", "stage", "activate"}, UpdateCall(method)
      PROVE  Handed'
  BY <1>7 DEF UpdateCall
<1>8. ASSUME SaveChecked \/ SaveStaged \/ GiveUp PROVE Handed'
  BY <1>8 DEF SaveChecked, SaveStaged, GiveUp
<1>9. ASSUME DropTicket \/ Install \/ DayPasses PROVE Handed'
  BY <1>9 DEF DropTicket, Install, DayPasses
<1>10. ASSUME UNCHANGED channelVars PROVE Handed'
  BY <1>10 DEF channelVars
<1> QED
  BY <1>2, <1>3, <1>4, <1>5, <1>6, <1>7, <1>8, <1>9, <1>10 DEF ChannelNext

\* OpensWhatItGranted for any documents: what update_activate opens, after the
\* lock was released, still is the package the ticket was granted for.
THEOREM HandoverIsTrue == ChannelSpec => []OpensWhatItGranted
<1>1. ChannelInit => Handed
  BY DEF ChannelInit, Handed, OpensWhatItGranted
<1>2. TrustInv /\ Handed /\ [ChannelNext]_channelVars => Handed'
  BY HandedStep
<1>3. Handed => OpensWhatItGranted
  BY DEF Handed
<1> QED
  BY TrustInvariance, <1>1, <1>2, <1>3, PTL DEF ChannelSpec

-----------------------------------------------------------------------------
\* A process that is about to say staged has put the package there, and a
\* state that says so stands for it.
Kept ==
  /\ DOMAIN staged = Seqs
  /\ trust.status = "staged" => trust.doc # None
  /\ step = "staged" =>
       staged[seen.doc.seq] \in {seen.doc.package, Damaged}
  /\ StagedIsThere

\* A step keeps it: a package is only replaced by the one that is trusted, and
\* what is trusted only changes together with the status.
LEMMA KeptStep ==
  ASSUME TrustInv, Kept, [ChannelNext]_channelVars
  PROVE  Kept'
<1> USE DEF Kept, StagedIsThere
<1>1. CASE Download
  <2>1. /\ seen = trust /\ trust.doc \in Docs
        /\ trust.highest = trust.doc.seq /\ trust.doc.seq \in Seqs
    <3>1. seen = trust /\ trust.doc # None
      BY <1>1 DEF Download, Usable, TrustInv, Current
    <3>2. trust.doc \in Docs
      BY <3>1 DEF TrustInv, TrustShape, TrustFile
    <3> QED
      BY <3>1, <3>2 DEF TrustInv, TrustShape, Seqs
  <2> QED
    BY <1>1, <2>1 DEF Download
<1>2. CASE SaveChecked
  BY <1>2 DEF SaveChecked, Done
<1>3. CASE SaveStaged
  <2>1. seen = trust /\ trust.doc # None
    BY <1>3 DEF SaveStaged, TrustInv, Current, Admitted
  <2> QED
    BY <1>3, <2>1 DEF SaveStaged, Done
<1>4. ASSUME NEW s \in Seqs, Damage(s) PROVE Kept'
  BY <1>4 DEF Damage, bridge
<1>5. ASSUME NEW d \in Docs, Fetch(d) PROVE Kept'
  BY <1>5 DEF Fetch
<1>6. ASSUME NEW method \in {"check", "stage", "activate"}, UpdateCall(method)
      PROVE  Kept'
  BY <1>6 DEF UpdateCall
<1>7. ASSUME Grant \/ GiveUp PROVE Kept'
  BY <1>7 DEF Grant, GiveUp, Done
<1>8. ASSUME Open \/ DropTicket \/ Install \/ DayPasses \/ UNCHANGED channelVars
      PROVE  Kept'
  BY <1>8 DEF Open, DropTicket, Install, DayPasses, channelVars, bridge
<1> QED
  BY <1>1, <1>2, <1>3, <1>4, <1>5, <1>6, <1>7, <1>8 DEF ChannelNext

\* StagedIsThere for any documents: wherever a stage or a check is cut off, a
\* saved status of staged has its package on disk, unless the disk lost it.
THEOREM StagingIsTrue == ChannelSpec => []StagedIsThere
<1>1. ChannelInit => Kept
  BY DEF ChannelInit, Kept, StagedIsThere
<1>2. TrustInv /\ Kept /\ [ChannelNext]_channelVars => Kept'
  BY KeptStep
<1>3. Kept => StagedIsThere
  BY DEF Kept
<1> QED
  BY TrustInvariance, <1>1, <1>2, <1>3, PTL DEF ChannelSpec

-----------------------------------------------------------------------------
\* The channel keeps what is promised of it.

LEMMA ReleasesBegin == ChannelInit => Releases!ReleasesInit
  BY DEF ChannelInit, Releases!ReleasesInit

\* Saving what was checked is a step of the promise, or finds the same release.
LEMMA CheckKeepsTrust ==
  ASSUME TrustInv, SaveChecked
  PROVE  [Releases!ReleasesNext]_(Releases!releases)
<1>1. /\ offer \in Docs /\ offer.seq \in Nat /\ offer.seq >= trust.highest
      /\ offer.seq = trust.highest /\ trust.doc # None => trust.doc = offer
  BY DEF TrustInv, Admitted, SaveChecked
<1>2. trust'.doc = offer /\ believed' = believed \cup {offer} /\ opened' = opened
  BY DEF SaveChecked
<1>3. trust.doc # None => /\ trust.doc \in believed /\ trust.doc \in Docs
                          /\ trust.highest = trust.doc.seq /\ trust.doc.seq \in Nat
  BY DEF TrustInv, Latest, TrustShape, TrustFile
<1>4. CASE trust.doc = offer /\ trust.doc # None
  <2>1. UNCHANGED <<trust.doc, believed, opened>>
    BY <1>2, <1>3, <1>4
  <2> QED BY <2>1 DEF Releases!releases
<1>5. CASE ~(trust.doc = offer /\ trust.doc # None)
  <2>1. trust.doc # None => offer.seq > trust.doc.seq
    BY <1>1, <1>3, <1>5
  <2>2. Releases!Trust(offer)
    BY <1>2, <2>1 DEF Releases!Trust
  <2> QED BY <1>1, <2>2 DEF Releases!ReleasesNext
<1> QED BY <1>4, <1>5

\* The host opens the package of a release that was trusted once.
LEMMA OpenKeepsTrust ==
  ASSUME TrustInv, Handed, Open
  PROVE  [Releases!ReleasesNext]_(Releases!releases)
<1>1. ticket \in believed /\ ticket \in Docs /\ staged[ticket.seq] = ticket.package
  BY DEF Handed, Open, TrustInv, TrustShape
<1>2. Releases!HandOver(ticket)
  BY <1>1 DEF Open, Releases!HandOver
<1> QED BY <1>1, <1>2 DEF Releases!ReleasesNext

\* No other step touches what the user relies on.
LEMMA OtherKeepsTrust ==
  ASSUME TrustInv, [ChannelNext]_channelVars, ~SaveChecked, ~Open
  PROVE  UNCHANGED Releases!releases
<1>1. CASE SaveStaged
  BY <1>1 DEF SaveStaged, TrustInv, Current, Releases!releases
<1>2. CASE ~SaveStaged
  BY <1>2 DEF ChannelNext, channelVars, UpdateCall, Fetch, Download, Grant, GiveUp,
              DropTicket, Install, DayPasses, Damage, Releases!releases
<1> QED BY <1>1, <1>2

\* KeepsTrust for any documents, caches, processes and disks: the channel
\* implements TrustedReleases.
THEOREM ImplementsReleases == ChannelSpec => KeepsTrust
<1>1. ChannelInit => Handed
  BY DEF ChannelInit, Handed, OpensWhatItGranted
<1>2. TrustInv /\ Handed /\ [ChannelNext]_channelVars => Handed'
  BY HandedStep
<1>3. TrustInv /\ Handed /\ [ChannelNext]_channelVars
        => [Releases!ReleasesNext]_(Releases!releases)
  BY CheckKeepsTrust, OpenKeepsTrust, OtherKeepsTrust
<1> QED
  BY TrustInvariance, ReleasesBegin, <1>1, <1>2, <1>3, PTL
  DEF ChannelSpec, KeepsTrust, Releases!ReleasesSpec

=============================================================================
