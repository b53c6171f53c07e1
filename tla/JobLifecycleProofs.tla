-------------------------- MODULE JobLifecycleProofs --------------------------
(***************************************************************************)
(* Theorems about JobLifecycle, for any number of workers and clients in   *)
(* any interleaving.                                                       *)
(***************************************************************************)
EXTENDS JobLifecycle, TLAPS

\* A worker between its publication and the end has published; and a record
\* says completed only once somebody has.
Witnessed ==
  /\ rec.status = "completed" => published
  /\ \A w \in Workers : pc[w] \in {"clear", "done", "settle"} => published

CompleteInv == DOMAIN pc = Procs /\ Witnessed

\* What a step of one process must do to keep the invariant: it moves only
\* that process, never withdraws the transcript, and does not move towards a
\* completed record without it.
LEMMA OneProcess ==
  ASSUME CompleteInv, NEW p \in Procs,
         DOMAIN pc' = DOMAIN pc,
         \A q \in Procs \ {p} : pc'[q] = pc[q],
         published => published',
         rec'.status = "completed" => rec.status = "completed" \/ published',
         pc'[p] \in {"clear", "done", "settle"} =>
           pc[p] \in {"clear", "done"} \/ published' \/ p \notin Workers
  PROVE  CompleteInv'
<1>1. (rec.status = "completed" => published)'
  BY DEF CompleteInv, Witnessed
<1>2. ASSUME NEW w \in Workers, pc'[w] \in {"clear", "done", "settle"}
      PROVE  published'
  BY <1>2 DEF CompleteInv, Witnessed, Procs
<1>3. QED
  BY <1>1, <1>2 DEF CompleteInv, Witnessed

\* What becomes of the pid of a dead worker touches neither file nor process.
Apart == UNCHANGED <<rec, current, ws, published, pc, op, seen, match>>

LEMMA PidsApart ==
  /\ UNCHANGED vars => Apart
  /\ \A w \in Workers : Reuse(w) \/ Release(w) => Apart
BY DEF vars, Apart, Reuse, Release

\* Every step keeps the invariant.
LEMMA CompleteStep == CompleteInv /\ [Next]_vars => CompleteInv'
<1> SUFFICES ASSUME CompleteInv, [Next]_vars PROVE CompleteInv'
  OBVIOUS
<1> USE DEF Goto
<1>1. CASE Apart
  BY <1>1 DEF Apart, CompleteInv, Witnessed
<1>2. ASSUME NEW c \in Clients, Client(c) \/ Abandon(c) PROVE CompleteInv'
  <2> c \in Procs
    BY DEF Procs
  <2>1. DOMAIN pc = Procs
    BY DEF CompleteInv
  <2>2. /\ DOMAIN pc' = DOMAIN pc
        /\ \A q \in Procs \ {c} : pc'[q] = pc[q]
    BY <1>2, <2>1 DEF Client, Ask, Load, Probe, Mark, Show, Decide, Exit,
                      RemoveWorkspace, RemoveRecord, Abandon
  <2>3. published' = published
    BY <1>2 DEF Client, Ask, Load, Probe, Mark, Show, Decide, world,
                RemoveWorkspace, RemoveRecord, Abandon
  <2>4. rec'.status = "completed" => rec.status = "completed"
    <3>1. CASE Mark(c)
      BY <3>1 DEF Mark, Write, Record
    <3>2. CASE RemoveRecord(c)
      BY <3>2 DEF RemoveRecord, Missing
    <3>3. CASE ~Mark(c) /\ ~RemoveRecord(c)
      BY <1>2, <3>3 DEF Client, Ask, Load, Probe, Show, Decide,
                        RemoveWorkspace, Abandon
    <3>4. QED
      BY <3>1, <3>2, <3>3
  <2>5. pc'[c] \notin {"clear", "done", "settle"}
    BY <1>2, <2>1 DEF Client, Ask, Load, Probe, Mark, Show, Decide, Exit,
                      RemoveWorkspace, RemoveRecord, Abandon
  <2>6. QED
    BY <2>2, <2>3, <2>4, <2>5, OneProcess
<1>3. ASSUME NEW w \in Workers,
             (\E errand \in Errands : Launch(w, errand)) \/ Worker(w)
               \/ Fail(w) \/ Kill(w)
      PROVE  CompleteInv'
  <2> w \in Procs
    BY DEF Procs
  <2>1. DOMAIN pc = Procs
    BY DEF CompleteInv
  <2>2. /\ DOMAIN pc' = DOMAIN pc
        /\ \A q \in Procs \ {w} : pc'[q] = pc[q]
    BY <1>3, <2>1 DEF Launch, Worker, Load, Probe, Mark, PlanResume, Begin,
         Enter, Prepare, ReadProgress, WriteProgress, Publish, Clear, ReadLast,
         Report, Fail, Kill, Exit
  <2>3. published => published'
    BY <1>3 DEF Launch, Worker, Load, Probe, Mark, PlanResume, Begin, Enter,
         Prepare, ReadProgress, WriteProgress, Publish, Clear, ReadLast,
         Report, Fail, Kill, world
  <2>4. rec'.status = "completed" => rec.status = "completed" \/ published'
    <3>1. CASE Report(w)
      BY <3>1 DEF Report, Record, Outcomes, CompleteInv, Witnessed, world
    <3>2. CASE ~Report(w)
      BY <1>3, <3>2 DEF Launch, Worker, Load, Probe, Mark, PlanResume, Begin,
           Enter, Prepare, ReadProgress, WriteProgress, Publish, Clear,
           ReadLast, Fail, Kill, Write, Record, Running
    <3>3. QED
      BY <3>1, <3>2
  <2>5. pc'[w] \in {"clear", "done", "settle"} =>
          pc[w] \in {"clear", "done"} \/ published'
    BY <1>3, <2>1 DEF Launch, Worker, Load, Probe, Mark, PlanResume, Begin,
         Enter, Prepare, ReadProgress, WriteProgress, Publish, Clear, ReadLast,
         Report, Fail, Kill, Exit
  <2>6. QED
    BY <2>2, <2>3, <2>4, <2>5, OneProcess
<1>4. CASE Age
  BY <1>4 DEF Age, world, CompleteInv, Witnessed
<1>5. QED
  BY <1>1, <1>2, <1>3, <1>4, PidsApart DEF Next

\* No race between workers, clients and the record's read-modify-write ever
\* yields a job recorded as completed without a transcript.
THEOREM CompletedMeansPublished == Spec => []CompletedIsPublished
<1>1. Init => CompleteInv
  BY DEF Init, CompleteInv, Witnessed, Missing, Procs
<1>2. CompleteInv /\ [Next]_vars => CompleteInv'
  BY CompleteStep
<1>3. CompleteInv => CompletedIsPublished
  BY DEF CompleteInv, Witnessed, CompletedIsPublished
<1>4. QED
  BY <1>1, <1>2, <1>3, PTL DEF Spec
-----------------------------------------------------------------------------
(* Types.                                                                  *)

\* What is written are records.
LEMMA MissingIsRecord == Missing \in Records
  BY DEF Records, Missing, Statuses

LEMMA Settles ==
  ASSUME NEW status \in Settled
  PROVE  Record(status, Nobody) \in Records
  BY DEF Records, Record, Statuses

LEMMA Runs ==
  ASSUME NEW p \in Workers \cup {Nobody}
  PROVE  Record(Running, p) \in Records
<1>1. Running \in Statuses
  BY DEF Statuses
<1> QED BY <1>1 DEF Records, Record

LEMMA Ages ==
  ASSUME NEW r \in Records, r.status \in Settled
  PROVE  [r EXCEPT !.old = TRUE] \in Records
<1>1. /\ r \in [status : Statuses, owner : Workers \cup {Nobody}, old : BOOLEAN]
      /\ r.owner # Nobody => r.status = Running
  BY DEF Records
<1> DEFINE e == [r EXCEPT !.old = TRUE]
<1>2. /\ e \in [status : Statuses, owner : Workers \cup {Nobody}, old : BOOLEAN]
      /\ e.owner = r.owner /\ e.status = r.status
  BY <1>1
<1> QED BY <1>1, <1>2 DEF Records

\* What the pieces that actions are made of do to the types.
LEMMA GotoType ==
  ASSUME TypeOK, NEW p \in Procs, NEW step \in Steps, Goto(p, step)
  PROVE  pc' \in [Procs -> Steps]
  BY DEF TypeOK, Goto

LEMMA ExitType ==
  ASSUME TypeOK, NEW p \in Procs, NEW copies \in SUBSET Copies, Exit(p, copies)
  PROVE  /\ pc' \in [Procs -> Steps] /\ current' \subseteq Copies
         /\ op' \in [Procs -> Requests \cup Errands \cup {"none"}]
         /\ seen' \in [Procs -> Records] /\ match' \in [Procs -> BOOLEAN]
<1>1. pc' \in [Procs -> Steps]
  BY DEF TypeOK, Exit, Goto, Steps
<1>2. current' \subseteq Copies
  BY DEF Exit
<1>3. op' \in [Procs -> Requests \cup Errands \cup {"none"}]
  BY DEF TypeOK, Exit
<1>4. seen' \in [Procs -> Records]
  BY MissingIsRecord DEF TypeOK, Exit
<1>5. match' \in [Procs -> BOOLEAN]
  BY DEF TypeOK, Exit
<1> QED BY <1>1, <1>2, <1>3, <1>4, <1>5

LEMMA WriteType ==
  ASSUME TypeOK, NEW p \in Procs, NEW record \in Records, Write(p, record)
  PROVE  rec' \in Records /\ current' \subseteq Copies /\ seen' \in [Procs -> Records]
  BY DEF TypeOK, Write, Copies

LEMMA ReadType ==
  ASSUME TypeOK, NEW p \in Procs, Read(p)
  PROVE  current' \subseteq Copies /\ seen' \in [Procs -> Records]
  BY DEF TypeOK, Read, Copies

\* Reading the record, which clients do and a worker that resumes.
LEMMA LoadType ==
  ASSUME TypeOK, NEW p \in Procs, Load(p) \/ Probe(p) \/ Mark(p)
  PROVE  TypeOK'
<1> USE DEF world, machine
<1>1. CASE Load(p)
  <2>1. CASE Exit(p, current)
    BY <1>1, <2>1, ExitType DEF Load, TypeOK
  <2>2. CASE ~Exit(p, current)
    <3>1. Read(p) /\ Goto(p, IF rec.status = Running THEN "probe" ELSE "got")
      BY <1>1, <2>2 DEF Load
    <3>2. pc' \in [Procs -> Steps]
      BY <3>1, GotoType DEF Steps
    <3>3. match' \in [Procs -> BOOLEAN]
      <4> DEFINE same == Asked(p) \in current
      <4>1. match' = [match EXCEPT ![p] = same] /\ same \in BOOLEAN
        BY <1>1, <2>2 DEF Load
      <4> HIDE DEF same
      <4> QED BY <4>1 DEF TypeOK
    <3> QED BY <1>1, <2>2, <3>1, <3>2, <3>3, ReadType DEF Load, TypeOK
  <2> QED BY <2>1, <2>2
<1>2. CASE Probe(p)
  <2>1. pc' \in [Procs -> Steps]
    BY <1>2, GotoType DEF Probe, Steps
  <2> QED BY <1>2, <2>1 DEF Probe, TypeOK
<1>3. CASE Mark(p)
  <2>1. pc' \in [Procs -> Steps]
    BY <1>3, GotoType DEF Mark, Steps
  <2>2. Record("interrupted", Nobody) \in Records
    BY Settles DEF Settled
  <2>3. match' \in [Procs -> BOOLEAN]
    BY <1>3 DEF Mark, TypeOK
  <2> QED BY <1>3, <2>1, <2>2, <2>3, WriteType DEF Mark, TypeOK
<1> QED BY <1>1, <1>2, <1>3

LEMMA ClientType ==
  ASSUME TypeOK, NEW c \in Clients, Client(c) \/ Abandon(c)
  PROVE  TypeOK'
<1> c \in Procs
  BY DEF Procs
<1> USE DEF world, machine, memory
<1>1. ASSUME NEW request \in Requests, Ask(c, request) PROVE TypeOK'
  <2>1. pc' \in [Procs -> Steps]
    BY <1>1, GotoType DEF Ask, Steps
  <2>2. op' \in [Procs -> Requests \cup Errands \cup {"none"}]
    BY <1>1 DEF Ask, TypeOK
  <2>3. current' \subseteq Copies
    BY <1>1 DEF Ask, TypeOK, Copies
  <2> QED BY <1>1, <2>1, <2>2, <2>3 DEF Ask, TypeOK
<1>2. CASE Load(c) \/ Probe(c) \/ Mark(c)
  BY <1>2, LoadType
<1>3. CASE Show(c)
  <2> DEFINE copies == IF Held(c) \in current THEN current \cup {ScreenCopy}
                                              ELSE current \ {ScreenCopy}
  <2>1. copies \in SUBSET Copies
    BY DEF TypeOK, Copies
  <2>2. Exit(c, copies) /\ UNCHANGED <<rec, world>>
    BY <1>3 DEF Show
  <2> HIDE DEF copies
  <2> QED BY <2>1, <2>2, ExitType DEF TypeOK
<1>4. CASE Decide(c)
  <2>1. \/ Goto(c, "rmtree") /\ UNCHANGED <<current, memory>>
        \/ Exit(c, current)
    BY <1>4 DEF Decide
  <2>2. CASE Goto(c, "rmtree") /\ UNCHANGED <<current, memory>>
    <3>1. pc' \in [Procs -> Steps]
      BY <2>2, GotoType DEF Steps
    <3> QED BY <1>4, <2>2, <3>1 DEF Decide, TypeOK
  <2>3. CASE Exit(c, current)
    BY <1>4, <2>3, ExitType DEF Decide, TypeOK
  <2> QED BY <2>1, <2>2, <2>3
<1>5. CASE RemoveWorkspace(c)
  <2>1. ws' \in Workspaces
    BY <1>5 DEF RemoveWorkspace, Workspaces
  <2>2. CASE Goto(c, "unlink") /\ UNCHANGED <<current, memory>>
    <3>1. pc' \in [Procs -> Steps]
      BY <2>2, GotoType DEF Steps
    <3> QED BY <1>5, <2>1, <2>2, <3>1 DEF RemoveWorkspace, TypeOK
  <2>3. CASE Exit(c, current)
    BY <1>5, <2>1, <2>3, ExitType DEF RemoveWorkspace, TypeOK
  <2> QED BY <1>5, <2>2, <2>3 DEF RemoveWorkspace
<1>6. CASE RemoveRecord(c)
  BY <1>6, ExitType, MissingIsRecord DEF RemoveRecord, TypeOK
<1>7. CASE Abandon(c)
  <2>1. lost' \in 0 .. MaxLost
    BY <1>7, ProcsAssumption DEF Abandon, TypeOK
  <2> QED BY <1>7, <2>1, ExitType DEF Abandon, TypeOK
<1> QED BY <1>1, <1>2, <1>3, <1>4, <1>5, <1>6, <1>7 DEF Client

LEMMA WorkerType ==
  ASSUME TypeOK, NEW w \in Workers,
         (\E errand \in Errands : Launch(w, errand)) \/ Worker(w) \/ Fail(w) \/ Kill(w)
  PROVE  TypeOK'
<1> w \in Procs
  BY DEF Procs
<1> USE DEF world, machine, memory
<1>1. ASSUME NEW errand \in Errands, Launch(w, errand) PROVE TypeOK'
  <2>1. pc' \in [Procs -> Steps]
    BY <1>1, GotoType DEF Launch, Steps
  <2>2. op' \in [Procs -> Requests \cup Errands \cup {"none"}]
    BY <1>1 DEF Launch, TypeOK
  <2> QED BY <1>1, <2>1, <2>2 DEF Launch, TypeOK
<1>2. CASE Load(w) \/ Probe(w) \/ Mark(w)
  BY <1>2, LoadType
<1>3. CASE PlanResume(w)
  <2>1. CASE Exit(w, current)
    BY <1>3, <2>1, ExitType DEF PlanResume, TypeOK
  <2>2. CASE Goto(w, "begin") /\ UNCHANGED <<current, memory>>
    <3>1. pc' \in [Procs -> Steps]
      BY <2>2, GotoType DEF Steps
    <3> QED BY <1>3, <2>2, <3>1 DEF PlanResume, TypeOK
  <2> QED BY <1>3, <2>1, <2>2 DEF PlanResume
<1>4. CASE Begin(w)
  <2>1. pc' \in [Procs -> Steps]
    BY <1>4, GotoType DEF Begin, Steps
  <2>2. Record(Running, w) \in Records
    BY Runs
  <2> QED BY <1>4, <2>1, <2>2, WriteType DEF Begin, TypeOK
<1>5. CASE Enter(w)
  <2>1. pc' \in [Procs -> Steps]
    BY <1>5, GotoType DEF Enter, Steps
  <2>2. ws' \in Workspaces
    BY <1>5 DEF Enter, TypeOK, Workspaces
  <2> QED BY <1>5, <2>1, <2>2 DEF Enter, TypeOK
<1>6. CASE Prepare(w)
  <2>1. pc' \in [Procs -> Steps]
    BY <1>6, GotoType DEF Prepare, Steps
  <2>2. ws' \in Workspaces
    BY <1>6 DEF Prepare, TypeOK, Workspaces
  <2> QED BY <1>6, <2>1, <2>2 DEF Prepare, TypeOK
<1>7. CASE ReadProgress(w)
  <2>1. pc' \in [Procs -> Steps]
    BY <1>7, GotoType DEF ReadProgress, Steps
  <2> QED BY <1>7, <2>1, ReadType DEF ReadProgress, TypeOK
<1>8. CASE WriteProgress(w)
  <2>1. pc' \in [Procs -> Steps]
    BY <1>8, GotoType DEF WriteProgress, Steps
  <2>2. seen[w].owner \in Workers \cup {Nobody}
    BY DEF TypeOK, Records
  <2>3. Record(Running, seen[w].owner) \in Records
    BY <2>2, Runs
  <2> QED BY <1>8, <2>1, <2>3, WriteType DEF WriteProgress, TypeOK
<1>9. CASE Publish(w)
  <2>1. pc' \in [Procs -> Steps]
    BY <1>9, GotoType DEF Publish, Steps
  <2> QED BY <1>9, <2>1 DEF Publish, TypeOK
<1>10. CASE Clear(w)
  <2>1. pc' \in [Procs -> Steps]
    BY <1>10, GotoType DEF Clear, Steps
  <2>2. ws' \in Workspaces
    BY <1>10 DEF Clear, TypeOK, Workspaces
  <2> QED BY <1>10, <2>1, <2>2 DEF Clear, TypeOK
<1>11. CASE ReadLast(w)
  <2>1. CASE Exit(w, current)
    BY <1>11, <2>1, ExitType DEF ReadLast, TypeOK
  <2>2. CASE ~Exit(w, current)
    <3>1. Read(w) /\ Goto(w, IF pc[w] = "done" THEN "settle" ELSE "ending")
      BY <1>11, <2>2 DEF ReadLast
    <3>2. pc' \in [Procs -> Steps]
      BY <3>1, GotoType DEF Steps
    <3> QED BY <1>11, <2>2, <3>1, <3>2, ReadType DEF ReadLast, TypeOK
  <2> QED BY <2>1, <2>2
<1>12. CASE Report(w)
  <2>1. \E status \in Settled : rec' = Record(status, Nobody)
    BY <1>12 DEF Report, Settled, Outcomes
  <2>2. rec' \in Records
    BY <2>1, Settles
  <2>3. {} \in SUBSET Copies
    OBVIOUS
  <2> QED BY <1>12, <2>2, <2>3, ExitType DEF Report, TypeOK
<1>13. CASE Fail(w)
  <2>1. pc' \in [Procs -> Steps]
    BY <1>13, GotoType DEF Fail, Steps
  <2> QED BY <1>13, <2>1 DEF Fail, TypeOK
<1>14. CASE Kill(w)
  BY <1>14, ExitType DEF Kill, TypeOK
<1> QED
  BY <1>1, <1>2, <1>3, <1>4, <1>5, <1>6, <1>7, <1>8, <1>9, <1>10, <1>11,
     <1>12, <1>13, <1>14 DEF Worker

LEMMA TypeStep == TypeOK /\ [Next]_vars => TypeOK'
<1> SUFFICES ASSUME TypeOK, [Next]_vars PROVE TypeOK'
  OBVIOUS
<1>1. CASE UNCHANGED vars
  BY <1>1 DEF vars, TypeOK
<1>2. CASE Age
  BY <1>2, Ages DEF Age, TypeOK, world, machine
<1>3. ASSUME NEW w \in Workers, Reuse(w) \/ Release(w) PROVE TypeOK'
  BY <1>3 DEF Reuse, Release, TypeOK
<1> QED BY <1>1, <1>2, <1>3, ClientType, WorkerType DEF Next

LEMMA TypeInit == Init => TypeOK
<1> SUFFICES ASSUME Init PROVE TypeOK
  OBVIOUS
<1>1. pc \in [Procs -> Steps]
  BY DEF Init, Steps
<1>2. op \in [Procs -> Requests \cup Errands \cup {"none"}]
  BY DEF Init
<1>3. rec \in Records /\ seen \in [Procs -> Records]
  BY MissingIsRecord DEF Init
<1>4. lost \in 0 .. MaxLost /\ match \in [Procs -> BOOLEAN]
  BY ProcsAssumption DEF Init
<1> QED BY <1>1, <1>2, <1>3, <1>4 DEF Init, TypeOK, Workspaces

\* The record, the workspace and what every process knows have their types.
THEOREM TypeCorrect == Spec => []TypeOK
  BY TypeInit, TypeStep, PTL DEF Spec

-----------------------------------------------------------------------------
(* A job that was started once, and any number of clients.                 *)

\* Once the one worker is gone nobody writes the record any more but the client.
Over     == \E w \in Workers : pc[w] = "gone"
Begun(p) == p \in Workers /\ pc[p] # "idle"

\* A record tells of the worker that was started.
Told == /\ rec.status = Running => Begun(rec.owner)
        /\ rec.status \in Settled => Over

\* The worker finds no record that another one wrote.
Alone == \A w \in Workers : /\ pc[w] = "load" => rec.status = "absent"
                            /\ pc[w] \notin {"probe", "mark", "got"}
                            /\ pc[w] = "tick" => Begun(seen[w].owner)

\* A client marks as interrupted only what is over.
Judged(c) == /\ pc[c] = "probe" => seen[c].status = Running /\ Begun(seen[c].owner)
             /\ pc[c] = "mark" => Over

Once    == Told /\ Alone /\ \A c \in Clients : Judged(c)
OnceInv == TypeOK /\ (StartedOnce => Once)

\* The one worker that was started is at work: nothing is over, and every step it
\* takes leaves the clients as they are.
LEMMA WorkerMoves ==
  ASSUME TypeOK, StartedOnce, Once, NEW w \in Workers,
         pc[w] \notin {"idle", "gone"}, pc'[w] \notin {"idle", "load", "probe", "mark", "got"},
         \A q \in Procs \ {w} : pc'[q] = pc[q] /\ seen'[q] = seen[q],
         Told', pc'[w] = "tick" => Begun(seen[w].owner)'
  PROVE  Once'
<1>1. \A v \in Workers \ {w} : pc[v] = "idle"
  BY DEF StartedOnce
<1>2. ~Over
  BY <1>1 DEF Over
<1>3. \A v \in Workers \ {w} : v \in Procs \ {w} /\ pc'[v] = "idle"
  BY <1>1 DEF Procs
<1>4. \A p : Begun(p) => Begun(p)'
  BY <1>1 DEF Begun
<1>5. Alone'
  BY <1>3 DEF Alone, Begun
<1>6. ASSUME NEW c \in Clients PROVE Judged(c)'
  <2>1. c \in Procs \ {w}
    BY ProcsAssumption DEF Procs
  <2>2. pc'[c] = pc[c] /\ seen'[c] = seen[c]
    BY <2>1
  <2> QED BY <1>2, <1>4, <2>2 DEF Once, Judged
<1> QED BY <1>5, <1>6 DEF Once

LEMMA WorkerOnce ==
  ASSUME OnceInv, NEW w \in Workers, Worker(w) \/ Fail(w) \/ Kill(w), StartedOnce'
  PROVE  Once'
<1> w \in Procs
  BY DEF Procs
<1> USE DEF Goto, Exit, world, machine, memory
<1>1. pc \in [Procs -> Steps] /\ seen \in [Procs -> Records]
      /\ op \in [Procs -> Requests \cup Errands \cup {"none"}]
      /\ match \in [Procs -> BOOLEAN]
  BY DEF OnceInv, TypeOK
<1>2. pc[w] \notin {"idle", "gone"}
  BY DEF Worker, Fail, Kill, Load, Probe, Mark, PlanResume, Begin, Enter, Prepare,
         ReadProgress, WriteProgress, Publish, Clear, ReadLast, Report, Alive
<1>3. /\ pc'[w] # "idle"
      /\ \A q \in Procs \ {w} : pc'[q] = pc[q]
  BY <1>1, <1>2
  DEF Worker, Fail, Kill, Load, Probe, Mark, PlanResume, Begin, Enter, Prepare,
      ReadProgress, WriteProgress, Publish, Clear, ReadLast, Report
<1>4. StartedOnce
  BY <1>2, <1>3 DEF StartedOnce, Procs
<1>5. Once /\ TypeOK
  BY <1>4 DEF OnceInv
<1>6. \A q \in Procs \ {w} : seen'[q] = seen[q]
  BY <1>1
  DEF Worker, Fail, Kill, Load, Probe, Mark, PlanResume, Begin, Enter, Prepare,
      ReadProgress, WriteProgress, Publish, Clear, ReadLast, Report, Write, Read
<1>7. \A v \in Workers \ {w} : pc[v] = "idle"
  BY <1>2, <1>4 DEF StartedOnce
<1>8. ~Over
  BY <1>2, <1>7 DEF Over
<1>9. rec.status \notin Settled /\ (rec.status = Running => Begun(rec.owner))
  BY <1>5, <1>8 DEF Once, Told
<1>10. /\ pc[w] = "load" => rec.status = "absent"
       /\ pc[w] \notin {"probe", "mark", "got"}
       /\ pc[w] = "tick" => Begun(seen[w].owner)
  BY <1>5 DEF Once, Alone
<1>11. \A p : Begun(p) => Begun(p)'
  BY <1>2, <1>3 DEF Begun, Procs
<1>12. pc'[w] \notin {"load", "probe", "mark", "got"}
  BY <1>1, <1>10
  DEF Worker, Fail, Kill, Load, Probe, Mark, PlanResume, Begin, Enter, Prepare,
      ReadProgress, WriteProgress, Publish, Clear, ReadLast, Report
<1>13. Told'
  <2>1. CASE rec' = rec
    BY <2>1, <1>9, <1>11 DEF Told
  <2>2. CASE Begin(w)
    BY <2>2, <1>3 DEF Begin, Write, Record, Told, Begun, Settled, Running
  <2>3. CASE WriteProgress(w)
    <3>1. rec' = Record(Running, seen[w].owner) /\ Begun(seen[w].owner)
      BY <2>3, <1>10 DEF WriteProgress, Write
    <3> QED BY <3>1, <1>11 DEF Record, Told, Settled, Running
  <2>4. CASE Report(w)
    <3>1. rec'.status # Running
      BY <2>4 DEF Report, Record, Outcomes, Running
    <3>2. pc'[w] = "gone"
      BY <2>4, <1>1 DEF Report
    <3> QED BY <3>1, <3>2 DEF Told, Over
  <2> QED
    BY <2>1, <2>2, <2>3, <2>4, <1>10
    DEF Worker, Fail, Kill, Load, Probe, Mark, PlanResume, Enter, Prepare,
        ReadProgress, Publish, Clear, ReadLast
<1>14. ASSUME pc'[w] = "tick" PROVE Begun(seen[w].owner)'
  <2>1. ReadProgress(w)
    BY <1>14, <1>1
    DEF Worker, Fail, Kill, Load, Probe, Mark, PlanResume, Begin, Enter, Prepare,
        WriteProgress, Publish, Clear, ReadLast, Report
  <2>2. rec.status \in Statuses
    BY <1>5 DEF TypeOK, Records
  <2>3. rec.status = Running /\ seen'[w] = rec
    BY <1>1, <1>9, <1>14, <2>1, <2>2 DEF ReadProgress, Read, Statuses
  <2> QED BY <1>9, <1>11, <2>3
<1> QED BY <1>2, <1>3, <1>4, <1>5, <1>6, <1>12, <1>13, <1>14, WorkerMoves

\* The first worker finds nothing; a second one is a start too many.
LEMMA LaunchOnce ==
  ASSUME OnceInv, NEW w \in Workers, NEW errand \in Errands, Launch(w, errand), StartedOnce'
  PROVE  Once'
<1> w \in Procs
  BY DEF Procs
<1>1. pc \in [Procs -> Steps]
  BY DEF OnceInv, TypeOK
<1>2. /\ pc[w] = "idle" /\ pc'[w] \in {"load", "begin"}
      /\ \A q \in Procs \ {w} : pc'[q] = pc[q]
      /\ UNCHANGED <<rec, seen>>
  BY <1>1 DEF Launch, Goto
<1>3. \A v \in Workers : pc[v] = "idle"
  BY <1>2 DEF StartedOnce, Procs
<1>4. Once /\ TypeOK
  BY <1>3 DEF OnceInv, StartedOnce
<1>5. ~Over /\ \A p : ~Begun(p)
  BY <1>3 DEF Over, Begun
<1>6. rec.status = "absent"
  BY <1>4, <1>5 DEF Once, Told, TypeOK, Records, Statuses
<1>7. Told'
  BY <1>2, <1>6 DEF Told, Settled, Running
<1>8. Alone'
  BY <1>2, <1>3, <1>6 DEF Alone, Procs
<1>9. ASSUME NEW c \in Clients PROVE Judged(c)'
  <2>1. c \in Procs \ {w}
    BY ProcsAssumption DEF Procs
  <2>2. pc'[c] = pc[c]
    BY <1>2, <2>1
  <2> QED BY <1>2, <1>4, <1>5, <2>2 DEF Once, Judged
<1> QED BY <1>7, <1>8, <1>9 DEF Once

LEMMA ClientOnce ==
  ASSUME OnceInv, NEW c \in Clients, Client(c) \/ Abandon(c), StartedOnce'
  PROVE  Once'
<1> c \in Procs
  BY DEF Procs
<1> USE DEF Goto, Exit, world, machine, memory
<1>1. pc \in [Procs -> Steps] /\ seen \in [Procs -> Records]
  BY DEF OnceInv, TypeOK
<1>2. \A w \in Workers : w \in Procs \ {c}
  BY ProcsAssumption DEF Procs
<1>3. \A q \in Procs \ {c} : pc'[q] = pc[q] /\ seen'[q] = seen[q]
  BY <1>1
  DEF Client, Abandon, Ask, Load, Probe, Mark, Show, Decide, RemoveWorkspace,
      RemoveRecord, Write, Read
<1>4. StartedOnce
  BY <1>2, <1>3 DEF StartedOnce
<1>5. Once /\ TypeOK
  BY <1>4 DEF OnceInv
<1>6. (Over => Over') /\ \A p : Begun(p) => Begun(p)'
  BY <1>2, <1>3 DEF Over, Begun
<1>7. Over => \A w \in Workers : pc[w] # "load"
  BY <1>4 DEF Over, StartedOnce
<1>8. rec' = rec \/ rec' = Missing \/ Mark(c)
  BY DEF Client, Abandon, Ask, Load, Probe, Show, Decide, RemoveWorkspace, RemoveRecord
<1>9. Judged(c)
  BY <1>5 DEF Once
<1>10. ASSUME Mark(c) PROVE Over /\ rec'.status = "interrupted"
  BY <1>9, <1>10 DEF Mark, Judged, Write, Record
<1>11. Told'
  BY <1>5, <1>6, <1>8, <1>10 DEF Once, Told, Missing, Settled, Running
<1>12. Alone'
  <2> SUFFICES ASSUME NEW w \in Workers
               PROVE  /\ pc'[w] = "load" => rec'.status = "absent"
                      /\ pc'[w] \notin {"probe", "mark", "got"}
                      /\ pc'[w] = "tick" => Begun(seen[w].owner)'
    BY DEF Alone
  <2>1. /\ pc[w] = "load" => rec.status = "absent"
        /\ pc[w] \notin {"probe", "mark", "got"}
        /\ pc[w] = "tick" => Begun(seen[w].owner)
    BY <1>5 DEF Once, Alone
  <2> QED BY <1>2, <1>3, <1>6, <1>7, <1>8, <1>10, <2>1 DEF Missing
<1>13. ASSUME NEW d \in Clients \ {c} PROVE Judged(d)'
  <2>1. pc'[d] = pc[d] /\ seen'[d] = seen[d]
    BY <1>3 DEF Procs
  <2> QED BY <1>5, <1>6, <2>1 DEF Once, Judged
<1>14. Judged(c)'
  <2>1. CASE Load(c) /\ pc'[c] = "probe"
    <3>1. rec.status = Running /\ seen'[c] = rec
      BY <1>1, <2>1, ProcsAssumption DEF Load, Read, Procs
    <3> QED BY <1>5, <1>6, <2>1, <3>1 DEF Once, Told, Judged
  <2>2. CASE Probe(c)
    <3>1. ~Active(seen[c].owner) => Over
      BY <1>9, <2>2 DEF Probe, Judged, Active, Alive, Begun, Over, Procs
    <3>2. pc'[c] \in {"got", "mark"} /\ (pc'[c] = "mark" => Over)
      BY <1>1, <2>2, <3>1 DEF Probe
    <3> QED BY <1>6, <3>2 DEF Judged
  <2>3. ASSUME ~Probe(c), ~(Load(c) /\ pc'[c] = "probe")
        PROVE  pc'[c] \notin {"probe", "mark"}
    BY <1>1, <2>3, ProcsAssumption
    DEF Client, Abandon, Ask, Load, Mark, Show, Decide, RemoveWorkspace,
        RemoveRecord, Procs
  <2> QED BY <2>1, <2>2, <2>3 DEF Judged
<1> QED BY <1>11, <1>12, <1>13, <1>14 DEF Once

LEMMA OnceStep == OnceInv /\ [Next]_vars => OnceInv'
<1> SUFFICES ASSUME OnceInv, [Next]_vars PROVE OnceInv'
  OBVIOUS
<1>1. TypeOK'
  BY TypeStep DEF OnceInv
<1>2. ASSUME StartedOnce' PROVE Once'
  <2>1. CASE Apart
    BY <1>2, <2>1
    DEF Apart, OnceInv, StartedOnce, Once, Told, Alone, Judged, Over, Begun
  <2>2. CASE Age
    <3>1. StartedOnce
      BY <1>2, <2>2 DEF Age, StartedOnce
    <3>2. Once /\ Over
      BY <2>2, <3>1 DEF Age, OnceInv, Once, Told
    <3>3. rec'.status = rec.status
      BY <2>2 DEF Age, OnceInv, TypeOK, Records
    <3>4. rec'.status \in Settled
      BY <2>2, <3>3 DEF Age
    <3>5. Told'
      BY <2>2, <3>2, <3>4 DEF Age, Told, Over, Settled, Running
    <3>6. Alone'
      BY <2>2, <3>1, <3>2 DEF Age, Once, Alone, Over, Begun, StartedOnce
    <3>7. \A c \in Clients : Judged(c)'
      BY <2>2, <3>2 DEF Age, Once, Judged, Over, Begun
    <3> QED BY <3>5, <3>6, <3>7 DEF Once
  <2>3. ASSUME NEW c \in Clients, Client(c) \/ Abandon(c) PROVE Once'
    BY <1>2, <2>3, ClientOnce
  <2>4. ASSUME NEW w \in Workers,
               (\E errand \in Errands : Launch(w, errand)) \/ Worker(w) \/ Fail(w) \/ Kill(w)
        PROVE  Once'
    BY <1>2, <2>4, LaunchOnce, WorkerOnce
  <2> QED BY <2>1, <2>2, <2>3, <2>4, PidsApart DEF Next
<1> QED BY <1>1, <1>2 DEF OnceInv

LEMMA OnceInit == Init => OnceInv
<1> SUFFICES ASSUME Init PROVE OnceInv
  OBVIOUS
<1>1. TypeOK
  BY TypeInit
<1>2. Told /\ Alone /\ \A c \in Clients : Judged(c)
  BY DEF Init, Procs, Told, Alone, Judged, Missing, Settled, Running
<1> QED BY <1>1, <1>2 DEF OnceInv, Once

\* In a job that was started once a client that finds the record settled finds it
\* over.
LEMMA SettledIsOver ==
  ASSUME OnceInv, StartedOnce, rec.status # Running, rec.status # "absent"
  PROVE  Over
  BY DEF OnceInv, TypeOK, Records, Statuses, Once, Told

-----------------------------------------------------------------------------
(* Nobody takes the workspace away from a worker.                          *)

\* Only a worker that published has anything published behind it.
Spent == published => \E w \in Workers : pc[w] \in {"clear", "done", "settle", "gone"}

\* A client goes on to delete only when the worker is over, or has published.
Harmless(c) == /\ pc[c] = "got" /\ seen[c].status # Running => Over
               /\ pc[c] = "rmtree" => Over \/ published

\* A process at work knows what it was asked to do.
Instructed == /\ \A w \in Workers : pc[w] \notin {"idle", "gone"} => op[w] \in Errands
              /\ \A c \in Clients : pc[c] # "idle" => op[c] \in Requests

KeptInv == OnceInv /\ Instructed /\ Spent /\ WorkspaceIsKept
                   /\ (StartedOnce => \A c \in Clients : Harmless(c))

LEMMA InstructedStep ==
  ASSUME TypeOK, Instructed, [Next]_vars
  PROVE  Instructed'
<1> USE DEF Goto, Exit, world, machine, memory
<1>1. /\ pc \in [Procs -> Steps]
      /\ op \in [Procs -> Requests \cup Errands \cup {"none"}]
  BY DEF TypeOK
<1>2. CASE Apart \/ Age
  BY <1>2 DEF Apart, Age, Instructed
<1>3. ASSUME NEW c \in Clients, Client(c) \/ Abandon(c) PROVE Instructed'
  <2>1. c \in Procs /\ c \notin Workers
    BY ProcsAssumption DEF Procs
  <2>2. \A q \in Procs \ {c} : pc'[q] = pc[q] /\ op'[q] = op[q]
    BY <1>1, <1>3
    DEF Client, Abandon, Ask, Load, Probe, Mark, Show, Decide, RemoveWorkspace,
        RemoveRecord, Write, Read
  <2>3. pc'[c] # "idle" => op'[c] \in Requests
    <3>1. pc[c] # "idle" => op[c] \in Requests
      BY DEF Instructed
    <3> QED
      BY <1>1, <1>3, <2>1, <3>1
      DEF Client, Abandon, Ask, Load, Probe, Mark, Show, Decide, RemoveWorkspace,
          RemoveRecord
  <2> QED BY <2>1, <2>2, <2>3 DEF Instructed, Procs
<1>4. ASSUME NEW w \in Workers,
             (\E errand \in Errands : Launch(w, errand)) \/ Worker(w) \/ Fail(w) \/ Kill(w)
      PROVE  Instructed'
  <2>1. w \in Procs /\ w \notin Clients
    BY ProcsAssumption DEF Procs
  <2>2. \A q \in Procs \ {w} : pc'[q] = pc[q] /\ op'[q] = op[q]
    BY <1>1, <1>4
    DEF Launch, Worker, Fail, Kill, Load, Probe, Mark, PlanResume, Begin, Enter, Prepare,
        ReadProgress, WriteProgress, Publish, Clear, ReadLast, Report, Write, Read
  <2>3. pc'[w] \notin {"idle", "gone"} => op'[w] \in Errands
    <3>1. pc[w] \notin {"idle", "gone"} => op[w] \in Errands
      BY DEF Instructed
    <3> QED
      BY <1>1, <1>4, <2>1, <3>1
      DEF Launch, Worker, Fail, Kill, Load, Probe, Mark, PlanResume, Begin, Enter, Prepare,
          ReadProgress, WriteProgress, Publish, Clear, ReadLast, Report, Alive
  <2> QED BY <2>1, <2>2, <2>3 DEF Instructed, Procs
<1> QED BY <1>2, <1>3, <1>4, PidsApart DEF Next

LEMMA ClientKeeps ==
  ASSUME KeptInv, NEW c \in Clients, Client(c) \/ Abandon(c)
  PROVE  /\ Spent' /\ WorkspaceIsKept'
         /\ StartedOnce' => \A d \in Clients : Harmless(d)'
<1> c \in Procs
  BY DEF Procs
<1> USE DEF Goto, Exit, world, machine, memory
<1>1. pc \in [Procs -> Steps] /\ seen \in [Procs -> Records]
  BY DEF KeptInv, OnceInv, TypeOK
<1>2. \A q \in Procs \ {c} : pc'[q] = pc[q] /\ seen'[q] = seen[q]
  BY <1>1
  DEF Client, Abandon, Ask, Load, Probe, Mark, Show, Decide, RemoveWorkspace,
      RemoveRecord, Write, Read
<1>3. \A w \in Workers : w # c /\ pc'[w] = pc[w]
  BY <1>2, ProcsAssumption DEF Procs
<1>4. published' = published
  BY DEF Client, Abandon, Ask, Load, Probe, Mark, Show, Decide, RemoveWorkspace,
         RemoveRecord
<1>5. Spent' /\ (StartedOnce' <=> StartedOnce) /\ Working' = Working /\ (Over' <=> Over)
  BY <1>3, <1>4 DEF KeptInv, Spent, StartedOnce, Working, Over
<1>6. WorkspaceIsKept'
  <2>1. CASE RemoveWorkspace(c)
    <3> SUFFICES ASSUME StartedOnce, NEW w \in Working PROVE FALSE
      BY <1>5 DEF WorkspaceIsKept
    <3>1. w \in Workers /\ pc[w] \in {"prepare", "work", "tick", "publish"}
      BY DEF Working
    <3>2. Over \/ published
      BY <2>1 DEF RemoveWorkspace, KeptInv, Harmless
    <3>3. PICK v \in Workers : pc[v] \in {"clear", "done", "settle", "gone"}
      BY <3>2 DEF Over, KeptInv, Spent
    <3> QED BY <3>1, <3>3 DEF StartedOnce
  <2>2. CASE ~RemoveWorkspace(c)
    <3>1. ws' = ws
      BY <2>2 DEF Client, Abandon, Ask, Load, Probe, Mark, Show, Decide, RemoveRecord
    <3> QED BY <1>5, <3>1 DEF KeptInv, WorkspaceIsKept
  <2> QED BY <2>1, <2>2
<1>7. ASSUME StartedOnce', NEW d \in Clients PROVE Harmless(d)'
  <2>1. StartedOnce /\ Harmless(d) /\ OnceInv /\ Once
    BY <1>5, <1>7 DEF KeptInv, OnceInv
  <2>2. CASE d # c
    <3>1. pc'[d] = pc[d] /\ seen'[d] = seen[d]
      BY <1>2, <2>2 DEF Procs
    <3> QED BY <1>4, <1>5, <2>1, <3>1 DEF Harmless
  <2>3. CASE d = c /\ Load(c)
    <3>1. CASE pc'[c] = "got"
      <4>1. rec.status # "absent" /\ rec.status # Running
        BY <1>1, <2>3, <3>1, ProcsAssumption DEF Load, Procs
      <4> QED BY <1>5, <2>1, <2>3, <3>1, <4>1, SettledIsOver DEF Harmless
    <3>2. pc'[c] # "rmtree"
      BY <1>1, <2>3, ProcsAssumption DEF Load, Procs
    <3> QED BY <2>3, <3>1, <3>2 DEF Harmless
  <2>4. CASE d = c /\ Probe(c)
    <3>1. seen'[c].status = Running /\ pc'[c] # "rmtree"
      BY <1>1, <2>1, <2>4 DEF Probe, Once, Judged
    <3> QED BY <2>4, <3>1 DEF Harmless
  <2>5. CASE d = c /\ Mark(c)
    <3>1. Over /\ pc'[c] = "got"
      BY <1>1, <2>1, <2>5 DEF Mark, Once, Judged
    <3> QED BY <1>5, <2>5, <3>1 DEF Harmless
  <2>6. CASE d = c /\ Decide(c)
    <3>1. pc'[c] # "got"
      BY <1>1, <2>6, ProcsAssumption DEF Decide, Procs
    <3>2. pc[c] = "got" /\ op[c] \in Requests \ {"list"}
      BY <2>6 DEF Decide, KeptInv, Instructed
    <3>3. ASSUME pc'[c] = "rmtree" PROVE seen[c].status # Running \/ published
      <4>1. CASE op[c] \in {"discard", "erase"}
        BY <1>1, <2>6, <3>3, <4>1, ProcsAssumption DEF Decide, MayDiscard, Procs
      <4>2. CASE op[c] = "retain"
        BY <1>1, <2>6, <3>3, <4>2, ProcsAssumption DEF Decide, MayRetain, Procs, Running
      <4>3. CASE op[c] = "purge"
        BY <1>1, <2>6, <3>3, <4>3, ProcsAssumption DEF Decide, MayPurge, Procs
      <4> QED BY <3>2, <4>1, <4>2, <4>3 DEF Requests
    <3> QED BY <1>4, <1>5, <2>1, <2>6, <3>1, <3>2, <3>3 DEF Harmless
  <2>7. CASE d = c /\ ~Load(c) /\ ~Probe(c) /\ ~Mark(c) /\ ~Decide(c)
    <3>1. pc'[c] \notin {"got", "rmtree"}
      BY <1>1, <2>7, ProcsAssumption
      DEF Client, Abandon, Ask, Show, RemoveWorkspace, RemoveRecord, Procs
    <3> QED BY <2>7, <3>1 DEF Harmless
  <2> QED BY <2>2, <2>3, <2>4, <2>5, <2>6, <2>7
<1> QED BY <1>5, <1>6, <1>7

LEMMA WorkerKeeps ==
  ASSUME KeptInv, NEW w \in Workers,
         (\E errand \in Errands : Launch(w, errand)) \/ Worker(w) \/ Fail(w) \/ Kill(w)
  PROVE  /\ Spent' /\ WorkspaceIsKept'
         /\ StartedOnce' => \A c \in Clients : Harmless(c)'
<1> w \in Procs
  BY DEF Procs
<1> USE DEF Goto, Exit, world, machine, memory
<1>1. pc \in [Procs -> Steps] /\ seen \in [Procs -> Records] /\ ws \in Workspaces
  BY DEF KeptInv, OnceInv, TypeOK
<1>2. \A q \in Procs \ {w} : pc'[q] = pc[q] /\ seen'[q] = seen[q]
  BY <1>1
  DEF Launch, Worker, Fail, Kill, Load, Probe, Mark, PlanResume, Begin, Enter, Prepare,
      ReadProgress, WriteProgress, Publish, Clear, ReadLast, Report, Write, Read
<1>3. pc[w] # "gone" /\ pc'[w] # "idle"
  BY <1>1
  DEF Launch, Worker, Fail, Kill, Load, Probe, Mark, PlanResume, Begin, Enter, Prepare,
      ReadProgress, WriteProgress, Publish, Clear, ReadLast, Report, Alive
<1>4. StartedOnce' => StartedOnce
  BY <1>2, <1>3 DEF StartedOnce, Procs
<1>5. Over => Over'
  BY <1>2, <1>3 DEF Over, Procs
<1>6. /\ published => published'
      /\ published' /\ ~published => pc'[w] = "clear"
      /\ pc[w] \in {"clear", "done", "settle"} =>
           pc'[w] \in {"clear", "done", "settle", "gone"}
  BY <1>1, ProcsAssumption
  DEF Launch, Worker, Fail, Kill, Load, Probe, Mark, PlanResume, Begin, Enter, Prepare,
      ReadProgress, WriteProgress, Publish, Clear, ReadLast, Report, Procs
<1>7. Spent'
  BY <1>2, <1>3, <1>6 DEF KeptInv, Spent, Procs
<1>8. ASSUME StartedOnce', NEW c \in Clients PROVE Harmless(c)'
  <2>1. Harmless(c)
    BY <1>4, <1>8 DEF KeptInv
  <2>2. pc'[c] = pc[c] /\ seen'[c] = seen[c]
    BY <1>2, ProcsAssumption DEF Procs
  <2> QED BY <1>5, <1>6, <2>1, <2>2 DEF Harmless
<1>9. WorkspaceIsKept'
  <2> SUFFICES ASSUME StartedOnce', NEW v \in Working' PROVE ws' # "none"
    BY DEF WorkspaceIsKept
  <2>1. StartedOnce
    BY <1>4
  <2>2. v \in Workers /\ pc'[v] \in {"prepare", "work", "tick", "publish"}
    BY DEF Working
  <2>3. v = w
    BY <1>3, <2>2 DEF StartedOnce
  <2>4. CASE Enter(w)
    <3>1. op[w] \in {"start", "resume"}
      BY <2>4 DEF Enter, KeptInv, Instructed, Errands
    <3> QED BY <1>1, <2>2, <2>3, <2>4, <3>1 DEF Enter
  <2>5. CASE Prepare(w)
    BY <1>1, <2>2, <2>3, <2>5 DEF Prepare
  <2>6. CASE ~Enter(w) /\ ~Prepare(w)
    <3>1. w \in Working /\ ws' = ws
      BY <1>1, <2>2, <2>3, <2>6
      DEF Working, Launch, Worker, Fail, Kill, Load, Probe, Mark, PlanResume, Begin,
          ReadProgress, WriteProgress, Publish, Clear, ReadLast, Report
    <3> QED BY <2>1, <3>1 DEF KeptInv, WorkspaceIsKept
  <2> QED BY <2>4, <2>5, <2>6
<1> QED BY <1>7, <1>8, <1>9

LEMMA KeptStep == KeptInv /\ [Next]_vars => KeptInv'
<1> SUFFICES ASSUME KeptInv, [Next]_vars PROVE KeptInv'
  OBVIOUS
<1>1. OnceInv' /\ Instructed'
  BY OnceStep, InstructedStep DEF KeptInv, OnceInv
<1>2. CASE Apart \/ Age
  <2>1. UNCHANGED <<pc, seen, ws, published>>
    BY <1>2 DEF Apart, Age, world
  <2>2. Spent' /\ WorkspaceIsKept' /\ (StartedOnce' => \A c \in Clients : Harmless(c)')
    BY <2>1 DEF KeptInv, Spent, WorkspaceIsKept, Working, StartedOnce, Harmless, Over
  <2> QED BY <1>1, <2>2 DEF KeptInv
<1>3. ASSUME NEW c \in Clients, Client(c) \/ Abandon(c) PROVE KeptInv'
  BY <1>1, <1>3, ClientKeeps DEF KeptInv
<1>4. ASSUME NEW w \in Workers,
             (\E errand \in Errands : Launch(w, errand)) \/ Worker(w) \/ Fail(w) \/ Kill(w)
      PROVE  KeptInv'
  BY <1>1, <1>4, WorkerKeeps DEF KeptInv
<1> QED BY <1>2, <1>3, <1>4, PidsApart DEF Next

\* WorkspaceIsKept for any number of clients in any interleaving: a discard, the
\* retention of old jobs and the deletion of a document each read and decide long
\* before they delete, and none of them takes the workspace of a worker at work.
THEOREM WorkIsNotPulledAway == Spec => []WorkspaceIsKept
<1>1. Init => KeptInv
  BY OnceInit DEF Init, KeptInv, Instructed, Spent, WorkspaceIsKept, Working, Harmless, Procs
<1>2. KeptInv => WorkspaceIsKept
  BY DEF KeptInv
<1> QED BY <1>1, <1>2, KeptStep, PTL DEF Spec

-----------------------------------------------------------------------------
(* One client at a time.                                                   *)

\* From the check of a discard to its end the record stays the one shown.
Passed(c) == \/ pc[c] \in {"rmtree", "unlink"}
             \/ pc[c] = "got" /\ match[c] /\ seen[c].status # Running
Bound(c)  == op[c] = "discard" /\ Passed(c) => Asked(c) \in current /\ Over
BoundInv  == OnceInv /\ (StartedOnce => \A c \in Clients : Bound(c))

\* The record is not written once the worker is over; until then a client that is
\* bound to nothing stays so.
LEMMA WorkerBinds ==
  ASSUME BoundInv, NEW w \in Workers, NEW c \in Clients, StartedOnce',
         (\E errand \in Errands : Launch(w, errand)) \/ Worker(w) \/ Fail(w) \/ Kill(w)
  PROVE  Bound(c)'
<1> w \in Procs /\ c \in Procs \ {w}
  BY ProcsAssumption DEF Procs
<1> USE DEF Goto, Exit, world, machine, memory
<1>1. /\ pc \in [Procs -> Steps] /\ seen \in [Procs -> Records]
      /\ op \in [Procs -> Requests \cup Errands \cup {"none"}]
      /\ match \in [Procs -> BOOLEAN]
  BY DEF BoundInv, OnceInv, TypeOK
<1>2. /\ \A q \in Procs \ {w} : pc'[q] = pc[q]
      /\ pc'[c] = pc[c] /\ op'[c] = op[c] /\ seen'[c] = seen[c] /\ match'[c] = match[c]
  BY <1>1
  DEF Launch, Worker, Fail, Kill, Load, Probe, Mark, PlanResume, Begin, Enter, Prepare,
      ReadProgress, WriteProgress, Publish, Clear, ReadLast, Report, Write, Read
<1>3. pc[w] # "gone" /\ pc'[w] # "idle"
  BY <1>1
  DEF Launch, Worker, Fail, Kill, Load, Probe, Mark, PlanResume, Begin, Enter, Prepare,
      ReadProgress, WriteProgress, Publish, Clear, ReadLast, Report, Alive
<1>4. StartedOnce /\ ~Over
  BY <1>2, <1>3 DEF StartedOnce, Over, Procs
<1> QED BY <1>2, <1>4 DEF BoundInv, Bound, Passed

LEMMA ClientBinds ==
  ASSUME BoundInv, NEW c \in Clients, Client(c) \/ Abandon(c), StartedOnce'
  PROVE  Bound(c)'
<1> c \in Procs
  BY DEF Procs
<1> USE DEF Goto, Exit, world, machine, memory
<1>1. /\ pc \in [Procs -> Steps] /\ seen \in [Procs -> Records]
      /\ op \in [Procs -> Requests \cup Errands \cup {"none"}]
      /\ match \in [Procs -> BOOLEAN]
  BY DEF BoundInv, OnceInv, TypeOK
<1>2. \A w \in Workers : pc'[w] = pc[w]
  BY <1>1, ProcsAssumption
  DEF Client, Abandon, Ask, Load, Probe, Mark, Show, Decide, RemoveWorkspace,
      RemoveRecord, Procs
<1>3. StartedOnce /\ (Over => Over')
  BY <1>2 DEF StartedOnce, Over
<1>4. OnceInv /\ Judged(c) /\ Bound(c)
  BY <1>3 DEF BoundInv, OnceInv, Once
<1>5. CASE pc'[c] \in {"idle", "load", "probe", "mark"}
  BY <1>5 DEF Bound, Passed
<1>6. CASE Load(c) /\ pc'[c] = "got"
  <2>1. /\ rec.status # "absent" /\ rec.status # Running /\ Read(c)
        /\ match' = [match EXCEPT ![c] = Asked(c) \in current]
    BY <1>1, <1>6, ProcsAssumption DEF Load, Procs
  <2>2. current \subseteq current' /\ (match'[c] => Asked(c) \in current)
    BY <1>1, <2>1 DEF Read
  <2>3. Over
    BY <1>3, <1>4, <2>1, SettledIsOver
  <2> QED BY <1>3, <1>6, <2>2, <2>3 DEF Bound, Passed
<1>7. CASE Probe(c)
  <2>1. seen'[c].status = Running /\ pc'[c] \in {"got", "mark"}
    BY <1>1, <1>4, <1>7 DEF Probe, Judged
  <2> QED BY <2>1 DEF Bound, Passed
<1>8. CASE Mark(c)
  <2>1. pc'[c] = "got" /\ match'[c] = FALSE
    BY <1>1, <1>8 DEF Mark
  <2> QED BY <2>1 DEF Bound, Passed
<1>9. CASE (Decide(c) \/ RemoveWorkspace(c)) /\ pc'[c] # "idle"
  <2>1. /\ pc'[c] \in {"rmtree", "unlink"} /\ current' = current /\ op' = op
        /\ op[c] = "discard" => Passed(c)
    BY <1>1, <1>9, ProcsAssumption DEF Decide, RemoveWorkspace, MayDiscard, Passed, Procs
  <2> QED BY <1>3, <1>4, <2>1 DEF Bound
<1>10. ASSUME ~Probe(c), ~Mark(c), ~Decide(c), ~RemoveWorkspace(c),
              ~(Load(c) /\ pc'[c] = "got")
       PROVE  pc'[c] \in {"idle", "load", "probe"}
  BY <1>1, <1>10, ProcsAssumption
  DEF Client, Abandon, Ask, Load, Show, RemoveRecord, Procs
<1>11. pc'[c] = "idle" => Bound(c)'
  BY <1>5
<1> QED BY <1>5, <1>6, <1>7, <1>8, <1>9, <1>10, <1>11

LEMMA BoundStep ==
  ASSUME \A c, d \in Clients : c = d
  PROVE  BoundInv /\ [Next]_vars => BoundInv'
<1> SUFFICES ASSUME BoundInv, [Next]_vars PROVE BoundInv'
  OBVIOUS
<1>1. OnceInv'
  BY OnceStep DEF BoundInv
<1>2. ASSUME StartedOnce', NEW c \in Clients PROVE Bound(c)'
  <2>1. CASE Apart \/ Age
    <3>1. UNCHANGED <<pc, op, seen, match, current>>
      BY <2>1 DEF Apart, Age
    <3>2. StartedOnce
      BY <1>2, <3>1 DEF StartedOnce
    <3> QED BY <3>1, <3>2 DEF BoundInv, Bound, Passed, Over
  <2>2. ASSUME NEW d \in Clients, Client(d) \/ Abandon(d) PROVE Bound(c)'
    BY <1>2, <2>2, ClientBinds
  <2>3. ASSUME NEW w \in Workers,
               (\E errand \in Errands : Launch(w, errand)) \/ Worker(w) \/ Fail(w) \/ Kill(w)
        PROVE  Bound(c)'
    BY <1>2, <2>3, WorkerBinds
  <2> QED BY <2>1, <2>2, <2>3, PidsApart DEF Next
<1> QED BY <1>1, <1>2 DEF BoundInv

\* DiscardsWhatItShowed for any number of workers, requests and resumes, while the
\* clients come one at a time, as the bridge's lock lets them: between the check of
\* the time stamp and the deletion nobody else writes.  A second client could be
\* about to reconcile the record.
THEOREM DiscardIsBound ==
  ASSUME \A c, d \in Clients : c = d
  PROVE  Spec => DiscardsWhatItShowed
<1>1. Init => BoundInv
  BY OnceInit DEF Init, BoundInv, Bound, Passed, Procs
<1>2. BoundInv /\ [Next]_vars =>
        [\A c \in Clients : StartedOnce /\ RemoveRecord(c) /\ op[c] = "discard" =>
           Asked(c) \in current]_vars
  BY DEF BoundInv, Bound, Passed, RemoveRecord
<1> QED BY <1>1, <1>2, BoundStep, PTL DEF Spec, DiscardsWhatItShowed

=============================================================================
