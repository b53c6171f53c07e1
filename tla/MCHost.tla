------------------------------- MODULE MCHost -------------------------------
(* What the native host supervises: the workers of transcriptions, the loop *)
(* that prepares a worker's segments ahead, and the hand-over of updates.   *)
(* They share no state and are followed apart; outside its part the loop    *)
(* is over.                                                                 *)
EXTENDS ProcessingTasks, SegmentPrefetch, UpdateChannel

\* Documents: a release that expires, another issued under the same sequence by
\* mistake, its successor, which is not yet published on the first day, and one
\* for another channel.
Release(seq, version, package, published, expires, channel) ==
  [seq |-> seq, version |-> version, package |-> package,
   published |-> published, expires |-> expires, channel |-> channel]

MCDocs ==
  {Release(1, 2, "a", 0, 2, "stable"), Release(1, 2, "b", 0, 2, "stable"),
   Release(2, 3, "c", 1, 3, "stable"), Release(2, 3, "d", 0, 3, "beta")}

VARIABLE part

hostVars == <<part, vars, loopVars, channelVars>>

LoopOver ==
  /\ depth = 0 /\ pc = "gone" /\ cur = 0 /\ next = 1 /\ future = NoFuture
  /\ file = [w \in Windows |-> "absent"]
  /\ saved = [w \in Windows |-> w] /\ raised = FALSE /\ spoiled = {} /\ faults = 0

HostInit ==
  /\ part \in {"tasks", "loop", "updates"}
  /\ Init /\ ChannelInit
  /\ IF part = "loop" THEN LoopInit ELSE LoopOver

HostNext ==
  \/ part = "tasks" /\ Next /\ UNCHANGED <<part, loopVars, channelVars>>
  \/ part = "loop" /\ LoopNext /\ UNCHANGED <<part, vars, channelVars>>
  \/ part = "updates" /\ ChannelNext /\ UNCHANGED <<part, vars, loopVars>>

HostSpec == HostInit /\ [][HostNext]_hostVars /\ Fairness /\ LoopFairness
=============================================================================
