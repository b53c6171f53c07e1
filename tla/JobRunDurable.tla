--------------------------- MODULE JobRunDurable ---------------------------
(***************************************************************************)
(* JobRun implements DurableTranscript: the files on disk, read the way a  *)
(* resume reads them, are the owner's view of the job.                     *)
(***************************************************************************)
EXTENDS JobRun

Durable == INSTANCE DurableTranscript WITH
  safe      <- IF Published # {} THEN Windows ELSE Saved,
  public    <- Published # {},
  abandoned <- /\ ~workspace
               /\ rec.status \notin {"absent", "running"}

\* Every step of every worker, crash, error and deletion is a step of the
\* promise or leaves what the owner sees unchanged.
KeepsPromise == Durable!Spec
=============================================================================
