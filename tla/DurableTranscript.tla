------------------------- MODULE DurableTranscript -------------------------
(***************************************************************************)
(* What a transcription job promises its owner, whatever happens to the    *)
(* processes that run it: recognised windows accumulate in order, nothing  *)
(* but the owner takes them away before the transcript is published, the   *)
(* transcript is published only when every window is recognised, and is    *)
(* never withdrawn.                                                        *)
(***************************************************************************)
EXTENDS Naturals

CONSTANT N

VARIABLES
  safe,      \* windows that no crash can lose
  public,    \* a canonical transcript is published
  abandoned  \* the private state is gone: the job cannot be resumed

vars == <<safe, public, abandoned>>

All == 0 .. (N - 1)

Init == safe = {} /\ public = FALSE /\ abandoned = FALSE

\* The next window of the plan, and no other.
Recognise(w) ==
  /\ ~public /\ ~abandoned
  /\ safe = 0 .. (w - 1)
  /\ safe' = safe \cup {w}
  /\ UNCHANGED <<public, abandoned>>

Publish ==
  /\ safe = All /\ ~abandoned
  /\ public' = TRUE
  /\ UNCHANGED <<safe, abandoned>>

\* The owner discards the job or its workspace, or it never came to own one.
Abandon ==
  /\ abandoned' = TRUE
  /\ safe' = IF public THEN safe ELSE {}
  /\ UNCHANGED public

Next == (\E w \in All : Recognise(w)) \/ Publish \/ Abandon

Spec == Init /\ [][Next]_vars
=============================================================================
