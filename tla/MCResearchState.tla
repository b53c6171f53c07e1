-------------------------- MODULE MCResearchState --------------------------
(* Instances of ResearchState for TLC.                                      *)
EXTENDS ResearchState, TLC

\* Reviews and rewritten transcripts commute with the steps of a search, which
\* read neither; they are explored between searches only.
ReadersWait ==
  pc # "idle" => /\ file' = file /\ index' = index
                 /\ draft' = draft \/ notes' # notes

AnyNames == Permutations(Notes) \cup Permutations(Texts)
=============================================================================
