------------------------------ MODULE MCReader ------------------------------
(* An instance of Reader: the two transcripts are alike.                    *)
EXTENDS Reader, TLC

AnyDoc == Permutations(Docs)

Kept == labels \cup notes \cup Exports

\* One name, note or copy is kept at a time; playback is followed apart from the
\* calls, with which it shares nothing but the transcripts; and nothing is
\* followed past a switch of the tools, after which the first property says nothing.
Small ==
  /\ ~switched
  /\ Cardinality(Kept) <= 1
  /\ prepares # {} \/ sessions # {} => calls = {} /\ Kept = {} /\ publishing = None
=============================================================================
