------------------------------ MODULE MCLibrary ------------------------------
(* An instance of Library: one place in the output directory, one on a      *)
(* removable drive that may be remembered.                                  *)
EXTENDS Library, TLC

MCRootOf == <<Output, "drive">>

AnyNames == Permutations(Texts) \cup Permutations(Stamps)
=============================================================================
