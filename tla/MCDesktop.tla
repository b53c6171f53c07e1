----------------------------- MODULE MCDesktop -----------------------------
(* The views of the desktop: two read and change the library, on the third  *)
(* a transcription is set up.  One of them is on screen: they share no      *)
(* state, so each is followed by itself.                                    *)
EXTENDS MCReader, ResearchView, SetupPage

CONSTANTS Speech, Meeting, Retried

VARIABLE page

DesktopInit ==
  /\ page \in {"search", "research", "processing"}
  /\ Init /\ ViewInit /\ SetupInit
  /\ page # "research" => row = [i \in Items |-> 0]
  /\ page # "processing" => wanted.profile = "balanced"

DesktopNext ==
  \/ page = "search" /\ Next /\ UNCHANGED <<page, viewVars, setupVars>>
  \/ page = "research" /\ ViewNext /\ UNCHANGED <<page, vars, setupVars>>
  \/ page = "processing" /\ SetupNext /\ UNCHANGED <<page, vars, viewVars>>

\* A recording of one track and one of two, of which an earlier job was made.
MCTracksOf == Speech :> {1} @@ Meeting :> {1, 2}
MCRecordingOf == Retried :> Meeting

\* Of the lists, which share no rows, one is followed at a time.
OneList ==
  \E l \in Lists :
    /\ editor[l] = Nothing /\ l \notin waiting
    /\ \A c \in asked : c.list # l
    /\ \A i \in l : listed[i] = 0 /\ row[i] = 0
=============================================================================
