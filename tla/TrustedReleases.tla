--------------------------- MODULE TrustedReleases ---------------------------
(***************************************************************************)
(* What the update channel promises the user, whatever a cache serves, a   *)
(* publisher repeats or a process leaves half done: each release that is   *)
(* trusted follows the one before it, nothing takes that back, and what    *)
(* the operating system is handed is the package of a trusted release.     *)
(***************************************************************************)
EXTENDS Naturals

CONSTANTS
  Docs,  \* signed documents: a sequence number and a package each
  None   \* no release is trusted yet

VARIABLES
  latest,  \* the release that is trusted
  trusted, \* every release that ever was
  handed   \* what was handed to the operating system

releases == <<latest, trusted, handed>>

ReleasesInit == latest = None /\ trusted = {} /\ handed = {}

\* A release of a higher sequence, and no other, takes the place of the latest.
Trust(d) ==
  /\ latest # None => d.seq > latest.seq
  /\ latest' = d
  /\ trusted' = trusted \cup {d}
  /\ UNCHANGED handed

\* The latest release may have been replaced since the user agreed to this one.
HandOver(d) ==
  /\ d \in trusted
  /\ handed' = handed \cup {[doc |-> d, bytes |-> d.package]}
  /\ UNCHANGED <<latest, trusted>>

ReleasesNext == \E d \in Docs : Trust(d) \/ HandOver(d)

ReleasesSpec == ReleasesInit /\ [][ReleasesNext]_releases
=============================================================================
