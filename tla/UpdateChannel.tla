----------------------------- MODULE UpdateChannel -----------------------------
(***************************************************************************)
(* The application update channel: the locally persisted trust state, the  *)
(* staged packages, and the bridge processes that check, stage and hand    *)
(* over a release (update_channel/service.py, update_activation.rs).       *)
(*                                                                         *)
(* Every bridge process reads trust-state.json, talks to the network, and  *)
(* replaces the file at its end; the host's lock lets one run at a time.   *)
(* The host opens a package after the lock is released.  Documents are the *)
(* ones whose signature verifies: any of them may be served at any time,   *)
(* from a stale cache or by a publisher's mistake.                         *)
(***************************************************************************)
EXTENDS Naturals

CONSTANTS
  Docs,       \* signed documents with a package for this platform
  Channels,   \* the channels documents may be for
  Expected,   \* expected_channel
  MaxTime,    \* bound: days
  MaxVersion, \* bound: versions, in the order of _is_newer
  None,       \* no manifest, no ticket, no staged file
  Damaged     \* a staged file that was lost or is not what was downloaded

Packages == {d.package : d \in Docs}
Seqs     == {d.seq : d \in Docs}

ASSUME DocsAssumption ==
  /\ \A d \in Docs : /\ d.seq \in Nat \ {0} /\ d.version \in 1 .. MaxVersion
                     /\ d.channel \in Channels
                     /\ d.published \in 0 .. MaxTime
                     /\ d.expires \in 0 .. (MaxTime + 1)
  /\ None \notin Docs /\ None \notin Packages
  /\ Damaged \notin Packages /\ Damaged # None
  /\ MaxTime \in Nat /\ MaxVersion \in Nat /\ Expected \in Channels

VARIABLES
  trust,     \* trust-state.json
  staged,    \* updates/staged/release-<seq>-<platform>, by sequence
  installed, \* current_version of the build that runs
  now,       \* the computer's clock
  step,      \* what the bridge process does next
  seen,      \* the trust state it read
  offer,     \* the document it verified
  ticket,    \* the activation ticket in the host's hands
  opened,    \* history: what was handed to the operating system
  believed   \* history: every document that was ever trusted

bridge == <<step, seen, offer>>
channelVars == <<trust, staged, installed, now, bridge, ticket, opened, believed>>

Status == {"never_checked", "up_to_date", "trusted_update_available",
           "staged"}
Trust(highest, status, doc) ==
  [highest |-> highest, status |-> status, doc |-> doc]

\* _is_newer: the build that is installed is older.
Newer(d) == d.version > installed

\* Mutant: the sequence is not compared with the highest that was trusted.
VerifiesUnordered(d) == d.published <= now /\ now < d.expires

\* verify_signed_update_manifest, of a signature that is good.
Verifies(d) ==
  /\ now < d.expires
  /\ d.published <= now
  /\ d.seq >= seen.highest

\* _require_expected_channel
Channelled(d) == d.channel = Expected

Done == /\ step' = "idle" /\ seen' = Trust(0, "never_checked", None)
        /\ offer' = None

-----------------------------------------------------------------------------
(* One bridge process.                                                     *)

\* The host takes its lock and spawns the process, which loads the state.
UpdateCall(method) ==
  /\ step = "idle"
  /\ step' = method
  /\ seen' = trust
  /\ UNCHANGED <<trust, staged, installed, now, offer, ticket, opened,
                 believed>>

\* Mutant: a document that reuses the trusted sequence is as good as it.
FreshReused(d) == TRUE

\* A trusted sequence keeps its signed content.
Fresh(d) == seen.highest = d.seq /\ seen.doc # None => seen.doc = d

\* check: fetch, verify, compare, and save what is trusted now.
Fetch(d) ==
  /\ step = "check"
  /\ Verifies(d) /\ Channelled(d) /\ Fresh(d)
  /\ offer' = d
  /\ step' = "trust"
  /\ UNCHANGED <<trust, staged, installed, now, seen, ticket, opened, believed>>

SaveChecked ==
  /\ step = "trust"
  /\ trust' = Trust(offer.seq,
                    IF Newer(offer) THEN "trusted_update_available"
                                    ELSE "up_to_date",
                    offer)
  /\ believed' = believed \cup {offer}
  /\ Done
  /\ UNCHANGED <<staged, installed, now, ticket, opened>>

\* What stage and the activation candidate ask of the cached manifest.
Usable(d) == d # None /\ Verifies(d) /\ Channelled(d) /\ Newer(d)

\* stage: a temporary file of exactly the signed size and hash replaces the
\* destination; anything else that was downloaded is refused.
Download ==
  /\ step = "stage"
  /\ Usable(seen.doc)
  /\ staged' = [staged EXCEPT ![seen.doc.seq] = seen.doc.package]
  /\ step' = "staged"
  /\ UNCHANGED <<trust, installed, now, seen, offer, ticket, opened, believed>>

SaveStaged ==
  /\ step = "staged"
  /\ trust' = Trust(seen.doc.seq, "staged", seen.doc)
  /\ Done
  /\ UNCHANGED <<staged, installed, now, ticket, opened, believed>>

\* _measure_staged_artifact: the size and the hash the manifest signs.
Measures(d) == staged[d.seq] = d.package

\* native_activation_ticket, for the private bridge only.
Grant ==
  /\ step = "activate"
  /\ seen.status = "staged" /\ Usable(seen.doc) /\ Measures(seen.doc)
  /\ ticket' = seen.doc
  /\ Done
  /\ UNCHANGED <<trust, staged, installed, now, opened, believed>>

\* The request is refused, the network fails, or the process is killed:
\* nothing else is written.
GiveUp ==
  /\ step # "idle"
  /\ Done
  /\ UNCHANGED <<trust, staged, installed, now, ticket, opened, believed>>

-----------------------------------------------------------------------------
(* The host, the user and the machine.                                     *)

\* activate_platform opens the path of the ticket.
Open ==
  /\ ticket # None
  /\ opened' = opened \cup {[doc |-> ticket, bytes |-> staged[ticket.seq]]}
  /\ ticket' = None
  /\ UNCHANGED <<trust, staged, installed, now, bridge, believed>>

\* The ticket is refused by the host, or the host is gone.
DropTicket ==
  /\ ticket # None /\ ticket' = None
  /\ UNCHANGED <<trust, staged, installed, now, bridge, opened, believed>>

\* The user completes an installation, of this release or of any other; a
\* bridge process that runs stays the version it is.
Install ==
  /\ step = "idle"
  /\ \E v \in 1 .. MaxVersion : installed' = v
  /\ UNCHANGED <<trust, staged, now, bridge, ticket, opened, believed>>

\* The disk loses or alters a staged package.  After the ticket was granted
\* that is beyond the channel (update-model-trust.md, same-user tampering).
Damage(s) ==
  /\ staged[s] # None /\ ticket = None
  /\ staged' = [staged EXCEPT ![s] = Damaged]
  /\ UNCHANGED <<trust, installed, now, bridge, ticket, opened, believed>>

DayPasses ==
  /\ now < MaxTime /\ now' = now + 1
  /\ UNCHANGED <<trust, staged, installed, bridge, ticket, opened, believed>>

-----------------------------------------------------------------------------
ChannelInit ==
  /\ trust = Trust(0, "never_checked", None)
  /\ staged = [s \in Seqs |-> None]
  /\ installed = 1 /\ now = 0
  /\ step = "idle" /\ seen = trust /\ offer = None
  /\ ticket = None /\ opened = {} /\ believed = {}

ChannelNext ==
  \/ \E method \in {"check", "stage", "activate"} : UpdateCall(method)
  \/ \E d \in Docs : Fetch(d)
  \/ SaveChecked \/ Download \/ SaveStaged \/ Grant \/ GiveUp
  \/ Open \/ DropTicket \/ Install \/ DayPasses
  \/ \E s \in Seqs : Damage(s)

ChannelSpec == ChannelInit /\ [][ChannelNext]_channelVars

-----------------------------------------------------------------------------
(* Properties.                                                             *)

Trusts == [highest : Seqs \cup {0}, status : Status, doc : Docs \cup {None}]

ChannelTypeOK ==
  /\ trust \in Trusts /\ seen \in Trusts
  /\ trust.highest = IF trust.doc = None THEN 0 ELSE trust.doc.seq
  /\ staged \in [Seqs -> Packages \cup {None, Damaged}]
  /\ installed \in 1 .. MaxVersion /\ now \in 0 .. MaxTime
  /\ step \in {"idle", "check", "trust", "stage", "staged", "activate"}
  /\ offer \in Docs \cup {None} /\ ticket \in Docs \cup {None}
  /\ opened \subseteq [doc : Docs, bytes : Packages \cup {None, Damaged}]
  /\ believed \subseteq Docs

\* The highest sequence that was trusted never falls, whatever old document a
\* cache serves and whatever is staged meanwhile (update-model-trust.md:95).
NeverRollsBack == [][trust'.highest >= trust.highest]_channelVars

\* In the life of an installation one sequence never means two releases.
OneContentPerSequence ==
  \A d, e \in believed : d.seq = e.seq => d = e

\* A state that says staged has its package on disk, unless the disk lost it,
\* wherever a stage or a check was cut off.
StagedIsThere ==
  trust.status = "staged" =>
    staged[trust.highest] \in {trust.doc.package, Damaged}

\* The file that the host opens, after the lock was released and others may
\* have checked and staged, still is the package the ticket's manifest signs,
\* of a release that was trusted and newer.
OpensWhatItGranted ==
  \A o \in opened : o.bytes = o.doc.package /\ o.doc \in believed

-----------------------------------------------------------------------------
(* What is promised of it.                                                 *)

Releases == INSTANCE TrustedReleases WITH
  latest  <- trust.doc,
  trusted <- believed,
  handed  <- opened

\* Every step of every bridge process, of the host and of the disk is a step of
\* that promise, or leaves what the user relies on as it was.
KeepsTrust == Releases!ReleasesSpec
=============================================================================
