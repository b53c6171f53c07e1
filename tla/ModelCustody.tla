----------------------------- MODULE ModelCustody -----------------------------
(***************************************************************************)
(* The recognition models on this computer: snapshots in the provider's      *)
(* cache, a manifest for each model that was installed on purpose, the       *)
(* policy bundled with a release, and a transcription that plans with a      *)
(* revision and loads it in every run (model_management/service.py,          *)
(* provider.py, supply_chain/model_trust.py, transcription/planner.py,       *)
(* backend.py).  Installing and removing take steps and may be cut off       *)
(* between any two.                                                         *)
(***************************************************************************)
EXTENDS Naturals

CONSTANTS
  Models, Revisions,
  Policies,      \* by release: the revision each model is pinned to, or NoModel without a policy
  MaxRelease, MaxFaults, \* bounds: upgrades; changes from outside
  NoModel

ASSUME ModelAssumption ==
  /\ MaxRelease \in Nat /\ MaxFaults \in Nat
  /\ Policies \in [0 .. MaxRelease -> [Models -> Revisions] \cup {NoModel}]
  /\ NoModel \notin [revision : Revisions, trusted : BOOLEAN]

VARIABLES
  release,          \* the version of Scholion that is installed
  cache,            \* the provider's: "absent", "partial", "whole", or "altered" at the same length
  manifest,         \* the registry: revision, and whether policy evidence was recorded
  shown,            \* the page: the models last listed
  command,          \* the one command that installs or removes
  job, ran,         \* a job's contract, and what its sessions loaded
  outside           \* bound

modelVars == <<release, cache, manifest, shown, command, job, ran, outside>>

Policy == Policies[release]
Enforced == Policy # NoModel

ModelInit ==
  /\ release = 0
  /\ cache = [m \in Models |-> [r \in Revisions |-> "absent"]]
  /\ manifest = [m \in Models |-> NoModel]
  /\ shown = NoModel /\ command = NoModel
  /\ job = NoModel /\ ran = {} /\ outside = 0

\* The provider's check: the required files are there and not empty.
InPlace(m, r) == cache[m][r] \in {"whole", "altered"}

\* Mutant: a receipt once earned is not looked at again.
ReceiptWillDo(m, r) == Enforced

\* Exactly the files of the pinned revision, each with its digest.
VerifyTrustedSnapshot(m, r) == Enforced /\ r = Policy[m] /\ cache[m][r] = "whole"

ValidateManifest(m, policyRequired) ==
  LET e == manifest[m] IN
    /\ InPlace(m, e.revision)
    /\ e.trusted /\ Enforced => VerifyTrustedSnapshot(m, e.revision)
    /\ policyRequired => e.trusted

\* One manifest that does not validate fails the inventory of all.
InventoryReads == \A m \in Models : manifest[m] # NoModel => ValidateManifest(m, FALSE)

Listing == [m \in Models |-> IF manifest[m] = NoModel THEN NoModel ELSE manifest[m].revision]

ResolvedRevision(m) ==
  manifest[m] # NoModel /\ ValidateManifest(m, Enforced)

-----------------------------------------------------------------------------
(* Commands.                                                                *)

Readiness ==
  /\ shown' = IF InventoryReads THEN Listing ELSE NoModel
  /\ UNCHANGED <<release, cache, manifest, command, job, ran, outside>>

Command(op, m, r) == [op |-> op, model |-> m, revision |-> r]

Begin(c) == command = NoModel /\ command' = c

\* A policy decides the revision; without one it is the provider's choice.
Install(m, r) ==
  /\ Enforced => r = Policy[m]
  /\ Begin(Command("download", m, r))
  /\ UNCHANGED <<release, cache, manifest, shown, job, ran, outside>>

\* The provider completes what is missing, and looks at nothing it has.
Download ==
  /\ command # NoModel /\ command.op = "download"
  /\ LET m == command.model  r == command.revision IN
       /\ cache[m][r] # "altered"
       /\ \E s \in {"partial", "whole"} :
            cache' = [cache EXCEPT ![m][r] = IF @ = "whole" THEN @ ELSE s]
       /\ cache'[m][r] # cache[m][r]
  /\ UNCHANGED <<release, manifest, shown, command, job, ran, outside>>

\* Mutant: the manifest is written whatever the provider says.
RegistersAnyway(m, r) == cache[m][r] # "absent"

Validated(m, r) == InPlace(m, r) /\ (Enforced => VerifyTrustedSnapshot(m, r))

\* The manifest comes last, over the one of an earlier revision if there is one.
Register ==
  /\ command # NoModel /\ command.op = "download" /\ Validated(command.model, command.revision)
  /\ manifest' = [manifest EXCEPT ![command.model] =
                    [revision |-> command.revision, trusted |-> Enforced]]
  /\ command' = NoModel
  /\ UNCHANGED <<release, cache, shown, job, ran, outside>>

\* The desktop removes what its list showed; the command line asks is_installed,
\* which under a policy is an admission, and its owner to confirm.
DesktopRemoves(m) ==
  /\ shown # NoModel /\ shown[m] # NoModel
  /\ InventoryReads /\ Listing[m] = shown[m]

CommandLineRemoves(m) == ResolvedRevision(m)

RemoveModel(m) ==
  /\ DesktopRemoves(m) \/ CommandLineRemoves(m)
  /\ manifest[m] # NoModel /\ ValidateManifest(m, FALSE)
  /\ Begin(Command("delete", m, manifest[m].revision))
  /\ UNCHANGED <<release, cache, manifest, shown, job, ran, outside>>

DeleteRevision ==
  /\ command # NoModel /\ command.op = "delete"
  /\ LET m == command.model  r == command.revision IN
       /\ cache[m][r] # "absent"
       /\ \E s \in {"partial", "absent"} : cache' = [cache EXCEPT ![m][r] = s]
       /\ cache' # cache
  /\ UNCHANGED <<release, manifest, shown, command, job, ran, outside>>

\* Mutant: the manifest goes before the snapshot.
DroppedFirst == TRUE

SnapshotGone == cache[command.model][command.revision] = "absent"

DeleteManifest ==
  /\ command # NoModel /\ command.op = "delete" /\ SnapshotGone
  /\ manifest' = [manifest EXCEPT ![command.model] = NoModel]
  /\ command' = NoModel
  /\ UNCHANGED <<release, cache, shown, job, ran, outside>>

\* Killed, refused or failed, with whatever it had done.
CutOff ==
  /\ command # NoModel /\ command' = NoModel
  /\ UNCHANGED <<release, cache, manifest, shown, job, ran, outside>>

-----------------------------------------------------------------------------
(* A transcription.                                                         *)

PlanJob(m) ==
  /\ job = NoModel /\ ResolvedRevision(m)
  /\ job' = [model |-> m, revision |-> manifest[m].revision]
  /\ UNCHANGED <<release, cache, manifest, shown, command, ran, outside>>

\* Mutant: a resume takes the revision that is installed by now.
InstalledRevision ==
  IF manifest[job.model] = NoModel THEN job.revision ELSE manifest[job.model].revision

\* A resume takes the revision of its checkpoint, and asks no manifest.
ContractRevision == job.revision

\* Each start and resume loads the revision locally, or fails.
OpenSession ==
  /\ job # NoModel /\ InPlace(job.model, ContractRevision)
  /\ ran' = ran \cup {ContractRevision}
  /\ UNCHANGED <<release, cache, manifest, shown, command, job, outside>>

FinishJob ==
  /\ job # NoModel /\ job' = NoModel /\ ran' = {}
  /\ UNCHANGED <<release, cache, manifest, shown, command, outside>>

-----------------------------------------------------------------------------
(* From outside.                                                            *)

UpgradeScholion ==
  /\ release < MaxRelease /\ release' = release + 1
  /\ command = NoModel /\ shown' = NoModel
  /\ UNCHANGED <<cache, manifest, command, job, ran, outside>>

\* Files of the cache are deleted or changed.
Disturb(m, r) ==
  /\ outside < MaxFaults /\ outside' = outside + 1
  /\ cache[m][r] # "absent"
  /\ \E s \in {"absent", "partial", "altered"} :
       /\ s = "altered" => cache[m][r] = "whole"
       /\ cache' = [cache EXCEPT ![m][r] = s]
  /\ UNCHANGED <<release, manifest, shown, command, job, ran>>

ModelNext ==
  \/ Readiness \/ Download \/ Register \/ DeleteRevision \/ DeleteManifest \/ CutOff
  \/ \E m \in Models : RemoveModel(m) \/ PlanJob(m) \/ (\E r \in Revisions : Install(m, r) \/ Disturb(m, r))
  \/ OpenSession \/ FinishJob \/ UpgradeScholion

ModelSpec == ModelInit /\ [][ModelNext]_modelVars

-----------------------------------------------------------------------------
(* Properties.                                                              *)

\* Under a policy a new job is planned with the very bytes this release pins,
\* however they came to be there and whichever release installed them; and a job
\* is heard by the revision it was planned with and no other, over all its runs,
\* upgrades, removals and reinstallations.
RunsWhatWasAdmitted ==
  [][/\ job = NoModel /\ job' # NoModel /\ Enforced =>
          job'.revision = Policy[job'.model] /\ cache[job'.model][job'.revision] = "whole"
     /\ job' # NoModel => ran' \subseteq {job'.revision}]_modelVars

\* A manifest is written for bytes that are in place, and given up only when they
\* are gone or another revision's take its place (model-management.md: the receipt
\* comes last, and Scholion does not forget bytes it failed to remove), whatever is
\* cut off in between.
ReceiptsAreEarned ==
  [][\A m \in Models : manifest'[m] # manifest[m] =>
        IF manifest'[m] = NoModel THEN cache[m][manifest[m].revision] = "absent"
                                  ELSE InPlace(m, manifest'[m].revision)]_modelVars

\* An installed model stays removable, admitted or not (model-management.md).  The
\* code breaks it: the inventory refuses evidence of an earlier policy, and the
\* command line asks for admission first.
StaysRemovable ==
  \A m \in Models :
    manifest[m] # NoModel /\ InPlace(m, manifest[m].revision) /\ command = NoModel =>
      CommandLineRemoves(m) \/ InventoryReads
=============================================================================
