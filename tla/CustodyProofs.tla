---------------------------- MODULE CustodyProofs ----------------------------
(***************************************************************************)
(* Theorems about what Scholion holds, for every value of the constants:   *)
(* the models on the computer (ModelCustody) and the material of one       *)
(* transcript (Custody).                                                   *)
(***************************************************************************)
EXTENDS Custody, ModelCustody, FiniteSetTheorems, TLAPS

-----------------------------------------------------------------------------
(* The models.                                                             *)

Manifests == [revision : Revisions, trusted : BOOLEAN]
Commands  == [op : {"download", "delete"}, model : Models, revision : Revisions]
Jobs      == [model : Models, revision : Revisions]
Snapshots == {"absent", "partial", "whole", "altered"}

ModelShape ==
  /\ release \in 0 .. MaxRelease
  /\ cache \in [Models -> [Revisions -> Snapshots]]
  /\ manifest \in [Models -> Manifests \cup {NoModel}]
  /\ command \in Commands \cup {NoModel}
  /\ job \in Jobs \cup {NoModel}

\* The command that removes a model is about the manifest that is there.
RemovesWhatIsListed ==
  command # NoModel /\ command.op = "delete" =>
    /\ manifest[command.model] # NoModel
    /\ manifest[command.model].revision = command.revision

\* A job was heard by the revision of its contract.
HeardByOne == ran \subseteq (IF job = NoModel THEN {} ELSE {job.revision})

ModelInv == ModelShape /\ RemovesWhatIsListed /\ HeardByOne

LEMMA ModelInvInit == ModelInit => ModelInv
BY ModelAssumption DEF ModelInit, ModelInv, ModelShape, RemovesWhatIsListed, HeardByOne, Snapshots

\* A command that begins is one.
LEMMA CommandType ==
  ASSUME NEW op \in {"download", "delete"}, NEW m \in Models, NEW r \in Revisions
  PROVE  /\ Command(op, m, r) \in Commands
         /\ Command(op, m, r).op = op
         /\ Command(op, m, r).model = m
         /\ Command(op, m, r).revision = r
BY DEF Command, Commands

\* What the commands and the jobs leave alone.
LEMMA ModelFrame ==
  ASSUME ModelInv, UNCHANGED <<manifest, command>>
  PROVE  RemovesWhatIsListed'
BY DEF ModelInv, RemovesWhatIsListed

LEMMA CacheStep ==
  ASSUME ModelInv, NEW m \in Models, NEW r \in Revisions, NEW s \in Snapshots,
         cache' = [cache EXCEPT ![m][r] = s]
  PROVE  cache' \in [Models -> [Revisions -> Snapshots]]
BY DEF ModelInv, ModelShape

LEMMA ModelStep == ModelInv /\ [ModelNext]_modelVars => ModelInv'
<1> SUFFICES ASSUME ModelInv, [ModelNext]_modelVars PROVE ModelInv'
  OBVIOUS
<1> USE DEF ModelInv
<1>1. CASE Readiness
  BY <1>1, ModelFrame DEF Readiness, ModelShape, HeardByOne
<1>2. CASE Download
  <2>1. command \in Commands
    BY <1>2 DEF Download, ModelShape
  <2> DEFINE m == command.model  r == command.revision
  <2>2. m \in Models /\ r \in Revisions
    BY <2>1 DEF Commands
  <2>3. PICK s \in {"partial", "whole"} :
          cache' = [cache EXCEPT ![m][r] = IF @ = "whole" THEN @ ELSE s]
    BY <1>2 DEF Download
  <2>4. cache' \in [Models -> [Revisions -> Snapshots]]
    BY <2>2, <2>3 DEF ModelShape, Snapshots
  <2> QED BY <1>2, <2>4, ModelFrame DEF Download, ModelShape, HeardByOne
<1>3. CASE Register
  <2>1. command \in Commands
    BY <1>3 DEF Register, ModelShape
  <2>2. [revision |-> command.revision, trusted |-> Enforced] \in Manifests
    BY <2>1 DEF Commands, Manifests, Enforced
  <2>3. manifest' \in [Models -> Manifests \cup {NoModel}]
    BY <1>3, <2>2 DEF Register, ModelShape
  <2> QED BY <1>3, <2>3 DEF Register, ModelShape, RemovesWhatIsListed, HeardByOne
<1>4. CASE DeleteRevision
  <2>1. command \in Commands
    BY <1>4 DEF DeleteRevision, ModelShape
  <2>2. PICK s \in {"partial", "absent"} :
          cache' = [cache EXCEPT ![command.model][command.revision] = s]
    BY <1>4 DEF DeleteRevision
  <2>3. cache' \in [Models -> [Revisions -> Snapshots]]
    BY <2>1, <2>2 DEF ModelShape, Snapshots, Commands
  <2> QED BY <1>4, <2>3, ModelFrame DEF DeleteRevision, ModelShape, HeardByOne
<1>5. CASE DeleteManifest
  BY <1>5 DEF DeleteManifest, ModelShape, RemovesWhatIsListed, HeardByOne
<1>6. CASE CutOff
  BY <1>6 DEF CutOff, ModelShape, RemovesWhatIsListed, HeardByOne
<1>7. ASSUME NEW m \in Models, RemoveModel(m) PROVE ModelInv'
  <2>1. manifest[m] \in Manifests
    BY <1>7 DEF RemoveModel, ModelShape
  <2>2. manifest[m].revision \in Revisions
    BY <2>1 DEF Manifests
  <2>3. command' = Command("delete", m, manifest[m].revision)
    BY <1>7 DEF RemoveModel, Begin
  <2>4. command' \in Commands
    BY <2>2, <2>3, CommandType
  <2>5. command'.model = m /\ command'.revision = manifest[m].revision
    BY <2>2, <2>3, CommandType
  <2> QED BY <1>7, <2>4, <2>5 DEF RemoveModel, ModelShape, RemovesWhatIsListed, HeardByOne
<1>8. ASSUME NEW m \in Models, PlanJob(m) PROVE ModelInv'
  <2>1. manifest[m] \in Manifests
    BY <1>8 DEF PlanJob, ResolvedRevision, ModelShape
  <2>2. job' \in Jobs
    BY <1>8, <2>1 DEF PlanJob, Manifests, Jobs
  <2> QED BY <1>8, <2>2, ModelFrame DEF PlanJob, ModelShape, HeardByOne
<1>9. ASSUME NEW m \in Models, NEW r \in Revisions, Install(m, r) PROVE ModelInv'
  <2>1. command' = Command("download", m, r)
    BY <1>9 DEF Install, Begin
  <2>2. command' \in Commands /\ command'.op = "download"
    BY <2>1, CommandType
  <2> QED BY <1>9, <2>2 DEF Install, ModelShape, RemovesWhatIsListed, HeardByOne
<1>10. ASSUME NEW m \in Models, NEW r \in Revisions, Disturb(m, r) PROVE ModelInv'
  <2>1. PICK s \in {"absent", "partial", "altered"} : cache' = [cache EXCEPT ![m][r] = s]
    BY <1>10 DEF Disturb
  <2>2. cache' \in [Models -> [Revisions -> Snapshots]]
    BY <2>1 DEF ModelShape, Snapshots
  <2> QED BY <1>10, <2>2, ModelFrame DEF Disturb, ModelShape, HeardByOne
<1>11. CASE OpenSession
  BY <1>11, ModelFrame DEF OpenSession, ContractRevision, ModelShape, HeardByOne
<1>12. CASE FinishJob
  BY <1>12, ModelFrame DEF FinishJob, ModelShape, HeardByOne
<1>13. CASE UpgradeScholion
  BY <1>13, ModelFrame, ModelAssumption DEF UpgradeScholion, ModelShape, HeardByOne
<1>14. CASE UNCHANGED modelVars
  BY <1>14, ModelFrame DEF modelVars, ModelShape, HeardByOne
<1> QED
  BY <1>1, <1>2, <1>3, <1>4, <1>5, <1>6, <1>7, <1>8, <1>9, <1>10, <1>11, <1>12,
     <1>13, <1>14 DEF ModelNext

\* What a step of the models never does: plan what is not admitted, or hear with
\* another revision than the contract's (RunsWhatWasAdmitted, the step itself).
LEMMA AdmittedStep ==
  ASSUME ModelInv, ModelNext
  PROVE  /\ job = NoModel /\ job' # NoModel /\ Enforced =>
              job'.revision = Policy[job'.model] /\ cache[job'.model][job'.revision] = "whole"
         /\ job' # NoModel => ran' \subseteq {job'.revision}
<1>1. job' # NoModel => ran' \subseteq {job'.revision}
  <2>1. ModelInv'
    BY ModelStep
  <2> QED BY <2>1 DEF ModelInv, HeardByOne
<1>2. ASSUME job = NoModel, job' # NoModel, Enforced
      PROVE  job'.revision = Policy[job'.model] /\ cache[job'.model][job'.revision] = "whole"
  <2>1. PICK m \in Models : PlanJob(m)
    BY <1>2 DEF ModelNext, Readiness, Download, Register, DeleteRevision, DeleteManifest, CutOff,
                RemoveModel, Install, Disturb, OpenSession, FinishJob, UpgradeScholion
  <2>2. VerifyTrustedSnapshot(m, manifest[m].revision)
    BY <1>2, <2>1 DEF PlanJob, ResolvedRevision, ValidateManifest
  <2>3. job'.model = m /\ job'.revision = manifest[m].revision
    BY <2>1 DEF PlanJob
  <2> QED BY <2>2, <2>3 DEF VerifyTrustedSnapshot
<1> QED BY <1>1, <1>2

\* Under a policy a job is planned with the bytes the release pins, and heard by
\* the revision of its contract alone, over any number of releases, removals,
\* installations and disturbances of the cache.
THEOREM AdmissionHolds == ModelSpec => RunsWhatWasAdmitted
<1> DEFINE Fine ==
      /\ job = NoModel /\ job' # NoModel /\ Enforced =>
           job'.revision = Policy[job'.model] /\ cache[job'.model][job'.revision] = "whole"
      /\ job' # NoModel => ran' \subseteq {job'.revision}
<1>1. ModelInv /\ [ModelNext]_modelVars => ModelInv' /\ [Fine]_modelVars
  BY ModelStep, AdmittedStep
<1>2. [][Fine]_modelVars => RunsWhatWasAdmitted
  BY DEF RunsWhatWasAdmitted
<1> HIDE DEF Fine
<1> QED BY ModelInvInit, <1>1, <1>2, PTL DEF ModelSpec

LEMMA ReceiptStep ==
  ASSUME ModelInv, ModelNext, NEW m \in Models, manifest'[m] # manifest[m]
  PROVE  IF manifest'[m] = NoModel THEN cache[m][manifest[m].revision] = "absent"
                                   ELSE InPlace(m, manifest'[m].revision)
<1>1. Register \/ DeleteManifest
  BY DEF ModelNext, Readiness, Download, DeleteRevision, CutOff,
         RemoveModel, PlanJob, Install, Disturb, OpenSession, FinishJob, UpgradeScholion
<1>2. CASE Register
  <2>1. manifest' = [manifest EXCEPT ![command.model] =
                       [revision |-> command.revision, trusted |-> Enforced]]
    BY <1>2 DEF Register
  <2>2. m = command.model /\ manifest'[m] = [revision |-> command.revision, trusted |-> Enforced]
    BY <2>1 DEF ModelInv, ModelShape
  <2>3. command \in Commands
    BY <1>2 DEF Register, ModelInv, ModelShape
  <2>4. manifest'[m] \in [revision : Revisions, trusted : BOOLEAN]
    BY <2>2, <2>3 DEF Commands, Enforced
  <2>5. manifest'[m] # NoModel
    BY <2>4, ModelAssumption
  <2>6. InPlace(m, command.revision)
    BY <1>2, <2>2 DEF Register, Validated
  <2> QED BY <2>2, <2>5, <2>6
<1>3. CASE DeleteManifest
  <2>1. m = command.model /\ manifest'[m] = NoModel
    BY <1>3 DEF DeleteManifest, ModelInv, ModelShape
  <2>2. manifest[m].revision = command.revision
    BY <1>3, <2>1 DEF DeleteManifest, ModelInv, RemovesWhatIsListed
  <2> QED BY <1>3, <2>1, <2>2 DEF DeleteManifest, SnapshotGone
<1> QED BY <1>1, <1>2, <1>3

\* A receipt is written only for bytes that are in place, and given up only when
\* they are gone, wherever an installation or a removal is cut off.
THEOREM ReceiptsHold == ModelSpec => ReceiptsAreEarned
<1> DEFINE Earned ==
      \A m \in Models : manifest'[m] # manifest[m] =>
        IF manifest'[m] = NoModel THEN cache[m][manifest[m].revision] = "absent"
                                  ELSE InPlace(m, manifest'[m].revision)
<1>1. ModelInv /\ [ModelNext]_modelVars => ModelInv' /\ [Earned]_modelVars
  BY ModelStep, ReceiptStep
<1>2. [][Earned]_modelVars => ReceiptsAreEarned
  BY DEF ReceiptsAreEarned
<1> HIDE DEF Earned
<1> QED BY ModelInvInit, <1>1, <1>2, PTL DEF ModelSpec

-----------------------------------------------------------------------------
(* The material of one transcript.  What a deletion lists.                  *)

\* What can be made again, and what people wrote.
Rebuildable == {"lexical-index", "semantic-index", "export", "workspace", "canonical", "recording"}
Written     == {"search", "note"}

Targets == Rebuildable \cup Written
Subjects == {""} \cup Exports \cup Searches \cup Notes

Actions ==
  {a \in Targets \X Subjects : /\ a[1] = "export" => a[2] \in Exports
                               /\ a[1] = "search" => a[2] \in Searches
                               /\ a[1] = "note"   => a[2] \in Notes
                               /\ a[2] = "" \/ a[1] = "export" \/ a[1] = "search" \/ a[1] = "note"}

\* The recording is listed only if it was asked for, a note only if it is on the
\* indexed generation.
RebuildableOf(scopes) ==
  {a \in Actions : a[1] \in Rebuildable /\ (a[1] = "recording" => "source-recording" \in scopes)}

WrittenNow == {a \in Actions : a[1] \in Written /\ (a[1] = "note" => a[2] \in GenerationNotes)}

\* Nothing that can be made again is deleted after what people wrote.
WrittenLast(s) ==
  \A i, j \in DOMAIN s : i < j /\ s[i][1] \in Written => s[j][1] \in Written

\* A set of the material, listed, is a sequence of actions upon its members.
LEMMA ListedType ==
  ASSUME NEW target, NEW ids, IsFiniteSet(ids)
  PROVE  Listed(target, ids) \in Seq({target} \X ids)
<1> DEFINE n == Cardinality(ids)
<1>1. n \in Nat /\ ExistsBijection(1 .. n, ids)
  BY FS_CardinalityType
<1>2. \E f \in [1 .. n -> ids] : IsInjective(f)
  BY <1>1 DEF ExistsBijection, Bijection, Injection, IsInjective
<1>3. SetToSeq(ids) \in [1 .. n -> ids]
  BY <1>2 DEF SetToSeq
<1>4. \A i \in 1 .. n : <<target, SetToSeq(ids)[i]>> \in {target} \X ids
  BY <1>3
<1> QED BY <1>1, <1>4 DEF Listed

LEMMA SingleType ==
  ASSUME NEW S, NEW a \in S
  PROVE  <<a>> \in Seq(S)
OBVIOUS

LEMMA NoneType ==
  ASSUME NEW S
  PROVE  <<>> \in Seq(S)
OBVIOUS

LEMMA JoinType ==
  ASSUME NEW S, NEW s \in Seq(S), NEW t \in Seq(S)
  PROVE  s \o t \in Seq(S)
OBVIOUS

LEMMA PairOf ==
  ASSUME NEW S, NEW T, NEW a \in S \X T
  PROVE  a = <<a[1], a[2]>>
OBVIOUS

LEMMA PartsOf ==
  ASSUME NEW a, NEW b, NEW p, p = <<a, b>>
  PROVE  p[1] = a /\ p[2] = b
OBVIOUS

LEMMA WhenType ==
  ASSUME NEW S, NEW s \in Seq(S), NEW scope, NEW scopes
  PROVE  When(scope, scopes, s) \in Seq(S)
BY DEF When

LEMMA Wider ==
  ASSUME NEW S, NEW T, S \subseteq T, NEW s \in Seq(S)
  PROVE  s \in Seq(T)
OBVIOUS

\* Two parts with what people wrote after a part without it.
LEMMA Behind ==
  ASSUME NEW S, NEW T, NEW s \in Seq(S), NEW t \in Seq(T), NEW u \in Seq(T),
         \A a \in S : a[1] \notin Written, \A a \in T : a[1] \in Written
  PROVE  WrittenLast((s \o t) \o u)
<1> DEFINE w == (s \o t) \o u
<1>1. /\ Len(w) = Len(s) + Len(t) + Len(u)
      /\ \A i \in 1 .. Len(s) : w[i] = s[i]
      /\ \A i \in Len(s) + 1 .. Len(s) + Len(t) : w[i] = t[i - Len(s)]
      /\ \A i \in Len(s) + Len(t) + 1 .. Len(w) : w[i] = u[i - Len(s) - Len(t)]
  OBVIOUS
<1>2. DOMAIN w = 1 .. Len(w) /\ Len(s) \in Nat /\ Len(t) \in Nat /\ Len(u) \in Nat
  OBVIOUS
<1> HIDE DEF w
<1>3. ASSUME NEW i \in DOMAIN w, i > Len(s)
      PROVE  w[i][1] \in Written
  <2>1. CASE i <= Len(s) + Len(t)
    BY <1>1, <1>2, <1>3, <2>1
  <2>2. CASE i > Len(s) + Len(t)
    <3>1. i - Len(s) - Len(t) \in 1 .. Len(u)
      BY <1>1, <1>2, <1>3, <2>2
    <3>2. i \in Len(s) + Len(t) + 1 .. Len(w)
      BY <1>1, <1>2, <1>3, <2>2
    <3>3. w[i] = u[i - Len(s) - Len(t)]
      BY <1>1, <3>2
    <3> QED BY <3>1, <3>3
  <2> QED BY <2>1, <2>2, <1>1, <1>2, <1>3
<1>4. ASSUME NEW i \in DOMAIN w, w[i][1] \in Written
      PROVE  i > Len(s)
  BY <1>1, <1>2, <1>4
<1>5. WrittenLast(w)
  BY <1>1, <1>2, <1>3, <1>4 DEF WrittenLast
<1> QED BY <1>5 DEF w

USE MaterialAssumption

LEMMA Rebuilt ==
  ASSUME NEW scopes, NEW target \in Rebuildable, target # "export",
         target = "recording" => "source-recording" \in scopes
  PROVE  <<target, "">> \in RebuildableOf(scopes)
<1>1. target # "search" /\ target # "note"
  BY DEF Rebuildable
<1> QED BY <1>1 DEF RebuildableOf, Actions, Targets, Subjects

\* What the plan for some scopes lists, and in which order.
LEMMA DeletionActionsFacts ==
  ASSUME TypeOK, NEW scopes
  PROVE  /\ DeletionActions(scopes) \in Seq(RebuildableOf(scopes) \cup WrittenNow)
         /\ WrittenLast(DeletionActions(scopes))
<1> DEFINE R == RebuildableOf(scopes)
           W1 == When("library-view", scopes, LibraryActions)
           W2 == When("derived-artifacts", scopes, Listed("export", exports))
           W3 == When("execution-state", scopes, IF workspace THEN <<<<"workspace", "">>>> ELSE <<>>)
           W4 == When("canonical-transcript", scopes, <<<<"canonical", "">>>>)
           W5 == When("source-recording", scopes, <<<<"recording", "">>>>)
           W6 == When("saved-searches", scopes, Listed("search", searches))
           W7 == When("research-notes", scopes, Listed("note", GenerationNotes))
<1>1. W1 \in Seq(R)
  <2>1. <<"lexical-index", "">> \in R
    BY Rebuilt DEF Rebuildable
  <2>2. <<"semantic-index", "">> \in R
    BY Rebuilt DEF Rebuildable
  <2> HIDE DEF R
  <2>3. LibraryActions \in Seq(R)
    <3>1. <<<<"lexical-index", "">>>> \in Seq(R)
      BY <2>1, SingleType
    <3>2. <<<<"semantic-index", "">>>> \in Seq(R)
      BY <2>2, SingleType
    <3>3. (IF semantic THEN <<<<"semantic-index", "">>>> ELSE <<>>) \in Seq(R)
      BY <3>2, NoneType
    <3> QED BY <3>1, <3>3, JoinType DEF LibraryActions
  <2> QED BY <2>3, WhenType
<1>2. W2 \in Seq(R)
  <2>1. IsFiniteSet(exports)
    BY FS_Subset DEF TypeOK
  <2>2. {"export"} \X exports \subseteq R
    BY DEF TypeOK, RebuildableOf, Actions, Targets, Subjects, Rebuildable
  <2> HIDE DEF R
  <2>3. Listed("export", exports) \in Seq({"export"} \X exports)
    BY <2>1, ListedType
  <2>4. Listed("export", exports) \in Seq(R)
    BY <2>2, <2>3, Wider
  <2> QED BY <2>4, WhenType
<1>3. W3 \in Seq(R)
  <2>1. <<"workspace", "">> \in R
    BY Rebuilt DEF Rebuildable
  <2> HIDE DEF R
  <2>2. (IF workspace THEN <<<<"workspace", "">>>> ELSE <<>>) \in Seq(R)
    BY <2>1, SingleType, NoneType
  <2> QED BY <2>2, WhenType
<1>4. W4 \in Seq(R)
  <2>1. <<"canonical", "">> \in R
    BY Rebuilt DEF Rebuildable
  <2> QED BY <2>1, SingleType, WhenType
<1>5. W5 \in Seq(R)
  <2>1. CASE "source-recording" \in scopes
    <3>1. <<"recording", "">> \in R
      BY <2>1, Rebuilt DEF Rebuildable
    <3> QED BY <3>1, SingleType, WhenType
  <2>2. CASE "source-recording" \notin scopes
    BY <2>2 DEF When
  <2> QED BY <2>1, <2>2
<1>6. W6 \in Seq(WrittenNow)
  <2>1. IsFiniteSet(searches)
    BY FS_Subset DEF TypeOK
  <2>2. {"search"} \X searches \subseteq WrittenNow
    BY DEF TypeOK, WrittenNow, Actions, Targets, Subjects, Written
  <2>3. Listed("search", searches) \in Seq({"search"} \X searches)
    BY <2>1, ListedType
  <2>4. Listed("search", searches) \in Seq(WrittenNow)
    BY <2>2, <2>3, Wider
  <2> QED BY <2>4, WhenType
<1>7. W7 \in Seq(WrittenNow)
  <2>1. IsFiniteSet(GenerationNotes)
    BY FS_Subset DEF GenerationNotes
  <2>2. {"note"} \X GenerationNotes \subseteq WrittenNow
    BY DEF GenerationNotes, WrittenNow, Actions, Targets, Subjects, Written
  <2>3. Listed("note", GenerationNotes) \in Seq({"note"} \X GenerationNotes)
    BY <2>1, ListedType
  <2>4. Listed("note", GenerationNotes) \in Seq(WrittenNow)
    BY <2>2, <2>3, Wider
  <2> QED BY <2>4, WhenType
<1>8. DeletionActions(scopes) = (((((W1 \o W2) \o W3) \o W4) \o W5) \o W6) \o W7
  BY DEF DeletionActions
<1> HIDE DEF W1, W2, W3, W4, W5, W6, W7
<1>9. (((W1 \o W2) \o W3) \o W4) \o W5 \in Seq(R)
  BY <1>1, <1>2, <1>3, <1>4, <1>5
<1>10. (\A a \in R : a[1] \notin Written) /\ (\A a \in WrittenNow : a[1] \in Written)
  BY DEF RebuildableOf, WrittenNow, Rebuildable, Written
<1> HIDE DEF R
<1>11. WrittenLast(DeletionActions(scopes))
  BY <1>6, <1>7, <1>8, <1>9, <1>10, Behind
<1>12. DeletionActions(scopes) \in Seq(R \cup WrittenNow)
  <2> DEFINE V == R \cup WrittenNow
             w == (((W1 \o W2) \o W3) \o W4) \o W5
  <2>1. w \in Seq(V) /\ W6 \in Seq(V) /\ W7 \in Seq(V)
    BY <1>6, <1>7, <1>9, Wider
  <2>2. DeletionActions(scopes) = (w \o W6) \o W7
    BY <1>8
  <2> HIDE DEF w, V
  <2>3. DeletionActions(scopes) \in Seq(V)
    BY <2>1, <2>2
  <2> QED BY <2>3 DEF V
<1> QED BY <1>11, <1>12 DEF R

-----------------------------------------------------------------------------
(* A deletion that is being carried out.                                    *)

Left(target, id) == \E i \in DOMAIN todo : todo[i] = <<target, id>>

Sound ==
  /\ todo \in Seq(Actions)
  /\ todo # <<>> => executing # None
  /\ executing # None => \A i \in DOMAIN todo : Planned(todo[i][1], todo[i][2])
  /\ WrittenLast(todo)

\* The inputs that the deletion looked at when it began.
Checked ==
  executing # None =>
    /\ Planned("canonical", "") => begun.canonical = executing.digest
    /\ Planned("recording", "") => begun.recording = "transcribed"
    /\ \A n \in Notes : Planned("note", n) => notes[n] \in {executing.digest, None}

\* What was listed is still to be done, or done; files may have come back.
Accounted ==
  executing # None =>
    /\ begun.changes \in Nat /\ begun.changes <= changes
    /\ Planned("lexical-index", "") => Left("lexical-index", "") \/ indexed = None
    /\ Planned("semantic-index", "") => Left("semantic-index", "") \/ ~semantic
    /\ changes = begun.changes =>
         /\ Planned("canonical", "") => Left("canonical", "") \/ canonical = None
         /\ Planned("recording", "") => Left("recording", "") \/ recording = None
         /\ \A e \in exports : Planned("export", e) => Left("export", e)

CustodyInv == TypeOK /\ Sound /\ Checked /\ Accounted

LEMMA CustodyInvInit == Init => CustodyInv
<1> SUFFICES ASSUME Init PROVE CustodyInv
  OBVIOUS
<1>1. TypeOK
  BY RequestsAssumption DEF Init, TypeOK
<1>2. todo \in Seq(Actions) /\ DOMAIN todo = {}
  BY DEF Init
<1>3. Sound
  BY <1>2 DEF Init, Sound, WrittenLast
<1>4. Checked /\ Accounted
  BY DEF Init, Checked, Accounted
<1> QED BY <1>1, <1>3, <1>4 DEF CustodyInv

LEMMA CustodyTypeStep == TypeOK /\ [Next]_vars => TypeOK'
<1> SUFFICES ASSUME TypeOK, [Next]_vars PROVE TypeOK'
  OBVIOUS
<1> USE RequestsAssumption DEF TypeOK
<1>1. CASE UNCHANGED <<files, stores, changes>>
  BY <1>1 DEF files, stores
<1>2. CASE ExecuteAction
  BY <1>2 DEF ExecuteAction, Effect
<1>3. CASE ChangeFiles
  <2>1. changes' \in 0 .. MaxChanges
    BY <1>3 DEF ChangeFiles, Change
  <2>2. canonical' \in Texts \cup {None} /\ exports' \subseteq Exports /\ workspace' \in BOOLEAN
    BY <1>3 DEF ChangeFiles
  <2>3. recording' \in {"transcribed", "another", None}
    BY <1>3 DEF ChangeFiles
  <2> QED BY <1>3, <2>1, <2>2, <2>3 DEF ChangeFiles, stores
<1>4. CASE RefreshLibrary
  <2>1. changes' \in 0 .. MaxChanges
    BY <1>4 DEF RefreshLibrary, Change
  <2> QED BY <1>4, <2>1 DEF RefreshLibrary, files
<1>5. CASE RebuildSemantic
  BY <1>5 DEF RebuildSemantic, Change, files
<1>6. CASE ChangeResearch
  BY <1>6 DEF ChangeResearch, Change, files
<1>7. ASSUME NEW scopes \in Requests, NEW allow \in BOOLEAN, Review(scopes, allow)
      PROVE  UNCHANGED <<files, stores, changes>>
  BY <1>7 DEF Review
<1>8. ASSUME NEW allow \in BOOLEAN, Execute(allow)
      PROVE  UNCHANGED <<files, stores, changes>>
  BY <1>8 DEF Execute
<1>9. Discard \/ Receipt \/ CutShort \/ UNCHANGED vars => UNCHANGED <<files, stores, changes>>
  BY DEF Discard, Receipt, CutShort, vars
<1> QED BY <1>1, <1>2, <1>3, <1>4, <1>5, <1>6, <1>7, <1>8, <1>9 DEF Next

\* Whoever waits for the deletion to end says nothing about one that runs.
LEMMA QuietStep ==
  ASSUME CustodyInv, TypeOK', Quiet, UNCHANGED <<todo, executing>>
  PROVE  CustodyInv'
<1>1. executing' = None
  BY DEF Quiet
<1>2. Checked' /\ Accounted'
  BY <1>1 DEF Checked, Accounted
<1>3. WrittenLast(todo)'
  BY DEF CustodyInv, Sound, WrittenLast
<1>4. Sound'
  BY <1>1, <1>3 DEF CustodyInv, Sound
<1> QED BY <1>2, <1>4 DEF CustodyInv

\* A deletion that ends leaves nothing to be done.
LEMMA StopStep ==
  ASSUME TypeOK', Stop
  PROVE  CustodyInv'
<1>1. todo' \in Seq(Actions) /\ DOMAIN todo' = {} /\ executing' = None
  BY DEF Stop
<1>2. Sound'
  BY <1>1 DEF Sound, WrittenLast, Stop
<1>3. Checked' /\ Accounted'
  BY <1>1 DEF Checked, Accounted
<1> QED BY <1>2, <1>3 DEF CustodyInv

\* What a deletion begins with: the plan reviewed is the plan of this moment.
LEMMA ExecuteStep ==
  ASSUME CustodyInv, TypeOK', NEW allow \in BOOLEAN, Execute(allow)
  PROVE  CustodyInv'
<1> DEFINE acts == DeletionActions(Effective(plan.requested))
<1>1. plan = PlanFor(plan.requested)
  BY DEF Execute
<1>2. plan.actions = acts /\ plan.digest = indexed
  <2> DEFINE p == PlanFor(plan.requested)
  <2>1. p.actions = acts /\ p.digest = indexed
    BY DEF PlanFor
  <2> HIDE DEF p
  <2>2. plan = p
    BY <1>1 DEF p
  <2> QED BY <2>1, <2>2
<1>3. acts \in Seq(RebuildableOf(Effective(plan.requested)) \cup WrittenNow) /\ WrittenLast(acts)
  BY DeletionActionsFacts DEF CustodyInv
<1> DEFINE S == RebuildableOf(Effective(plan.requested)) \cup WrittenNow
<1>4. acts \in Seq(S)
  BY <1>3
<1>5. executing' = plan /\ todo' = plan.actions /\ executing'.actions = acts /\ todo' = acts
      /\ executing'.digest = indexed
  BY <1>2 DEF Execute
<1> HIDE DEF acts
<1>6. \A t, id : Planned(t, id)' <=> \E i \in DOMAIN todo' : todo'[i] = <<t, id>>
  BY <1>5 DEF Planned, Range
<1>7. \A t, id : Planned(t, id)' <=> Left(t, id)'
  BY <1>6 DEF Left
<1>8. \A t, id : Planned(t, id)' => <<t, id>> \in S
  BY <1>4, <1>5, <1>6
<1> HIDE DEF S
<1>9. S \subseteq Actions
  BY DEF S, RebuildableOf, WrittenNow
<1>10. \A a \in Actions : a = <<a[1], a[2]>>
  BY PairOf DEF Actions
<1>11. Sound'
  <2>1. todo' \in Seq(Actions)
    BY <1>4, <1>5, <1>9, Wider
  <2>2. \A i \in DOMAIN todo' : todo'[i] = <<todo'[i][1], todo'[i][2]>>
    BY <2>1, <1>10
  <2>3. (\A i \in DOMAIN todo : Planned(todo[i][1], todo[i][2]))'
    <3> SUFFICES ASSUME NEW i \in DOMAIN todo' PROVE Planned(todo[i][1], todo[i][2])'
      OBVIOUS
    <3>1. todo'[i] = <<todo'[i][1], todo'[i][2]>>
      BY <2>2
    <3> QED BY <1>5, <3>1 DEF Planned, Range
  <2>4. WrittenLast(todo)'
    BY <1>3, <1>5 DEF WrittenLast
  <2>5. executing' # None
    BY <1>5 DEF Execute
  <2> QED BY <2>1, <2>3, <2>4, <2>5 DEF Sound
<1>12. Checked'
  <2>1. begun' = Beginning /\ UNCHANGED <<files, stores>>
    BY DEF Execute
  <2>2. ASSUME Planned("canonical", "")' PROVE begun'.canonical = executing'.digest
    <3>1. PICK i \in DOMAIN plan.actions : plan.actions[i] = <<"canonical", "">>
      BY <1>5, <1>6, <2>2
    <3> DEFINE a == plan.actions[i]
    <3>2. a[1] = "canonical"
      <4>1. a = <<"canonical", "">>
        BY <3>1
      <4> HIDE DEF a
      <4> QED BY <4>1, PartsOf
    <3>3. \A j \in DOMAIN plan.actions : plan.actions[j][1] = "canonical" => canonical = plan.digest
      BY DEF Execute, InputsHold
    <3>4. canonical = plan.digest
      BY <3>1, <3>2, <3>3
    <3> QED BY <3>4, <2>1, <1>5 DEF Beginning
  <2>3. ASSUME Planned("recording", "")' PROVE begun'.recording = "transcribed"
    <3>1. <<"recording", "">> \in S
      BY <1>8, <2>3
    <3>2. "source-recording" \in Effective(plan.requested)
      BY <3>1 DEF S, RebuildableOf, WrittenNow, Written
    <3>3. "source-recording" \in plan.requested
      BY <3>2 DEF Effective
    <3> QED BY <3>3, <2>1 DEF Execute, CanPlan, SourceAllowed, Beginning
  <2>4. ASSUME NEW n \in Notes, Planned("note", n)' PROVE notes'[n] = executing'.digest
    <3>1. <<"note", n>> \in S
      BY <1>8, <2>4
    <3>2. n \in GenerationNotes
      BY <3>1 DEF S, RebuildableOf, WrittenNow, Rebuildable
    <3> QED BY <3>2, <2>1, <1>5 DEF GenerationNotes, stores
  <2> QED BY <2>2, <2>3, <2>4 DEF Checked
<1>13. Accounted'
  <2>1. begun'.changes = changes /\ changes' = changes /\ changes \in Nat
    BY RequestsAssumption DEF Execute, Beginning, CustodyInv, TypeOK
  <2>2. begun'.changes \in Nat /\ begun'.changes <= changes'
    BY <2>1
  <2>3. Planned("lexical-index", "")' => Left("lexical-index", "")'
    BY <1>7
  <2>4. Planned("semantic-index", "")' => Left("semantic-index", "")'
    BY <1>7
  <2>5. Planned("canonical", "")' => Left("canonical", "")'
    BY <1>7
  <2>6. Planned("recording", "")' => Left("recording", "")'
    BY <1>7
  <2>7. \A e \in exports' : Planned("export", e)' => Left("export", e)'
    BY <1>7
  <2> QED BY <2>2, <2>3, <2>4, <2>5, <2>6, <2>7 DEF Accounted
<1> QED BY <1>11, <1>12, <1>13 DEF CustodyInv

\* The head of what is left, once it is done, is all that is no longer left.
LEMMA HeadFacts ==
  ASSUME NEW s \in Seq(Actions), s # <<>>
  PROVE  /\ Head(s) \in Actions /\ Head(s) = s[1] /\ 1 \in DOMAIN s
         /\ Tail(s) \in Seq(Actions)
         /\ \A i \in DOMAIN Tail(s) : i + 1 \in DOMAIN s /\ Tail(s)[i] = s[i + 1]
         /\ \A i \in DOMAIN s : i = 1 \/ (i - 1 \in DOMAIN Tail(s) /\ Tail(s)[i - 1] = s[i])
<1>1. Tail(s) \in Seq(Actions) /\ Len(Tail(s)) = Len(s) - 1 /\ Len(s) \in Nat /\ Len(s) # 0
  OBVIOUS
<1>2. \A i \in 1 .. Len(s) - 1 : Tail(s)[i] = s[i + 1]
  OBVIOUS
<1>3. Head(s) = s[1] /\ 1 \in DOMAIN s /\ Head(s) \in Actions
  BY <1>1
<1>4. DOMAIN Tail(s) = 1 .. Len(s) - 1 /\ DOMAIN s = 1 .. Len(s)
  BY <1>1
<1>5. \A i \in DOMAIN s : i = 1 \/ (i - 1 \in DOMAIN Tail(s) /\ Tail(s)[i - 1] = s[(i - 1) + 1])
  BY <1>1, <1>2, <1>4
<1>6. \A i \in DOMAIN s : (i - 1) + 1 = i
  BY <1>4
<1> QED BY <1>1, <1>2, <1>3, <1>4, <1>5, <1>6

\* One action: it was reviewed, and it is what is no longer left.
Carries(h) ==
  /\ Effect(h[1], h[2]) /\ Planned(h[1], h[2])
  /\ h[1] \in Written => \A i \in DOMAIN todo : todo[i][1] \in Written
  /\ \A t, id : Left(t, id) => Left(t, id)' \/ (h[1] = t /\ h[2] = id)

LEMMA ActionFacts ==
  ASSUME CustodyInv, ExecuteAction
  PROVE  /\ executing # None /\ executing' = executing /\ begun' = begun /\ changes' = changes
         /\ \E h \in Actions : Carries(h)
<1>1. todo \in Seq(Actions) /\ todo # <<>> /\ todo' = Tail(todo)
  BY DEF ExecuteAction, CustodyInv, Sound
<1> DEFINE h == Head(todo)
<1>2. h \in Actions /\ h = todo[1] /\ 1 \in DOMAIN todo
  BY <1>1, HeadFacts
<1>3. \A i \in DOMAIN todo : i = 1 \/ (i - 1 \in DOMAIN todo' /\ todo'[i - 1] = todo[i])
  BY <1>1, HeadFacts
<1>4. Effect(h[1], h[2]) /\ executing' = executing /\ begun' = begun /\ changes' = changes
  BY DEF ExecuteAction
<1>5. executing # None /\ Planned(h[1], h[2])
  BY <1>1, <1>2 DEF CustodyInv, Sound
<1>6. ASSUME h[1] \in Written, NEW i \in DOMAIN todo PROVE todo[i][1] \in Written
  <2>1. i = 1 \/ 1 < i
    BY <1>1
  <2> QED BY <1>2, <1>6, <2>1 DEF CustodyInv, Sound, WrittenLast
<1>7. ASSUME NEW t, NEW id, Left(t, id) PROVE Left(t, id)' \/ (h[1] = t /\ h[2] = id)
  <2>1. PICK i \in DOMAIN todo : todo[i] = <<t, id>>
    BY <1>7 DEF Left
  <2>2. CASE i = 1
    <3>1. h = <<t, id>>
      BY <1>2, <2>1, <2>2
    <3> HIDE DEF h
    <3> QED BY <3>1, PartsOf
  <2>3. CASE i # 1
    BY <1>3, <2>1, <2>3 DEF Left
  <2> QED BY <2>2, <2>3
<1> HIDE DEF h
<1>8. Carries(h)
  BY <1>4, <1>5, <1>6, <1>7 DEF Carries
<1> QED BY <1>2, <1>4, <1>5, <1>8

LEMMA ActionStep ==
  ASSUME CustodyInv, TypeOK', ExecuteAction
  PROVE  CustodyInv'
<1>0. PICK h \in Actions : Carries(h)
  BY ActionFacts
<1>1. Effect(h[1], h[2]) /\ \A t, id : Left(t, id) => Left(t, id)' \/ (h[1] = t /\ h[2] = id)
  BY <1>0 DEF Carries
<1>2. executing # None /\ executing' = executing /\ begun' = begun /\ changes' = changes
  BY ActionFacts
<1>3. \A t, id : Planned(t, id)' <=> Planned(t, id)
  BY <1>2 DEF Planned
<1>4. Sound'
  <2>1. todo \in Seq(Actions) /\ todo # <<>> /\ todo' = Tail(todo)
    BY DEF ExecuteAction, CustodyInv, Sound
  <2>2. todo' \in Seq(Actions)
    BY <2>1, HeadFacts
  <2>3. \A i \in DOMAIN todo' : i + 1 \in DOMAIN todo /\ todo'[i] = todo[i + 1]
    BY <2>1, HeadFacts
  <2>4. (\A i \in DOMAIN todo : Planned(todo[i][1], todo[i][2]))'
    <3>1. \A i \in DOMAIN todo : Planned(todo[i][1], todo[i][2])
      BY <1>2 DEF CustodyInv, Sound
    <3> QED BY <1>2, <2>3, <3>1 DEF Planned
  <2>5. WrittenLast(todo)'
    <3>1. WrittenLast(todo)
      BY DEF CustodyInv, Sound
    <3>2. \A i, j \in DOMAIN todo' : i < j => i + 1 < j + 1
      BY <2>2
    <3> QED BY <2>3, <3>1, <3>2 DEF WrittenLast
  <2> QED BY <1>2, <2>2, <2>4, <2>5 DEF Sound
<1>5. Checked'
  <2>1. \A n \in Notes : notes'[n] \in {notes[n], None}
    BY <1>1 DEF Effect, CustodyInv, TypeOK
  <2>2. \A n \in Notes : Planned("note", n) => notes[n] \in {executing.digest, None}
    BY <1>2 DEF CustodyInv, Checked
  <2>3. \A n \in Notes : Planned("note", n)' => notes'[n] \in {executing'.digest, None}
    BY <1>2, <1>3, <2>1, <2>2
  <2>4. Planned("canonical", "")' => begun'.canonical = executing'.digest
    BY <1>2, <1>3 DEF CustodyInv, Checked
  <2>5. Planned("recording", "")' => begun'.recording = "transcribed"
    BY <1>2, <1>3 DEF CustodyInv, Checked
  <2> QED BY <2>3, <2>4, <2>5 DEF Checked
<1>6. Accounted'
  <2>1. begun'.changes \in Nat /\ begun'.changes <= changes'
    BY <1>2 DEF CustodyInv, Accounted
  <2>2. Planned("lexical-index", "")' => Left("lexical-index", "")' \/ indexed' = None
    BY <1>1, <1>2, <1>3 DEF CustodyInv, Accounted, Effect
  <2>3. Planned("semantic-index", "")' => Left("semantic-index", "")' \/ ~semantic'
    BY <1>1, <1>2, <1>3 DEF CustodyInv, Accounted, Effect
  <2>4. changes = begun.changes /\ Planned("canonical", "")' => Left("canonical", "")' \/ canonical' = None
    BY <1>1, <1>2, <1>3 DEF CustodyInv, Accounted, Effect
  <2>5. changes = begun.changes /\ Planned("recording", "")' => Left("recording", "")' \/ recording' = None
    BY <1>1, <1>2, <1>3 DEF CustodyInv, Accounted, Effect
  <2>6. ASSUME changes = begun.changes, NEW e \in exports', Planned("export", e)'
        PROVE  Left("export", e)'
    <3>1. e \in exports /\ ~(h[1] = "export" /\ h[2] = e)
      BY <1>1, <2>6 DEF Effect
    <3>2. Left("export", e)
      BY <1>2, <1>3, <2>6, <3>1 DEF CustodyInv, Accounted
    <3> QED BY <1>1, <3>1, <3>2
  <2> QED BY <1>2, <2>1, <2>2, <2>3, <2>4, <2>5, <2>6 DEF Accounted
<1> QED BY <1>4, <1>5, <1>6 DEF CustodyInv

LEMMA FilesStep ==
  ASSUME CustodyInv, TypeOK', ChangeFiles
  PROVE  CustodyInv'
<1>1. /\ changes \in Nat /\ changes' = changes + 1
      /\ UNCHANGED <<todo, executing, begun>> /\ UNCHANGED <<indexed, semantic, notes>>
  BY RequestsAssumption DEF ChangeFiles, Change, stores, CustodyInv, TypeOK
<1>2. \A t, id : (Planned(t, id)' <=> Planned(t, id)) /\ (Left(t, id)' <=> Left(t, id))
  BY <1>1 DEF Planned, Left
<1>3. Sound'
  <2>1. WrittenLast(todo)'
    BY <1>1 DEF CustodyInv, Sound, WrittenLast
  <2>2. (\A i \in DOMAIN todo : Planned(todo[i][1], todo[i][2]))'
        <=> (\A i \in DOMAIN todo : Planned(todo[i][1], todo[i][2]))
    BY <1>1 DEF Planned
  <2> QED BY <1>1, <2>1, <2>2 DEF CustodyInv, Sound
<1>4. Checked'
  BY <1>1, <1>2 DEF CustodyInv, Checked
<1>5. Accounted'
  <2>1. CASE executing = None
    BY <1>1, <2>1 DEF Accounted
  <2>2. CASE executing # None
    <3>1. begun'.changes \in Nat /\ begun'.changes <= changes' /\ changes' # begun'.changes
      <4>1. begun.changes \in Nat /\ begun.changes <= changes
        BY <2>2 DEF CustodyInv, Accounted
      <4>2. begun'.changes = begun.changes
        BY <1>1
      <4> QED BY <1>1, <4>1, <4>2
    <3>2. Planned("lexical-index", "")' => Left("lexical-index", "")' \/ indexed' = None
      BY <1>1, <1>2, <2>2 DEF CustodyInv, Accounted
    <3>3. Planned("semantic-index", "")' => Left("semantic-index", "")' \/ ~semantic'
      BY <1>1, <1>2, <2>2 DEF CustodyInv, Accounted
    <3> QED BY <3>1, <3>2, <3>3 DEF Accounted
  <2> QED BY <2>1, <2>2
<1> QED BY <1>3, <1>4, <1>5 DEF CustodyInv

LEMMA CustodyStep == CustodyInv /\ [Next]_vars => CustodyInv'
<1> SUFFICES ASSUME CustodyInv, [Next]_vars PROVE CustodyInv'
  OBVIOUS
<1>1. TypeOK'
  BY CustodyTypeStep DEF CustodyInv
<1>2. ASSUME NEW scopes \in Requests, NEW allow \in BOOLEAN, Review(scopes, allow)
      PROVE  CustodyInv'
  BY <1>1, <1>2, QuietStep DEF Review
<1>3. CASE Discard
  BY <1>1, <1>3, QuietStep DEF Discard
<1>4. ASSUME NEW allow \in BOOLEAN, Execute(allow) PROVE CustodyInv'
  BY <1>1, <1>4, ExecuteStep
<1>5. CASE ExecuteAction
  BY <1>1, <1>5, ActionStep
<1>6. CASE Receipt \/ CutShort
  BY <1>1, <1>6, StopStep DEF Receipt, CutShort
<1>7. CASE ChangeFiles
  BY <1>1, <1>7, FilesStep
<1>8. CASE RefreshLibrary \/ RebuildSemantic \/ ChangeResearch
  BY <1>1, <1>8, QuietStep DEF RefreshLibrary, RebuildSemantic, ChangeResearch, Change
<1>9. CASE UNCHANGED vars
  <2>1. UNCHANGED <<todo, executing, begun, changes, indexed, semantic, canonical, exports, recording, notes>>
    BY <1>9 DEF vars, files, stores
  <2>2. Sound' /\ Checked' /\ Accounted'
    BY <2>1 DEF CustodyInv, Sound, WrittenLast, Checked, Accounted, Planned, Left
  <2> QED BY <1>1, <2>2 DEF CustodyInv
<1> QED BY <1>2, <1>3, <1>4, <1>5, <1>6, <1>7, <1>8, <1>9 DEF Next

LEMMA ReviewedStep ==
  ASSUME CustodyInv, ExecuteAction
  PROVE  /\ indexed' # indexed => Planned("lexical-index", "")
         /\ canonical' # canonical =>
              Planned("canonical", "") /\ begun.canonical = executing.digest
         /\ recording' # recording =>
              Planned("recording", "") /\ begun.recording = "transcribed"
         /\ \A n \in Notes : notes'[n] # notes[n] =>
              Planned("note", n) /\ notes[n] = executing.digest
         /\ \A s \in searches \ searches' : Planned("search", s)
<1>1. PICK h \in Actions : Carries(h)
  BY ActionFacts
<1>2. Effect(h[1], h[2]) /\ Planned(h[1], h[2])
  BY <1>1 DEF Carries
<1>3. executing # None
  BY ActionFacts
<1>4. h[2] = "" \/ h[1] = "export" \/ h[1] = "search" \/ h[1] = "note"
  BY DEF Actions
<1>5. indexed' # indexed => Planned("lexical-index", "")
  <2>1. indexed' # indexed => h[1] = "lexical-index"
    BY <1>2 DEF Effect
  <2> QED BY <2>1, <1>2, <1>4
<1>6. canonical' # canonical => Planned("canonical", "")
  <2>1. canonical' # canonical => h[1] = "canonical"
    BY <1>2 DEF Effect
  <2> QED BY <2>1, <1>2, <1>4
<1>7. recording' # recording => Planned("recording", "")
  <2>1. recording' # recording => h[1] = "recording"
    BY <1>2 DEF Effect
  <2> QED BY <2>1, <1>2, <1>4
<1>8. ASSUME NEW n \in Notes, notes'[n] # notes[n]
      PROVE  Planned("note", n) /\ notes[n] = executing.digest
  <2>1. h[1] = "note" /\ notes' = [notes EXCEPT ![h[2]] = None]
    BY <1>2, <1>8 DEF Effect
  <2>2. h[2] = n /\ notes'[n] = None
    BY <1>8, <2>1 DEF CustodyInv, TypeOK
  <2>3. Planned("note", n)
    BY <1>2, <2>1, <2>2
  <2> QED BY <1>3, <1>8, <2>2, <2>3 DEF CustodyInv, Checked
<1>9. ASSUME NEW s \in searches \ searches' PROVE Planned("search", s)
  <2>1. h[1] = "search" /\ h[2] = s
    BY <1>2 DEF Effect
  <2> QED BY <1>2, <2>1
<1> QED BY <1>3, <1>5, <1>6, <1>7, <1>8, <1>9 DEF CustodyInv, Checked

\* A deletion removes what the reviewed plan lists, and only the generation, the
\* recording and the notes that were reviewed, for any material and any requests,
\* whatever the owner and the jobs change before it and while it runs.
THEOREM DeletionIsReviewed == Spec => OnlyWhatWasReviewed
<1> DEFINE Fine ==
      ExecuteAction =>
        /\ indexed' # indexed => Planned("lexical-index", "")
        /\ canonical' # canonical =>
             Planned("canonical", "") /\ begun.canonical = executing.digest
        /\ recording' # recording =>
             Planned("recording", "") /\ begun.recording = "transcribed"
        /\ \A n \in Notes : notes'[n] # notes[n] =>
             Planned("note", n) /\ notes[n] = executing.digest
        /\ \A s \in searches \ searches' : Planned("search", s)
<1>1. CustodyInv /\ [Next]_vars => CustodyInv' /\ [Fine]_vars
  BY CustodyStep, ReviewedStep
<1>2. [][Fine]_vars => OnlyWhatWasReviewed
  BY DEF OnlyWhatWasReviewed
<1> HIDE DEF Fine
<1> QED BY CustodyInvInit, <1>1, <1>2, PTL DEF Spec

LEMMA HumanStep ==
  ASSUME CustodyInv, ExecuteAction, notes' # notes \/ searches' # searches
  PROVE  /\ Planned("lexical-index", "") => indexed = None
         /\ Planned("semantic-index", "") => ~semantic
         /\ changes = begun.changes =>
              /\ Planned("canonical", "") => canonical = None
              /\ Planned("recording", "") => recording = None
              /\ \A e \in exports : ~Planned("export", e)
<1>1. PICK h \in Actions : Carries(h)
  BY ActionFacts
<1>2. h[1] = "note" \/ h[1] = "search"
  BY <1>1 DEF Carries, Effect
<1>3. \A i \in DOMAIN todo : todo[i][1] \in Written
  BY <1>1, <1>2 DEF Carries, Written
<1>4. ASSUME NEW t \in Rebuildable, NEW id PROVE ~Left(t, id)
  <2>1. t \notin Written
    BY DEF Rebuildable, Written
  <2>2. ASSUME NEW i \in DOMAIN todo, todo[i] = <<t, id>> PROVE FALSE
    <3> DEFINE a == todo[i]
    <3>1. a = <<t, id>>
      BY <2>2
    <3>2. a[1] \in Written
      BY <1>3
    <3> HIDE DEF a
    <3> QED BY <2>1, <3>1, <3>2, PartsOf
  <2> QED BY <2>2 DEF Left
<1>5. ~Left("lexical-index", "") /\ ~Left("semantic-index", "")
  BY <1>4 DEF Rebuildable
<1>6. ~Left("canonical", "") /\ ~Left("recording", "") /\ \A e : ~Left("export", e)
  BY <1>4 DEF Rebuildable
<1>7. executing # None
  BY ActionFacts
<1> QED BY <1>5, <1>6, <1>7 DEF CustodyInv, Accounted

\* What people wrote goes last: wherever a deletion is cut off, notes and saved
\* searches are untouched unless all else it was to remove is gone or came back.
THEOREM PeopleComeLast == Spec => HumanStateLast
<1> DEFINE Fine ==
      ExecuteAction /\ (notes' # notes \/ searches' # searches) =>
        /\ Planned("lexical-index", "") => indexed = None
        /\ Planned("semantic-index", "") => ~semantic
        /\ changes = begun.changes => /\ Planned("canonical", "") => canonical = None
                                      /\ Planned("recording", "") => recording = None
                                      /\ \A e \in exports : ~Planned("export", e)
<1>1. CustodyInv /\ [Next]_vars => CustodyInv' /\ [Fine]_vars
  BY CustodyStep, HumanStep
<1>2. [][Fine]_vars => HumanStateLast
  BY DEF HumanStateLast
<1> HIDE DEF Fine
<1> QED BY CustodyInvInit, <1>1, <1>2, PTL DEF Spec
=============================================================================
