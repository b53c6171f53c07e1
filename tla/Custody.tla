------------------------------- MODULE Custody -------------------------------
(***************************************************************************)
(* What may be deleted of one transcript, and how: the owner chooses scopes, *)
(* reviews the plan, and confirms it with its token; the plan is made anew,  *)
(* compared, its inputs checked, and its actions carried out one after the  *)
(* other, with no way back (custody.py, LifecycleWorkspace.tsx).  The       *)
(* process that deletes holds the indexes, so no other command of the       *)
(* library runs meanwhile; jobs and the owner still change files.           *)
(***************************************************************************)
EXTENDS Naturals, Sequences, FiniteSets, SequencesExt

CONSTANTS
  Texts,      \* generations of the canonical transcript
  Exports,    \* suffixes of its exports
  Notes,      \* identities of notes, each bound to a generation
  Searches,   \* saved searches limited to this transcript
  Requests,   \* scopes an owner asks for together
  MaxChanges, \* bound: changes the environment makes
  None

Scopes == {"library-view", "derived-artifacts", "execution-state",
           "canonical-transcript", "research-notes", "saved-searches", "source-recording"}

ASSUME RequestsAssumption == Requests \subseteq SUBSET Scopes /\ MaxChanges \in Nat
ASSUME MaterialAssumption == IsFiniteSet(Exports) /\ IsFiniteSet(Notes) /\ IsFiniteSet(Searches)

VARIABLES
  indexed, semantic,    \* the lexical index's digest; embeddings are built
  canonical, exports, workspace, recording, \* files
  notes, searches,      \* SQLite: the generation each note cites; saved searches
  plan,                 \* the plan the owner has before him
  todo, executing,      \* the actions left, and the plan they are of
  begun, changes        \* history: what it began on; bound

files  == <<canonical, exports, workspace, recording>>
stores == <<indexed, semantic, notes, searches>>
vars   == <<files, stores, plan, todo, executing, begun, changes>>

\* Deleting the transcript implies what can be made of it again, nothing else.
Effective(scopes) ==
  IF "canonical-transcript" \in scopes
    THEN scopes \cup {"library-view", "derived-artifacts", "execution-state"}
    ELSE scopes

\* Mutant: every note on the transcript, whichever generation it cites.
AllNotes == {n \in Notes : notes[n] # None}

GenerationNotes == {n \in Notes : notes[n] = indexed /\ indexed # None}

Listed(target, ids) == [i \in 1 .. Cardinality(ids) |-> <<target, SetToSeq(ids)[i]>>]

LibraryActions ==
  <<<<"lexical-index", "">>>> \o IF semantic THEN <<<<"semantic-index", "">>>> ELSE <<>>

When(scope, scopes, actions) == IF scope \in scopes THEN actions ELSE <<>>

\* Mutant: what people wrote goes first.
NotesFirst(scopes) ==
  When("research-notes", scopes, Listed("note", GenerationNotes))
    \o When("library-view", scopes, LibraryActions)
    \o When("canonical-transcript", scopes, <<<<"canonical", "">>>>)

\* What can be rebuilt first, what people wrote last.
DeletionActions(scopes) ==
  When("library-view", scopes, LibraryActions)
    \o When("derived-artifacts", scopes, Listed("export", exports))
    \o When("execution-state", scopes, IF workspace THEN <<<<"workspace", "">>>> ELSE <<>>)
    \o When("canonical-transcript", scopes, <<<<"canonical", "">>>>)
    \o When("source-recording", scopes, <<<<"recording", "">>>>)
    \o When("saved-searches", scopes, Listed("search", searches))
    \o When("research-notes", scopes, Listed("note", GenerationNotes))

\* The token is a digest of all of this; notes and searches go in by identity.
PlanFor(scopes) ==
  [requested |-> scopes, digest |-> indexed, actions |-> DeletionActions(Effective(scopes)),
   preserved |-> IF "research-notes" \in scopes THEN {} ELSE GenerationNotes,
   affected |-> searches]

\* The recording goes only if asked for, and if it is the one transcribed.
SourceAllowed(scopes, allow) ==
  "source-recording" \in scopes => allow /\ recording = "transcribed"

CanPlan(scopes, allow) ==
  /\ scopes # {}
  /\ indexed # None
  /\ SourceAllowed(scopes, allow)

Init ==
  /\ canonical \in Texts /\ indexed = canonical
  /\ semantic \in BOOLEAN
  /\ exports = Exports /\ workspace \in BOOLEAN
  /\ recording = "transcribed"
  /\ notes \in [Notes -> Texts \cup {None}]
  /\ searches \in SUBSET Searches
  /\ plan = None /\ executing = None /\ todo = <<>>
  /\ begun = None /\ changes = 0

-----------------------------------------------------------------------------
(* The owner.                                                               *)

Quiet == executing = None

\* previewDeletion
Review(scopes, allow) ==
  /\ Quiet
  /\ CanPlan(scopes, allow)
  /\ plan' = PlanFor(scopes)
  /\ UNCHANGED <<files, stores, todo, executing, begun, changes>>

\* Choosing another scope or transcript drops the plan.
Discard ==
  /\ plan # None /\ Quiet
  /\ plan' = None
  /\ UNCHANGED <<files, stores, todo, executing, begun, changes>>

\* _validate_destructive_inputs
InputsHold(p) ==
  \A i \in DOMAIN p.actions : p.actions[i][1] = "canonical" => canonical = p.digest

Beginning == [canonical |-> canonical, recording |-> recording, changes |-> changes]

\* Mutant: the plan made now is carried out, whatever was reviewed.
ExecuteUnseen(allow) ==
  /\ plan # None /\ Quiet
  /\ CanPlan(plan.requested, allow)
  /\ InputsHold(PlanFor(plan.requested))
  /\ executing' = plan
  /\ todo' = PlanFor(plan.requested).actions
  /\ begun' = Beginning
  /\ UNCHANGED <<files, stores, plan, changes>>

\* execute_deletion: the plan made now is the plan reviewed.
Execute(allow) ==
  /\ plan # None /\ Quiet
  /\ CanPlan(plan.requested, allow)
  /\ PlanFor(plan.requested) = plan
  /\ InputsHold(plan)
  /\ executing' = plan
  /\ todo' = plan.actions
  /\ begun' = Beginning
  /\ UNCHANGED <<files, stores, plan, changes>>

\* What is no longer there is not missed.
Effect(target, id) ==
  /\ indexed'   = IF target = "lexical-index" THEN None ELSE indexed
  /\ semantic'  = (semantic /\ target # "semantic-index")
  /\ exports'   = IF target = "export" THEN exports \ {id} ELSE exports
  /\ workspace' = (workspace /\ target # "workspace")
  /\ canonical' = IF target = "canonical" THEN None ELSE canonical
  /\ recording' = IF target = "recording" THEN None ELSE recording
  /\ searches'  = IF target = "search" THEN searches \ {id} ELSE searches
  /\ notes'     = IF target = "note" THEN [notes EXCEPT ![id] = None] ELSE notes

ExecuteAction ==
  /\ todo # <<>>
  /\ Effect(Head(todo)[1], Head(todo)[2])
  /\ todo' = Tail(todo)
  /\ UNCHANGED <<plan, executing, begun, changes>>

Stop == executing' = None /\ todo' = <<>> /\ begun' = None /\ plan' = None

\* The receipt: the view drops the plan and lists the library again.
Receipt ==
  /\ executing # None /\ todo = <<>>
  /\ Stop
  /\ UNCHANGED <<files, stores, changes>>

\* A file that cannot be deleted, or a kill, ends it where it is.
CutShort ==
  /\ executing # None /\ todo # <<>>
  /\ Stop
  /\ UNCHANGED <<files, stores, changes>>

-----------------------------------------------------------------------------
(* Everybody else.                                                          *)

Change ==
  /\ changes < MaxChanges
  /\ changes' = changes + 1
  /\ UNCHANGED <<plan, todo, executing, begun>>

\* The owner or a job replaces a file; exports and a workspace come and go.
ChangeFiles ==
  /\ Change
  /\ \/ \E t \in Texts \cup {None} :
          canonical' = t /\ UNCHANGED <<exports, workspace, recording>>
     \/ exports' \in SUBSET Exports /\ UNCHANGED <<canonical, workspace, recording>>
     \/ workspace' = ~workspace /\ UNCHANGED <<canonical, exports, recording>>
     \/ recording' \in {"transcribed", "another", None} /\ UNCHANGED <<canonical, exports, workspace>>
  /\ UNCHANGED stores

RefreshLibrary ==
  /\ Quiet
  /\ indexed # canonical
  /\ Change
  /\ indexed' = canonical /\ semantic' = FALSE
  /\ UNCHANGED <<files, notes, searches>>

RebuildSemantic ==
  /\ Quiet
  /\ ~semantic
  /\ Change
  /\ indexed' = canonical /\ semantic' = TRUE
  /\ UNCHANGED <<files, notes, searches>>

\* A note is written on the current generation, moved to it, or deleted; a
\* search is saved or deleted.
ChangeResearch ==
  /\ Quiet
  /\ Change
  /\ \/ \E n \in Notes, t \in {indexed, None} :
          notes' = [notes EXCEPT ![n] = t] /\ UNCHANGED searches
     \/ searches' \in SUBSET Searches /\ UNCHANGED notes
  /\ UNCHANGED <<files, indexed, semantic>>

Next ==
  \/ \E scopes \in Requests, allow \in BOOLEAN : Review(scopes, allow)
  \/ Discard \/ (\E allow \in BOOLEAN : Execute(allow)) \/ ExecuteAction \/ Receipt \/ CutShort
  \/ ChangeFiles \/ RefreshLibrary \/ RebuildSemantic \/ ChangeResearch

Spec == Init /\ [][Next]_vars

-----------------------------------------------------------------------------
(* Properties.                                                              *)

TypeOK ==
  /\ indexed \in Texts \cup {None} /\ canonical \in Texts \cup {None}
  /\ semantic \in BOOLEAN /\ workspace \in BOOLEAN
  /\ exports \subseteq Exports /\ searches \subseteq Searches
  /\ recording \in {"transcribed", "another", None}
  /\ notes \in [Notes -> Texts \cup {None}]
  /\ changes \in 0 .. MaxChanges

Planned(target, id) == <<target, id>> \in Range(executing.actions)

\* A deletion removes what the reviewed plan lists, and nothing that came to be
\* in its place before it began: the generation of the transcript reviewed, the
\* recording that was transcribed, notes on that generation.  Files that change
\* while it runs are not looked at again (execute_deletion).
OnlyWhatWasReviewed ==
  [][ExecuteAction =>
       /\ indexed' # indexed => Planned("lexical-index", "")
       /\ canonical' # canonical =>
            Planned("canonical", "") /\ begun.canonical = executing.digest
       /\ recording' # recording =>
            Planned("recording", "") /\ begun.recording = "transcribed"
       /\ \A n \in Notes : notes'[n] # notes[n] =>
            Planned("note", n) /\ notes[n] = executing.digest
       /\ \A s \in searches \ searches' : Planned("search", s)]_vars

\* Wherever a deletion ends, notes and saved searches are touched only once all
\* else it was to remove is gone, or has been put back since.
HumanStateLast ==
  [][ExecuteAction /\ (notes' # notes \/ searches' # searches) =>
       /\ Planned("lexical-index", "") => indexed = None
       /\ Planned("semantic-index", "") => ~semantic
       /\ changes = begun.changes => /\ Planned("canonical", "") => canonical = None
                                     /\ Planned("recording", "") => recording = None
                                     /\ \A e \in exports : ~Planned("export", e)]_vars
=============================================================================
