------------------------------- MODULE Reader -------------------------------
(***************************************************************************)
(* The search view of the desktop: results of a search, a reader of one     *)
(* passage with its player, or the tools of one transcript, which name      *)
(* speakers and export copies.  One page holds them, so a panel that is     *)
(* given another transcript keeps what it had (SearchWorkspace.tsx,         *)
(* EvidenceReader.tsx, EvidencePlayback.tsx, TranscriptToolsPanel.tsx); the *)
(* backend and the host check every call against the version it was made    *)
(* for (transcript_tools.py, playback.py, playback.rs).                     *)
(***************************************************************************)
EXTENDS Naturals, FiniteSets, FiniteSetsExt

CONSTANTS
  Docs, Formats,  \* transcripts; export formats
  MaxNames,       \* names tried for one export (1000 in the code)
  MaxSessions,    \* recordings the host holds open (8 in the code)
  MaxCalls,       \* bound: calls in flight at once
  MaxChanges,     \* bound: changes of files by others
  MaxFaults,      \* bound: kills and deletions that fail
  None

ASSUME ReaderAssumption ==
  {MaxNames, MaxSessions, MaxCalls} \subseteq Nat \ {0} /\ {MaxChanges, MaxFaults} \subseteq Nat

Versions == Docs \X (0 .. MaxChanges)
Slots == Formats \X (1 .. MaxNames)

\* None is neither a player's session nor an export.
ASSUME NoneAssumption ==
  /\ None \notin [id : Nat, at : Versions]
  /\ None \notin [at : Versions, shown : Versions, taken : SUBSET Slots, saved : SUBSET Slots]

VARIABLES
  canonical, indexed, recording, \* by transcript: the file, the index, the recording's bytes (0: those transcribed)
  labels, notes, folder,         \* what was named and noted; the export folder
  publishing,                    \* the export being written
  sessions,                      \* host: the recordings held open
  results, searching,            \* SearchWorkspace
  evidence, player, preparing, prepares, \* EvidenceReader, EvidencePlayback, calls for playback
  tools, panel, busy, inspecting, calls, \* TranscriptToolsPanel and its calls
  switched, changes, faults      \* history and bounds

files  == <<canonical, indexed, recording>>
kept   == <<labels, notes, folder, publishing>>
search == <<results, searching>>
reader == <<evidence, player, preparing, prepares, sessions>>
bench  == <<tools, panel, busy, inspecting, calls, switched>>
bounds == <<changes, faults>>
vars   == <<files, kept, search, reader, bench, bounds>>

\* What a name of the export folder holds.
Entry(kind) == [kind |-> kind, at |-> None, shown |-> None]
Copy(c) == [kind |-> "copy", at |-> c.at, shown |-> c.shown]

Init ==
  /\ canonical = [d \in Docs |-> 0] /\ indexed = canonical /\ recording = canonical
  /\ labels = {} /\ notes = {} /\ publishing = None
  /\ folder = [s \in Slots |-> Entry("free")]
  /\ sessions = {}
  /\ results = {} /\ searching = FALSE
  /\ evidence = None /\ player = None /\ preparing = FALSE /\ prepares = {}
  /\ tools = None /\ panel = None /\ busy = FALSE /\ inspecting = None /\ calls = {}
  /\ switched = FALSE /\ changes = 0 /\ faults = 0

\* The version is still the indexed one, and the file still hashes to it.
Generation(v) == indexed[v[1]] = v[2]
Verified(v) == Generation(v) /\ canonical[v[1]] = v[2]

Waiting == Cardinality(calls) + Cardinality(prepares)

Gone(requests) == {[c EXCEPT !.here = FALSE] : c \in requests}

-----------------------------------------------------------------------------
(* The page.                                                                *)

\* Mutant: the player is unmounted without its cleanup.
CloseReaderKeeps ==
  /\ evidence' = None /\ player' = None /\ preparing' = FALSE
  /\ prepares' = Gone(prepares)
  /\ UNCHANGED sessions

\* Leaving the reader gives its session back; an answer on its way finds no one.
CloseReader ==
  /\ evidence' = None /\ player' = None /\ preparing' = FALSE
  /\ prepares' = Gone(prepares)
  /\ sessions' = {s \in sessions : player = None \/ s.id # player.id}

CloseTools ==
  /\ tools' = None /\ panel' = None /\ busy' = FALSE /\ inspecting' = None
  /\ calls' = Gone(calls)
  /\ UNCHANGED switched

\* A new search closes both panels, and keeps the old results until it answers.
Search ==
  /\ ~searching
  /\ searching' = TRUE
  /\ CloseReader /\ CloseTools
  /\ UNCHANGED <<results, files, kept, bounds>>

\* Every passage found is located in its verified transcript, or none is shown.
Found ==
  /\ searching /\ publishing = None
  /\ searching' = FALSE
  /\ results' = IF \A d \in Docs : canonical[d] = indexed[d]
                  THEN {<<d, indexed[d]>> : d \in Docs} ELSE {}
  /\ UNCHANGED <<files, kept, reader, bench, bounds>>

\* Another passage goes into the reader that is there, beside its player.
OpenEvidence(v) ==
  /\ v \in results
  /\ evidence' = v
  /\ CloseTools
  /\ UNCHANGED <<player, preparing, prepares, sessions, search, files, kept, bounds>>

LeaveReader ==
  /\ evidence # None
  /\ CloseReader
  /\ UNCHANGED <<bench, search, files, kept, bounds>>

\* The panel keeps the roster it shows until the new one is inspected.
OpenTools(v) ==
  /\ v \in results
  /\ CloseReader
  /\ tools' = v /\ inspecting' = v /\ busy' = TRUE
  /\ switched' = (switched \/ panel \notin {None, v} \/ calls # Gone(calls))
  /\ UNCHANGED <<panel, calls, search, files, kept, bounds>>

LeaveTools ==
  /\ tools # None
  /\ CloseTools
  /\ UNCHANGED <<reader, search, files, kept, bounds>>

-----------------------------------------------------------------------------
(* Playback.                                                                *)

\* Gives back the session it has, then asks for one.
Prepare ==
  /\ evidence # None /\ ~preparing /\ Waiting < MaxCalls
  /\ preparing' = TRUE /\ player' = None
  /\ sessions' = {s \in sessions : player = None \/ s.id # player.id}
  /\ prepares' = prepares \cup {[at |-> evidence, here |-> TRUE, step |-> "asked", id |-> 0]}
  /\ UNCHANGED <<evidence, bench, search, files, kept, bounds>>

Refused(c) ==
  /\ prepares' = prepares \ {c}
  /\ preparing' = (preparing /\ ~c.here)
  /\ UNCHANGED <<evidence, player, sessions>>

\* The backend hashes the transcript and the recording; the host has yet to open it.
Authorize(c) ==
  /\ c \in prepares /\ c.step = "asked" /\ publishing = None
  /\ \/ /\ Verified(c.at) /\ recording[c.at[1]] = 0
        /\ prepares' = (prepares \ {c}) \cup {[c EXCEPT !.step = "granted"]}
        /\ UNCHANGED <<evidence, player, preparing, sessions>>
     \/ /\ ~(Verified(c.at) /\ recording[c.at[1]] = 0)
        /\ Refused(c)
  /\ UNCHANGED <<bench, search, files, kept, bounds>>

FreeId == Min({i \in 1 .. MaxSessions : \A s \in sessions : s.id # i})

Insert(c) ==
  /\ sessions' = sessions \cup {[id |-> FreeId, at |-> c.at, bytes |-> recording[c.at[1]]]}
  /\ prepares' = (prepares \ {c}) \cup {[c EXCEPT !.step = "opened", !.id = FreeId]}
  /\ UNCHANGED <<evidence, player, preparing>>

\* Mutant: the host opens the path it was given.
CanOpenAnything(c) == Cardinality(sessions) < MaxSessions

\* The file opened must have the size and the time of the one authorised.
CanOpen(c) == recording[c.at[1]] = 0 /\ Cardinality(sessions) < MaxSessions

Open(c) ==
  /\ c \in prepares /\ c.step = "granted"
  /\ \/ CanOpen(c) /\ Insert(c)
     \/ ~CanOpen(c) /\ Refused(c)
  /\ UNCHANGED <<bench, search, files, kept, bounds>>

\* The answer is the player's if it is still there, whatever it shows by now.
Prepared(c) ==
  /\ c \in prepares /\ c.step = "opened"
  /\ prepares' = prepares \ {c}
  /\ player' = IF c.here THEN [id |-> c.id, at |-> c.at] ELSE player
  /\ preparing' = (preparing /\ ~c.here)
  /\ UNCHANGED <<evidence, sessions, bench, search, files, kept, bounds>>

-----------------------------------------------------------------------------
(* Notes, names and exports.                                                *)

Call(kind, at, shown) ==
  /\ Waiting < MaxCalls
  /\ calls' = calls \cup {[kind |-> kind, at |-> at, shown |-> shown, here |-> kind # "note", writing |-> FALSE]}

\* A note on the passage the reader shows.
SaveNote ==
  /\ evidence # None
  /\ Call("note", evidence, evidence)
  /\ UNCHANGED <<tools, panel, busy, inspecting, switched, reader, search, files, kept, bounds>>

\* The panel's buttons send the version it was given, not the one it shows.
Click(kind) ==
  /\ tools # None /\ panel # None /\ ~busy
  /\ Call(kind, tools, panel)
  /\ busy' = TRUE
  /\ UNCHANGED <<tools, panel, inspecting, switched, reader, search, files, kept, bounds>>

Inspected ==
  /\ inspecting # None /\ publishing = None
  /\ inspecting' = None /\ busy' = FALSE
  /\ panel' = IF Verified(inspecting) THEN inspecting ELSE panel
  /\ UNCHANGED <<tools, calls, switched, reader, search, files, kept, bounds>>

Answered(c) ==
  /\ c \in calls
  /\ calls' = calls \ {c}
  /\ busy' = (busy /\ ~c.here)
  /\ UNCHANGED <<tools, panel, inspecting, switched, reader, search, files>>

\* Mutant: the version named is not compared with the library's.
LatestDocument(c) == {<<c.at[1], indexed[c.at[1]]>>}

\* The transcript of the library a call works on, if it is still the version named;
\* removing a name is the one call that does not read the file.
Document(c) == {v \in {c.at} : IF c.kind = "remove" THEN Generation(v) ELSE Verified(v)}

Made(v, c) == [at |-> v, shown |-> c.shown]

SetSpeakerLabel(c) ==
  /\ c.kind = "name"
  /\ \E v \in Document(c) : labels' = {l \in labels : l.at # v} \cup {Made(v, c)}
  /\ UNCHANGED <<notes, folder, publishing>>

RemoveSpeakerLabel(c) ==
  /\ c.kind = "remove"
  /\ \E v \in Document(c) : labels' = {l \in labels : l.at # v}
  /\ UNCHANGED <<notes, folder, publishing>>

CreateResearchNote(c) ==
  /\ c.kind = "note"
  /\ \E v \in Document(c) : notes' = notes \cup {Made(v, c)}
  /\ UNCHANGED <<labels, folder, publishing>>

Rejected(c) == Document(c) = {} /\ UNCHANGED kept

Handle(c) ==
  /\ publishing = None
  /\ Answered(c)
  /\ UNCHANGED bounds
  /\ SetSpeakerLabel(c) \/ RemoveSpeakerLabel(c) \/ CreateResearchNote(c) \/ Rejected(c)

\* Everything is rendered before the first name is taken.
Publish(c) ==
  /\ publishing = None
  /\ c \in calls /\ c.kind = "export"
  /\ calls' = (calls \ {c}) \cup {[c EXCEPT !.writing = TRUE]}
  /\ \E v \in Document(c) :
       publishing' = [at |-> v, shown |-> c.shown, taken |-> {}, saved |-> {}]
  /\ UNCHANGED <<tools, panel, busy, inspecting, switched, labels, notes, folder, files, reader, search, bounds>>

Untaken == {f \in Formats : \A s \in publishing.taken : s[1] # f}

\* An exclusive create: the first name of this format nobody has.
ReservePublication(f) ==
  /\ publishing # None /\ f \in Untaken
  /\ \E n \in 1 .. MaxNames :
       /\ folder[<<f, n>>].kind = "free" /\ \A m \in 1 .. n - 1 : folder[<<f, m>>].kind # "free"
       /\ folder' = [folder EXCEPT ![<<f, n>>] = Entry("empty")]
       /\ publishing' = [publishing EXCEPT !.taken = @ \cup {<<f, n>>}]
  /\ UNCHANGED <<labels, notes, files, reader, search, bench, bounds>>

SavePublication(s) ==
  /\ publishing # None /\ Untaken = {} /\ s \in publishing.taken \ publishing.saved
  /\ folder' = [folder EXCEPT ![s] = Copy(publishing)]
  /\ publishing' = [publishing EXCEPT !.saved = @ \cup {s}]
  /\ UNCHANGED <<labels, notes, files, reader, search, bench, bounds>>

Published(c) ==
  /\ c.writing /\ publishing.saved = publishing.taken /\ Untaken = {}
  /\ publishing' = None
  /\ Answered(c)
  /\ UNCHANGED <<labels, notes, folder, bounds>>

\* Mutant: only the names that were not written yet are given up.
RollbackUnsaved(c, left) ==
  /\ c.writing
  /\ left = {}
  /\ folder' = [s \in Slots |-> IF s \in publishing.taken \ publishing.saved THEN Entry("free") ELSE folder[s]]
  /\ publishing' = None
  /\ Answered(c)
  /\ UNCHANGED <<labels, notes, bounds>>

\* Names run out or a write fails: what was taken is deleted, and an error there ignored.
Rollback(c, left) ==
  /\ c.writing
  /\ left \subseteq publishing.taken
  /\ folder' = [s \in Slots |-> IF s \in publishing.taken \ left THEN Entry("free") ELSE folder[s]]
  /\ publishing' = None
  /\ Answered(c)
  /\ faults' = faults + (IF left = {} THEN 0 ELSE 1) /\ faults' <= MaxFaults
  /\ UNCHANGED <<labels, notes, changes>>

\* The application ends: its sessions go with it, names it took stay taken.
Kill ==
  /\ faults < MaxFaults
  /\ faults' = faults + 1
  /\ publishing' = None /\ sessions' = {}
  /\ results' = {} /\ searching' = FALSE
  /\ evidence' = None /\ player' = None /\ preparing' = FALSE /\ prepares' = {}
  /\ tools' = None /\ panel' = None /\ busy' = FALSE /\ inspecting' = None /\ calls' = {}
  /\ UNCHANGED <<switched, labels, notes, folder, files, changes>>

-----------------------------------------------------------------------------
(* Others: a job publishes the transcript anew, the library is refreshed,    *)
(* the owner replaces a recording or puts a file in the folder.             *)

Change ==
  /\ changes < MaxChanges
  /\ changes' = changes + 1
  /\ \/ \E d \in Docs : canonical' = [canonical EXCEPT ![d] = @ + 1] /\ UNCHANGED <<recording, folder>>
     \/ \E d \in Docs : recording' = [recording EXCEPT ![d] = @ + 1] /\ UNCHANGED <<canonical, folder>>
     \/ \E s \in Slots : /\ folder[s].kind = "free"
                         /\ folder' = [folder EXCEPT ![s] = Entry("theirs")]
                         /\ UNCHANGED <<canonical, recording>>
  /\ UNCHANGED <<indexed, labels, notes, publishing, reader, search, bench, faults>>

RefreshLibrary ==
  /\ indexed # canonical /\ publishing = None
  /\ indexed' = canonical
  /\ UNCHANGED <<canonical, recording, kept, reader, search, bench, bounds>>

Next ==
  \/ Search \/ Found \/ LeaveReader \/ LeaveTools
  \/ \E v \in Versions : OpenEvidence(v) \/ OpenTools(v)
  \/ Prepare \/ \E c \in prepares : Authorize(c) \/ Open(c) \/ Prepared(c)
  \/ SaveNote \/ Inspected
  \/ \E kind \in {"name", "remove", "export"} : Click(kind)
  \/ \E c \in calls : Handle(c) \/ Publish(c) \/ Published(c) \/ \E left \in SUBSET Slots : Rollback(c, left)
  \/ \E f \in Formats : ReservePublication(f)
  \/ \E s \in Slots : SavePublication(s)
  \/ Kill \/ Change \/ RefreshLibrary

Spec == Init /\ [][Next]_vars

-----------------------------------------------------------------------------
(* Properties.                                                              *)

Exports == {folder[s] : s \in {t \in Slots : folder[t].kind = "copy"}}

\* A name, a note or a copy is made of the version the page showed when the
\* owner asked for it, however late the call is carried out: a version replaced
\* meanwhile refuses it.  (Only while no transcript was opened over another in
\* the tools panel: ToolsActOnWhatTheyShow says what happens then.)
ActsOnWhatIsShown ==
  ~switched => \A x \in labels \cup notes \cup Exports : x.at = x.shown

\* The sessions the page still has a use for.
Held(p, requests) == (IF p = None THEN {} ELSE {p.id}) \cup {c.id : c \in requests}

\* A recording held open is the one the transcript was made from, although it
\* may be replaced between the check and the opening; and none stays open without a
\* player: a session is forgotten only when its reader closed before the answer.
PlaybackIsVerified ==
  [][\A s \in sessions' : /\ s.bytes = 0
                          /\ \/ s.id \in Held(player', prepares')
                             \/ s.id \notin Held(player, prepares)
                             \/ \E c \in prepares : c.id = s.id /\ ~c.here]_vars

\* An export writes all its copies or leaves none, and never over a file that
\* was there; only a kill, or a deletion that fails, leaves names behind.
ExportsAreWhole ==
  [][/\ \A s \in Slots : folder[s].kind = "theirs" => folder'[s].kind = "theirs"
     /\ publishing # None /\ publishing' = None /\ faults' = faults =>
          \/ \A s \in publishing.taken : folder'[s] = Copy(publishing)
          \/ \A s \in publishing.taken : folder'[s].kind = "free"]_vars

\* What the document on playback says: a recording is never played beside the
\* evidence of another transcript.  The code breaks it: the player keeps its
\* session when another passage is opened in the reader.
PlaysWhatIsShown == player # None => player.at = evidence

\* What is named and exported is what is shown, switched or not: broken by a panel
\* that shows one transcript while its calls name another.
ToolsActOnWhatTheyShow == \A x \in labels \cup notes \cup Exports : x.at = x.shown
=============================================================================
