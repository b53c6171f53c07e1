---------------------------- MODULE ResearchState ----------------------------
(***************************************************************************)
(* The owner's notes on transcripts: the authority, a SQLite file that      *)
(* journals every change (sqlite_research_state.py), the anchors that bind  *)
(* a note to one generation of a transcript and their history               *)
(* (sqlite_research_anchor_state.py, research_anchor_review.py), and the    *)
(* projection that searches read, a DuckDB file that follows the journal    *)
(* (research_projector.py, duckdb_research_projection.py).  A write is one  *)
(* SQLite transaction, hence one action.  A synchronisation is a process of *)
(* many steps: others write between them, and it may be killed at each.     *)
(***************************************************************************)
EXTENDS Naturals, Sequences, FiniteSets

CONSTANTS
  Notes,       \* identities of notes, each a new UUID
  Docs,        \* transcripts
  Texts,       \* what a canonical transcript may say
  Sources,     \* contents of the recording it was made from
  Bodies, Labels, \* what a note says; its tags and collections
  Clients,     \* the desktop's view, a command line
  BatchSize,   \* ResearchStateProjector.batch_size
  Retained,    \* ResearchStateProjector.retained_changes
  MaxChanges,  \* bound: changes journalled
  None

ASSUME CountsAssumption ==
  /\ BatchSize \in Nat \ {0}
  /\ Retained \in Nat
  /\ MaxChanges \in Nat

Generations == [text : Texts, source : Sources]

VARIABLES
  notes, history, known, log, floor, \* the authority
  rows, through,                     \* the projection
  file, index,                       \* canonical files, and the library's index
  draft,                             \* what each client has before it
  pc, want, since, last, touched, copies, answer \* the searching process

authority  == <<notes, history, known, log, floor>>
projection == <<rows, through>>
library    == <<file, index>>
process    == <<pc, want, since, last, touched, copies, answer>>
vars       == <<authority, projection, library, draft, process>>

\* updated_at is the position of the change that set it.
NoteRecord == [doc : Docs, gen : Generations, body : Bodies,
               labels : SUBSET Labels, version : Nat]
Drafts     == [id : Notes, note : NoteRecord, candidate : Generations \cup {None},
               ready : BOOLEAN]
Row        == [doc : Docs, gen : Generations, body : Bodies, labels : SUBSET Labels]

Projected(note) ==
  IF note = None THEN None
  ELSE [doc |-> note.doc, gen |-> note.gen, body |-> note.body, labels |-> note.labels]

\* A filter is a set of tags and collections, all of which a note must carry.
Matches(row, filter) == row # None /\ filter \subseteq row.labels

Init ==
  /\ notes = [n \in Notes |-> None]
  /\ history = [n \in Notes |-> <<>>]
  /\ known = {}
  /\ log = <<>>
  /\ floor = 0
  /\ rows = [n \in Notes |-> None]
  /\ through = 0
  /\ file \in [Docs -> Generations]
  /\ index = file
  /\ draft = [c \in Clients |-> None]
  /\ pc = "idle" /\ want = None /\ since = 0 /\ last = 0
  /\ touched = {} /\ copies = [n \in Notes |-> None]
  /\ answer = [notes |-> {}, docs |-> {}]

-----------------------------------------------------------------------------
(* The authority.                                                           *)

Journal(n) ==
  /\ Len(log) < MaxChanges
  /\ log' = Append(log, n)

Write(n, note) ==
  /\ Journal(n)
  /\ notes' = [notes EXCEPT ![n] = note]
  /\ known' = known \cup note.labels
  /\ UNCHANGED <<floor, projection, library, process>>

\* A note cites what the file says, if the index says the same of it.
Citable(d) == index[d] # None /\ file[d] = index[d]

CreateNote(n, d, body, labels) ==
  /\ \A s \in 1 .. Len(log) : log[s] # n
  /\ Citable(d)
  /\ Write(n, [doc |-> d, gen |-> index[d], body |-> body, labels |-> labels,
               version |-> Len(log) + 1])
  /\ UNCHANGED <<history, draft>>

UpdateNote(n, body) ==
  /\ notes[n] # None
  /\ Write(n, [notes[n] EXCEPT !.body = body, !.version = Len(log) + 1])
  /\ UNCHANGED <<history, draft>>

\* Mutant: a note's tags change without its updated_at.
SetLabelsQuietly(n, labels) ==
  /\ notes[n] # None
  /\ Write(n, [notes[n] EXCEPT !.labels = labels])
  /\ UNCHANGED <<history, draft>>

SetNoteLabels(n, labels) ==
  /\ notes[n] # None
  /\ Write(n, [notes[n] EXCEPT !.labels = labels, !.version = Len(log) + 1])
  /\ UNCHANGED <<history, draft>>

RemoveNote(n) ==
  /\ Journal(n)
  /\ notes' = [notes EXCEPT ![n] = None]
  /\ history' = [history EXCEPT ![n] = <<>>]
  /\ UNCHANGED <<known, floor, projection, library, process>>

\* Custody and the command line delete by identity alone.
DeleteByIdentity(n) ==
  /\ notes[n] # None
  /\ RemoveNote(n)
  /\ UNCHANGED draft

-----------------------------------------------------------------------------
(* What a client does about a note it has seen.                             *)

Current(note) == index[note.doc] = note.gen

Candidate(note) ==
  LET now == index[note.doc] IN
  IF now \notin {None, note.gen} /\ now.source = note.gen.source /\ file[note.doc] = now
    THEN now ELSE None

Review(c, n) ==
  /\ notes[n] # None
  /\ draft' = [draft EXCEPT ![c] =
       [id |-> n, note |-> notes[n], candidate |-> Candidate(notes[n]), ready |-> FALSE]]
  /\ UNCHANGED <<authority, projection, library, process>>

Abandon(c) ==
  /\ draft[c] # None
  /\ draft' = [draft EXCEPT ![c] = None]
  /\ UNCHANGED <<authority, projection, library, process>>

\* _require_note_version
UpToDate(c) ==
  /\ draft[c] # None
  /\ notes[draft[c].id] # None
  /\ notes[draft[c].id].version = draft[c].note.version

Done(c) == draft' = [draft EXCEPT ![c] = None]

ReplaceNote(c, body, labels) ==
  /\ UpToDate(c)
  /\ Write(draft[c].id, [notes[draft[c].id] EXCEPT !.body = body, !.labels = labels,
                                                   !.version = Len(log) + 1])
  /\ Done(c)
  /\ UNCHANGED history

DeleteNote(c) ==
  /\ UpToDate(c)
  /\ RemoveNote(draft[c].id)
  /\ Done(c)

\* The candidate is computed anew, and must be the one that was reviewed.
Reconsider(c) ==
  /\ draft[c] # None
  /\ draft[c].candidate # None
  /\ notes[draft[c].id] # None
  /\ ~Current(notes[draft[c].id])
  /\ Candidate(notes[draft[c].id]) = draft[c].candidate
  /\ draft' = [draft EXCEPT ![c].ready = TRUE]
  /\ UNCHANGED <<authority, projection, library, process>>

\* Mutant: the history holds the last citation replaced.
ReanchorForgets(c) ==
  /\ UpToDate(c)
  /\ draft[c].ready
  /\ LET n == draft[c].id
         new == draft[c].candidate
     IN /\ new.source = notes[n].gen.source
        /\ new # notes[n].gen
        /\ history' = [history EXCEPT ![n] = <<notes[n].gen>>]
        /\ Write(n, [notes[n] EXCEPT !.gen = new, !.version = Len(log) + 1])
  /\ Done(c)

ReanchorNote(c) ==
  /\ UpToDate(c)
  /\ draft[c].ready
  /\ LET n == draft[c].id
         new == draft[c].candidate
     IN /\ new.source = notes[n].gen.source
        /\ new # notes[n].gen
        /\ history' = [history EXCEPT ![n] = Append(@, notes[n].gen)]
        /\ Write(n, [notes[n] EXCEPT !.gen = new, !.version = Len(log) + 1])
  /\ Done(c)

-----------------------------------------------------------------------------
(* A search: synchronise, then match.                                       *)

Goto(label) == pc' = label

Ask(filter) ==
  /\ pc = "idle"
  /\ Goto("compare")
  /\ want' = filter
  /\ since' = Len(log)
  /\ UNCHANGED <<authority, projection, library, draft, last, touched, copies, answer>>

\* Mutant: one change too many is taken to be still there.
MustRebuildLate == through + 1 < floor

\* oldest - 1 is floor; with nothing retained, floor is the whole journal.
MustRebuild == through < floor

Compare ==
  /\ pc = "compare"
  /\ \/ /\ through = Len(log)
        /\ Goto("match")
     \/ /\ through < Len(log)
        /\ Goto(IF MustRebuild THEN "snapshot" ELSE "fetch")
  /\ last' = through
  /\ UNCHANGED <<authority, projection, library, draft, want, since, touched, copies, answer>>

Greater(a, b) == IF a > b THEN a ELSE b
Least(a, b) == IF a < b THEN a ELSE b

\* The rows of changes with a sequence_id above last; those up to floor are gone.
Fetch ==
  /\ pc = "fetch"
  /\ LET from == Greater(last, floor) IN
     \/ /\ from >= Len(log)
        /\ Goto("settle")
        /\ UNCHANGED <<last, touched>>
     \/ /\ from < Len(log)
        /\ last' = Least(from + BatchSize, Len(log))
        /\ touched' = {log[s] : s \in (from + 1) .. last'}
        /\ Goto("read")
  /\ UNCHANGED <<authority, projection, library, draft, want, since, copies, answer>>

\* The records are read after the changes, and may be newer.
Read ==
  /\ pc = "read"
  /\ copies' = [n \in Notes |-> IF n \in touched THEN Projected(notes[n]) ELSE None]
  /\ Goto("apply")
  /\ UNCHANGED <<authority, projection, library, draft, want, since, last, touched, answer>>

Apply ==
  /\ pc = "apply"
  /\ rows' = [n \in Notes |-> IF n \in touched THEN copies[n] ELSE rows[n]]
  /\ through' = last
  /\ Goto("fetch")
  /\ UNCHANGED <<authority, library, draft, want, since, last, touched, copies, answer>>

\* compact_changes: nothing is deleted while everything may be retained.
Compact(upto) ==
  LET threshold == IF upto > Retained THEN upto - Retained ELSE 0 IN
  floor' = Greater(threshold, floor)

\* A change committed since the empty fetch makes the projector start over.
Settle ==
  /\ pc = "settle"
  /\ \/ /\ last = Len(log)
        /\ Compact(last)
        /\ Goto("match")
     \/ /\ last < Len(log)
        /\ Goto("snapshot")
        /\ UNCHANGED floor
  /\ UNCHANGED <<notes, history, known, log, projection, library, draft,
                 want, since, last, touched, copies, answer>>

Snapshot ==
  /\ pc = "snapshot"
  /\ last' = Len(log)
  /\ copies' = [n \in Notes |-> Projected(notes[n])]
  /\ Goto("replace")
  /\ UNCHANGED <<authority, projection, library, draft, want, since, touched, answer>>

Rebuild ==
  /\ pc = "replace"
  /\ rows' = copies
  /\ through' = last
  /\ Goto("trim")
  /\ UNCHANGED <<authority, library, draft, want, since, last, touched, copies, answer>>

Trim ==
  /\ pc = "trim"
  /\ Compact(last)
  /\ Goto("match")
  /\ UNCHANGED <<notes, history, known, log, projection, library, draft,
                 want, since, last, touched, copies, answer>>

\* A name nobody ever used matches nothing.
Resolved(filter) == filter \subseteq known

\* The transcripts some row cites in the generation that is indexed.
Scope(hits) == {rows[n].doc : n \in {h \in hits : index[rows[h].doc] = rows[h].gen}}

\* The filtered answer; the caller's limit is taken to leave room for all notes.
Match ==
  /\ pc = "match"
  /\ LET hits == IF Resolved(want) THEN {n \in Notes : Matches(rows[n], want)} ELSE {}
     IN answer' = [notes |-> {n \in hits : notes[n] # None}, docs |-> Scope(hits)]
  /\ Goto("answered")
  /\ UNCHANGED <<authority, projection, library, draft, want, since, last, touched, copies>>

Rest ==
  /\ Goto("idle")
  /\ want' = None /\ since' = 0 /\ last' = 0
  /\ touched' = {} /\ copies' = [n \in Notes |-> None]
  /\ answer' = [notes |-> {}, docs |-> {}]

Answer ==
  /\ pc = "answered"
  /\ Rest
  /\ UNCHANGED <<authority, projection, library, draft>>

-----------------------------------------------------------------------------
(* The environment.                                                         *)

\* The process is killed: its transactions are whole or not at all.
Crash ==
  /\ pc # "idle"
  /\ Rest
  /\ UNCHANGED <<authority, projection, library, draft>>

\* The projection is disposable: its file may be deleted.
LoseProjection ==
  /\ pc = "idle"
  /\ through > 0
  /\ rows' = [n \in Notes |-> None]
  /\ through' = 0
  /\ UNCHANGED <<authority, library, draft, process>>

RewriteTranscript(d, g) ==
  /\ file' = [file EXCEPT ![d] = g]
  /\ UNCHANGED <<authority, projection, index, draft, process>>

RefreshLibrary ==
  /\ index' = file
  /\ UNCHANGED <<authority, projection, file, draft, process>>

Writes ==
  \/ \E n \in Notes, b \in Bodies, ls \in SUBSET Labels :
       \E d \in Docs : CreateNote(n, d, b, ls)
  \/ \E n \in Notes : \/ \E b \in Bodies : UpdateNote(n, b)
                      \/ \E ls \in SUBSET Labels : SetNoteLabels(n, ls)
                      \/ DeleteByIdentity(n)
  \/ \E c \in Clients : \/ \E n \in Notes : Review(c, n)
                        \/ Abandon(c)
                        \/ \E b \in Bodies, ls \in SUBSET Labels : ReplaceNote(c, b, ls)
                        \/ DeleteNote(c)
                        \/ Reconsider(c)
                        \/ ReanchorNote(c)

Search ==
  \/ Compare \/ Fetch \/ Read \/ Apply \/ Settle \/ Snapshot \/ Rebuild \/ Trim
  \/ Match \/ Answer

Environment ==
  \/ Crash \/ LoseProjection \/ RefreshLibrary
  \/ \E d \in Docs, g \in Generations \cup {None} : RewriteTranscript(d, g)

Next == Writes \/ (\E f \in SUBSET Labels : Ask(f)) \/ Search \/ Environment

Spec == Init /\ [][Next]_vars

-----------------------------------------------------------------------------
(* Properties.                                                              *)

\* Every note and every row has its type, the journal has not lost its count,
\* and the projection has not run ahead of it.
TypeOK ==
  /\ notes \in [Notes -> NoteRecord \cup {None}]
  /\ history \in [Notes -> Seq(Generations)]
  /\ known \subseteq Labels
  /\ log \in Seq(Notes) /\ floor \in 0 .. Len(log)
  /\ rows \in [Notes -> Row \cup {None}]
  /\ through \in 0 .. Len(log)
  /\ file \in [Docs -> Generations \cup {None}]
  /\ index \in [Docs -> Generations \cup {None}]
  /\ draft \in [Clients -> Drafts \cup {None}]
  /\ pc \in {"idle", "compare", "fetch", "read", "apply", "settle", "snapshot",
             "replace", "trim", "match", "answered"}
  /\ since \in 0 .. Len(log) /\ last \in 0 .. Len(log)
  /\ touched \subseteq Notes /\ copies \in [Notes -> Row \cup {None}]

\* A search answers for the notes as they were when it was asked, or later:
\* whoever finds or misses a note wrongly does so because the note was written
\* during the search.  Whatever was compacted, lost, cut short or overtaken
\* before, the projector notices (sync, research_projector.py).
SearchIsCurrent ==
  pc = "answered" =>
    \A n \in Notes :
      \/ n \in answer.notes <=> Matches(Projected(notes[n]), want)
      \/ \E s \in (since + 1) .. Len(log) : log[s] = n

\* What a client replaces, deletes or re-anchors is, in every part, the note its
\* list showed when it did: no write path leaves updated_at as it was
\* (_require_note_version).  What its editor had been opened on is ResearchView's.
EditsWhatWasSeen ==
  [][\A c \in Clients, n \in Notes :
       (draft[c] # None /\ draft[c].id = n /\ draft'[c] = None /\ notes'[n] # notes[n])
         => notes[n] = draft[c].note]_vars

\* While a note lives, what it ever cited stays on record, in order: the history
\* only grows, and a citation that is replaced is its next entry (reanchor_note).
CitationsAreKept ==
  [][\A n \in Notes :
       (notes[n] # None /\ notes'[n] # None) =>
         IF notes'[n].gen = notes[n].gen
           THEN history'[n] = history[n]
           ELSE history'[n] = Append(history[n], notes[n].gen)]_vars

=============================================================================
