------------------------ MODULE ResearchStateProofs ------------------------
(***************************************************************************)
(* ResearchState for any number of notes, clients and changes, any batch    *)
(* size and any retention: a search never answers from a stale projection,  *)
(* and what a client edits is what it saw.                                  *)
(***************************************************************************)
EXTENDS ResearchState, TLAPS

States == {"idle", "compare", "fetch", "read", "apply", "settle", "snapshot",
           "replace", "trim", "match", "answered"}

NotesType == notes \in [Notes -> NoteRecord \cup {None}]
LibraryType == /\ file \in [Docs -> Generations \cup {None}]
               /\ index \in [Docs -> Generations \cup {None}]
HistoryType == history \in [Notes -> Seq(Generations)]
DraftType == /\ draft \in [Clients -> Drafts \cup {None}]
             /\ \A c \in Clients : draft[c] # None /\ draft[c].ready
                                    => draft[c].candidate \in Generations
LogType == log \in Seq(Notes) /\ floor \in 0 .. Len(log) /\ known \subseteq Labels
RowsType == /\ rows \in [Notes -> Row \cup {None}]
            /\ copies \in [Notes -> Row \cup {None}]
ProcessType == /\ through \in 0 .. Len(log)
               /\ since \in 0 .. Len(log) /\ last \in 0 .. Len(log)
               /\ pc \in States /\ touched \subseteq Notes

Types == /\ NotesType /\ LibraryType /\ HistoryType /\ DraftType
         /\ LogType /\ RowsType /\ ProcessType

\* Every live note was journalled when its version was set.
Journalled ==
  \A n \in Notes : notes[n] # None =>
    /\ notes[n].version \in 1 .. Len(log)
    /\ log[notes[n].version] = n
    /\ notes[n].labels \subseteq known

\* A row is what the note projects to, or a change after t says otherwise.
Follows(n, row, t) ==
  \/ row = Projected(notes[n])
  \/ \E s \in (t + 1) .. Len(log) : log[s] = n

Trustworthy == through < floor \/ \A n \in Notes : Follows(n, rows[n], through)

\* What the searching process knows at each of its steps.
AtFetch   == pc \in {"fetch", "settle"} => last = through /\ floor <= through
AtBatch   == pc \in {"read", "apply"} =>
               /\ floor <= through /\ through <= last
               /\ touched = {log[s] : s \in (through + 1) .. last}
AtApply   == pc = "apply" => \A n \in touched : Follows(n, copies[n], last)
AtSettle  == pc = "settle" => since <= last
AtReplace == pc = "replace" => /\ since <= last /\ floor <= last
                               /\ \A n \in Notes : Follows(n, copies[n], last)
AtTrim    == pc = "trim" => last = through /\ since <= last /\ floor <= last
AtMatch   == pc = "match" => since <= through /\ floor <= through

SearchInv ==
  /\ Trustworthy
  /\ AtFetch /\ AtBatch /\ AtApply /\ AtSettle /\ AtReplace /\ AtTrim /\ AtMatch
  /\ SearchIsCurrent

\* A draft of the version that is there is a draft of the note that is there.
DraftInv ==
  \A c \in Clients : draft[c] # None =>
    /\ draft[c].note.version \in 1 .. Len(log)
    /\ (notes[draft[c].id] # None /\ notes[draft[c].id].version = draft[c].note.version)
         => notes[draft[c].id] = draft[c].note

-----------------------------------------------------------------------------
(* The writes have one shape.                                               *)

\* Exactly note n changes, at the end of the journal.
Changed(n) ==
  /\ log' = Append(log, n)
  /\ notes' = [notes EXCEPT ![n] = notes'[n]]
  /\ \/ notes'[n] = None
     \/ /\ notes'[n] \in NoteRecord
        /\ notes'[n].version = Len(log) + 1
        /\ notes'[n].labels \subseteq known'
  /\ known \subseteq known' /\ known' \subseteq Labels
  /\ UNCHANGED <<floor, projection, library, process>>

\* What the search looks at stays as it is.
Quiet == UNCHANGED <<authority, projection, process>>

LEMMA Revised ==
  ASSUME NEW note \in NoteRecord, NEW v \in Nat, NEW b \in Bodies,
         NEW ls \in SUBSET Labels, NEW g \in Generations
  PROVE  /\ [note EXCEPT !.body = b, !.version = v] \in NoteRecord
         /\ [note EXCEPT !.body = b, !.version = v].version = v
         /\ [note EXCEPT !.body = b, !.version = v].gen = note.gen
         /\ [note EXCEPT !.labels = ls, !.version = v] \in NoteRecord
         /\ [note EXCEPT !.labels = ls, !.version = v].version = v
         /\ [note EXCEPT !.labels = ls, !.version = v].gen = note.gen
         /\ [note EXCEPT !.body = b, !.labels = ls, !.version = v] \in NoteRecord
         /\ [note EXCEPT !.body = b, !.labels = ls, !.version = v].version = v
         /\ [note EXCEPT !.body = b, !.labels = ls, !.version = v].gen = note.gen
         /\ [note EXCEPT !.gen = g, !.version = v] \in NoteRecord
         /\ [note EXCEPT !.gen = g, !.version = v].version = v
         /\ [note EXCEPT !.gen = g, !.version = v].gen = g
BY DEF NoteRecord

LEMMA WriteChanges ==
  ASSUME Types, NEW n \in Notes, NEW note \in NoteRecord,
         note.version = Len(log) + 1, Write(n, note)
  PROVE  Changed(n)
BY DEF Types, NotesType, LogType, Write, Journal, Changed, NoteRecord

LEMMA RemoveChanges ==
  ASSUME Types, NEW n \in Notes, RemoveNote(n)
  PROVE  Changed(n)
BY DEF Types, NotesType, LogType, RemoveNote, Journal, Changed

LEMMA LooksQuiet ==
  ASSUME NEW c \in Clients, (\E n \in Notes : Review(c, n)) \/ Abandon(c) \/ Reconsider(c)
  PROVE  Quiet
BY DEF Review, Abandon, Reconsider, Quiet

\* Each action of Writes changes one note and ends at most one client's draft,
\* or changes nothing but a draft.
LEMMA WritesShape ==
  ASSUME Types, Journalled, Writes
  PROVE  \/ \E c \in Clients : (\E n \in Notes : Review(c, n)) \/ Abandon(c) \/ Reconsider(c)
         \/ /\ \E n \in Notes : Changed(n)
            /\ UNCHANGED draft \/ \E c \in Clients : Done(c)
<1> USE DEF Types, NotesType, LogType
<1>1. ASSUME NEW n \in Notes, NEW b \in Bodies, NEW ls \in SUBSET Labels, NEW d \in Docs,
             CreateNote(n, d, b, ls)
      PROVE  Changed(n)
  <2>1. [doc |-> d, gen |-> index[d], body |-> b, labels |-> ls,
         version |-> Len(log) + 1] \in NoteRecord
    BY <1>1 DEF CreateNote, NoteRecord, LibraryType, Citable
  <2> QED BY <1>1, <2>1, WriteChanges DEF CreateNote
<1>0. Len(log) + 1 \in Nat
  OBVIOUS
<1>2. ASSUME NEW n \in Notes, NEW b \in Bodies, UpdateNote(n, b)
      PROVE  Changed(n)
  <2>1. notes[n] \in NoteRecord
    BY <1>2 DEF UpdateNote
  <2>2. /\ [notes[n] EXCEPT !.body = b, !.version = Len(log) + 1] \in NoteRecord
        /\ [notes[n] EXCEPT !.body = b, !.version = Len(log) + 1].version = Len(log) + 1
    BY <1>0, <2>1, Revised DEF Generations, NoteRecord
  <2> QED BY <1>2, <2>2, WriteChanges DEF UpdateNote
<1>3. ASSUME NEW n \in Notes, NEW ls \in SUBSET Labels, SetNoteLabels(n, ls)
      PROVE  Changed(n)
  <2>1. notes[n] \in NoteRecord
    BY <1>3 DEF SetNoteLabels
  <2>2. /\ [notes[n] EXCEPT !.labels = ls, !.version = Len(log) + 1] \in NoteRecord
        /\ [notes[n] EXCEPT !.labels = ls, !.version = Len(log) + 1].version = Len(log) + 1
    BY <1>0, <2>1, Revised DEF NoteRecord
  <2> QED BY <1>3, <2>2, WriteChanges DEF SetNoteLabels
<1>4. ASSUME NEW c \in Clients, NEW b \in Bodies, NEW ls \in SUBSET Labels,
             ReplaceNote(c, b, ls)
      PROVE  draft[c].id \in Notes /\ Changed(draft[c].id)
  <2>1. draft[c].id \in Notes /\ notes[draft[c].id] \in NoteRecord
    BY <1>4 DEF ReplaceNote, UpToDate, DraftType, Drafts
  <2>2. /\ [notes[draft[c].id] EXCEPT !.body = b, !.labels = ls, !.version = Len(log) + 1]
              \in NoteRecord
        /\ [notes[draft[c].id] EXCEPT !.body = b, !.labels = ls,
                                      !.version = Len(log) + 1].version = Len(log) + 1
    BY <1>0, <2>1, Revised DEF NoteRecord
  <2> QED BY <1>4, <2>1, <2>2, WriteChanges DEF ReplaceNote
<1>5. ASSUME NEW c \in Clients, ReanchorNote(c)
      PROVE  draft[c].id \in Notes /\ Changed(draft[c].id)
  <2>1. draft[c].id \in Notes /\ notes[draft[c].id] \in NoteRecord
    BY <1>5 DEF ReanchorNote, UpToDate, DraftType, Drafts
  <2>2. draft[c].candidate \in Generations
    BY <1>5 DEF ReanchorNote, UpToDate, DraftType, Drafts
  <2>3. /\ [notes[draft[c].id] EXCEPT !.gen = draft[c].candidate, !.version = Len(log) + 1]
              \in NoteRecord
        /\ [notes[draft[c].id] EXCEPT !.gen = draft[c].candidate,
                                      !.version = Len(log) + 1].version = Len(log) + 1
    BY <1>0, <2>1, <2>2, Revised DEF NoteRecord
  <2> QED BY <1>5, <2>1, <2>3, WriteChanges DEF ReanchorNote
<1>6. ASSUME NEW n \in Notes, DeleteByIdentity(n)
      PROVE  Changed(n)
  BY <1>6, RemoveChanges DEF DeleteByIdentity
<1>7. ASSUME NEW c \in Clients, DeleteNote(c)
      PROVE  draft[c].id \in Notes /\ Changed(draft[c].id)
  BY <1>7, RemoveChanges DEF DeleteNote, UpToDate, DraftType, Drafts
<1> QED
  BY <1>1, <1>2, <1>3, <1>4, <1>5, <1>6, <1>7
  DEF Writes, CreateNote, UpdateNote, SetNoteLabels, DeleteByIdentity, ReplaceNote,
      ReanchorNote, DeleteNote

-----------------------------------------------------------------------------
(* Types.                                                                   *)

LEMMA ProjectedType ==
  ASSUME NEW note \in NoteRecord \cup {None}
  PROVE  Projected(note) \in Row \cup {None}
BY DEF Projected, NoteRecord, Row

LEMMA InitTypes == ASSUME Init PROVE Types
BY DEF Init, Types, NotesType, LibraryType, HistoryType, DraftType, LogType,
       RowsType, ProcessType, States

\* A changed note is typed, whatever wrote it.
LEMMA ChangedTypes ==
  ASSUME Types, NEW n \in Notes, Changed(n)
  PROVE  NotesType' /\ LibraryType' /\ LogType' /\ RowsType' /\ ProcessType'
<1>1. NotesType' /\ LogType'
  BY DEF Types, NotesType, LogType, Changed
<1>2. LibraryType'
  BY DEF Types, LibraryType, Changed, library
<1>3. RowsType'
  BY DEF Types, RowsType, Changed, projection, process
<1>4. ProcessType'
  BY DEF Types, LogType, ProcessType, Changed, projection, process
<1> QED BY <1>1, <1>2, <1>3, <1>4

LEMMA WritesHistory ==
  ASSUME Types, Writes
  PROVE  HistoryType' /\ DraftType'
<1>0. \A c \in Clients : draft[c] # None =>
         /\ draft[c].id \in Notes /\ draft[c].note \in NoteRecord
         /\ draft[c].candidate \in Generations \cup {None}
         /\ draft[c].ready \in BOOLEAN
  BY DEF Types, DraftType, Drafts
<1>1. ASSUME UNCHANGED history PROVE HistoryType'
  BY <1>1 DEF Types, HistoryType
<1>2. ASSUME UNCHANGED draft PROVE DraftType'
  BY <1>2 DEF Types, DraftType
<1>3. ASSUME NEW c \in Clients, Done(c) PROVE DraftType'
  BY <1>3 DEF Types, DraftType, Done
<1>4. ASSUME NEW n \in Notes, RemoveNote(n) PROVE HistoryType'
  BY <1>4 DEF Types, HistoryType, RemoveNote
<1>5. CASE \E n \in Notes, b \in Bodies, ls \in SUBSET Labels :
             \E d \in Docs : CreateNote(n, d, b, ls)
  BY <1>5, <1>1, <1>2 DEF CreateNote
<1>6. CASE \E n \in Notes : \/ \E b \in Bodies : UpdateNote(n, b)
                            \/ \E ls \in SUBSET Labels : SetNoteLabels(n, ls)
  BY <1>6, <1>1, <1>2 DEF UpdateNote, SetNoteLabels
<1>7. CASE \E n \in Notes : DeleteByIdentity(n)
  BY <1>7, <1>2, <1>4 DEF DeleteByIdentity
<1>8. ASSUME NEW c \in Clients, NEW n \in Notes, Review(c, n) PROVE HistoryType' /\ DraftType'
  <2>1. Candidate(notes[n]) \in Generations \cup {None}
    BY <1>8 DEF Review, Candidate, Types, NotesType, NoteRecord, LibraryType
  <2>2. [id |-> n, note |-> notes[n], candidate |-> Candidate(notes[n]), ready |-> FALSE]
          \in Drafts
    BY <1>8, <2>1 DEF Review, Drafts, Types, NotesType
  <2> HIDE DEF Drafts
  <2>3. DraftType'
    BY <1>8, <2>2 DEF Review, Types, DraftType
  <2> QED BY <1>8, <2>3, <1>1 DEF Review, authority
<1>9. CASE \E c \in Clients : Abandon(c)
  BY <1>9, <1>1 DEF Abandon, authority, Types, DraftType
<1>10. ASSUME NEW c \in Clients, Reconsider(c) PROVE HistoryType' /\ DraftType'
  <2>1. draft[c] \in Drafts /\ draft[c].candidate \in Generations
    BY <1>10 DEF Reconsider, Types, DraftType, Drafts
  <2>2. /\ [draft[c] EXCEPT !.ready = TRUE] \in Drafts
        /\ [draft[c] EXCEPT !.ready = TRUE].candidate \in Generations
    BY <2>1 DEF Drafts
  <2>3. draft' = [draft EXCEPT ![c] = [draft[c] EXCEPT !.ready = TRUE]]
    BY <1>10 DEF Reconsider
  <2> HIDE DEF Drafts
  <2>4. DraftType'
    BY <2>2, <2>3 DEF Types, DraftType
  <2> QED BY <1>10, <2>4, <1>1 DEF Reconsider, authority
<1>11. CASE \E c \in Clients, b \in Bodies, ls \in SUBSET Labels : ReplaceNote(c, b, ls)
  BY <1>11, <1>1, <1>3 DEF ReplaceNote
<1>12. CASE \E c \in Clients : DeleteNote(c)
  BY <1>12, <1>0, <1>3, <1>4 DEF DeleteNote, UpToDate
<1>13. ASSUME NEW c \in Clients, ReanchorNote(c) PROVE HistoryType' /\ DraftType'
  <2>1. draft[c].id \in Notes /\ notes[draft[c].id].gen \in Generations
    BY <1>0, <1>13 DEF ReanchorNote, UpToDate, Types, NotesType, NoteRecord
  <2>2. HistoryType'
    BY <1>13, <2>1 DEF ReanchorNote, Types, HistoryType
  <2> QED BY <1>3, <1>13, <2>2 DEF ReanchorNote
<1> QED
  BY <1>5, <1>6, <1>7, <1>8, <1>9, <1>10, <1>11, <1>12, <1>13 DEF Writes

LEMMA SearchTypes ==
  ASSUME Types, CountsAssumption, Search
  PROVE  Types'
<1> USE DEF Types, LogType, ProcessType, RowsType, States, Goto
<1>0. NotesType /\ LibraryType /\ HistoryType /\ DraftType
  OBVIOUS
<1>1. ASSUME UNCHANGED <<notes, library, history, draft>>
      PROVE  NotesType' /\ LibraryType' /\ HistoryType' /\ DraftType'
  BY <1>0, <1>1 DEF NotesType, LibraryType, HistoryType, DraftType, library
<1>2. CASE Compare
  BY <1>1, <1>2 DEF Compare, authority, projection, library
<1>3. CASE Fetch
  <2>1. last' \in 0 .. Len(log) /\ touched' \subseteq Notes
    BY <1>3 DEF Fetch, Greater, Least, CountsAssumption
  <2> QED BY <1>1, <1>3, <2>1 DEF Fetch, authority, projection, library
<1>4. \A n \in Notes : Projected(notes[n]) \in Row \cup {None}
  BY ProjectedType DEF NotesType
<1>5. CASE Read
  BY <1>1, <1>4, <1>5 DEF Read, authority, projection, library
<1>6. CASE Apply
  BY <1>1, <1>6 DEF Apply, authority, library
<1>7. CASE Settle
  BY <1>1, <1>7, CountsAssumption DEF Settle, Compact, Greater, CountsAssumption, projection, library
<1>8. CASE Snapshot
  BY <1>1, <1>4, <1>8 DEF Snapshot, authority, projection, library
<1>9. CASE Rebuild
  BY <1>1, <1>9 DEF Rebuild, authority, library
<1>10. CASE Trim
  BY <1>1, <1>10, CountsAssumption DEF Trim, Compact, Greater, CountsAssumption, projection, library
<1>11. CASE Match
  BY <1>1, <1>11 DEF Match, authority, projection, library
<1>12. CASE Answer
  BY <1>1, <1>12 DEF Answer, Rest, authority, projection, library
<1> QED
  BY <1>2, <1>3, <1>5, <1>6, <1>7, <1>8, <1>9, <1>10, <1>11, <1>12 DEF Search

LEMMA EnvironmentTypes ==
  ASSUME Types, Environment \/ (\E f \in SUBSET Labels : Ask(f))
  PROVE  Types'
<1> USE DEF Types, LogType, ProcessType, RowsType, States, Goto
<1>0. NotesType /\ LibraryType /\ HistoryType /\ DraftType
  OBVIOUS
<1>1. ASSUME UNCHANGED <<notes, history, draft>>
      PROVE  NotesType' /\ HistoryType' /\ DraftType'
  BY <1>0, <1>1 DEF NotesType, HistoryType, DraftType
<1>2. ASSUME UNCHANGED library PROVE LibraryType'
  BY <1>0, <1>2 DEF LibraryType, library
<1>3. CASE Crash
  BY <1>1, <1>2, <1>3 DEF Crash, Rest, authority, projection, library
<1>4. CASE LoseProjection
  BY <1>1, <1>2, <1>4 DEF LoseProjection, authority, process
<1>5. CASE RefreshLibrary
  BY <1>0, <1>1, <1>5 DEF RefreshLibrary, LibraryType, authority, projection, process
<1>6. CASE \E d \in Docs, g \in Generations \cup {None} : RewriteTranscript(d, g)
  BY <1>0, <1>1, <1>6 DEF RewriteTranscript, LibraryType, authority, projection, process
<1>7. CASE \E f \in SUBSET Labels : Ask(f)
  BY <1>1, <1>2, <1>7 DEF Ask, authority, projection, library
<1> QED BY <1>3, <1>4, <1>5, <1>6, <1>7 DEF Environment

LEMMA JournalledStep ==
  ASSUME Types, Journalled, [Next]_vars
  PROVE  Journalled'
<1>1. ASSUME NEW n \in Notes, Changed(n) PROVE Journalled'
  BY <1>1 DEF Journalled, Changed, Types, NotesType, LogType
<1>2. ASSUME UNCHANGED <<notes, log, known>> PROVE Journalled'
  BY <1>2 DEF Journalled
<1>3. CASE Writes
  BY <1>1, <1>2, <1>3, WritesShape, LooksQuiet DEF Quiet, authority
<1>4. CASE Search
  BY <1>2, <1>4 DEF Search, Compare, Fetch, Read, Apply, Settle, Snapshot, Rebuild,
                    Trim, Match, Answer, authority
<1>5. CASE Environment \/ \E f \in SUBSET Labels : Ask(f)
  BY <1>2, <1>5 DEF Environment, Ask, Crash, LoseProjection, RefreshLibrary,
                    RewriteTranscript, authority
<1>6. CASE UNCHANGED vars
  BY <1>2, <1>6 DEF vars, authority
<1> QED BY <1>3, <1>4, <1>5, <1>6 DEF Next

LEMMA TypesStep ==
  ASSUME Types, Journalled, CountsAssumption, [Next]_vars
  PROVE  Types'
<1>1. CASE Writes
  <2>1. CASE Quiet
    <3>1. NotesType' /\ LogType' /\ RowsType' /\ ProcessType'
      BY <2>1 DEF Quiet, Types, NotesType, LogType, RowsType, ProcessType, authority,
                  projection, process
    <3>2. LibraryType' \/ library' # library
      BY DEF Types, LibraryType, library
    <3>3. UNCHANGED library
      BY <1>1 DEF Writes, CreateNote, UpdateNote, SetNoteLabels, DeleteByIdentity, Review,
                  Abandon, ReplaceNote, DeleteNote, Reconsider, ReanchorNote, Write, RemoveNote
    <3> QED BY <1>1, <3>1, <3>2, <3>3, WritesHistory DEF Types
  <2> QED BY <1>1, <2>1, WritesShape, LooksQuiet, ChangedTypes, WritesHistory DEF Types
<1>2. CASE UNCHANGED vars
  BY <1>2 DEF vars, authority, projection, library, process, Types, NotesType, LibraryType,
              HistoryType, DraftType, LogType, RowsType, ProcessType
<1> QED BY <1>1, <1>2, SearchTypes, EnvironmentTypes DEF Next

LEMMA TypesInvariant == Spec => [](Types /\ Journalled)
<1>1. Init => Types /\ Journalled
  BY InitTypes DEF Init, Journalled
<1>2. Types /\ Journalled /\ [Next]_vars => Types' /\ Journalled'
  BY TypesStep, JournalledStep, CountsAssumption
<1> QED BY <1>1, <1>2, PTL DEF Spec

\* Every reachable state of notes, journal, projection and search has its type,
\* and the projection is never ahead of the journal (sqlite_research_state.py).
THEOREM TypeCorrect == Spec => []TypeOK
<1>1. Types => TypeOK
  BY DEF Types, TypeOK, NotesType, LibraryType, HistoryType, DraftType, LogType, RowsType,
         ProcessType, States
<1> QED BY <1>1, TypesInvariant, PTL

-----------------------------------------------------------------------------
(* A search answers for what was there when it was asked, or later.         *)

\* A write keeps every row as good as it was: the note written has a change
\* after every t, the others are what they were.
LEMMA ChangedFollows ==
  ASSUME Types, NEW m \in Notes, Changed(m), NEW n \in Notes, NEW row,
         NEW t \in 0 .. Len(log), Follows(n, row, t)
  PROVE  Follows(n, row, t)'
<1> USE DEF Types, NotesType, LogType
<1>1. Len(log') = Len(log) + 1 /\ log'[Len(log) + 1] = m
      /\ \A s \in 1 .. Len(log) : log'[s] = log[s]
  BY DEF Changed
<1>2. CASE n = m
  BY <1>1, <1>2 DEF Follows
<1>3. CASE n # m /\ row = Projected(notes[n])
  BY <1>3 DEF Follows, Changed, Projected
<1>4. CASE \E s \in (t + 1) .. Len(log) : log[s] = n
  BY <1>1, <1>4 DEF Follows
<1> QED BY <1>2, <1>3, <1>4 DEF Follows

LEMMA ChangedSearch ==
  ASSUME Types, SearchInv, NEW m \in Notes, Changed(m)
  PROVE  SearchInv'
<1> USE DEF SearchInv
<1>1. /\ floor' = floor /\ rows' = rows /\ through' = through /\ pc' = pc /\ want' = want
      /\ since' = since /\ last' = last /\ touched' = touched /\ copies' = copies
      /\ answer' = answer
  BY DEF Changed, projection, process
<1>2. /\ Len(log') = Len(log) + 1 /\ log'[Len(log) + 1] = m
      /\ \A s \in 1 .. Len(log) : log'[s] = log[s]
  BY DEF Changed, Types, LogType
<1>3. Trustworthy'
  BY <1>1, ChangedFollows DEF Trustworthy, Types, ProcessType
<1>4. AtFetch' /\ AtSettle' /\ AtTrim' /\ AtMatch'
  BY <1>1 DEF AtFetch, AtSettle, AtTrim, AtMatch
<1>5. AtBatch'
  <2>1. \A s \in (through + 1) .. last : log'[s] = log[s]
    BY <1>2 DEF Types, ProcessType, LogType
  <2> QED BY <1>1, <2>1 DEF AtBatch
<1>6. AtApply'
  BY <1>1, ChangedFollows DEF AtApply, Types, ProcessType
<1>7. AtReplace'
  BY <1>1, ChangedFollows DEF AtReplace, Types, ProcessType
<1>8. SearchIsCurrent'
  <2> SUFFICES ASSUME pc = "answered", NEW n \in Notes
               PROVE  \/ n \in answer.notes <=> Matches(Projected(notes'[n]), want)
                      \/ \E s \in (since + 1) .. Len(log') : log'[s] = n
    BY <1>1 DEF SearchIsCurrent, Matches, Projected
  <2>1. CASE n = m
    BY <1>2, <2>1 DEF Types, ProcessType, LogType
  <2>2. CASE n # m
    <3>1. notes'[n] = notes[n]
      BY <2>2 DEF Changed, Types, NotesType
    <3>2. \/ n \in answer.notes <=> Matches(Projected(notes[n]), want)
          \/ \E s \in (since + 1) .. Len(log) : log[s] = n
      BY DEF SearchIsCurrent
    <3>3. ASSUME NEW s \in (since + 1) .. Len(log), log[s] = n
          PROVE  s \in (since + 1) .. Len(log') /\ log'[s] = n
      BY <1>2, <3>3 DEF Types, ProcessType, LogType
    <3> QED BY <3>1, <3>2, <3>3
  <2> QED BY <2>1, <2>2
<1> QED BY <1>3, <1>4, <1>5, <1>6, <1>7, <1>8

LEMMA QuietSearch ==
  ASSUME SearchInv, Quiet
  PROVE  SearchInv'
BY DEF SearchInv, Quiet, authority, projection, process, Trustworthy, AtFetch, AtBatch,
       AtApply, AtSettle, AtReplace, AtTrim, AtMatch, SearchIsCurrent, Follows, Matches,
       Projected

\* With nothing written, a row is as good after a step as before it.
LEMMA FollowsStays ==
  ASSUME NEW n, NEW row, NEW t, Follows(n, row, t), UNCHANGED <<notes, log>>
  PROVE  Follows(n, row, t)'
BY DEF Follows, Projected

\* A row that follows from an earlier change follows from a later one too.
LEMMA FollowsEarlier ==
  ASSUME NEW n, NEW row, NEW t \in Nat, NEW u \in Nat, u <= t, Follows(n, row, t)
  PROVE  Follows(n, row, u)
BY DEF Follows

\* The invariant away from the steps that hold data of their own.
LEMMA AtRest ==
  ASSUME Trustworthy', pc' \in {"idle", "compare", "snapshot"}
  PROVE  SearchInv'
BY DEF SearchInv, AtFetch, AtBatch, AtApply, AtSettle, AtReplace, AtTrim, AtMatch,
       SearchIsCurrent

LEMMA TrustworthyStays ==
  ASSUME Trustworthy, UNCHANGED <<notes, log, floor, projection>>
  PROVE  Trustworthy'
BY DEF Trustworthy, projection, Follows, Projected

LEMMA SearchSteps ==
  ASSUME Types, Journalled, SearchInv, CountsAssumption, Search
  PROVE  SearchInv'
<1> USE DEF SearchInv, Goto
<1>0. /\ through \in 0 .. Len(log) /\ since \in 0 .. Len(log) /\ last \in 0 .. Len(log)
      /\ floor \in 0 .. Len(log) /\ Len(log) \in Nat
      /\ log \in Seq(Notes) /\ touched \subseteq Notes
      /\ \A n \in Notes : notes[n] \in NoteRecord \cup {None}
      /\ rows \in [Notes -> Row \cup {None}] /\ copies \in [Notes -> Row \cup {None}]
  BY DEF Types, ProcessType, LogType, NotesType, RowsType
<1>1. CASE Compare
  <2>1. Trustworthy'
    BY <1>1, TrustworthyStays DEF Compare, authority
  <2>2. AtFetch' /\ AtMatch'
    BY <1>0, <1>1 DEF Compare, MustRebuild, authority, projection, AtFetch, AtMatch
  <2>3. pc' \in {"match", "snapshot", "fetch"}
    BY <1>1 DEF Compare
  <2> QED BY <2>1, <2>2, <2>3 DEF AtBatch, AtApply, AtSettle, AtReplace, AtTrim, SearchIsCurrent
<1>2. CASE Fetch
  <2>0. /\ pc = "fetch" /\ pc' \in {"settle", "read"} /\ UNCHANGED <<authority, projection, since>>
    BY <1>2 DEF Fetch
  <2>1. Trustworthy'
    BY <2>0, TrustworthyStays DEF authority
  <2>2. last = through /\ floor <= through
    BY <2>0 DEF AtFetch
  <2>3. Greater(last, floor) = last
    BY <1>0, <2>2 DEF Greater
  <2>4. AtFetch' /\ AtSettle'
    BY <1>0, <1>2, <2>0, <2>2, <2>3 DEF Fetch, AtFetch, AtSettle, authority, projection
  <2>5. AtBatch'
    BY <1>0, <1>2, <2>0, <2>2, <2>3 DEF Fetch, AtBatch, Least, authority, projection, CountsAssumption
  <2> QED BY <2>0, <2>1, <2>4, <2>5 DEF AtApply, AtReplace, AtTrim, AtMatch, SearchIsCurrent
<1>3. CASE Read
  <2>0. pc = "read" /\ pc' = "apply" /\ UNCHANGED <<authority, projection, last, touched>>
    BY <1>3 DEF Read
  <2>1. Trustworthy'
    BY <2>0, TrustworthyStays DEF authority
  <2>2. AtBatch'
    BY <2>0 DEF AtBatch, authority, projection
  <2>3. AtApply'
    BY <1>0, <1>3, <2>0 DEF Read, AtApply, Follows, Projected, authority
  <2> QED BY <2>0, <2>1, <2>2, <2>3 DEF AtFetch, AtSettle, AtReplace, AtTrim, AtMatch, SearchIsCurrent
<1>4. CASE Apply
  <2>0. /\ pc = "apply" /\ pc' = "fetch" /\ UNCHANGED <<authority, last>> /\ through' = last
        /\ rows' = [n \in Notes |-> IF n \in touched THEN copies[n] ELSE rows[n]]
    BY <1>4 DEF Apply
  <2>1. /\ floor <= through /\ through <= last
        /\ touched = {log[s] : s \in (through + 1) .. last}
        /\ \A n \in touched : Follows(n, copies[n], last)
    BY <2>0 DEF AtBatch, AtApply
  <2>2. ASSUME NEW n \in Notes PROVE Follows(n, rows[n], through)
    BY <1>0, <2>1 DEF Trustworthy
  <2>3. ASSUME NEW n \in Notes PROVE Follows(n, rows'[n], last)
    <3>1. CASE n \in touched
      BY <2>0, <2>1, <3>1
    <3>2. CASE n \notin touched
      BY <1>0, <2>0, <2>1, <2>2, <3>2 DEF Follows
    <3> QED BY <3>1, <3>2
  <2>4. Trustworthy'
    BY <2>0, <2>3, FollowsStays DEF Trustworthy, authority
  <2>5. AtFetch'
    BY <1>0, <2>0, <2>1 DEF AtFetch, authority
  <2> QED BY <2>0, <2>4, <2>5 DEF AtBatch, AtApply, AtSettle, AtReplace, AtTrim, AtMatch, SearchIsCurrent
<1>5. CASE Settle
  <2>0. /\ pc = "settle" /\ pc' \in {"match", "snapshot"}
        /\ UNCHANGED <<notes, log, projection, since>>
    BY <1>5 DEF Settle
  <2>1. last = through /\ floor <= through /\ since <= last
    BY <2>0 DEF AtFetch, AtSettle
  <2>2. floor' \in Nat /\ floor' <= through
    BY <1>0, <1>5, <2>1 DEF Settle, Compact, Greater, CountsAssumption
  <2>3. Trustworthy'
    BY <1>0, <2>0, <2>1, FollowsStays DEF Trustworthy, projection
  <2>4. AtMatch'
    BY <2>0, <2>1, <2>2 DEF AtMatch, projection
  <2> QED BY <2>0, <2>3, <2>4 DEF AtFetch, AtBatch, AtApply, AtSettle, AtReplace, AtTrim, SearchIsCurrent
<1>6. CASE Snapshot
  <2>0. /\ pc = "snapshot" /\ pc' = "replace" /\ UNCHANGED <<authority, projection, since>>
        /\ last' = Len(log) /\ copies' = [n \in Notes |-> Projected(notes[n])]
    BY <1>6 DEF Snapshot
  <2>1. Trustworthy'
    BY <2>0, TrustworthyStays DEF authority
  <2>2. AtReplace'
    BY <1>0, <2>0 DEF AtReplace, Follows, Projected, authority
  <2> QED BY <2>0, <2>1, <2>2 DEF AtFetch, AtBatch, AtApply, AtSettle, AtTrim, AtMatch, SearchIsCurrent
<1>7. CASE Rebuild
  <2>0. /\ pc = "replace" /\ pc' = "trim" /\ UNCHANGED <<authority, since, last>>
        /\ rows' = copies /\ through' = last
    BY <1>7 DEF Rebuild
  <2>1. since <= last /\ floor <= last /\ \A n \in Notes : Follows(n, copies[n], last)
    BY <2>0 DEF AtReplace
  <2>2. Trustworthy'
    BY <2>0, <2>1, FollowsStays DEF Trustworthy, authority
  <2>3. AtTrim'
    BY <2>0, <2>1 DEF AtTrim, authority
  <2> QED BY <2>0, <2>2, <2>3 DEF AtFetch, AtBatch, AtApply, AtSettle, AtReplace, AtMatch, SearchIsCurrent
<1>8. CASE Trim
  <2>0. /\ pc = "trim" /\ pc' = "match" /\ UNCHANGED <<notes, log, projection, since>>
    BY <1>8 DEF Trim
  <2>1. last = through /\ since <= last /\ floor <= last
    BY <2>0 DEF AtTrim
  <2>2. floor' \in Nat /\ floor' <= through
    BY <1>0, <1>8, <2>1 DEF Trim, Compact, Greater, CountsAssumption
  <2>3. Trustworthy'
    BY <1>0, <2>0, <2>1, FollowsStays DEF Trustworthy, projection
  <2>4. AtMatch'
    BY <2>0, <2>1, <2>2 DEF AtMatch, projection
  <2> QED BY <2>0, <2>3, <2>4 DEF AtFetch, AtBatch, AtApply, AtSettle, AtReplace, AtTrim, SearchIsCurrent
<1>9. CASE Match
  <2>0. /\ pc = "match" /\ pc' = "answered" /\ UNCHANGED <<authority, projection, since, want>>
    BY <1>9 DEF Match
  <2>1. since <= through /\ floor <= through
    BY <2>0 DEF AtMatch
  <2>2. Trustworthy'
    BY <2>0, TrustworthyStays DEF authority
  <2>3. ASSUME NEW n \in Notes
        PROVE  n \in answer'.notes <=> /\ want \subseteq known
                                       /\ Matches(rows[n], want)
                                       /\ notes[n] # None
    BY <1>9 DEF Match, Resolved
  <2>4. ASSUME NEW n \in Notes
        PROVE  \/ n \in answer'.notes <=> Matches(Projected(notes[n]), want)
               \/ \E s \in (since + 1) .. Len(log) : log[s] = n
    <3>1. Follows(n, rows[n], since)
      BY <1>0, <2>1, FollowsEarlier DEF Trustworthy
    <3>2. CASE rows[n] = Projected(notes[n])
      <4>1. Matches(rows[n], want) => notes[n] # None
        BY <3>2 DEF Matches, Projected
      <4>2. Matches(rows[n], want) => want \subseteq known
        BY <1>0, <3>2, <4>1 DEF Matches, Projected, Journalled
      <4> QED BY <2>3, <3>2, <4>1, <4>2
    <3> QED BY <3>1, <3>2 DEF Follows
  <2>5. SearchIsCurrent'
    BY <2>0, <2>4 DEF SearchIsCurrent, Matches, Projected, authority
  <2> QED BY <2>0, <2>2, <2>5 DEF AtFetch, AtBatch, AtApply, AtSettle, AtReplace, AtTrim, AtMatch
<1>10. CASE Answer
  BY <1>10, TrustworthyStays, AtRest DEF Answer, Rest, authority
<1> QED
  BY <1>1, <1>2, <1>3, <1>4, <1>5, <1>6, <1>7, <1>8, <1>9, <1>10 DEF Search

LEMMA OtherSteps ==
  ASSUME Types, Journalled, SearchInv, Environment \/ \E f \in SUBSET Labels : Ask(f)
  PROVE  SearchInv'
<1>1. CASE Crash
  BY <1>1, TrustworthyStays, AtRest DEF SearchInv, Crash, Rest, Goto, authority
<1>2. CASE LoseProjection
  <2>0. pc = "idle" /\ pc' = pc /\ rows' = [n \in Notes |-> None] /\ through' = 0
        /\ UNCHANGED authority
    BY <1>2 DEF LoseProjection, process
  <2>1. ASSUME NEW n \in Notes PROVE Follows(n, rows'[n], 0)
    <3>1. CASE notes[n] = None
      BY <2>0, <3>1 DEF Follows, Projected
    <3>2. CASE notes[n] # None
      BY <3>2 DEF Follows, Journalled
    <3> QED BY <3>1, <3>2
  <2>2. Trustworthy'
    BY <2>0, <2>1, FollowsStays DEF Trustworthy, authority
  <2> QED BY <2>0, <2>2, AtRest
<1>3. CASE RefreshLibrary \/ \E d \in Docs, g \in Generations \cup {None} : RewriteTranscript(d, g)
  BY <1>3, QuietSearch DEF RefreshLibrary, RewriteTranscript, Quiet
<1>4. CASE \E f \in SUBSET Labels : Ask(f)
  BY <1>4, TrustworthyStays, AtRest DEF SearchInv, Ask, Goto, authority
<1> QED BY <1>1, <1>2, <1>3, <1>4 DEF Environment

LEMMA SearchInvariant == Spec => []SearchInv
<1>1. Init => SearchInv
  <2> SUFFICES ASSUME Init PROVE SearchInv
    OBVIOUS
  <2>1. Trustworthy
    BY DEF Init, Trustworthy, Follows, Projected
  <2> QED BY <2>1 DEF Init, SearchInv, AtFetch, AtBatch, AtApply, AtSettle, AtReplace,
                      AtTrim, AtMatch, SearchIsCurrent
<1>2. Types /\ Journalled /\ SearchInv /\ [Next]_vars => SearchInv'
  <2> SUFFICES ASSUME Types, Journalled, SearchInv, [Next]_vars PROVE SearchInv'
    OBVIOUS
  <2>1. CASE Writes
    BY <2>1, WritesShape, LooksQuiet, QuietSearch, ChangedSearch
  <2>2. CASE UNCHANGED vars
    BY <2>2, QuietSearch DEF vars, Quiet
  <2> QED BY <2>1, <2>2, SearchSteps, OtherSteps, CountsAssumption DEF Next
<1> QED BY <1>1, <1>2, TypesInvariant, PTL DEF Spec

\* Whatever was compacted, lost, cut short or overtaken: a search's answer is
\* right of every note that nobody wrote since it was asked (projector.sync).
THEOREM SearchCorrect == Spec => []SearchIsCurrent
<1>1. SearchInv => SearchIsCurrent
  BY DEF SearchInv
<1> QED BY <1>1, SearchInvariant, PTL

-----------------------------------------------------------------------------
(* What a client edits is what it saw; what a note cited stays on record.   *)

LEMMA DraftFields ==
  ASSUME Types, NEW c \in Clients, draft[c] # None
  PROVE  draft[c].id \in Notes /\ draft[c].note \in NoteRecord
BY DEF Types, DraftType, Drafts

\* A write gives its note a version no draft has.
LEMMA ChangedDrafts ==
  ASSUME Types, DraftInv, NEW n \in Notes, Changed(n),
         \A c \in Clients : draft'[c] = draft[c] \/ draft'[c] = None
  PROVE  DraftInv'
<1> SUFFICES ASSUME NEW c \in Clients, draft'[c] # None
             PROVE  /\ draft[c].note.version \in 1 .. Len(log')
                    /\ (notes'[draft[c].id] # None
                          /\ notes'[draft[c].id].version = draft[c].note.version)
                         => notes'[draft[c].id] = draft[c].note
  BY DEF DraftInv
<1>1. draft'[c] = draft[c] /\ draft[c] # None
  OBVIOUS
<1>2. Len(log') = Len(log) + 1 /\ Len(log) \in Nat
  BY DEF Changed, Types, LogType
<1>3. draft[c].note.version \in 1 .. Len(log)
  BY <1>1 DEF DraftInv
<1>4. CASE draft[c].id = n
  BY <1>1, <1>2, <1>3, <1>4 DEF Changed
<1>5. CASE draft[c].id # n
  <2>1. notes'[draft[c].id] = notes[draft[c].id]
    BY <1>1, <1>5, DraftFields DEF Changed, Types, NotesType
  <2> QED BY <1>1, <1>2, <1>3, <2>1 DEF DraftInv
<1> QED BY <1>4, <1>5

LEMMA DraftStep ==
  ASSUME Types, Journalled, DraftInv, [Next]_vars
  PROVE  DraftInv'
<1>1. ASSUME UNCHANGED <<notes, log>>, \A c \in Clients : draft'[c] = draft[c] \/ draft'[c] = None
      PROVE  DraftInv'
  BY <1>1 DEF DraftInv
<1>2. ASSUME NEW c \in Clients, NEW n \in Notes, Review(c, n) PROVE DraftInv'
  <2>1. /\ UNCHANGED <<notes, log>> /\ notes[n] # None
        /\ draft' = [draft EXCEPT ![c] = [id |-> n, note |-> notes[n],
                       candidate |-> Candidate(notes[n]), ready |-> FALSE]]
    BY <1>2 DEF Review, authority
  <2>2. notes[n].version \in 1 .. Len(log)
    BY <2>1 DEF Journalled
  <2> SUFFICES ASSUME NEW e \in Clients, draft'[e] # None
               PROVE  /\ draft'[e].note.version \in 1 .. Len(log)
                      /\ (notes[draft'[e].id] # None
                            /\ notes[draft'[e].id].version = draft'[e].note.version)
                           => notes[draft'[e].id] = draft'[e].note
    BY <2>1 DEF DraftInv
  <2>3. CASE e = c
    BY <2>1, <2>2, <2>3 DEF Types, DraftType
  <2>4. CASE e # c
    BY <2>1, <2>4 DEF DraftInv, Types, DraftType
  <2> QED BY <2>3, <2>4
<1>3. ASSUME NEW c \in Clients, Reconsider(c) PROVE DraftInv'
  <2>1. /\ UNCHANGED <<notes, log>> /\ draft[c] # None
        /\ draft' = [draft EXCEPT ![c] = [draft[c] EXCEPT !.ready = TRUE]]
    BY <1>3 DEF Reconsider, authority
  <2>2. draft[c] \in Drafts
    BY <2>1 DEF Types, DraftType
  <2>3. \A e \in Clients : draft'[e] # None =>
           draft[e] # None /\ draft'[e].id = draft[e].id /\ draft'[e].note = draft[e].note
    BY <2>1, <2>2 DEF Drafts, Types, DraftType
  <2> QED BY <2>1, <2>3 DEF DraftInv
<1>4. ASSUME NEW c \in Clients, Done(c) PROVE \A e \in Clients : draft'[e] = draft[e] \/ draft'[e] = None
  BY <1>4 DEF Done, Types, DraftType
<1>5. CASE Writes
  <2>1. CASE /\ \E n \in Notes : Changed(n)
             /\ UNCHANGED draft \/ \E c \in Clients : Done(c)
    BY <1>4, <2>1, ChangedDrafts
  <2>2. CASE \E c \in Clients : (\E n \in Notes : Review(c, n)) \/ Reconsider(c)
    BY <1>2, <1>3, <2>2
  <2>3. CASE \E c \in Clients : Abandon(c)
    BY <1>1, <2>3 DEF Abandon, authority, Types, DraftType
  <2> QED BY <1>5, <2>1, <2>2, <2>3, WritesShape
<1>6. CASE Search \/ Environment \/ \E f \in SUBSET Labels : Ask(f)
  BY <1>1, <1>6 DEF Search, Compare, Fetch, Read, Apply, Settle, Snapshot, Rebuild, Trim, Match,
     Answer, Environment, Ask, Crash, LoseProjection, RefreshLibrary, RewriteTranscript, authority
<1>7. CASE UNCHANGED vars
  BY <1>1, <1>7 DEF vars, authority
<1> QED BY <1>5, <1>6, <1>7 DEF Next

LEMMA DraftInvariant == Spec => [](Types /\ Journalled /\ DraftInv)
<1>1. Init => DraftInv
  BY DEF Init, DraftInv
<1>2. Types /\ Journalled /\ DraftInv /\ [Next]_vars => DraftInv'
  BY DraftStep
<1> QED BY <1>1, <1>2, TypesInvariant, PTL DEF Spec

\* What a client replaces, deletes or re-anchors is what it had before it, in
\* every part, for any number of clients (_require_note_version).
THEOREM EditsAreInformed == Spec => EditsWhatWasSeen
<1>1. ASSUME Types, Journalled, DraftInv, [Next]_vars
      PROVE  [\A c \in Clients, n \in Notes :
                (draft[c] # None /\ draft[c].id = n /\ draft'[c] = None /\ notes'[n] # notes[n])
                  => notes[n] = draft[c].note]_vars
  <2> SUFFICES ASSUME NEW c \in Clients, NEW n \in Notes, draft[c] # None, draft[c].id = n,
                      draft'[c] = None, notes'[n] # notes[n]
               PROVE  notes[n] = draft[c].note
    OBVIOUS
  <2>1. notes' # notes /\ draft' # draft
    BY DEF Types, DraftType
  <2>2. PICK e \in Clients : UpToDate(e) /\ Done(e)
    BY <1>1, <2>1 DEF Next, Writes, CreateNote, UpdateNote, SetNoteLabels, DeleteByIdentity,
       Review, Abandon, ReplaceNote, DeleteNote, Reconsider, ReanchorNote, Search, Compare,
       Fetch, Read, Apply, Settle, Snapshot, Rebuild, Trim, Match, Answer, Environment, Ask,
       Crash, LoseProjection, RefreshLibrary, RewriteTranscript, authority, vars
  <2>3. e = c
    BY <2>2 DEF Done, Types, DraftType
  <2> QED BY <1>1, <2>2, <2>3 DEF UpToDate, DraftInv
<1> QED BY <1>1, DraftInvariant, PTL DEF Spec, EditsWhatWasSeen

\* While a note lives its history holds, in order, all that it cited before
\* (reanchor_note), whoever else edits it.
THEOREM CitationsKept == Spec => CitationsAreKept
<1>1. ASSUME Types, Journalled, [Next]_vars
      PROVE  [\A n \in Notes :
                (notes[n] # None /\ notes'[n] # None) =>
                  IF notes'[n].gen = notes[n].gen
                    THEN history'[n] = history[n]
                    ELSE history'[n] = Append(history[n], notes[n].gen)]_vars
  <2> SUFFICES ASSUME NEW n \in Notes, notes[n] # None, notes'[n] # None
               PROVE  IF notes'[n].gen = notes[n].gen
                        THEN history'[n] = history[n]
                        ELSE history'[n] = Append(history[n], notes[n].gen)
    OBVIOUS
  <2> DEFINE Kept == /\ notes'[n].gen = notes[n].gen
                     /\ history'[n] = history[n]
  <2>n. notes \in [Notes -> NoteRecord \cup {None}]
    BY <1>1 DEF Types, NotesType
  <2>h. history \in [Notes -> Seq(Generations)]
    BY <1>1 DEF Types, HistoryType
  <2>r. notes[n] \in NoteRecord
    BY <2>n
  <2>0. notes[n] \in NoteRecord /\ DOMAIN notes = Notes /\ DOMAIN history = Notes
    BY <2>n, <2>h, <2>r
  <2>1. ASSUME UNCHANGED <<notes, history>> PROVE Kept
    BY <2>1
  <2>2. ASSUME NEW m \in Notes, NEW b \in Bodies, NEW ls \in SUBSET Labels, NEW d \in Docs,
               CreateNote(m, d, b, ls)
        PROVE  Kept
    <3>1. notes[n].version \in 1 .. Len(log) /\ log[notes[n].version] = n
      BY <1>1 DEF Journalled
    <3>2. m # n
      BY <2>2, <3>1 DEF CreateNote
    <3> QED BY <2>0, <2>2, <3>2 DEF CreateNote, Write
  <2>3. ASSUME NEW m \in Notes, NEW b \in Bodies, UpdateNote(m, b) PROVE Kept
    <3>1. [notes[n] EXCEPT !.body = b, !.version = Len(log) + 1].gen = notes[n].gen
      BY <2>0 DEF NoteRecord
    <3> QED BY <2>0, <2>3, <3>1 DEF UpdateNote, Write
  <2>4. ASSUME NEW m \in Notes, NEW ls \in SUBSET Labels, SetNoteLabels(m, ls) PROVE Kept
    <3>1. [notes[n] EXCEPT !.labels = ls, !.version = Len(log) + 1].gen = notes[n].gen
      BY <2>0 DEF NoteRecord
    <3> QED BY <2>0, <2>4, <3>1 DEF SetNoteLabels, Write
  <2>5. ASSUME NEW m \in Notes, RemoveNote(m) PROVE Kept
    BY <2>0, <2>5 DEF RemoveNote
  <2>6. ASSUME NEW c \in Clients, NEW b \in Bodies, NEW ls \in SUBSET Labels,
               ReplaceNote(c, b, ls)
        PROVE  Kept
    <3>1. [notes[n] EXCEPT !.body = b, !.labels = ls, !.version = Len(log) + 1].gen
            = notes[n].gen
      BY <2>0 DEF NoteRecord
    <3> QED BY <2>0, <2>6, <3>1 DEF ReplaceNote, Write
  <2>7. ASSUME NEW c \in Clients, ReanchorNote(c)
        PROVE  \/ Kept
               \/ /\ notes'[n].gen # notes[n].gen
                  /\ history'[n] = Append(history[n], notes[n].gen)
    <3>1. CASE n = draft[c].id
      <4>1. [notes[n] EXCEPT !.gen = draft[c].candidate, !.version = Len(log) + 1].gen
              = draft[c].candidate
        BY <2>0 DEF NoteRecord
      <4> QED BY <2>0, <2>7, <3>1, <4>1 DEF ReanchorNote, Write
    <3>2. CASE n # draft[c].id
      BY <2>0, <2>7, <3>2 DEF ReanchorNote, Write
    <3> QED BY <3>1, <3>2
  <2>8. ASSUME NEW c \in Clients, DeleteNote(c) PROVE Kept
    <3>1. draft[c].id \in Notes
      BY <1>1, <2>8, DraftFields DEF DeleteNote, UpToDate
    <3>2. RemoveNote(draft[c].id)
      BY <2>8 DEF DeleteNote
    <3> HIDE DEF Kept
    <3> QED BY <2>5, <3>1, <3>2
  <2>9. ASSUME NEW c \in Clients, (\E m \in Notes : Review(c, m)) \/ Abandon(c) \/ Reconsider(c)
        PROVE  Kept
    BY <2>1, <2>9 DEF Review, Abandon, Reconsider, authority
  <2>10. CASE Writes
    BY <2>2, <2>3, <2>4, <2>5, <2>6, <2>7, <2>8, <2>9, <2>10 DEF Writes, DeleteByIdentity
  <2>11. CASE Search \/ Environment \/ (\E f \in SUBSET Labels : Ask(f)) \/ UNCHANGED vars
    BY <2>1, <2>11 DEF Search, Compare, Fetch, Read, Apply, Settle, Snapshot, Rebuild, Trim,
       Match, Answer, Environment, Ask, Crash, LoseProjection, RefreshLibrary,
       RewriteTranscript, authority, vars
  <2> QED BY <1>1, <2>10, <2>11 DEF Next
<1> QED BY <1>1, TypesInvariant, PTL DEF Spec, CitationsAreKept

=============================================================================
