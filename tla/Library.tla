------------------------------- MODULE Library -------------------------------
(***************************************************************************)
(* The transcript library: canonical transcripts found among the completed  *)
(* jobs' records, the output directory and the remembered locations         *)
(* (locations.py) are read into a lexical index, a DuckDB file, and on      *)
(* demand embedded into a semantic one, another file (service.py,           *)
(* duckdb_index.py, duckdb_semantic.py).  A refresh or a rebuild reads file *)
(* after file while jobs, the owner and removable drives change them, and   *)
(* may be killed at each step; DuckDB's lock lets one process at a time     *)
(* hold the indexes.                                                        *)
(***************************************************************************)
EXTENDS Naturals, FiniteSets

CONSTANTS
  Documents,    \* job identities, each written in its canonical transcript
  Texts,        \* what a transcript may say: its canonical SHA-256
  Stamps,       \* size and modification time of a file
  LastPath,     \* places are 1 .. LastPath, in the order paths are sorted
  Roots,        \* directories that may be remembered
  Output,       \* the configured output directory
  RootOf,       \* the directory a place lies in
  MaxChanges,   \* bound: changes to files and drives
  Broken, None

Paths == 1 .. LastPath

Contents == [doc : Documents, text : Texts, stamp : Stamps]
Entries  == [path : Paths, text : Texts, stamp : Stamps]

ASSUME PlacesAssumption ==
  /\ LastPath \in Nat
  /\ Output \notin Roots
  /\ RootOf \in [Paths -> Roots \cup {Output}]
  /\ None \notin Documents \cup Paths \cup Entries
  /\ MaxChanges \in Nat

VARIABLES
  file, mounted, published, changes, \* what jobs, the owner and drives change
  locations,                         \* library-locations.json
  index, semantic,                   \* the two DuckDB files
  pc, job, verify, roots, seen,      \* the process at work
  todo, loaded, unchanged,
  touched                            \* history: places that changed under it

outside == <<file, mounted, published, changes>>
stores  == <<locations, index, semantic>>
process == <<pc, job, verify, roots, seen, todo, loaded, unchanged>>
vars    == <<outside, stores, process, touched>>

Nothing == [d \in Documents |-> None]

IsFile(p) == file[p] # None /\ RootOf[p] \in mounted \cup {Output}

\* load_indexed_transcript reads the whole file between two equal stats.
Readable(p) == IsFile(p) /\ file[p] # Broken

Entry(p) == [path |-> p, text |-> file[p].text, stamp |-> file[p].stamp]

\* corpus_fingerprint: the documents and their digests, nothing else.
Corpus(entries) == {<<d, entries[d].text>> : d \in {e \in Documents : entries[e] # None}}

Reading ==
  [d \in Documents |->
     LET at == {p \in Paths : Readable(p) /\ file[p].doc = d /\ RootOf[p] = Output} IN
     IF at = {} THEN None ELSE Entry(CHOOSE p \in at : TRUE)]

Idle ==
  /\ pc' = "idle" /\ job' = None /\ verify' = FALSE /\ roots' = {}
  /\ seen' = Nothing /\ todo' = {} /\ loaded' = Nothing /\ unchanged' = {}
  /\ touched' = {}

Init ==
  /\ file \in [Paths -> Contents \cup {None}]
  /\ \A p, q \in Paths : file[p] # None /\ file[q] # None /\ file[p].doc = file[q].doc => p = q
  /\ mounted = Roots
  /\ published = Nothing
  /\ changes = 0
  /\ locations = [r \in Roots |-> "forgotten"]
  /\ index = Reading
  /\ semantic = None
  /\ pc = "idle" /\ job = None /\ verify = FALSE /\ roots = {}
  /\ seen = Nothing /\ todo = {} /\ loaded = Nothing /\ unchanged = {}
  /\ touched = {}

-----------------------------------------------------------------------------
(* Remembered locations: each command rewrites the whole file.              *)

Remember(r, state) ==
  /\ pc = "idle"
  /\ locations' = [locations EXCEPT ![r] = state]
  /\ UNCHANGED <<outside, index, semantic, process, touched>>

AddLocation(r) ==
  /\ locations[r] = "forgotten"
  /\ r \in mounted
  /\ Remember(r, "enabled")

RemoveLocation(r) ==
  /\ locations[r] # "forgotten"
  /\ Remember(r, "forgotten")

SetEnabled(r) ==
  \/ locations[r] = "enabled" /\ Remember(r, "disabled")
  \/ locations[r] = "disabled" /\ Remember(r, "enabled")

-----------------------------------------------------------------------------
(* Finding transcripts.                                                     *)

Begin(what, check, where) ==
  /\ pc = "idle"
  /\ pc' = "discover"
  /\ job' = what /\ verify' = check /\ roots' = where
  /\ seen' = index
  /\ touched' = {}
  /\ UNCHANGED <<outside, stores, todo, loaded, unchanged>>

\* Locations that are not there are reported, and left out.
BeginRefresh(check) ==
  Begin("refresh", check, {r \in mounted : locations[r] = "enabled"})

\* A rebuild and an embedding name their directories themselves.
BeginRebuild(what, where) == Begin(what, FALSE, where)

Fail == Idle /\ UNCHANGED <<outside, stores>>

Listed == {p \in Paths : IsFile(p) /\ RootOf[p] \in roots \cup {Output}}
Recorded == {published[d] : d \in Documents} \cap {p \in Paths : IsFile(p)}

\* A record's artifact must load, and a directory asked for must be there.
Discover ==
  /\ pc = "discover"
  /\ \/ /\ roots \subseteq mounted
        /\ todo' = [at : Listed \ Recorded, strict : {FALSE}]
                     \cup [at : Recorded, strict : {TRUE}]
        /\ pc' = IF job = "refresh" THEN "track" ELSE "load"
        /\ UNCHANGED <<outside, stores, job, verify, roots, seen, loaded, unchanged, touched>>
     \/ ~(roots \subseteq mounted) /\ Fail

\* So must what is indexed already, wherever it lies.
Track ==
  /\ pc = "track"
  /\ LET tracked == {seen[d].path : d \in {e \in Documents : seen[e] # None}}
                      \cap {p \in Paths : IsFile(p)}
     IN todo' = {c \in todo : c.at \notin tracked} \cup [at : tracked, strict : {TRUE}]
  /\ pc' = "load"
  /\ UNCHANGED <<outside, stores, job, verify, roots, seen, loaded, unchanged, touched>>

\* existing_by_path
Indexed(p) == {d \in Documents : seen[d] # None /\ seen[d].path = p}

\* Mutant: whatever is indexed at that place is taken to be unchanged.
SkipTracked(c) == job = "refresh" /\ ~verify /\ Indexed(c.at) # {} /\ IsFile(c.at)

\* _can_fast_skip
CanSkip(c) ==
  /\ job = "refresh" /\ ~verify
  /\ Readable(c.at)
  /\ \E d \in Indexed(c.at) : seen[d].stamp = file[c.at].stamp

\* A transcript may move, but not be in two places.
Duplicate(c) ==
  LET d == file[c.at].doc IN
  \/ loaded[d] # None
  \/ /\ job = "refresh"
     /\ seen[d] # None /\ seen[d].path # c.at /\ IsFile(seen[d].path)

Go(c) == /\ todo' = todo \ {c}
            /\ UNCHANGED <<outside, stores, pc, job, verify, roots, seen, touched>>

Load(c) ==
  /\ pc = "load"
  /\ c \in todo /\ \A other \in todo : c.at <= other.at
  /\ \/ /\ CanSkip(c)
        /\ unchanged' = unchanged \cup Indexed(c.at)
        /\ Go(c)
        /\ UNCHANGED loaded
     \/ /\ ~CanSkip(c) /\ Readable(c.at) /\ ~Duplicate(c)
        /\ loaded' = [loaded EXCEPT ![file[c.at].doc] = Entry(c.at)]
        /\ Go(c)
        /\ UNCHANGED unchanged
     \/ /\ ~Readable(c.at)
        /\ ~c.strict /\ (job = "refresh" => Indexed(c.at) = {})
        /\ Go(c)
        /\ UNCHANGED <<loaded, unchanged>>
     \/ /\ ~CanSkip(c)
        /\ IF Readable(c.at) THEN Duplicate(c)
           ELSE c.strict \/ (job = "refresh" /\ Indexed(c.at) # {})
        /\ Fail

-----------------------------------------------------------------------------
(* Changing the indexes.                                                    *)

Gone == {d \in Documents : seen[d] # None /\ loaded[d] = None /\ d \notin unchanged}

\* Whether what embeddings were made of changes: not if only the stamp did.
Dirty ==
  \/ Gone # {}
  \/ \E d \in Documents : /\ loaded[d] # None
                          /\ \/ seen[d] = None
                             \/ loaded[d].text # seen[d].text
                             \/ loaded[d].path # seen[d].path

\* Mutant: what is there after all, but was not read, is kept as it was.
RemovedKept ==
  /\ pc = "load" /\ job = "refresh" /\ todo = {}
  /\ unchanged' = unchanged \cup {d \in Gone : IsFile(seen[d].path)}
  /\ pc' = "clear"
  /\ UNCHANGED <<outside, stores, job, verify, roots, seen, todo, loaded, touched>>

\* _removed_documents
Removed ==
  /\ pc = "load" /\ job = "refresh" /\ todo = {}
  /\ \/ /\ \A d \in Gone : ~IsFile(seen[d].path)
        /\ pc' = "clear"
        /\ UNCHANGED <<outside, stores, job, verify, roots, seen, todo, loaded, unchanged, touched>>
     \/ (\E d \in Gone : IsFile(seen[d].path)) /\ Fail

\* Embeddings of another corpus are dropped before the index changes.
ClearSemantic ==
  /\ pc = "clear"
  /\ semantic' = IF Dirty THEN None ELSE semantic
  /\ pc' = "apply"
  /\ UNCHANGED <<outside, locations, index, job, verify, roots, seen, todo, loaded,
                 unchanged, touched>>

ApplyDelta ==
  /\ pc = "apply"
  /\ index' = [d \in Documents |->
       IF loaded[d] # None THEN loaded[d] ELSE IF d \in unchanged THEN index[d] ELSE None]
  /\ Idle
  /\ UNCHANGED <<outside, locations, semantic>>

\* A rebuild leaves the embeddings to be found stale.
RebuildIndex ==
  /\ pc = "load" /\ job # "refresh" /\ todo = {}
  /\ index' = loaded
  /\ \/ job = "rebuild" /\ Idle
     \/ /\ job = "embed" /\ pc' = "embed"
        /\ UNCHANGED <<job, verify, roots, seen, todo, loaded, unchanged, touched>>
  /\ UNCHANGED <<outside, locations, semantic>>

RebuildSemantic ==
  /\ pc = "embed"
  /\ semantic' = [fingerprint |-> Corpus(loaded), chunks |-> Corpus(loaded)]
  /\ Idle
  /\ UNCHANGED <<outside, locations, index>>

\* Mutant: embeddings there are, and they are used.
RetrieveAnyway == semantic # None

\* retrieve: embeddings are used if they were made of what is indexed.
Retrievable == semantic # None /\ semantic.fingerprint = Corpus(index)

-----------------------------------------------------------------------------
(* The environment.                                                         *)

\* The process is killed, or a read or a transaction fails.
Crash == pc # "idle" /\ Fail

Change(places) ==
  /\ changes < MaxChanges
  /\ changes' = changes + 1
  /\ touched' = IF pc = "idle" THEN {} ELSE touched \cup places
  /\ UNCHANGED <<stores, process>>

EditFile(p, content) ==
  /\ file[p] # content
  /\ file' = [file EXCEPT ![p] = content]
  /\ Change({p})
  /\ UNCHANGED <<mounted, published>>

\* Artifact names are never reused while a file is there.
Publish(d, p, content) ==
  /\ RootOf[p] = Output /\ file[p] = None
  /\ published[d] = None /\ content.doc = d
  /\ file' = [file EXCEPT ![p] = content]
  /\ published' = [published EXCEPT ![d] = p]
  /\ Change({p})
  /\ UNCHANGED mounted

Mount(r) ==
  /\ mounted' = IF r \in mounted THEN mounted \ {r} ELSE mounted \cup {r}
  /\ Change({p \in Paths : RootOf[p] = r})
  /\ UNCHANGED <<file, published>>

Next ==
  \/ \E r \in Roots : AddLocation(r) \/ RemoveLocation(r) \/ SetEnabled(r) \/ Mount(r)
  \/ \E check \in BOOLEAN : BeginRefresh(check)
  \/ \E what \in {"rebuild", "embed"}, where \in SUBSET Roots : BeginRebuild(what, where)
  \/ Discover \/ Track \/ (\E c \in todo : Load(c)) \/ Removed \/ ClearSemantic
  \/ ApplyDelta \/ RebuildIndex \/ RebuildSemantic \/ Crash
  \/ \E p \in Paths, content \in Contents \cup {None, Broken} : EditFile(p, content)
  \/ \E d \in Documents, p \in Paths, content \in Contents : Publish(d, p, content)

Spec == Init /\ [][Next]_vars

-----------------------------------------------------------------------------
(* Properties.                                                              *)

TypeOK ==
  /\ file \in [Paths -> Contents \cup {None, Broken}]
  /\ mounted \subseteq Roots
  /\ published \in [Documents -> Paths \cup {None}]
  /\ changes \in 0 .. MaxChanges
  /\ locations \in [Roots -> {"enabled", "disabled", "forgotten"}]
  /\ index \in [Documents -> Entries \cup {None}]
  /\ semantic = None \/ semantic \in
       [fingerprint : SUBSET (Documents \X Texts), chunks : SUBSET (Documents \X Texts)]
  /\ pc \in {"idle", "discover", "track", "load", "clear", "apply", "embed"}
  /\ job \in {"refresh", "rebuild", "embed", None} /\ verify \in BOOLEAN
  /\ roots \subseteq Roots
  /\ seen \in [Documents -> Entries \cup {None}]
  /\ todo \subseteq [at : Paths, strict : BOOLEAN]
  /\ loaded \in [Documents -> Entries \cup {None}] /\ unchanged \subseteq Documents
  /\ touched \subseteq Paths

\* No two documents are indexed at one place, whatever was moved, replaced or
\* copied while files were being read (_reject_duplicate_refresh_identity,
\* _removed_documents).
OnePlaceEach ==
  \A d, e \in Documents :
    index[d] # None /\ index[e] # None /\ index[d].path = index[e].path => d = e

\* Semantic search answers from the transcripts as they are indexed, though
\* the two indexes are two files and a process may end between them (retrieve).
RetrievesWhatIsIndexed == Retrievable => semantic.chunks = Corpus(index)

\* A refresh that succeeds tells what every file says that did not change under
\* it: a transcript it could find is indexed where it is, as it is (unless its
\* size and time are those indexed and no verification was asked for), and
\* nothing is indexed where no file is (refresh).
RefreshTells ==
  [][ApplyDelta =>
       \A p \in Paths \ touched :
         /\ Readable(p) /\ (RootOf[p] \in roots \cup {Output} \/ Indexed(p) # {}) =>
              \/ index'[file[p].doc] = Entry(p)
              \/ ~verify /\ \E d \in Indexed(p) : /\ seen[d].stamp = file[p].stamp
                                                  /\ index'[d] = seen[d]
         /\ ~IsFile(p) => \A d \in Documents : index'[d] # None => index'[d].path # p]_vars
=============================================================================
