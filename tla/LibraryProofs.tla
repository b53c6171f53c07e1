---------------------------- MODULE LibraryProofs ----------------------------
(***************************************************************************)
(* Theorems about Library, for any number of documents, places, roots and  *)
(* changes made while files are read.                                      *)
(***************************************************************************)
EXTENDS Library, TLAPS

-----------------------------------------------------------------------------
(* Types.                                                                  *)

\* What is read from a file that can be read is an entry at its place.
LEMMA EntryType ==
  ASSUME TypeOK, NEW p \in Paths, Readable(p)
  PROVE  /\ file[p] \in Contents /\ file[p].doc \in Documents
         /\ Entry(p) \in Entries /\ Entry(p) # None
         /\ Entry(p).path = p /\ Entry(p).stamp = file[p].stamp
<1>1. file[p] \in Contents
  BY DEF TypeOK, Readable, IsFile
<1>2. Entry(p) \in Entries /\ file[p].doc \in Documents
  BY <1>1 DEF Contents, Entries, Entry
<1> QED BY <1>1, <1>2, PlacesAssumption DEF Entry

LEMMA CorpusType ==
  ASSUME NEW entries \in [Documents -> Entries \cup {None}]
  PROVE  Corpus(entries) \in SUBSET (Documents \X Texts)
BY DEF Corpus, Entries

LEMMA NothingType == Nothing \in [Documents -> Entries \cup {None}]
BY DEF Nothing

\* The types of the process, and of what it writes.
ProcessOK ==
  /\ pc \in {"idle", "discover", "track", "load", "clear", "apply", "embed"}
  /\ job \in {"refresh", "rebuild", "embed", None} /\ verify \in BOOLEAN
  /\ roots \subseteq Roots
  /\ seen \in [Documents -> Entries \cup {None}]
  /\ todo \subseteq [at : Paths, strict : BOOLEAN]
  /\ loaded \in [Documents -> Entries \cup {None}] /\ unchanged \subseteq Documents
  /\ touched \subseteq Paths

StoresOK ==
  /\ locations \in [Roots -> {"enabled", "disabled", "forgotten"}]
  /\ index \in [Documents -> Entries \cup {None}]
  /\ semantic = None \/ semantic \in
       [fingerprint : SUBSET (Documents \X Texts), chunks : SUBSET (Documents \X Texts)]

OutsideOK ==
  /\ file \in [Paths -> Contents \cup {None, Broken}]
  /\ mounted \subseteq Roots
  /\ published \in [Documents -> Paths \cup {None}]
  /\ changes \in 0 .. MaxChanges

LEMMA TypeParts ==
  /\ TypeOK <=> OutsideOK /\ StoresOK /\ ProcessOK
  /\ TypeOK' <=> OutsideOK' /\ StoresOK' /\ ProcessOK'
BY DEF TypeOK, OutsideOK, StoresOK, ProcessOK

LEMMA IdleType == Idle => ProcessOK'
BY NothingType DEF Idle, ProcessOK

LEMMA FrameType ==
  ASSUME TypeOK
  PROVE  /\ UNCHANGED outside => OutsideOK'
         /\ UNCHANGED stores => StoresOK'
         /\ UNCHANGED <<process, touched>> => ProcessOK'
BY TypeParts DEF outside, stores, process, OutsideOK, StoresOK, ProcessOK

LEMMA FailType == TypeOK /\ Fail => TypeOK'
BY TypeParts, IdleType, FrameType DEF Fail

\* What becomes of one candidate.
Skips(c) == /\ CanSkip(c)
            /\ unchanged' = unchanged \cup Indexed(c.at)
            /\ UNCHANGED loaded
Takes(c) == /\ ~CanSkip(c) /\ Readable(c.at) /\ ~Duplicate(c)
            /\ loaded' = [loaded EXCEPT ![file[c.at].doc] = Entry(c.at)]
            /\ UNCHANGED unchanged
Passes(c) == ~Readable(c.at) /\ UNCHANGED <<loaded, unchanged>>

LEMMA LoadCases ==
  ASSUME NEW c \in todo, Load(c)
  PROVE  /\ pc = "load"
         /\ \A other \in todo : c.at <= other.at
         /\ Fail \/ (Go(c) /\ (Skips(c) \/ Takes(c) \/ Passes(c)))
BY DEF Load, Skips, Takes, Passes

LEMMA LoadType ==
  ASSUME TypeOK, NEW c \in todo, Load(c) PROVE TypeOK'
<1>1. c.at \in Paths /\ Indexed(c.at) \subseteq Documents
  BY DEF TypeOK, Indexed
<1>2. CASE Fail
  BY <1>2, FailType
<1>3. CASE Go(c) /\ (Skips(c) \/ Takes(c) \/ Passes(c))
  <2>1. loaded' \in [Documents -> Entries \cup {None}]
    <3>1. CASE Takes(c)
      BY <1>1, <3>1, EntryType DEF Takes, TypeOK
    <3>2. CASE loaded' = loaded
      BY <3>2 DEF TypeOK
    <3> QED BY <1>3, <3>1, <3>2 DEF Skips, Passes
  <2>2. unchanged' \subseteq Documents
    BY <1>1, <1>3 DEF Skips, Takes, Passes, TypeOK
  <2>3. ProcessOK'
    BY <1>3, <2>1, <2>2, TypeParts DEF Go, ProcessOK
  <2> QED BY <1>3, <2>3, TypeParts, FrameType DEF Go
<1> QED BY <1>2, <1>3, LoadCases

LEMMA CandidateType ==
  ASSUME NEW places \in SUBSET Paths
  PROVE  /\ [at : places, strict : {FALSE}] \subseteq [at : Paths, strict : BOOLEAN]
         /\ [at : places, strict : {TRUE}] \subseteq [at : Paths, strict : BOOLEAN]
OBVIOUS

LEMMA DiscoverType ==
  ASSUME TypeOK, Discover \/ Track PROVE TypeOK'
<1>1. CASE Fail
  BY <1>1, FailType
<1>2. CASE ~Fail
  <2>1. Listed \subseteq Paths /\ Recorded \subseteq Paths
    BY DEF Listed, Recorded
  <2>2. todo' \subseteq [at : Paths, strict : BOOLEAN]
    <3>1. CASE Discover
      BY <1>2, <2>1, <3>1, CandidateType DEF Discover
    <3>2. CASE Track
      <4>1. todo \subseteq [at : Paths, strict : BOOLEAN]
        BY DEF TypeOK
      <4> QED BY <3>2, <4>1, CandidateType DEF Track
    <3> QED BY <3>1, <3>2
  <2>3. pc' \in {"track", "load"}
    BY <1>2 DEF Discover, Track
  <2>4. UNCHANGED <<outside, stores, job, verify, roots, seen, loaded, unchanged,
                    touched>>
    BY <1>2 DEF Discover, Track
  <2>5. ProcessOK'
    BY <2>2, <2>3, <2>4, TypeParts DEF ProcessOK
  <2> QED BY <2>4, <2>5, TypeParts, FrameType
<1> QED BY <1>1, <1>2

LEMMA WriteType ==
  ASSUME TypeOK, Removed \/ ClearSemantic \/ ApplyDelta \/ RebuildIndex
                   \/ RebuildSemantic
  PROVE  TypeOK'
<1>1. CASE Fail
  BY <1>1, FailType
<1>2. CASE ~Fail
  <2>1. UNCHANGED <<outside, locations>>
    BY <1>2 DEF Removed, ClearSemantic, ApplyDelta, RebuildIndex,
       RebuildSemantic, stores
  <2>2. index' \in [Documents -> Entries \cup {None}]
    BY <1>2 DEF Removed, ClearSemantic, ApplyDelta, RebuildIndex,
       RebuildSemantic, stores, TypeOK
  <2>3. semantic' = None \/ semantic' = semantic
          \/ semantic' = [fingerprint |-> Corpus(loaded), chunks |-> Corpus(loaded)]
    BY <1>2 DEF Removed, ClearSemantic, ApplyDelta, RebuildIndex,
       RebuildSemantic, stores
  <2>4. Corpus(loaded) \in SUBSET (Documents \X Texts)
    BY CorpusType DEF TypeOK
  <2>5. StoresOK'
    BY <2>1, <2>2, <2>3, <2>4 DEF StoresOK, TypeOK
  <2>6. CASE Idle
    BY <2>1, <2>5, <2>6, TypeParts, FrameType, IdleType
  <2>7. CASE ~Idle
    <3>1. /\ pc' \in {"clear", "apply", "embed"}
          /\ UNCHANGED <<job, verify, roots, seen, todo, loaded, unchanged, touched>>
      BY <1>2, <2>7 DEF Removed, ClearSemantic, ApplyDelta, RebuildIndex,
         RebuildSemantic
    <3>2. ProcessOK'
      BY <3>1, TypeParts DEF ProcessOK
    <3> QED BY <2>1, <2>5, <3>2, TypeParts, FrameType
  <2> QED BY <2>6, <2>7
<1> QED BY <1>1, <1>2

LEMMA BeginType ==
  ASSUME TypeOK, NEW what \in {"refresh", "rebuild", "embed"},
         NEW check \in BOOLEAN, NEW where \in SUBSET Roots,
         Begin(what, check, where)
  PROVE  TypeOK'
<1>1. job' \in {"refresh", "rebuild", "embed", None} /\ pc' = "discover"
  BY DEF Begin
<1>2. ProcessOK'
  BY <1>1, TypeParts DEF Begin, ProcessOK, StoresOK
<1> QED BY <1>2, TypeParts, FrameType DEF Begin

\* A change to a place tells the process at work nothing.
LEMMA ChangeType ==
  ASSUME TypeOK, NEW places \in SUBSET Paths, Change(places),
         file' \in [Paths -> Contents \cup {None, Broken}],
         mounted' \subseteq Roots,
         published' \in [Documents -> Paths \cup {None}]
  PROVE  TypeOK'
<1>1. changes' \in 0 .. MaxChanges
  BY PlacesAssumption DEF Change, TypeOK
<1>2. ProcessOK'
  BY TypeParts DEF Change, process, ProcessOK
<1> QED BY <1>1, <1>2, TypeParts, FrameType DEF Change, OutsideOK

\* The next-state relation, by what it touches: the process's own steps, the
\* remembered locations, and the world outside.
Outsider ==
  \E places \in SUBSET Paths :
    /\ Change(places)
    /\ \A p \in Paths \ places : IsFile(p)' = IsFile(p) /\ file'[p] = file[p]

LEMMA OutsiderSteps ==
  ASSUME TypeOK,
         \/ \E r \in Roots : Mount(r)
         \/ \E p \in Paths, content \in Contents \cup {None, Broken} :
              EditFile(p, content)
         \/ \E d \in Documents, p \in Paths, content \in Contents :
              Publish(d, p, content)
  PROVE  TypeOK' /\ Outsider
<1>1. ASSUME NEW r \in Roots, Mount(r) PROVE TypeOK' /\ Outsider
  <2> DEFINE places == {p \in Paths : RootOf[p] = r}
  <2>1. Change(places) /\ places \in SUBSET Paths
    BY <1>1 DEF Mount
  <2>2. file' = file /\ published' = published /\ mounted' \subseteq Roots
        /\ \A q \in Roots \cup {Output} : q # r => (q \in mounted' <=> q \in mounted)
    BY <1>1 DEF Mount, TypeOK
  <2>3. TypeOK'
    BY <2>1, <2>2, ChangeType DEF TypeOK
  <2>4. ASSUME NEW p \in Paths \ places
        PROVE  IsFile(p)' = IsFile(p) /\ file'[p] = file[p]
    BY <2>2, PlacesAssumption DEF IsFile
  <2> QED BY <2>1, <2>3, <2>4 DEF Outsider
<1>2. ASSUME NEW p \in Paths, NEW content \in Contents \cup {None, Broken},
             file' = [file EXCEPT ![p] = content], mounted' = mounted,
             Change({p}), published' \in [Documents -> Paths \cup {None}]
      PROVE  TypeOK' /\ Outsider
  <2>1. {p} \in SUBSET Paths /\ file' \in [Paths -> Contents \cup {None, Broken}]
        /\ mounted' \subseteq Roots
    BY <1>2 DEF TypeOK
  <2>2. TypeOK'
    BY <1>2, <2>1, ChangeType
  <2>3. ASSUME NEW q \in Paths \ {p}
        PROVE  IsFile(q)' = IsFile(q) /\ file'[q] = file[q]
    BY <1>2 DEF IsFile, TypeOK
  <2> QED BY <1>2, <2>1, <2>2, <2>3 DEF Outsider
<1>3. ASSUME NEW p \in Paths, NEW content \in Contents \cup {None, Broken},
             EditFile(p, content)
      PROVE  TypeOK' /\ Outsider
  BY <1>2, <1>3 DEF EditFile, TypeOK
<1>4. ASSUME NEW d \in Documents, NEW p \in Paths, NEW content \in Contents,
             Publish(d, p, content)
      PROVE  TypeOK' /\ Outsider
  BY <1>2, <1>4 DEF Publish, TypeOK
<1> QED BY <1>1, <1>3, <1>4

\* What is remembered is nothing the process at work reads again.
LEMMA RememberType ==
  ASSUME TypeOK, NEW r \in Roots, AddLocation(r) \/ RemoveLocation(r) \/ SetEnabled(r)
  PROVE  TypeOK' /\ UNCHANGED <<outside, index, semantic, process, touched>>
<1>1. PICK state \in {"enabled", "disabled", "forgotten"} : Remember(r, state)
  BY DEF AddLocation, RemoveLocation, SetEnabled
<1>2. StoresOK'
  BY <1>1 DEF Remember, StoresOK, TypeOK
<1> QED BY <1>1, <1>2, TypeParts, FrameType DEF Remember

\* Every step, as the proofs below take it apart.
LEMMA StepCases ==
  ASSUME TypeOK, [Next]_vars
  PROVE  /\ TypeOK'
         /\ \/ \E what \in {"refresh", "rebuild", "embed"}, check \in BOOLEAN,
                  where \in SUBSET Roots : Begin(what, check, where)
            \/ Discover \/ Track
            \/ \E c \in todo : Load(c)
            \/ Removed \/ ClearSemantic \/ ApplyDelta \/ RebuildIndex
            \/ RebuildSemantic \/ Fail \/ Outsider
            \/ UNCHANGED <<outside, index, semantic, process, touched>>
<1> DEFINE Goal ==
      /\ TypeOK'
      /\ \/ \E what \in {"refresh", "rebuild", "embed"}, check \in BOOLEAN,
               where \in SUBSET Roots : Begin(what, check, where)
         \/ Discover \/ Track
         \/ \E c \in todo : Load(c)
         \/ Removed \/ ClearSemantic \/ ApplyDelta \/ RebuildIndex
         \/ RebuildSemantic \/ Fail \/ Outsider
         \/ UNCHANGED <<outside, index, semantic, process, touched>>
<1>1. ASSUME NEW r \in Roots, AddLocation(r) \/ RemoveLocation(r) \/ SetEnabled(r)
      PROVE  Goal
  BY <1>1, RememberType
<1>2. ASSUME NEW check \in BOOLEAN, BeginRefresh(check) PROVE Goal
  <2>1. "refresh" \in {"refresh", "rebuild", "embed"}
        /\ {r \in mounted : locations[r] = "enabled"} \in SUBSET Roots
    BY DEF TypeOK
  <2> QED BY <1>2, <2>1, BeginType DEF BeginRefresh
<1>3. ASSUME NEW what \in {"rebuild", "embed"}, NEW where \in SUBSET Roots,
             BeginRebuild(what, where)
      PROVE  Goal
  <2>1. what \in {"refresh", "rebuild", "embed"} /\ FALSE \in BOOLEAN
    OBVIOUS
  <2> QED BY <1>3, <2>1, BeginType DEF BeginRebuild
<1>4. CASE Discover \/ Track
  BY <1>4, DiscoverType
<1>5. CASE \E c \in todo : Load(c)
  BY <1>5, LoadType
<1>6. CASE Removed \/ ClearSemantic \/ ApplyDelta \/ RebuildIndex \/ RebuildSemantic
  BY <1>6, WriteType
<1>7. CASE Crash
  BY <1>7, FailType DEF Crash
<1>8. CASE \/ \E r \in Roots : Mount(r)
           \/ \E p \in Paths, content \in Contents \cup {None, Broken} :
                EditFile(p, content)
           \/ \E d \in Documents, p \in Paths, content \in Contents :
                Publish(d, p, content)
  BY <1>8, OutsiderSteps
<1>9. CASE UNCHANGED vars
  BY <1>9, TypeParts, FrameType DEF vars, stores
<1> QED BY <1>1, <1>2, <1>3, <1>4, <1>5, <1>6, <1>7, <1>8, <1>9 DEF Next

LEMMA TypeInit == Init => TypeOK
<1> SUFFICES ASSUME Init PROVE TypeOK
  OBVIOUS
<1>1. OutsideOK
  BY PlacesAssumption DEF Init, OutsideOK, Nothing
<1>2. index \in [Documents -> Entries \cup {None}]
  <2>1. OutsideOK => \A p \in Paths : Readable(p) => Entry(p) \in Entries
    BY DEF OutsideOK, Readable, IsFile, Entry, Entries, Contents
  <2>2. ASSUME NEW d \in Documents PROVE index[d] \in Entries \cup {None}
    BY <1>1, <2>1 DEF Init, Reading
  <2> QED BY <2>2 DEF Init, Reading
<1>3. StoresOK
  BY <1>2 DEF Init, StoresOK
<1>4. ProcessOK
  BY NothingType DEF Init, ProcessOK
<1> QED BY <1>1, <1>3, <1>4, TypeParts

\* Files, drives, both indexes and the process keep their types.
THEOREM TypeCorrect == Spec => []TypeOK
<1>1. TypeOK /\ [Next]_vars => TypeOK'
  BY StepCases
<1> QED BY TypeInit, <1>1, PTL DEF Spec

-----------------------------------------------------------------------------
(* One document to a place.                                                *)

\* What the process has in hand at each of its steps: one candidate for a
\* place, what is indexed as it was when it began, and nothing read too early.
InHand ==
  /\ pc \in {"idle", "discover", "track"} => loaded = Nothing /\ unchanged = {}
  /\ pc \in {"discover", "track", "load", "clear", "apply"} => seen = index
  /\ pc \in {"clear", "apply"} => todo = {}
  /\ pc \in {"track", "clear", "apply"} => job = "refresh"
  /\ \A b, c \in todo : b.at = c.at => b = c

\* A place that was read, or found unchanged, is done, and was only one of both.
Settled ==
  /\ \A d \in Documents : loaded[d] # None =>
       \A c \in todo : c.at # loaded[d].path
  /\ \A d, e \in Documents :
       loaded[d] # None /\ loaded[e] # None /\ loaded[d].path = loaded[e].path => d = e
  /\ \A d \in unchanged :
       /\ seen[d] # None
       /\ \A c \in todo : c.at # seen[d].path
       /\ \A e \in Documents : loaded[e] # None => loaded[e].path # seen[d].path

PlaceInv == TypeOK /\ InHand /\ Settled /\ OnePlaceEach

LEMMA NothingSettled ==
  ASSUME loaded' = Nothing, unchanged' = {} PROVE Settled'
BY DEF Settled, Nothing

LEMMA IdlePlaces ==
  ASSUME Idle, OnePlaceEach' PROVE InHand' /\ Settled' /\ OnePlaceEach'
BY NothingSettled DEF Idle, InHand

\* A step that takes nothing in hand.
LEMMA PlaceFrame ==
  ASSUME PlaceInv, TypeOK', UNCHANGED <<index, process>> PROVE PlaceInv'
BY DEF PlaceInv, process, InHand, Settled, OnePlaceEach

LEMMA BeginPlaces ==
  ASSUME PlaceInv, NEW what, NEW check, NEW where, Begin(what, check, where)
  PROVE  InHand' /\ Settled' /\ OnePlaceEach'
<1>1. /\ pc = "idle" /\ pc' = "discover" /\ index' = index /\ seen' = index
      /\ loaded' = loaded /\ unchanged' = unchanged /\ todo' = todo
  BY DEF Begin, stores
<1>2. loaded' = Nothing /\ unchanged' = {}
  BY <1>1 DEF PlaceInv, InHand
<1> QED BY <1>1, <1>2, NothingSettled DEF PlaceInv, InHand, OnePlaceEach

LEMMA SameCandidate ==
  ASSUME NEW S, NEW v, NEW b \in [at : S, strict : {v}],
         NEW c \in [at : S, strict : {v}], b.at = c.at
  PROVE  b = c
<1>1. b = [at |-> b.at, strict |-> v]
  OBVIOUS
<1>2. c = [at |-> c.at, strict |-> v]
  OBVIOUS
<1> QED BY <1>1, <1>2

LEMMA OnceEach ==
  ASSUME NEW others, NEW places,
         NEW b \in [at : others \ places, strict : {FALSE}]
                    \cup [at : places, strict : {TRUE}],
         NEW c \in [at : others \ places, strict : {FALSE}]
                    \cup [at : places, strict : {TRUE}],
         b.at = c.at
  PROVE  b = c
<1>1. CASE b.at \in places
  <2>1. b \in [at : places, strict : {TRUE}] /\ c \in [at : places, strict : {TRUE}]
    BY <1>1
  <2> QED BY <2>1, SameCandidate
<1>2. CASE b.at \notin places
  <2>1. /\ b \in [at : others \ places, strict : {FALSE}]
        /\ c \in [at : others \ places, strict : {FALSE}]
    BY <1>2
  <2> QED BY <2>1, SameCandidate
<1> QED BY <1>1, <1>2

\* Each place is a candidate once.
LEMMA DiscoverPlaces ==
  ASSUME PlaceInv, Discover \/ Track
  PROVE  InHand' /\ Settled' /\ OnePlaceEach'
<1>1. CASE Fail
  BY <1>1, IdlePlaces DEF Fail, stores, PlaceInv, OnePlaceEach
<1>2. CASE ~Fail
  <2>1. /\ pc \in {"discover", "track"} /\ pc' \in {"track", "load"}
        /\ pc' = "track" => job' = "refresh"
        /\ UNCHANGED <<index, seen, loaded, unchanged>>
    BY <1>2 DEF Discover, Track, stores
  <2>2. loaded' = Nothing /\ unchanged' = {} /\ seen' = index'
    BY <2>1 DEF PlaceInv, InHand
  <2>3. ASSUME NEW b \in todo', NEW c \in todo', b.at = c.at PROVE b = c
    <3>1. CASE Discover
      <4>1. todo' = [at : Listed \ Recorded, strict : {FALSE}]
                      \cup [at : Recorded, strict : {TRUE}]
        BY <1>2, <3>1 DEF Discover
      <4> QED BY <2>3, <4>1, OnceEach
    <3>2. CASE Track
      <4>1. PICK tracked \in SUBSET Paths :
              todo' = {e \in todo : e.at \notin tracked} \cup [at : tracked, strict : {TRUE}]
        BY <3>2 DEF Track
      <4>2. CASE b.at \in tracked
        <5>1. b \in [at : tracked, strict : {TRUE}] /\ c \in [at : tracked, strict : {TRUE}]
          BY <2>3, <4>1, <4>2
        <5> QED BY <2>3, <5>1, SameCandidate
      <4>3. CASE b.at \notin tracked
        <5>1. b \in todo /\ c \in todo
          BY <2>3, <4>1, <4>3
        <5> QED BY <2>3, <5>1 DEF PlaceInv, InHand
      <4> QED BY <4>2, <4>3
    <3> QED BY <3>1, <3>2
  <2>4. InHand'
    BY <2>1, <2>2, <2>3 DEF InHand
  <2> QED BY <2>1, <2>2, <2>4, NothingSettled DEF PlaceInv, OnePlaceEach
<1> QED BY <1>1, <1>2

\* A candidate leaves the list when its place is settled, one way or the other.
LEMMA LoadPlaces ==
  ASSUME PlaceInv, NEW c \in todo, Load(c)
  PROVE  InHand' /\ Settled' /\ OnePlaceEach'
<1>1. CASE Fail
  BY <1>1, IdlePlaces DEF Fail, stores, PlaceInv, OnePlaceEach
<1>2. CASE Go(c) /\ (Skips(c) \/ Takes(c) \/ Passes(c))
  <2>1. /\ todo' = todo \ {c} /\ UNCHANGED <<pc, job, seen, index>>
        /\ pc = "load" /\ c.at \in Paths
    BY <1>2, LoadCases DEF Go, stores, PlaceInv, TypeOK
  <2>2. InHand' /\ OnePlaceEach'
    BY <2>1 DEF PlaceInv, InHand, OnePlaceEach
  <2>3. \A b \in todo' : b \in todo /\ b.at # c.at
    BY <2>1 DEF PlaceInv, InHand
  <2>4. CASE Passes(c)
    <3>1. loaded' = loaded /\ unchanged' = unchanged /\ seen' = seen
      BY <2>1, <2>4 DEF Passes
    <3> QED BY <2>2, <2>3, <3>1 DEF PlaceInv, Settled
  <2>5. CASE Skips(c)
    <3>1. /\ \A d \in Indexed(c.at) : seen[d] # None /\ seen[d].path = c.at
          /\ unchanged' = unchanged \cup Indexed(c.at) /\ loaded' = loaded
      BY <2>5 DEF Skips, Indexed
    <3>2. \A e \in Documents : loaded[e] # None => loaded[e].path # c.at
      BY DEF PlaceInv, Settled
    <3>3. seen' = seen
      BY <2>1
    <3>4. \A d \in unchanged' :
            /\ seen[d] # None
            /\ \A b \in todo' : b.at # seen[d].path
            /\ \A e \in Documents : loaded[e] # None => loaded[e].path # seen[d].path
      <4> TAKE d \in unchanged'
      <4>1. CASE d \in unchanged
        BY <2>3, <4>1 DEF PlaceInv, Settled
      <4>2. CASE d \in Indexed(c.at)
        BY <2>3, <3>1, <3>2, <4>2
      <4> QED BY <3>1, <4>1, <4>2
    <3> QED BY <2>2, <2>3, <3>1, <3>3, <3>4 DEF PlaceInv, Settled
  <2>6. CASE Takes(c)
    <3> DEFINE d == file[c.at].doc
    <3>1. d \in Documents /\ Entry(c.at) # None /\ Entry(c.at).path = c.at
      BY <2>1, <2>6, EntryType DEF Takes, PlaceInv
    <3>2. \A e \in Documents :
            loaded'[e] = IF e = d THEN Entry(c.at) ELSE loaded[e]
      BY <2>6, <3>1 DEF Takes, PlaceInv, TypeOK
    <3>3. \A e \in Documents : loaded[e] # None => loaded[e].path # c.at
      BY DEF PlaceInv, Settled
    <3>4. \A e \in unchanged : seen[e].path # c.at
      BY DEF PlaceInv, Settled
    <3>5. unchanged' = unchanged /\ seen' = seen
      BY <2>1, <2>6 DEF Takes
    <3> HIDE DEF d
    <3>6. \A e \in Documents : loaded'[e] # None =>
            \A b \in todo' : b.at # loaded'[e].path
      BY <2>3, <3>1, <3>2 DEF PlaceInv, Settled
    <3>7. \A e, f \in Documents :
            loaded'[e] # None /\ loaded'[f] # None
              /\ loaded'[e].path = loaded'[f].path => e = f
      BY <3>1, <3>2, <3>3 DEF PlaceInv, Settled
    <3>8. \A e \in unchanged : \A f \in Documents :
            loaded'[f] # None => loaded'[f].path # seen[e].path
      BY <3>1, <3>2, <3>4 DEF PlaceInv, Settled
    <3>9. \A e \in unchanged : seen[e] # None /\ \A b \in todo' : b.at # seen[e].path
      BY <2>3 DEF PlaceInv, Settled
    <3> QED BY <2>2, <3>5, <3>6, <3>7, <3>8, <3>9 DEF Settled
  <2> QED BY <1>2, <2>2, <2>4, <2>5, <2>6
<1> QED BY <1>1, <1>2, LoadCases

\* The new index takes each place from what was read, or from what was there.
LEMMA WritePlaces ==
  ASSUME PlaceInv, Removed \/ ClearSemantic \/ ApplyDelta \/ RebuildIndex
                     \/ RebuildSemantic
  PROVE  InHand' /\ Settled' /\ OnePlaceEach'
<1> USE DEF PlaceInv
<1>1. CASE Fail
  BY <1>1, IdlePlaces DEF Fail, stores, OnePlaceEach
<1>2. CASE (Removed \/ ClearSemantic) /\ ~Fail
  <2>1. /\ pc' \in {"clear", "apply"} /\ pc \in {"load", "clear"}
        /\ UNCHANGED <<index, seen, loaded, unchanged, todo, job>>
        /\ todo = {} /\ job = "refresh"
    BY <1>2 DEF Removed, ClearSemantic, stores, InHand
  <2> QED BY <2>1 DEF InHand, Settled, OnePlaceEach
<1>3. CASE ApplyDelta
  <2>1. \A d \in Documents : index'[d] =
          IF loaded[d] # None THEN loaded[d]
          ELSE IF d \in unchanged THEN seen[d] ELSE None
    BY <1>3 DEF ApplyDelta, InHand
  <2>2. \A d, e \in Documents :
          seen[d] # None /\ seen[e] # None /\ seen[d].path = seen[e].path => d = e
    BY <1>3 DEF ApplyDelta, InHand, OnePlaceEach
  <2>3. OnePlaceEach'
    BY <2>1, <2>2 DEF OnePlaceEach, Settled
  <2> QED BY <1>3, <2>3, IdlePlaces DEF ApplyDelta
<1>4. CASE RebuildIndex
  <2>1. OnePlaceEach'
    BY <1>4 DEF RebuildIndex, OnePlaceEach, Settled
  <2>2. CASE Idle
    BY <2>1, <2>2, IdlePlaces
  <2>3. CASE ~Idle
    <3>1. pc' = "embed" /\ UNCHANGED <<loaded, unchanged, todo, seen>>
      BY <1>4, <2>3 DEF RebuildIndex
    <3> QED BY <2>1, <3>1 DEF InHand, Settled
  <2> QED BY <2>2, <2>3
<1>5. CASE RebuildSemantic
  BY <1>5, IdlePlaces DEF RebuildSemantic, OnePlaceEach
<1> QED BY <1>1, <1>2, <1>3, <1>4, <1>5

LEMMA PlaceStep == PlaceInv /\ [Next]_vars => PlaceInv'
<1> SUFFICES ASSUME PlaceInv, [Next]_vars PROVE PlaceInv'
  OBVIOUS
<1>1. TypeOK'
  BY StepCases DEF PlaceInv
<1>2. CASE Fail
  BY <1>1, <1>2, IdlePlaces DEF Fail, stores, PlaceInv, OnePlaceEach
<1>3. CASE Outsider \/ UNCHANGED <<outside, index, semantic, process, touched>>
  BY <1>1, <1>3, PlaceFrame DEF Outsider, Change, stores
<1> QED BY <1>1, <1>2, <1>3, StepCases, BeginPlaces, DiscoverPlaces, LoadPlaces,
           WritePlaces DEF PlaceInv

LEMMA PlaceInit == Init => PlaceInv
<1> SUFFICES ASSUME Init PROVE PlaceInv
  OBVIOUS
<1>1. TypeOK
  BY TypeInit
<1>2. InHand /\ Settled
  BY DEF Init, InHand, Settled, Nothing
<1>3. OnePlaceEach
  <2> SUFFICES ASSUME NEW d \in Documents, NEW e \in Documents,
                      index[d] # None, index[e] # None,
                      index[d].path = index[e].path
               PROVE  d = e
    BY DEF OnePlaceEach
  <2>1. ASSUME NEW f \in Documents, index[f] # None
        PROVE  index[f].path \in Paths /\ file[index[f].path].doc = f
    <3> DEFINE at == {p \in Paths : Readable(p) /\ file[p].doc = f
                                      /\ RootOf[p] = Output}
    <3>1. at # {} /\ index[f] = Entry(CHOOSE p \in at : TRUE)
      BY <2>1 DEF Init, Reading
    <3>2. (CHOOSE p \in at : TRUE) \in at
      BY <3>1
    <3> QED BY <3>1, <3>2 DEF Entry
  <2> QED BY <2>1
<1> QED BY <1>1, <1>2, <1>3 DEF PlaceInv

\* No two documents are ever indexed at one place, whatever was copied, moved or
\* replaced while a refresh or a rebuild was reading, and wherever it was cut
\* off: a place is a candidate once, and what is kept unread was not read.
THEOREM PlacesAreDistinct == Spec => []OnePlaceEach
<1>1. PlaceInv => OnePlaceEach
  BY DEF PlaceInv
<1> QED BY PlaceInit, PlaceStep, <1>1, PTL DEF Spec

-----------------------------------------------------------------------------
(* The two indexes.                                                        *)

\* Embeddings name the corpus they were made of.
Embedded == semantic # None => semantic.fingerprint = semantic.chunks

LEMMA EmbeddedStep == Embedded /\ [Next]_vars => Embedded'
<1> SUFFICES ASSUME Embedded, [Next]_vars PROVE Embedded'
  OBVIOUS
<1>1. CASE RebuildSemantic
  BY <1>1 DEF RebuildSemantic, Embedded
<1>2. CASE ClearSemantic
  BY <1>2 DEF ClearSemantic, Embedded
<1>3. ASSUME semantic' = semantic PROVE Embedded'
  BY <1>3 DEF Embedded
<1>4. ASSUME NEW c, Load(c) PROVE Embedded'
  BY <1>3, <1>4 DEF Load, Go, Fail, stores
<1>5. CASE Discover \/ Track \/ Removed \/ ApplyDelta \/ RebuildIndex \/ Crash
             \/ UNCHANGED vars
  BY <1>3, <1>5 DEF Discover, Track, Removed, ApplyDelta, RebuildIndex, Crash,
     Fail, stores, vars
<1>6. ASSUME NEW r, AddLocation(r) \/ RemoveLocation(r) \/ SetEnabled(r) \/ Mount(r)
      PROVE  Embedded'
  BY <1>3, <1>6 DEF AddLocation, RemoveLocation, SetEnabled, Remember, Mount,
     Change, stores
<1>7. ASSUME NEW what, NEW check, NEW where, Begin(what, check, where)
      PROVE  Embedded'
  BY <1>3, <1>7 DEF Begin, stores
<1>8. ASSUME NEW places, Change(places) PROVE Embedded'
  BY <1>3, <1>8 DEF Change, stores
<1>9. CASE \E check \in BOOLEAN : BeginRefresh(check)
  BY <1>7, <1>9 DEF BeginRefresh
<1>10. CASE \E what \in {"rebuild", "embed"}, where \in SUBSET Roots :
              BeginRebuild(what, where)
  BY <1>7, <1>10 DEF BeginRebuild
<1>11. CASE \/ \E p \in Paths, content \in Contents \cup {None, Broken} :
                 EditFile(p, content)
            \/ \E d \in Documents, p \in Paths, content \in Contents :
                 Publish(d, p, content)
  BY <1>8, <1>11 DEF EditFile, Publish
<1> QED BY <1>1, <1>2, <1>4, <1>5, <1>6, <1>9, <1>10, <1>11 DEF Next

\* Semantic search never answers from embeddings of another corpus than the one
\* that is indexed, though two files hold them and no transaction spans both.
THEOREM RetrievalIsCurrent == Spec => []RetrievesWhatIsIndexed
<1>1. Init => Embedded
  BY DEF Init, Embedded
<1>2. Embedded => RetrievesWhatIsIndexed
  BY DEF Embedded, RetrievesWhatIsIndexed, Retrievable
<1> QED BY <1>1, <1>2, EmbeddedStep, PTL DEF Spec

-----------------------------------------------------------------------------
(* What a refresh tells.                                                   *)

\* The candidates cover what must be found; what is settled was found, or found
\* unchanged, where it still is.
Covered ==
  pc = "track" =>
    \A p \in Paths \ touched : Readable(p) /\ RootOf[p] \in roots \cup {Output} =>
      \E c \in todo : c.at = p

FoundAt(p) ==
  \/ \E c \in todo : c.at = p
  \/ loaded[file[p].doc] = Entry(p)
  \/ ~verify /\ \E d \in Indexed(p) : d \in unchanged /\ seen[d].stamp = file[p].stamp

Told ==
  pc \in {"load", "clear", "apply"} /\ job = "refresh" =>
    \A p \in Paths \ touched :
      /\ Readable(p) /\ (RootOf[p] \in roots \cup {Output} \/ Indexed(p) # {}) =>
           FoundAt(p)
      /\ ~IsFile(p) => /\ \A d \in Documents : loaded[d] # None => loaded[d].path # p
                       /\ \A d \in unchanged : seen[d].path # p
      /\ IsFile(p) => \A d \in Indexed(p) : loaded[d] # None => loaded[d].path = p

TellInv == PlaceInv /\ Covered /\ Told

\* Nothing changes for a place that nobody touches.
LEMMA OutsiderTells ==
  ASSUME TellInv, Outsider PROVE Covered' /\ Told'
<1> USE DEF TellInv
<1>1. PICK places \in SUBSET Paths :
        /\ Change(places)
        /\ \A p \in Paths \ places : IsFile(p)' = IsFile(p) /\ file'[p] = file[p]
  BY DEF Outsider
<1>2. UNCHANGED <<pc, job, verify, roots, seen, todo, loaded, unchanged>>
  BY <1>1 DEF Change, process
<1>3. CASE pc = "idle"
  BY <1>2, <1>3 DEF Covered, Told
<1>4. CASE pc # "idle"
  <2>1. \A p \in Paths \ touched' : p \in Paths \ touched /\ p \notin places
    BY <1>1, <1>4 DEF Change
  <2>2. ASSUME NEW p \in Paths \ touched'
        PROVE  /\ IsFile(p)' = IsFile(p) /\ file'[p] = file[p]
               /\ Readable(p)' = Readable(p) /\ Entry(p)' = Entry(p)
               /\ Indexed(p)' = Indexed(p)
    BY <1>1, <1>2, <2>1 DEF Readable, Entry, Indexed
  <2>3. Covered'
    BY <1>2, <2>1, <2>2 DEF Covered
  <2>4. \A p \in Paths \ touched' : FoundAt(p)' = FoundAt(p)
    BY <1>2, <2>2 DEF FoundAt
  <2>5. Told'
    BY <1>2, <2>1, <2>2, <2>4 DEF Told
  <2> QED BY <2>3, <2>5
<1> QED BY <1>3, <1>4

LEMMA DiscoverTells ==
  ASSUME TellInv, Discover PROVE Covered' /\ Told'
<1>1. CASE Fail
  BY <1>1 DEF Fail, Idle, Covered, Told
<1>2. CASE ~Fail
  <2>1. /\ todo' = [at : Listed \ Recorded, strict : {FALSE}]
                     \cup [at : Recorded, strict : {TRUE}]
        /\ pc' = IF job = "refresh" THEN "track" ELSE "load"
        /\ UNCHANGED <<file, mounted, job, roots, touched>>
    BY <1>2 DEF Discover, outside
  <2>2. Told'
    BY <2>1 DEF Told
  <2>3. ASSUME NEW p \in Paths, Readable(p), RootOf[p] \in roots \cup {Output}
        PROVE  \E c \in todo' : c.at = p
    <3>1. p \in Listed
      BY <2>3 DEF Listed, Readable
    <3>2. CASE p \in Recorded
      <4>1. [at |-> p, strict |-> TRUE] \in todo'
        BY <2>1, <3>2
      <4> QED BY <4>1
    <3>3. CASE p \notin Recorded
      <4>1. [at |-> p, strict |-> FALSE] \in todo'
        BY <2>1, <3>1, <3>3
      <4> QED BY <4>1
    <3> QED BY <3>2, <3>3
  <2>4. \A p \in Paths : Readable(p)' = Readable(p)
    BY <2>1 DEF Readable, IsFile
  <2>5. Covered'
    BY <2>1, <2>3, <2>4 DEF Covered
  <2> QED BY <2>2, <2>5
<1> QED BY <1>1, <1>2

\* Tracking adds what is indexed, wherever it is.
LEMMA TrackTells ==
  ASSUME TellInv, Track PROVE Covered' /\ Told'
<1> DEFINE tracked == {seen[d].path : d \in {e \in Documents : seen[e] # None}}
                        \cap {p \in Paths : IsFile(p)}
<1>1. /\ todo' = {c \in todo : c.at \notin tracked} \cup [at : tracked, strict : {TRUE}]
      /\ pc = "track" /\ pc' = "load"
      /\ UNCHANGED <<file, mounted, job, verify, roots, seen, loaded, unchanged, touched>>
  BY DEF Track, outside
<1>2. loaded' = Nothing /\ unchanged' = {}
  BY <1>1 DEF TellInv, PlaceInv, InHand
<1>3. \A p \in Paths : /\ Readable(p)' = Readable(p) /\ IsFile(p)' = IsFile(p)
                       /\ Indexed(p)' = Indexed(p)
  BY <1>1 DEF Readable, IsFile, Indexed
<1>4. ASSUME NEW p \in Paths \ touched, Readable(p),
             RootOf[p] \in roots \cup {Output} \/ Indexed(p) # {}
      PROVE  \E c \in todo' : c.at = p
  <2>1. CASE p \in tracked
    <3>1. [at |-> p, strict |-> TRUE] \in todo'
      BY <1>1, <2>1
    <3> QED BY <3>1
  <2>2. CASE p \notin tracked
    <3>1. Indexed(p) = {}
      BY <1>4, <2>2 DEF Indexed, Readable
    <3>2. PICK c \in todo : c.at = p
      BY <1>1, <1>4, <3>1 DEF TellInv, Covered
    <3> QED BY <1>1, <2>2, <3>2
  <2> QED BY <2>1, <2>2
<1> HIDE DEF tracked
<1>5. Covered'
  BY <1>1 DEF Covered
<1>6. \A p \in Paths \ touched : (\E c \in todo' : c.at = p) => FoundAt(p)'
  BY DEF FoundAt
<1>7. \A d \in Documents : loaded'[d] = None
  BY <1>2 DEF Nothing
<1>8. Told'
  <2> SUFFICES ASSUME NEW p \in Paths \ touched
      PROVE  /\ Readable(p) /\ (RootOf[p] \in roots \cup {Output} \/ Indexed(p) # {})
                  => FoundAt(p)'
             /\ \A d \in Documents : loaded'[d] = None
             /\ \A d \in Indexed(p) : d \in Documents
             /\ unchanged' = {}
    BY <1>1, <1>3 DEF Told
  <2> QED BY <1>2, <1>4, <1>6, <1>7 DEF Indexed
<1> QED BY <1>5, <1>8

\* One candidate is settled by what its place says now, which is what it says
\* as long as nobody touches it.
LEMMA LoadTells ==
  ASSUME TellInv, NEW c \in todo, Load(c) PROVE Covered' /\ Told'
<1> USE DEF TellInv
<1>1. CASE Fail
  BY <1>1 DEF Fail, Idle, Covered, Told
<1>2. CASE Go(c) /\ (Skips(c) \/ Takes(c) \/ Passes(c))
  <2>1. /\ todo' = todo \ {c} /\ pc = "load" /\ pc' = "load" /\ c.at \in Paths
        /\ UNCHANGED <<file, mounted, job, verify, roots, seen, touched, index>>
    BY <1>2, LoadCases DEF Go, outside, stores, PlaceInv, TypeOK
  <2>2. Covered'
    BY <2>1 DEF Covered
  <2>3. ASSUME NEW p \in Paths
        PROVE  /\ Readable(p)' = Readable(p) /\ IsFile(p)' = IsFile(p)
               /\ Indexed(p)' = Indexed(p) /\ Entry(p)' = Entry(p)
    BY <2>1 DEF Readable, IsFile, Indexed, Entry
  <2>4. \A d \in Documents : loaded[d] # None => loaded'[d] = loaded[d]
    <3>1. CASE Takes(c)
      BY <2>1, <3>1, EntryType DEF Takes, Duplicate, PlaceInv, TypeOK
    <3> QED BY <1>2, <3>1 DEF Skips, Passes
  <2>5. unchanged \subseteq unchanged'
    BY <1>2 DEF Skips, Takes, Passes
  <2>6. SUFFICES ASSUME job = "refresh", NEW p \in Paths \ touched
        PROVE  /\ Readable(p) /\ (RootOf[p] \in roots \cup {Output} \/ Indexed(p) # {})
                    => FoundAt(p)'
               /\ ~IsFile(p) =>
                    /\ \A d \in Documents : loaded'[d] # None => loaded'[d].path # p
                    /\ \A d \in unchanged' : seen[d].path # p
               /\ IsFile(p) =>
                    \A d \in Indexed(p) : loaded'[d] # None => loaded'[d].path = p
    BY <2>1, <2>2, <2>3 DEF Told
  <2>7. ASSUME Readable(p), RootOf[p] \in roots \cup {Output} \/ Indexed(p) # {}
        PROVE  FoundAt(p)'
    <3>1. FoundAt(p)
      BY <2>1, <2>6, <2>7 DEF Told
    <3>2. CASE c.at = p
      <4>1. CASE Skips(c)
        <5>1. PICK d \in Indexed(p) : seen[d].stamp = file[p].stamp
          BY <3>2, <4>1 DEF Skips, CanSkip
        <5>2. ~verify /\ d \in unchanged'
          BY <3>2, <4>1, <5>1 DEF Skips, CanSkip
        <5> QED BY <2>1, <2>3, <5>1, <5>2 DEF FoundAt
      <4>2. CASE Takes(c)
        <5>1. loaded'[file[p].doc] = Entry(p)
          BY <2>1, <2>7, <3>2, <4>2, EntryType DEF Takes, PlaceInv, TypeOK
        <5> QED BY <2>1, <2>3, <5>1 DEF FoundAt
      <4> QED BY <1>2, <2>7, <3>2, <4>1, <4>2 DEF Passes
    <3>3. CASE c.at # p /\ \E b \in todo : b.at = p
      <4>1. \E b \in todo' : b.at = p
        BY <2>1, <3>3
      <4> QED BY <4>1 DEF FoundAt
    <3>4. CASE loaded[file[p].doc] = Entry(p)
      <4>1. loaded'[file[p].doc] = Entry(p)
        BY <2>4, <2>7, <3>4, EntryType DEF PlaceInv
      <4> QED BY <2>1, <2>3, <4>1 DEF FoundAt
    <3>5. CASE ~verify /\ \E d \in Indexed(p) :
                 d \in unchanged /\ seen[d].stamp = file[p].stamp
      BY <2>1, <2>3, <2>5, <3>5 DEF FoundAt
    <3> QED BY <3>1, <3>2, <3>3, <3>4, <3>5 DEF FoundAt
  <2>8. ASSUME ~IsFile(p)
        PROVE  /\ \A d \in Documents : loaded'[d] # None => loaded'[d].path # p
               /\ \A d \in unchanged' : seen[d].path # p
    <3>1. /\ \A d \in Documents : loaded[d] # None => loaded[d].path # p
          /\ \A d \in unchanged : seen[d].path # p
      BY <2>1, <2>6, <2>8 DEF Told
    <3>2. CASE Skips(c)
      <4>1. c.at # p
        BY <2>8, <3>2 DEF Skips, CanSkip, Readable
      <4>2. \A d \in Indexed(c.at) : seen[d].path # p
        BY <4>1 DEF Indexed
      <4> QED BY <3>1, <3>2, <4>2 DEF Skips
    <3>3. CASE Takes(c)
      <4>1. c.at # p /\ Entry(c.at).path = c.at
        BY <2>1, <2>8, <3>3, EntryType DEF Takes, Readable, PlaceInv
      <4>2. \A d \in Documents : loaded'[d] = Entry(c.at) \/ loaded'[d] = loaded[d]
        BY <3>3 DEF Takes, PlaceInv, TypeOK
      <4> QED BY <3>1, <3>3, <4>1, <4>2 DEF Takes
    <3> QED BY <1>2, <3>1, <3>2, <3>3 DEF Passes
  <2>9. ASSUME IsFile(p), NEW d \in Indexed(p), loaded'[d] # None
        PROVE  loaded'[d].path = p
    <3>1. d \in Documents /\ seen[d] # None /\ seen[d].path = p
      BY DEF Indexed
    <3>2. CASE loaded'[d] = loaded[d]
      BY <2>1, <2>6, <2>9, <3>2 DEF Told
    <3>3. CASE Takes(c) /\ d = file[c.at].doc
      <4>1. c.at = p
        BY <2>6, <2>9, <3>1, <3>3 DEF Takes, Duplicate
      <4>2. loaded'[d] = Entry(c.at) /\ Entry(c.at).path = c.at
        BY <2>1, <3>1, <3>3, EntryType DEF Takes, PlaceInv, TypeOK
      <4> QED BY <4>1, <4>2
    <3> QED BY <1>2, <3>1, <3>2, <3>3 DEF Skips, Takes, Passes, PlaceInv, TypeOK
  <2> QED BY <2>7, <2>8, <2>9
<1> QED BY <1>1, <1>2, LoadCases

LEMMA TellStep == TellInv /\ [Next]_vars => TellInv'
<1> SUFFICES ASSUME TellInv, [Next]_vars PROVE Covered' /\ Told'
  BY PlaceStep DEF TellInv
<1>1. CASE Idle \/ (\E what, check, where : Begin(what, check, where))
  BY <1>1 DEF Idle, Begin, Covered, Told
<1>2. CASE (Removed \/ ClearSemantic) /\ ~Idle
  <2>1. /\ pc' \in {"clear", "apply"} /\ pc \in {"load", "clear"}
        /\ UNCHANGED <<file, mounted, job, verify, roots, seen, todo, loaded,
                       unchanged, touched>>
    BY <1>2 DEF Removed, ClearSemantic, Fail, outside
  <2>2. \A p \in Paths : /\ Readable(p)' = Readable(p) /\ IsFile(p)' = IsFile(p)
                         /\ Indexed(p)' = Indexed(p) /\ FoundAt(p)' = FoundAt(p)
    BY <2>1 DEF Readable, IsFile, Indexed, FoundAt, Entry
  <2> QED BY <2>1, <2>2 DEF TellInv, Covered, Told
<1>3. CASE (ApplyDelta \/ RebuildIndex \/ RebuildSemantic) /\ ~Idle
  BY <1>3 DEF ApplyDelta, RebuildIndex, RebuildSemantic, Covered, Told
<1>4. CASE UNCHANGED <<outside, index, semantic, process, touched>>
  <2>1. UNCHANGED <<file, mounted, pc, job, verify, roots, seen, todo, loaded,
                    unchanged, touched>>
    BY <1>4 DEF outside, process
  <2>2. \A p \in Paths : /\ Readable(p)' = Readable(p) /\ IsFile(p)' = IsFile(p)
                         /\ Indexed(p)' = Indexed(p) /\ FoundAt(p)' = FoundAt(p)
    BY <2>1 DEF Readable, IsFile, Indexed, FoundAt, Entry
  <2> QED BY <2>1, <2>2 DEF TellInv, Covered, Told
<1> QED BY <1>1, <1>2, <1>3, <1>4, StepCases, DiscoverTells, TrackTells,
           LoadTells, OutsiderTells DEF TellInv, PlaceInv, Fail

\* A refresh that succeeds tells the truth of every place nobody touched while it
\* read: a transcript it could find is indexed where it is and as it is, and
\* nothing is indexed where no file is, whatever happened to the other places.
THEOREM RefreshIsTrue == Spec => RefreshTells
<1>1. Init => TellInv
  BY PlaceInit DEF TellInv, Covered, Told, Init
<1> DEFINE Tells ==
      ApplyDelta =>
        \A p \in Paths \ touched :
          /\ Readable(p) /\ (RootOf[p] \in roots \cup {Output} \/ Indexed(p) # {}) =>
               \/ index'[file[p].doc] = Entry(p)
               \/ ~verify /\ \E d \in Indexed(p) : /\ seen[d].stamp = file[p].stamp
                                                   /\ index'[d] = seen[d]
          /\ ~IsFile(p) => \A d \in Documents : index'[d] # None => index'[d].path # p
<1>2. TellInv => Tells
  <2> SUFFICES ASSUME TellInv, ApplyDelta, NEW p \in Paths \ touched
               PROVE  /\ Readable(p) /\ (RootOf[p] \in roots \cup {Output} \/ Indexed(p) # {}) =>
                           \/ index'[file[p].doc] = Entry(p)
                           \/ ~verify /\ \E d \in Indexed(p) :
                                /\ seen[d].stamp = file[p].stamp
                                /\ index'[d] = seen[d]
                      /\ ~IsFile(p) => \A d \in Documents : index'[d] # None => index'[d].path # p
    OBVIOUS
  <2>1. /\ pc = "apply" /\ job = "refresh" /\ todo = {} /\ seen = index
        /\ \A d \in Documents : index'[d] =
             IF loaded[d] # None THEN loaded[d]
             ELSE IF d \in unchanged THEN seen[d] ELSE None
    BY DEF ApplyDelta, TellInv, PlaceInv, InHand
  <2>2. ASSUME Readable(p), RootOf[p] \in roots \cup {Output} \/ Indexed(p) # {}
        PROVE  \/ index'[file[p].doc] = Entry(p)
               \/ ~verify /\ \E d \in Indexed(p) : /\ seen[d].stamp = file[p].stamp
                                                   /\ index'[d] = seen[d]
    <3>1. FoundAt(p)
      BY <2>1, <2>2 DEF TellInv, Told
    <3>2. CASE loaded[file[p].doc] = Entry(p)
      BY <2>1, <2>2, <3>2, EntryType DEF TellInv, PlaceInv
    <3>3. CASE ~verify /\ \E d \in Indexed(p) :
                 d \in unchanged /\ seen[d].stamp = file[p].stamp
      <4>1. PICK d \in Indexed(p) : d \in unchanged /\ seen[d].stamp = file[p].stamp
        BY <3>3
      <4>2. d \in Documents /\ seen[d].path = p
        BY DEF Indexed
      <4>3. loaded[d] = None
        BY <2>1, <2>2, <4>1, <4>2 DEF TellInv, Told, PlaceInv, Settled, Readable
      <4> QED BY <2>1, <3>3, <4>1, <4>2, <4>3
    <3> QED BY <2>1, <3>1, <3>2, <3>3 DEF FoundAt
  <2>3. ASSUME ~IsFile(p), NEW d \in Documents, index'[d] # None
        PROVE  index'[d].path # p
    BY <2>1, <2>3 DEF TellInv, Told
  <2> QED BY <2>2, <2>3
<1> HIDE DEF Tells
<1>3. TellInv /\ [Next]_vars => [Tells]_vars
  BY <1>2
<1>4. [][Tells]_vars => RefreshTells
  BY DEF Tells, RefreshTells
<1> QED BY <1>1, <1>3, <1>4, TellStep, PTL DEF Spec

=============================================================================
