------------------------------ MODULE MediaProbe ------------------------------
(***************************************************************************)
(* How a recording is looked at before a job is planned and again before it *)
(* starts (media/probe.py).  FFprobe is asked what the file has, and once   *)
(* more for what its tracks are called if there are several; then the file  *)
(* is read block by block for its fingerprint.  Its owner may write to it   *)
(* at any time; size, modification time and inode are compared at the end.  *)
(***************************************************************************)
EXTENDS Integers, Sequences, FiniteSets

CONSTANTS
  Recordings, \* contents of the file: empty, length, clock, streams
  Blocks,     \* that the fingerprint reads
  MaxEdits,   \* bound: of the owner
  Nothing

Streams == [index : Nat, audio : BOOLEAN, length : Nat, name : STRING, clock : BOOLEAN]

\* FFprobe numbers the streams of a file; a length it does not know is 0.
ASSUME ProbeAssumption ==
  /\ Recordings \subseteq [empty : BOOLEAN, length : Nat, clock : BOOLEAN, streams : Seq(Streams)]
  /\ \A r \in Recordings : \A i, j \in DOMAIN r.streams :
       r.streams[i].index = r.streams[j].index => i = j
  /\ Blocks \in Nat \ {0} /\ MaxEdits \in Nat
  /\ Nothing \notin Recordings

VARIABLES
  recording, \* the file's contents
  stamp,     \* its size, modification time, device and inode: every edit's own
  probing,   \* idle, inspect, name, digest, compare
  before,    \* the stamp that was taken first
  payload,   \* what FFprobe read
  naming,    \* what it read the second time
  digest,    \* the blocks that were hashed
  media      \* what the last probe answered

probeVars == <<recording, stamp, probing, before, payload, naming, digest, media>>

ProbeInit ==
  /\ recording \in Recordings /\ stamp = 0
  /\ probing = "idle" /\ before = 0
  /\ payload = Nothing /\ naming = Nothing /\ digest = <<>> /\ media = Nothing

-----------------------------------------------------------------------------
(* What is made of FFprobe's answers.                                       *)

Audio(r) == {i \in DOMAIN r.streams : r.streams[i].audio}

\* The file says its length, or its longest audio stream does.
Length(r) ==
  IF r.length > 0 \/ \A i \in Audio(r) : r.streams[i].length = 0 THEN r.length
  ELSE CHOOSE n \in {r.streams[i].length : i \in Audio(r)} :
         \A i \in Audio(r) : r.streams[i].length <= n

\* The names of the streams, by index; nobody asks for that of a single track.
Name(r, index) ==
  LET same == {i \in DOMAIN r.streams : r.streams[i].index = index}
  IN IF same = {} THEN Nothing ELSE r.streams[CHOOSE i \in same : TRUE].name

ParseStream(s, named) ==
  [index |-> s.index, audio |-> s.audio, length |-> s.length,
   name |-> IF named = Nothing THEN Nothing ELSE Name(named, s.index)]

\* Times that the file (-1) and its streams declare of themselves.
TemporalTags(r) ==
  (IF r.clock THEN {-1} ELSE {}) \cup
  {r.streams[i].index : i \in {i \in DOMAIN r.streams : r.streams[i].clock}}

FirstAudio(r) == CHOOSE i \in Audio(r) : \A j \in Audio(r) : i <= j

Parse(r, named, hashed) ==
  [streams |-> [i \in DOMAIN r.streams |-> ParseStream(r.streams[i], named)],
   primary |-> r.streams[FirstAudio(r)].index,
   length |-> Length(r), tags |-> TemporalTags(r), sha |-> hashed]

Supported(r) == Audio(r) # {} /\ Length(r) > 0

-----------------------------------------------------------------------------
(* The probe, which may fail wherever it reads.                             *)

Reply(m) == probing' = "idle" /\ media' = m

Refuse == Reply(Nothing) /\ UNCHANGED <<recording, stamp, before, payload, naming, digest>>

Look ==
  /\ probing = "idle" /\ media' = Nothing
  /\ IF recording.empty THEN UNCHANGED <<probing, before>>
     ELSE probing' = "inspect" /\ before' = stamp
  /\ digest' = <<>> /\ naming' = Nothing
  /\ UNCHANGED <<recording, stamp, payload>>

Several(r) == Cardinality(Audio(r)) > 1

Inspect ==
  /\ probing = "inspect"
  /\ \/ Refuse
     \/ /\ payload' = recording
        /\ probing' = IF Several(recording) THEN "name" ELSE "digest"
        /\ UNCHANGED <<recording, stamp, before, naming, digest, media>>

NameTracks ==
  /\ probing = "name"
  /\ \/ Refuse
     \/ /\ naming' = recording /\ probing' = "digest"
        /\ UNCHANGED <<recording, stamp, before, payload, digest, media>>

Fingerprint ==
  /\ probing = "digest"
  /\ \/ Refuse
     \/ /\ digest' = Append(digest, recording)
        /\ probing' = IF Len(digest) + 1 = Blocks THEN "compare" ELSE "digest"
        /\ UNCHANGED <<recording, stamp, before, payload, naming, media>>

\* Mutant: the stamps are not compared.
CompareNothing ==
  /\ probing = "compare"
  /\ Reply(IF Supported(payload) THEN Parse(payload, naming, digest) ELSE Nothing)
  /\ UNCHANGED <<recording, stamp, before, payload, naming, digest>>

Compare ==
  /\ probing = "compare"
  /\ Reply(IF stamp = before /\ Supported(payload) THEN Parse(payload, naming, digest) ELSE Nothing)
  /\ UNCHANGED <<recording, stamp, before, payload, naming, digest>>

\* The owner writes to the recording or puts another in its place.
EditRecording ==
  /\ stamp < MaxEdits /\ stamp' = stamp + 1
  /\ recording' \in Recordings
  /\ UNCHANGED <<probing, before, payload, naming, digest, media>>

ProbeNext == Look \/ Inspect \/ NameTracks \/ Fingerprint \/ Compare \/ EditRecording

ProbeSpec == ProbeInit /\ [][ProbeNext]_probeVars

-----------------------------------------------------------------------------
\* What is to be said of contents that nobody changes.
Described(r) ==
  Parse(r, IF Several(r) THEN r ELSE Nothing, [k \in 1 .. Blocks |-> r])

\* A probe takes several readings of a file that may be written to between any
\* two of them, and answers as if it had looked once: streams, names and
\* fingerprint are all of the contents that are there when it answers, and there
\* is an audio stream and a length, or it does not answer (probe, InputChangedError).
ProbesAtOnce ==
  [][media' \notin {Nothing, media} =>
       /\ Supported(recording) /\ media' = Described(recording)
       /\ \E i \in Audio(recording) : media'.primary = recording.streams[i].index
    ]_probeVars
=============================================================================
