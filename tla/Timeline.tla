------------------------------- MODULE Timeline -------------------------------
(***************************************************************************)
(* From what the engine hears to the transcript's timeline: the audio is    *)
(* cut into windows (segmentation.py), each window's segments and words are *)
(* timed from its start (backend.py, alignment.py), rebased on the          *)
(* recording and clipped (assembly.py), labelled with the voices the        *)
(* diarizer told apart (diarization.py), validated (models.py) and cut into *)
(* the chunks semantic search retrieves (semantic.py).  Every validator     *)
(* raises, and the transcription then fails.  Time is counted in ticks of   *)
(* the tolerance the validators grant, 0.05 s.                              *)
(***************************************************************************)
EXTENDS Integers, Sequences, SequencesExt

CONSTANTS
  Lengths,    \* of the decoded audio
  Skews,      \* the probed duration less the decoded length
  Span,       \* segment_duration_seconds
  Tolerance,  \* what a timestamp may exceed its bound by
  Raw,        \* segments the engine may return: start, end, words
  Turns,      \* sets of turns the diarizer may return: start, end, voice
  MaxHeard,   \* bound: segments of one window
  TargetWords, MaxWords, \* the chunking profile
  Nobody

ASSUME TimelineAssumption ==
  /\ Lengths \subseteq Nat \ {0} /\ Skews \subseteq Int
  /\ Span \in Nat \ {0} /\ Tolerance \in Nat
  /\ Raw \subseteq [start : Nat, end : Nat, words : Seq([start : Nat, end : Nat])]
  /\ \A S \in Turns : /\ S # Nobody /\ IsFiniteSet(S)
                     /\ \A t \in S : t.start \in Nat /\ t.end \in Nat /\ t.start < t.end /\ t.voice \in Nat
  /\ {MaxHeard, TargetWords, MaxWords} \subseteq Nat \ {0}
  /\ Nobody \notin {"assembly", "labels"} /\ Nobody \notin Nat

VARIABLES
  length, probed, \* of the decoded audio, by its frames and by the probe
  heard,          \* by window, the segments heard so far
  joined,         \* windows assembled so far
  transcript,     \* the recording's segments
  turns,          \* what the diarizer returned, if it was asked
  phase,          \* hear, assemble, label, publish, published, failed
  why             \* what failed it

timelineVars == <<length, probed, heard, joined, transcript, turns, phase, why>>

TimelineInit ==
  /\ length \in Lengths /\ \E d \in Skews : length + d > 0 /\ probed = length + d
  /\ heard = <<>> /\ joined = 0 /\ transcript = <<>> /\ turns = Nobody
  /\ phase = "hear" /\ why = Nobody

-----------------------------------------------------------------------------
(* Windows, segments and words.                                             *)

Least(a, b) == IF a <= b THEN a ELSE b
Greatest(a, b) == IF a >= b THEN a ELSE b

Windows == (length + Span - 1) \div Span
Window(k) == [start |-> (k - 1) * Span, end |-> Least(k * Span, length)]
Duration(w) == w.end - w.start

Ordered(i) == i.start <= i.end

\* Words lie in their segment and follow each other, up to the tolerance.
WordsFit(s) ==
  \A k \in DOMAIN s.words :
    /\ Ordered(s.words[k])
    /\ s.words[k].start >= s.start - Tolerance
    /\ s.words[k].end <= s.end + Tolerance
    /\ \A j \in 1 .. k - 1 : s.words[k].start >= s.words[j].end - Tolerance

\* A segment that names a speaker has words that all name that speaker.
OneVoice(s) ==
  s.speaker # Nobody =>
    \A k \in DOMAIN s.words : s.words[k].speaker = s.speaker

Sound(s) == Ordered(s) /\ WordsFit(s) /\ OneVoice(s)

\* The engine's segment is widened to hold its words.
Aligned(r) ==
  LET starts == {r.words[k].start : k \in DOMAIN r.words}
      ends   == {r.words[k].end : k \in DOMAIN r.words}
  IN [start |-> Min({r.start} \cup starts), end |-> Max({r.end} \cup ends), speaker |-> Nobody,
      words |-> [k \in DOMAIN r.words |->
                   [start |-> r.words[k].start, end |-> r.words[k].end, speaker |-> Nobody]]]

Fail(cause) ==
  /\ phase' = "failed" /\ why' = cause
  /\ UNCHANGED <<length, probed, heard, joined, transcript, turns>>

OpenWindow ==
  /\ phase = "hear" /\ Len(heard) < Windows
  /\ heard' = Append(heard, <<>>)
  /\ UNCHANGED <<length, probed, joined, transcript, turns, phase, why>>

Hear ==
  /\ phase = "hear" /\ heard # <<>> /\ Len(Last(heard)) < MaxHeard
  /\ \E r \in Raw :
       \/ ~(Ordered(r) /\ Sound(Aligned(r))) /\ Fail("engine")
       \/ /\ Ordered(r) /\ Sound(Aligned(r))
          /\ heard' = [heard EXCEPT ![Len(heard)] = Append(@, Aligned(r))]
          /\ UNCHANGED <<length, probed, joined, transcript, turns, phase, why>>

AllHeard ==
  /\ phase = "hear" /\ Len(heard) = Windows
  /\ phase' = "assemble"
  /\ UNCHANGED <<length, probed, heard, joined, transcript, turns, why>>

-----------------------------------------------------------------------------
(* Assembly.                                                                *)

InAudio(s, w) == s.end <= Duration(w) + Tolerance

\* Mutant: a time past the window's end is kept.
ClipNothing(t, w) == w.start + t

Clip(t, w) == Least(w.end, w.start + t)

RebaseWord(word, w) == [word EXCEPT !.start = Clip(word.start, w), !.end = Clip(word.end, w)]

Rebase(s, w) ==
  [s EXCEPT !.start = Clip(s.start, w),
            !.end = IF s.end >= Duration(w) THEN w.end ELSE w.start + s.end,
            !.words = [k \in DOMAIN s.words |-> RebaseWord(s.words[k], w)]]

Rebased(k) == [i \in DOMAIN heard[k] |-> Rebase(heard[k][i], Window(k))]

Assemble ==
  /\ phase = "assemble" /\ joined < Windows
  /\ LET k == joined + 1
         inside == \A i \in DOMAIN heard[k] : InAudio(heard[k][i], Window(k))
     IN \/ ~inside /\ Fail("outside")
        \/ inside /\ (\E i \in DOMAIN heard[k] : ~Sound(Rebased(k)[i])) /\ Fail("assembly")
        \/ /\ inside /\ \A i \in DOMAIN heard[k] : Sound(Rebased(k)[i])
           /\ transcript' = transcript \o Rebased(k) /\ joined' = k
           /\ UNCHANGED <<length, probed, heard, turns, phase, why>>

Assembled ==
  /\ phase = "assemble" /\ joined = Windows
  /\ phase' = "label"
  /\ UNCHANGED <<length, probed, heard, joined, transcript, turns, why>>

-----------------------------------------------------------------------------
(* Speakers.  Turns are sorted by start, end and the diarizer's own label;  *)
(* voices are numbered as they first appear.                                *)

Precedes(t, u) ==
  \/ t.start < u.start
  \/ t.start = u.start /\ t.end < u.end
  \/ t.start = u.start /\ t.end = u.end /\ t.voice < u.voice

FirstTurn(S, v) == CHOOSE t \in S : t.voice = v /\ \A u \in S : u.voice = v => ~Precedes(u, t)

Number(S, v) ==
  Cardinality({u.voice : u \in {u \in S : ~Precedes(FirstTurn(S, v), FirstTurn(S, u.voice))}})

\* SpeakerDiarizationResult wants turns of one interval in the order of their numbers.
SortedByNumber(S) ==
  \A t, u \in S : t.start = u.start /\ t.end = u.end /\ t.voice < u.voice =>
                    Number(S, t.voice) < Number(S, u.voice)

Overlap(i, t) == Least(i.end, t.end) - Greatest(i.start, t.start)

Voices(S, i) == {Number(S, t.voice) : t \in {t \in S : Overlap(i, t) > 0}}

\* An interval is a speaker's if nobody else is heard in it.
SpeakerFor(S, i) == IF Cardinality(Voices(S, i)) = 1 THEN CHOOSE n \in Voices(S, i) : TRUE ELSE Nobody

LabelWords(S, s) == [k \in DOMAIN s.words |-> [s.words[k] EXCEPT !.speaker = SpeakerFor(S, s.words[k])]]

Labelled(S, s) ==
  LET words == LabelWords(S, s)
      named == {words[k].speaker : k \in DOMAIN words}
  IN [s EXCEPT !.words = words,
               !.speaker = IF words = <<>> THEN SpeakerFor(S, s)
                           ELSE IF Cardinality(named) = 1 THEN CHOOSE n \in named : TRUE ELSE Nobody]

Diarize ==
  /\ phase = "label"
  /\ \E S \in Turns :
       /\ \A t \in S : t.end <= length
       /\ LET labelled == [i \in DOMAIN transcript |-> Labelled(S, transcript[i])]
          IN \/ ~SortedByNumber(S) /\ Fail("turns")
             \/ /\ SortedByNumber(S) /\ \E i \in DOMAIN labelled : ~Sound(labelled[i])
                /\ Fail("labels")
             \/ /\ SortedByNumber(S) /\ \A i \in DOMAIN labelled : Sound(labelled[i])
                /\ turns' = S /\ transcript' = labelled /\ phase' = "publish"
                /\ UNCHANGED <<length, probed, heard, joined, why>>

NotAsked ==
  /\ phase = "label" /\ phase' = "publish"
  /\ UNCHANGED <<length, probed, heard, joined, transcript, turns, why>>

-----------------------------------------------------------------------------
(* Publication and chunks.                                                  *)

\* The canonical transcript holds turns to the probed duration, and names no
\* speaker the diarizer did not hear.
Canonical ==
  turns # Nobody =>
    /\ \A t \in turns : t.end <= probed
    /\ \A i \in DOMAIN transcript :
         transcript[i].speaker # Nobody =>
           \E t \in turns : Number(turns, t.voice) = transcript[i].speaker

Publish ==
  /\ phase = "publish"
  /\ IF Canonical
     THEN phase' = "published" /\ UNCHANGED <<length, probed, heard, joined, transcript, turns, why>>
     ELSE Fail("source")

\* A segment's words stand for those of its text.
Weight(s) == Greatest(1, Len(s.words))

NoChunk == [done |-> <<>>, open |-> <<>>, words |-> 0]

Close(c) == [NoChunk EXCEPT !.done = IF c.open = <<>> THEN c.done ELSE Append(c.done, c.open)]

AddSegment(c, s) ==
  LET full == c.words >= TargetWords \/ c.words + Weight(s) > MaxWords
      into == IF full THEN Close(c) ELSE c
      with == [into EXCEPT !.open = Append(@, s), !.words = @ + Weight(s)]
  IN IF with.words >= MaxWords THEN Close(with) ELSE with

\* Mutant: what is open when the transcript ends is not kept.
ChunksWithoutRest(segments) == FoldLeft(AddSegment, NoChunk, segments).done

Chunks(segments) == Close(FoldLeft(AddSegment, NoChunk, segments)).done

TimelineNext ==
  \/ OpenWindow \/ Hear \/ AllHeard \/ Assemble \/ Assembled
  \/ Diarize \/ NotAsked \/ Publish

TimelineSpec == TimelineInit /\ [][TimelineNext]_timelineVars

-----------------------------------------------------------------------------
Within(s, w) ==
  /\ w.start <= s.start /\ s.end <= w.end
  /\ \A n \in DOMAIN s.words : s.words[n].end <= w.end

WordsOf(c) == FoldLeft(LAMBDA n, s : n + Weight(s), 0, c)

\* Every segment is in one chunk, in order; a chunk is too long only if one
\* segment alone is, and ends only when it is long enough or would become too long.
WellChunked(chunks) ==
  /\ FlattenSeq(chunks) = transcript
  /\ \A c \in DOMAIN chunks :
       /\ chunks[c] # <<>> /\ (WordsOf(chunks[c]) <= MaxWords \/ Len(chunks[c]) = 1)
       /\ c > 1 => \/ WordsOf(chunks[c - 1]) >= TargetWords
                   \/ WordsOf(chunks[c - 1]) + Weight(Head(chunks[c])) > MaxWords

\* What the engine heard is not lost to the steps after it: once its segments
\* were accepted and end with the audio, rebasing and labelling them makes
\* segments that are accepted again, each in a window, in the windows' order, and
\* the chunks that are searched hold all of them.
HeardIsKept ==
  /\ why \notin {"assembly", "labels"}
  /\ \A i, j \in DOMAIN transcript : i <= j =>
       \E k, l \in 1 .. joined : /\ k <= l
                                /\ Within(transcript[i], Window(k))
                                /\ Within(transcript[j], Window(l))
  /\ phase = "published" => WellChunked(Chunks(transcript))

\* Voices heard at once are evidence and no error: no turns of the diarizer are
\* refused for their order (docs/architecture/diarization.md, speaker_models.py).
OverlapIsEvidence == why # "turns"
=============================================================================
