-------------------------- MODULE SpeakerPresentation --------------------------
(***************************************************************************)
(* The transcript as it is read with its speakers (speaker_presentation.py):*)
(* each segment of a published transcript is cut into spans of words with   *)
(* the same evidence of who speaks.  A segment without words is one span.   *)
(* A span that its own class refuses makes the whole transcript unreadable. *)
(***************************************************************************)
EXTENDS Timeline

SpeakerTurns == IF turns = Nobody THEN {} ELSE turns

\* Mutant: two voices in the interval will do.
TwoVoices(i) == Cardinality(Voices(SpeakerTurns, i)) > 1

\* Two voices at one and the same time of the interval.
Simultaneous(i) ==
  \E t, u \in SpeakerTurns :
    /\ Number(SpeakerTurns, t.voice) # Number(SpeakerTurns, u.voice)
    /\ Least(i.end, Least(t.end, u.end)) > Greatest(i.start, Greatest(t.start, u.start))

Evidence(word) ==
  LET active == Voices(SpeakerTurns, word)
  IN IF Cardinality(active) > 1 THEN [speakers |-> active, kind |-> "overlap"]
     ELSE IF word.speaker # Nobody THEN [speakers |-> {word.speaker}, kind |-> "single"]
     ELSE [speakers |-> {}, kind |-> "unattributed"]

\* The segment's own label is not overruled: one voice that it declined is none.
SegmentEvidence(s) ==
  LET active == Voices(SpeakerTurns, s)
  IN IF s.speaker # Nobody THEN [speakers |-> {s.speaker}, kind |-> "single"]
     ELSE IF Cardinality(active) < 2 THEN [speakers |-> {}, kind |-> "unattributed"]
     ELSE [speakers |-> active, kind |-> IF Simultaneous(s) THEN "overlap" ELSE "mixed"]

\* The first and the last word of each span: its words are alike, and none
\* next to it is like them.
Groups(s) ==
  LET n == Len(s.words)
      evidence == [k \in 1 .. n |-> Evidence(s.words[k])]
      alike(j, k) == evidence[j] = evidence[k]
  IN {g \in (1 .. n) \X (1 .. n) :
        /\ g[1] <= g[2] /\ \A k \in g[1] .. g[2] : alike(g[1], k)
        /\ g[1] > 1 => ~alike(g[1], g[1] - 1)
        /\ g[2] < n => ~alike(g[1], g[2] + 1)}

Present(from, to, e) ==
  [start |-> from.start, end |-> to.end, speakers |-> e.speakers, kind |-> e.kind]

WordSpan(s, g) == Present(s.words[g[1]], s.words[g[2]], Evidence(s.words[g[1]]))

SegmentSpan(s) == Present(s, s, SegmentEvidence(s))

\* What SpeakerPresentationSpan asks of a span; a kind goes with a number of speakers.
Accepted(x) ==
  /\ x.start <= x.end
  /\ x.kind = "single" => Cardinality(x.speakers) = 1
  /\ x.kind = "overlap" => Cardinality(x.speakers) > 1
  /\ x.kind = "unattributed" => x.speakers = {}

-----------------------------------------------------------------------------
(* Who speaks in a moment, between a tick and the next, and in an interval. *)

Moments(i) == i.start .. i.end - 1

Speaking(n) ==
  {Number(SpeakerTurns, t.voice) : t \in {t \in SpeakerTurns : t.start <= n /\ n < t.end}}

SpeakingIn(i) == UNION {Speaking(n) : n \in Moments(i)}

Together(i) == \E n \in Moments(i) : Cardinality(Speaking(n)) > 1

OneAfterTheOther(s) ==
  \A j, k \in DOMAIN s.words : j < k => s.words[j].end <= s.words[k].start

\* What is read of a published transcript is what was heard of its voices: every
\* word is in one span, that span names those who speak in some moment of the word,
\* and nobody else; a segment without words is said to be spoken at once, or by
\* turns, if it is.  No span is refused, unless words overlap (they may by the
\* tolerance of alignment.py; speaker_presentation.py).
PresentsTheEvidence ==
  phase = "published" =>
    \A i \in DOMAIN transcript :
      LET s == transcript[i]
          groups == Groups(s)
      IN /\ \A k \in DOMAIN s.words :
              \E g \in groups :
                /\ g[1] <= k /\ k <= g[2]
                /\ \A h \in groups : h[1] <= k /\ k <= h[2] => h = g
                /\ WordSpan(s, g).speakers = SpeakingIn(s.words[k])
         /\ OneAfterTheOther(s) => \A g \in groups : Accepted(WordSpan(s, g))
         /\ s.words = <<>> =>
              /\ SegmentSpan(s).speakers = SpeakingIn(s)
              /\ Accepted(SegmentSpan(s))
              /\ SegmentSpan(s).kind = "overlap" <=> Together(s)
              /\ SegmentSpan(s).kind = "mixed" <=> ~Together(s) /\ Cardinality(SpeakingIn(s)) > 1

(* What the documents say, and the code does not do.                        *)

\* docs/architecture/word-alignment.md: true simultaneous overlap is presented
\* apart from what is said by turns.  Of words it is not (_word_evidence).
OverlapIsSimultaneous ==
  phase = "published" =>
    \A i \in DOMAIN transcript : \A k \in DOMAIN transcript[i].words :
      Evidence(transcript[i].words[k]).kind = "overlap" => Together(transcript[i].words[k])

\* A transcript whose words were accepted can be read with its speakers.
PublishedIsReadable ==
  phase = "published" =>
    \A i \in DOMAIN transcript : \A g \in Groups(transcript[i]) : Accepted(WordSpan(transcript[i], g))
=============================================================================
