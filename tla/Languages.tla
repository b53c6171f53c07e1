------------------------------ MODULE Languages ------------------------------
(***************************************************************************)
(* Which language each passage of a finished transcript is in.  The texts   *)
(* of all segments are joined into one document, the document is cut into   *)
(* clauses, a classifier judges each clause, and the clauses are projected  *)
(* back on the segments they came from, by character offsets (language.py,  *)
(* executor.py).  The segments and the transcript validate what they are    *)
(* given, at the end of all the work (models.py).  A text is a sequence of  *)
(* letters, "space", "break" (a new line) and "stop" (punctuation).         *)
(***************************************************************************)
EXTENDS Integers, SequencesExt

CONSTANTS
  Texts,       \* a segment may have
  MaxSegments, \* bound: of one transcript
  Letters, Tongues,
  Unclear      \* no language

Characters == Letters \cup {"space", "break", "stop"}

\* A segment's text is stripped, and empty texts are dropped.
ASSUME LanguagesAssumption ==
  /\ Texts \subseteq Seq(Characters)
  /\ \A t \in Texts : \E i \in DOMAIN t : t[i] \notin {"space", "break"}
  /\ MaxSegments \in Nat /\ Unclear \notin Tongues

VARIABLES
  texts,     \* of the segments, in order
  requested, \* the language the owner asked for, if any
  engine,    \* the language the engine found for the whole
  ear,       \* the classifier: it judges a clause by its letters
  spans,     \* by segment
  summary,   \* what the transcript claims
  step       \* heard, attributed, summed, failed, unavailable

languageVars == <<texts, requested, engine, ear, spans, summary, step>>

NoSummary == [all |-> {}, language |-> Unclear, probability |-> FALSE]

LanguagesInit ==
  /\ texts \in UNION {[1 .. n -> Texts] : n \in 1 .. MaxSegments}
  /\ requested \in Tongues \cup {Unclear}
  /\ engine \in IF requested = Unclear THEN Tongues \cup {Unclear} ELSE {requested}
  /\ ear \in [SUBSET Letters -> Tongues \cup {Unclear}]
  /\ spans = [k \in DOMAIN texts |-> {}] /\ summary = NoSummary /\ step = "heard"

-----------------------------------------------------------------------------
(* Pieces of a text, from one offset up to another.                         *)

Piece(a, b) == [start |-> a, end |-> b]
Slice(t, p) == SubSeq(t, p.start + 1, p.end)

Trim(t, p) ==
  LET solid == {i \in p.start + 1 .. p.end : t[i] \notin {"space", "break"}}
  IN IF solid = {} THEN Piece(p.end, p.end) ELSE Piece(Min(solid) - 1, Max(solid))

\* Clauses end with punctuation or with the line.
TextUnits(t) ==
  LET cuts == {0, Len(t)} \cup {i \in DOMAIN t : t[i] \in {"stop", "break"}}
      pieces == {Piece(c[1], c[2]) : c \in {c \in cuts \X cuts :
                   c[1] < c[2] /\ \A x \in cuts : x <= c[1] \/ x >= c[2]}}
  IN {u \in {Trim(t, p) : p \in pieces} : u.start < u.end}

\* What the classifier says of each clause of a text.
Judged(t) ==
  {s \in {[start |-> u.start, end |-> u.end, tongue |-> ear[ToSet(Slice(t, u)) \cap Letters]]
          : u \in TextUnits(t)} : s.tongue # Unclear}

-----------------------------------------------------------------------------
(* The document and the way back.                                           *)

\* Mutant: segments are joined as they are for reading.
JoinedBySpaces(n) ==
  FoldLeft(LAMBDA d, t : IF d = <<>> THEN t ELSE Append(d, "space") \o t, <<>>, SubSeq(texts, 1, n))

\* The first n segments, one to a line.
Document(n) ==
  FoldLeft(LAMBDA d, t : IF d = <<>> THEN t ELSE Append(d, "break") \o t, <<>>, SubSeq(texts, 1, n))

Offset(k) == IF k = 1 THEN 0 ELSE Len(Document(k - 1)) + 1

\* The part of a span of the document that lies in segment k.
Project(s, k) ==
  LET from == Max({s.start, Offset(k)})
      to   == Min({s.end, Offset(k) + Len(texts[k])})
      own  == IF from < to THEN Trim(texts[k], Piece(from - Offset(k), to - Offset(k))) ELSE Piece(0, 0)
  IN [start |-> own.start, end |-> own.end, tongue |-> s.tongue]

ProjectSpans(document, k) == {p \in {Project(s, k) : s \in document} : p.start < p.end}

\* A segment refuses spans that exceed its text or overlap.
SpansFit(S, t) ==
  /\ \A s \in S : s.end <= Len(t)
  /\ \A r, s \in S : r # s => r.end <= s.start \/ s.end <= r.start

Attribute ==
  /\ step = "heard"
  /\ LET document  == Judged(Document(Len(texts)))
         projected == [k \in DOMAIN texts |-> ProjectSpans(document, k)]
     IN /\ spans' = projected
        /\ step' = IF \A k \in DOMAIN texts : SpansFit(projected[k], texts[k]) THEN "attributed" ELSE "failed"
  /\ UNCHANGED <<texts, requested, engine, ear, summary>>

\* Without a classifier segments keep what the engine was asked for; one that
\* raises fails the transcription.
NotAttributed ==
  /\ step = "heard" /\ step' \in {"attributed", "unavailable"}
  /\ UNCHANGED <<texts, requested, engine, ear, spans, summary>>

Spoken(k) == {s.tongue : s \in spans[k]}

Only(S) == IF \E x \in S : S = {x} THEN CHOOSE x \in S : TRUE ELSE Unclear

Summarise ==
  /\ step = "attributed" /\ step' = "summed"
  /\ LET spoken == UNION {Spoken(k) : k \in DOMAIN texts}
         all == IF spoken # {} THEN spoken ELSE {requested} \ {Unclear}
     IN summary' = [all |-> all, language |-> Only(all),
                    probability |-> Only(all) # Unclear /\ Only(all) = engine]
  /\ UNCHANGED <<texts, requested, engine, ear, spans>>

LanguagesNext == Attribute \/ NotAttributed \/ Summarise

LanguagesSpec == LanguagesInit /\ [][LanguagesNext]_languageVars

-----------------------------------------------------------------------------
(* Properties.                                                              *)

\* The detour by one document changes nothing: a segment has exactly the spans
\* its own clauses were judged to be, each at its place, none shared with a
\* neighbour and none lost, so that no transcript is refused at the end; and the
\* transcript names one language only if nothing in it was judged another
\* (_attribute_languages, _transcript).
SpansAreWhatWasJudged ==
  /\ step # "failed"
  /\ \A k \in DOMAIN texts : spans[k] \in {{}, Judged(texts[k])}
  /\ step # "heard" => \/ \A k \in DOMAIN texts : spans[k] = {}
                       \/ \A k \in DOMAIN texts : spans[k] = Judged(texts[k])
  /\ summary.language # Unclear => \A k \in DOMAIN texts : Spoken(k) \subseteq {summary.language}
=============================================================================
