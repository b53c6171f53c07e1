------------------------------ MODULE Retrieval ------------------------------
(***************************************************************************)
(* One search of the transcripts, from the query to the evidence on screen. *)
(* The lexical index ranks segments, the semantic one ranks chunks of       *)
(* adjacent segments; a hybrid search gathers the segments in their chunks, *)
(* fuses the two ranks (retrieval.py), and each passage is then looked up   *)
(* in the canonical transcript, whose file may have been replaced meanwhile *)
(* (evidence.py).  How an index scores is open: any order of what matches.  *)
(* A timed segment has a word for each term, one unit of time long.         *)
(***************************************************************************)
EXTENDS Integers, SequencesExt

CONSTANTS
  Documents,
  Transcripts,   \* sequences of segments a document may have
  Queries,       \* text, phrase, all, speakers, documents, sort, limit
  RrfK, Multiplier, MinCandidates, MaxCandidates, \* of the fusion
  Context,       \* segments shown around a passage
  NoRank

ASSUME RetrievalAssumption ==
  /\ {RrfK, Multiplier, MinCandidates, MaxCandidates} \subseteq Nat \ {0} /\ Context \in Nat
  /\ IsFiniteSet(Documents) /\ NoRank \notin Nat
  /\ \A q \in Queries : q.limit \in 1 .. MaxCandidates /\ q.text # <<>>
  /\ \A t \in Transcripts : t \in Seq(ToSet(t)) /\ \A i \in DOMAIN t :
       /\ t[i].text \in Seq(ToSet(t[i].text)) /\ {t[i].start, t[i].end} \subseteq Nat
       \* The engine hears words one after the other, and segments too.
       /\ Len(t[i].text) = t[i].end - t[i].start
       /\ \A j \in DOMAIN t : i < j => t[i].start <= t[j].start /\ t[i].end <= t[j].end

VARIABLES
  indexed, \* the transcript of each document as it is indexed
  file,    \* and as its file has it
  chunked, \* the chunks of the semantic index
  query, mode,
  lexical, \* segments found, in order
  semantic,\* chunks found, in order
  results, \* passages
  loaded,  \* documents whose file was read for this response
  located, \* the evidence of the first results
  pc       \* lexical, semantic, answer, locate, shown, refused

retrievalVars == <<indexed, file, chunked, query, mode, lexical, semantic, results, loaded, located, pc>>

Segment(d, i) == indexed[d][i]
AllSegments == UNION {{<<d, i>> : i \in DOMAIN indexed[d]} : d \in Documents}

\* A chunk is a run of adjacent segments, up to where it ends; every segment is in one.
ChunkSets(t, d) ==
  {{[doc |-> d, first |-> 1 + Max({0} \cup {x \in ends : x < e}), last |-> e] : e \in ends}
   : ends \in {E \in SUBSET DOMAIN t : t # <<>> => Len(t) \in E}}

RetrievalInit ==
  /\ indexed \in [Documents -> Transcripts] /\ file = indexed
  /\ \E f \in [Documents -> UNION {ChunkSets(indexed[d], d) : d \in Documents}] :
       /\ \A d \in Documents : f[d] \in ChunkSets(indexed[d], d)
       /\ chunked = UNION {f[d] : d \in Documents}
  /\ query \in Queries /\ mode \in {"lexical", "semantic", "hybrid"}
  /\ lexical = <<>> /\ semantic = <<>> /\ results = <<>>
  /\ loaded = {} /\ located = <<>>
  /\ pc = IF mode = "semantic" THEN "semantic" ELSE "lexical"

-----------------------------------------------------------------------------
(* What matches.                                                            *)

Asked == ToSet(query.text)

\* A phrase is looked for in the text; here by whole words.
IsPhraseOf(s, t) == \E k \in 0 .. Len(t) - Len(s) : SubSeq(t, k + 1, k + Len(s)) = s

Fits(text) ==
  /\ query.phrase => IsPhraseOf(query.text, text)
  /\ query.all => Asked \subseteq ToSet(text)

InScope(d, speakers) ==
  /\ query.documents # {} => d \in query.documents
  /\ query.speakers # {} => speakers \cap query.speakers # {}

SegmentMatches(x) ==
  LET s == Segment(x[1], x[2])
  IN Asked \cap ToSet(s.text) # {} /\ Fits(s.text) /\ InScope(x[1], {s.speaker})

Members(c) == c.first .. c.last
ChunkText(c) == FlattenSeq([k \in 1 .. c.last - c.first + 1 |-> Segment(c.doc, c.first + k - 1).text])
Speakers(c) == {Segment(c.doc, i).speaker : i \in Members(c)}

\* Every chunk has a score; only the filters exclude one.
ChunkMatches(c) == Fits(ChunkText(c)) /\ InScope(c.doc, Speakers(c))

\* A hybrid search asks both for more than it shows, by relevance.
CandidateLimit == Min({MaxCandidates, Max({query.limit * Multiplier, MinCandidates})})
Limit == IF mode = "hybrid" THEN CandidateLimit ELSE query.limit

FirstOf(s, n) == SubSeq(s, 1, Min({n, Len(s)}))
Orders(S) == {FirstOf(s, Limit) : s \in SetToSeqs(S)}

\* All of a set, in an order that agrees with what comes before what.
Sorted(S, Before(_, _)) == {s \in SetToSeqs(S) : \A m, n \in DOMAIN s : Before(s[m], s[n]) => m < n}

\* Documents in their order, each in the order of its segments.
Earlier(d, i, e, j) ==
  LET At(x) == CHOOSE n \in 1 .. Cardinality(Documents) : SetToSeq(Documents)[n] = x
  IN At(d) < At(e) \/ (d = e /\ i < j)

InTimeline(S) ==
  {FirstOf(s, Limit) : s \in Sorted(S, LAMBDA x, y : Earlier(x[1], x[2], y[1], y[2]))}

SearchLexical ==
  /\ pc = "lexical"
  /\ LET matching == {x \in AllSegments : SegmentMatches(x)}
     IN lexical' \in IF mode = "hybrid" \/ query.sort = "relevance"
                      THEN Orders(matching) ELSE InTimeline(matching)
  /\ pc' = IF mode = "hybrid" THEN "semantic" ELSE "answer"
  /\ UNCHANGED <<indexed, file, chunked, query, mode, semantic, results, loaded, located>>

SearchSemantic ==
  /\ pc = "semantic"
  /\ semantic' \in Orders({c \in chunked : ChunkMatches(c)})
  /\ pc' = "answer"
  /\ UNCHANGED <<indexed, file, chunked, query, mode, lexical, results, loaded, located>>

-----------------------------------------------------------------------------
(* The answer.                                                              *)

ChunkOf(x) == CHOOSE c \in chunked : c.doc = x[1] /\ x[2] \in Members(c)

\* The chunks of the segments found, numbered in the order their first one was found.
Collapsed == {ChunkOf(lexical[n]) : n \in DOMAIN lexical}
RawRank(c) == Min({n \in DOMAIN lexical : ChunkOf(lexical[n]) = c})
LexicalRank(c) ==
  IF c \in Collapsed THEN Cardinality({e \in Collapsed : RawRank(e) <= RawRank(c)}) ELSE NoRank

SemanticRank(c) ==
  IF Contains(semantic, c) THEN CHOOSE n \in DOMAIN semantic : semantic[n] = c ELSE NoRank

MatchedIn(c) == {i \in Members(c) : Contains(lexical, <<c.doc, i>>)}

\* Mutant: what an index did not find counts as its first.
UnrankedFirst(rank) == IF rank = NoRank THEN <<1, RrfK>> ELSE <<1, RrfK + rank>>

\* Reciprocal rank fusion, as a fraction.
Reciprocal(rank) == IF rank = NoRank THEN <<0, 1>> ELSE <<1, RrfK + rank>>

Score(c) ==
  LET a == Reciprocal(LexicalRank(c))  b == Reciprocal(SemanticRank(c))
  IN <<a[1] * b[2] + b[1] * a[2], a[2] * b[2]>>

Ahead(c, e) == Score(c)[1] * Score(e)[2] > Score(e)[1] * Score(c)[2]

\* Chunks of one score are ordered by their identity, a digest.
Fused == {FirstOf(s, query.limit) : s \in Sorted(Collapsed \cup ToSet(semantic), Ahead)}

FinalOrder(s) ==
  IF query.sort = "relevance" THEN {s}
  ELSE Sorted(ToSet(s), LAMBDA p, q : Earlier(p.doc, p.first, q.doc, q.first))

Passage(c, matched, fused) ==
  [doc |-> c.doc, first |-> c.first, last |-> c.last, matched |-> matched, rank |-> fused]

Answer ==
  /\ pc = "answer" /\ pc' = "locate"
  /\ \/ /\ mode = "lexical"
        /\ results' = [n \in DOMAIN lexical |->
             Passage([doc |-> lexical[n][1], first |-> lexical[n][2], last |-> lexical[n][2]], {lexical[n][2]}, n)]
     \/ /\ mode = "semantic"
        /\ results' \in FinalOrder([n \in DOMAIN semantic |-> Passage(semantic[n], {}, n)])
     \/ /\ mode = "hybrid"
        /\ \E s \in Fused :
             results' \in FinalOrder([n \in DOMAIN s |-> Passage(s[n], MatchedIn(s[n]), n)])
  /\ UNCHANGED <<indexed, file, chunked, query, mode, lexical, semantic, loaded, located>>

-----------------------------------------------------------------------------
(* The evidence.                                                            *)

\* The words of a segment that were asked for: of a phrase, those that stand in it.
Highlighted(s) ==
  IF ~s.timed THEN {}
  ELSE IF ~query.phrase THEN {k \in DOMAIN s.text : s.text[k] \in Asked}
  ELSE {k \in DOMAIN s.text : \E o \in 0 .. Len(s.text) - Len(query.text) :
          /\ SubSeq(s.text, o + 1, o + Len(query.text)) = query.text
          /\ k \in o + 1 .. o + Len(query.text)}

\* Mutant: the transcript is taken as it is found.
AnyFile(d) == d \in Documents

\* A file is read once for a response, and must be the one that was indexed.
Verified(d) == d \in loaded \/ file[d] = indexed[d]

Surroundings(p, t) == Max({1, p.first - Context}) .. Min({Len(t), p.last + Context})

Marks(p, t) ==
  UNION {{<<i, k>> : k \in Highlighted(t[i])} : i \in p.matched \cap Surroundings(p, t)}

Seek(p, t) ==
  LET marked == Marks(p, t)
      first == CHOOSE m \in marked : \A n \in marked : m[1] < n[1] \/ (m[1] = n[1] /\ m[2] <= n[2])
  IN IF marked = {} THEN t[p.first].start ELSE t[first[1]].start + first[2] - 1

Locate ==
  /\ pc = "locate" /\ Len(located) < Len(results)
  /\ LET p == results[Len(located) + 1]
         t == IF p.doc \in loaded THEN indexed[p.doc] ELSE file[p.doc]
         seek == Seek(p, t)
     IN IF Verified(p.doc) /\ p.last <= Len(t) /\ t[p.first].start <= seek /\ seek <= t[p.last].end
        THEN /\ located' = Append(located,
                  [doc |-> p.doc, seek |-> seek,
                   shown |-> [i \in Surroundings(p, t) |-> t[i]],
                   words |-> [i \in p.matched |-> Highlighted(t[i])]])
             /\ loaded' = loaded \cup {p.doc} /\ UNCHANGED pc
        ELSE pc' = "refused" /\ UNCHANGED <<located, loaded>>
  /\ UNCHANGED <<indexed, file, chunked, query, mode, lexical, semantic, results>>

Shown ==
  /\ pc = "locate" /\ Len(located) = Len(results) /\ pc' = "shown"
  /\ UNCHANGED <<indexed, file, chunked, query, mode, lexical, semantic, results, loaded, located>>

\* A job or the owner replaces a transcript's file; before its evidence is looked
\* up it is all the same to this search when.
ReplaceFile ==
  /\ pc = "locate" /\ file = indexed
  /\ \E d \in Documents, t \in Transcripts : t # file[d] /\ file' = [file EXCEPT ![d] = t]
  /\ UNCHANGED <<indexed, chunked, query, mode, lexical, semantic, results, loaded, located, pc>>

RetrievalNext == SearchLexical \/ SearchSemantic \/ Answer \/ Locate \/ Shown \/ ReplaceFile

RetrievalSpec == RetrievalInit /\ [][RetrievalNext]_retrievalVars

-----------------------------------------------------------------------------
(* Properties.                                                              *)

\* How early a segment of a chunk, and the chunk itself, was found; what was not
\* found comes after all that was.
FirstFound(c) ==
  Min({n \in DOMAIN lexical : lexical[n][1] = c.doc /\ lexical[n][2] \in Members(c)} \cup {Len(lexical) + 1})
RankOf(c) == Min({n \in DOMAIN semantic : semantic[n] = c} \cup {Len(semantic) + 1})

Better(c, e) ==
  /\ FirstFound(c) <= FirstFound(e) /\ RankOf(c) <= RankOf(e)
  /\ FirstFound(c) < FirstFound(e) \/ RankOf(c) < RankOf(e)

Answers(c) == {n \in DOMAIN results : results[n].doc = c.doc /\ results[n].first = c.first}

\* No passage is answered twice, against the filters or beyond the limit; in a
\* hybrid answer a chunk that both indexes found earlier is ranked before, and
\* never left out for, one they found later.
RanksFairly ==
  pc \in {"locate", "shown", "refused"} =>
    /\ Len(results) <= query.limit
    /\ \A n \in DOMAIN results :
         /\ Cardinality(Answers(results[n])) = 1
         /\ InScope(results[n].doc, Speakers(results[n]))
    /\ mode = "hybrid" =>
         \A c, e \in chunked : Better(c, e) /\ Answers(e) # {} =>
           \E m \in Answers(c), n \in Answers(e) : results[m].rank < results[n].rank

\* Every passage opens, unless its file was replaced meanwhile, on the very
\* segments that were indexed, at a place inside it; no segment that was found by
\* its words comes without a word marked.
ShowsWhatItFound ==
  /\ pc = "refused" => \E d \in Documents : file[d] # indexed[d]
  /\ \A n \in DOMAIN located :
       LET p == results[n]  e == located[n]
       IN /\ \A i \in DOMAIN e.shown : e.shown[i] = Segment(p.doc, i)
          /\ Segment(p.doc, p.first).start <= e.seek /\ e.seek <= Segment(p.doc, p.last).end
          /\ ~query.phrase => \A i \in p.matched : Segment(p.doc, i).timed => e.words[i] # {}

\* What a search answers is what the two indexes found, in an order that follows
\* theirs, and what it shows is what was found (TranscriptSearch, EvidenceService).
AnswersAreEvidence == RanksFairly /\ ShowsWhatItFound
=============================================================================
