----------------------------- MODULE MCPlanning -----------------------------
(* What a transcript is, from the recording that is probed to the evidence  *)
(* a search shows: the probe, the plan, the timeline of what was heard, its *)
(* languages, and the search.  They share no state and are followed apart.  *)
(* Memory is counted in units of 128 MiB, as the catalogue has it.          *)
EXTENDS Planning, SpeakerPresentation, Languages, Retrieval, MediaProbe

VARIABLE part

Cpu(quality, memory) ==
  [quality |-> quality, speed |-> 10, cuda |-> FALSE, compute |-> "int8",
   memory |-> memory, device |-> 0]

Cuda(quality, compute, memory, device) ==
  [quality |-> quality, speed |-> IF compute = "float16" THEN 30 ELSE 20, cuda |-> TRUE,
   compute |-> compute, memory |-> memory, device |-> device]

\* Of the small model, a processor's strategy; of the others, both kinds.
MCStrategies ==
  {Cpu(1, 10), Cpu(2, 18), Cpu(3, 34), Cuda(1, "float16", 6, 4),
   Cuda(3, "float16", 16, 24), Cuda(3, "int8_float16", 16, 16)}

Full == [logical |-> 4, quota |-> 4, available |-> 64, room |-> 64, free |-> 40,
         computes |-> {"float16", "int8_float16"}, disk |-> 9]

\* Each has one thing less: threads, quota, memory, room in the container,
\* device memory, a supported device, disk.
MCMachines ==
  {Full, [Full EXCEPT !.logical = 2], [Full EXCEPT !.quota = 0],
   [Full EXCEPT !.available = 24], [Full EXCEPT !.room = 10],
   [Full EXCEPT !.free = 6], [Full EXCEPT !.computes = {}], [Full EXCEPT !.disk = 7]}

MCSources ==
  {[tracks |-> {1}, direct |-> TRUE, size |-> 2],
   [tracks |-> {1, 2}, direct |-> FALSE, size |-> 3]}

From(a, b) == [start |-> a, end |-> b]

\* Segments without words of any bounds; a word that is long, crosses the bounds or
\* runs backwards; two words that follow, touch or overlap each other, take no time,
\* or come in the wrong order.
MCRaw ==
  {[start |-> a, end |-> b, words |-> <<>>] : a, b \in 0 .. 3} \cup
  {[start |-> 1, end |-> 2, words |-> w] :
     w \in {<<From(0, 2)>>, <<From(2, 3)>>, <<From(3, 2)>>} \cup
           [1 .. 2 -> {From(0, 0), From(1, 1), From(1, 2), From(2, 3)}]}

Turn(a, b, v) == [start |-> a, end |-> b, voice |-> v]

MCTurns ==
  {S \in SUBSET {Turn(0, 1, 1), Turn(0, 1, 2), Turn(0, 3, 2), Turn(1, 3, 1), Turn(1, 3, 2)} :
     Cardinality(S) <= 3}

MCSkews == {0, -1}

Count == FoldLeft(LAMBDA n, w : n + Len(w), 0, heard)

\* Two segments with everything, three that start with their window.
FewSegments ==
  \/ Count <= 2
  \/ Count = 3 /\ turns = Nobody /\ \A k \in DOMAIN heard : \A i \in DOMAIN heard[k] : heard[k][i].start = 0

\* Texts of one clause and of two, of two lines, with signs between and around them.
MCTexts ==
  {<<"a">>, <<"b", "stop">>, <<"space", "a", "stop", "b">>, <<"a", "space", "b">>,
   <<"a", "break", "b">>, <<"stop">>, <<"a", "stop", "stop", "space", "b">>}

Said(a, text, who, timed) ==
  [start |-> a, end |-> a + Len(text), text |-> text, speaker |-> who, timed |-> timed]

\* Two speakers, one segment without timed words, two that overlap, and silence.
MCTranscripts ==
  {<<>>,
   <<Said(0, <<"x">>, "ann", TRUE), Said(1, <<"y", "x">>, "bob", TRUE)>>,
   <<Said(0, <<"x", "y">>, "ann", FALSE)>>,
   <<Said(0, <<"y">>, "bob", TRUE), Said(0, <<"x", "y">>, "ann", TRUE)>>}

Asking(text, limit) ==
  [text |-> text, phrase |-> FALSE, all |-> FALSE, speakers |-> {}, documents |-> {},
   sort |-> "relevance", limit |-> limit]

MCQueries ==
  {Asking(<<"x">>, 1), [Asking(<<"x", "y">>, 2) EXCEPT !.phrase = TRUE],
   [Asking(<<"x", "y">>, 2) EXCEPT !.all = TRUE, !.sort = "timeline"],
   [Asking(<<"y">>, 1) EXCEPT !.speakers = {"bob"}, !.documents = {"d2"}]}

Stream(i, audio, n, name) == [index |-> i, audio |-> audio, length |-> n, name |-> name, clock |-> audio]

File(n, streams) == [empty |-> FALSE, length |-> n, clock |-> n = 3, streams |-> streams]

\* An empty file, one without audio, of one track, of two behind a picture whose
\* length only the streams tell, and of two without any length.
MCRecordings ==
  {[File(0, <<>>) EXCEPT !.empty = TRUE], File(2, <<Stream(0, FALSE, 2, "")>>),
   File(3, <<Stream(0, TRUE, 0, "a")>>),
   File(0, <<Stream(0, FALSE, 4, ""), Stream(1, TRUE, 2, "b"), Stream(2, TRUE, 3, "c")>>),
   File(0, <<Stream(0, TRUE, 0, "a"), Stream(1, TRUE, 0, "b")>>)}

\* Outside its part a module is in one of its initial states.
PlanAtRest == machine = Full /\ source.direct
TimelineAtRest == probed = length
LanguagesAtRest ==
  texts = << <<"a">> >> /\ requested = Unclear /\ engine = Unclear /\ ear = [S \in SUBSET Letters |-> Unclear]
SearchAtRest ==
  /\ indexed = [d \in Documents |-> <<Said(0, <<"x", "y">>, "ann", FALSE)>>]
  /\ query = Asking(<<"x">>, 1) /\ mode = "lexical"

ProbeAtRest == recording.empty

PlanningInit ==
  /\ part \in {"plan", "timeline", "languages", "search", "probe"}
  /\ Init /\ (part # "plan" => PlanAtRest)
  /\ TimelineInit /\ (part # "timeline" => TimelineAtRest)
  /\ (part # "languages" => LanguagesAtRest) /\ LanguagesInit
  /\ (part # "search" => SearchAtRest) /\ RetrievalInit
  /\ ProbeInit /\ (part # "probe" => ProbeAtRest)

PlanningNext ==
  \/ part = "plan" /\ Next /\ UNCHANGED <<part, timelineVars, languageVars, retrievalVars, probeVars>>
  \/ part = "timeline" /\ TimelineNext /\ UNCHANGED <<part, vars, languageVars, retrievalVars, probeVars>>
  \/ part = "languages" /\ LanguagesNext /\ UNCHANGED <<part, vars, timelineVars, retrievalVars, probeVars>>
  \/ part = "probe" /\ ProbeNext /\ UNCHANGED <<part, vars, timelineVars, languageVars, retrievalVars>>
  \/ part = "search" /\ RetrievalNext /\ UNCHANGED <<part, vars, timelineVars, languageVars, probeVars>>
=============================================================================
