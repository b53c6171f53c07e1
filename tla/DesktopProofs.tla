---------------------------- MODULE DesktopProofs ----------------------------
(***************************************************************************)
(* Theorems about the views of the desktop, for every value of their       *)
(* constants: the page on which a transcription is set up (SetupPage), the *)
(* lists of notes and saved searches (ResearchView), and the search view   *)
(* with its player and its tools (Reader).                                 *)
(***************************************************************************)
EXTENDS Reader, ResearchView, SetupPage, FiniteSetTheorems, NaturalsInduction, TLAPS

-----------------------------------------------------------------------------
(* The page of a transcription, for a user who waits for each answer.       *)

\* What the page's choices are about.
Subject == IF retrying # Unset THEN RecordingOf[retrying] ELSE picked

\* With these choices Start would run the plan on the page.
Agrees(o) ==
  review # Unset /\ ~review.choose /\ {picked, retrying} # {Unset} =>
    Transcribed(Subject, o) \in {Unset, review}

Options(p, m, t, e) == [profile |-> p, method |-> m, track |-> t, enhance |-> e]

IsOptions(o) == o = Options(o.profile, o.method, o.track, o.enhance)

\* What an answer will find: the page as it was when the call was made, but for a
\* track that was chosen over the one of the plan.
InFlight(c) ==
  /\ c.kind = "track" =>
       /\ Agrees(Options(wanted.profile, wanted.method, c.previous, wanted.enhance))
       /\ c.of = Subject /\ c.options = wanted
  /\ c.kind = "check" => c.of = picked /\ retrying = Unset /\ c.options = wanted
  /\ c.kind = "retry" => \E t : c.options = Options(wanted.profile, wanted.method, t, wanted.enhance)

SetupInv ==
  /\ IsOptions(wanted)
  /\ occupied \/ requests = {}
  /\ \A c, d \in requests : c = d
  /\ (\A c \in requests : c.kind # "track") => Agrees(wanted)
  /\ \A c \in requests : InFlight(c)
  /\ RunsWhatWasReviewed

\* Another track of the same choices.
LEMMA OtherTrack ==
  ASSUME NEW o, IsOptions(o), NEW t
  PROVE  [o EXCEPT !.track = t] = Options(o.profile, o.method, t, o.enhance)
BY DEF IsOptions, Options

LEMMA OptionsFacts ==
  ASSUME NEW p, NEW m, NEW t, NEW e
  PROVE  LET o == Options(p, m, t, e)
         IN IsOptions(o) /\ o.profile = p /\ o.method = m /\ o.track = t /\ o.enhance = e
BY DEF IsOptions, Options

\* Naming the track that the plan has makes the same plan, unless the user was to
\* choose one.
LEMMA SamePlan ==
  ASSUME NEW r, NEW p, NEW m, NEW t, NEW e, NEW u,
         ~Preflight(r, Options(p, m, t, e)).choose,
         u = Preflight(r, Options(p, m, t, e)).track
  PROVE  Transcribed(r, Options(p, m, u, e)) \in {Unset, Preflight(r, Options(p, m, t, e))}
<1> DEFINE o == Options(p, m, t, e)  q == Options(p, m, u, e)
<1>1. /\ o.profile = p /\ o.method = m /\ o.track = t /\ o.enhance = e
      /\ q.profile = p /\ q.method = m /\ q.track = u /\ q.enhance = e
  BY DEF Options
<1> HIDE DEF o, q
<1>2. u = (IF t = Unset THEN FirstTrack(r) ELSE t) /\ ~MustChoose(r, o)
  BY <1>1 DEF Preflight, o
<1>3. (IF u = Unset THEN FirstTrack(r) ELSE u) = u
  BY <1>2
<1>4. MustChoose(r, q) = MustChoose(r, o)
  BY <1>1, <1>2 DEF MustChoose
<1>5. Preflight(r, q) = Preflight(r, o)
  BY <1>1, <1>2, <1>3, <1>4 DEF Preflight
<1> QED BY <1>5 DEF Transcribed, o, q

\* An answered plan agrees with the choices it leaves on the page.
LEMMA PlanAgrees ==
  ASSUME NEW r, NEW p, NEW m, NEW t, NEW e,
         review' = Preflight(r, Options(p, m, t, e)),
         \E u : /\ wanted' = Options(p, m, u, e)
                /\ review'.choose \/ u = review'.track,
         {picked', retrying'} # {Unset} => Subject' = r
  PROVE  Agrees(wanted)'
<1>1. PICK u : wanted' = Options(p, m, u, e) /\ (review'.choose \/ u = review'.track)
  OBVIOUS
<1>2. CASE review'.choose
  BY <1>2 DEF Agrees
<1>3. CASE ~review'.choose
  <2>1. Transcribed(r, wanted') \in {Unset, review'}
    BY <1>1, <1>3, SamePlan
  <2> QED BY <2>1 DEF Agrees
<1> QED BY <1>2, <1>3

LEMMA SetupInvInit == SetupInit => SetupInv
<1> SUFFICES ASSUME SetupInit PROVE SetupInv
  OBVIOUS
<1>1. PICK p \in Profiles :
        wanted = [profile |-> p, method |-> Unset, track |-> Unset, enhance |-> FALSE]
  BY DEF SetupInit
<1>2. IsOptions(wanted)
  BY <1>1 DEF IsOptions, Options
<1>3. requests = {[kind |-> "refresh"]} /\ occupied = TRUE /\ review = Unset /\ started = Unset
  BY DEF SetupInit
<1>4. \A c, d \in requests : c = d
  BY <1>3
<1>5. \A c \in requests : c.kind = "refresh"
  BY <1>3
<1>6. \A c \in requests : InFlight(c)
  BY <1>5 DEF InFlight
<1>7. Agrees(wanted)
  BY <1>3 DEF Agrees
<1> QED BY <1>2, <1>3, <1>4, <1>6, <1>7 DEF SetupInv, RunsWhatWasReviewed

\* A choice that clears the plan, while nothing is out.
LEMMA ClearsPlan ==
  ASSUME SetupInv, requests = {}, review' = Unset, started' = started, IsOptions(wanted'),
         \/ requests' = {}
         \/ requests' = {[kind |-> "refresh"]} /\ occupied' = TRUE
  PROVE  SetupInv'
<1>1. Agrees(wanted)'
  BY DEF Agrees
<1>2. \A c \in requests' : c.kind = "refresh"
  OBVIOUS
<1>3. (\A c \in requests : InFlight(c))'
  BY <1>2 DEF InFlight
<1>4. (occupied \/ requests = {})' /\ \A c, d \in requests' : c = d
  OBVIOUS
<1>5. RunsWhatWasReviewed'
  BY DEF SetupInv, RunsWhatWasReviewed
<1> QED BY <1>1, <1>3, <1>4, <1>5 DEF SetupInv

\* A call is made, while none is out, and the page stays as it is.
LEMMA Calls ==
  ASSUME SetupInv, requests = {}, UNCHANGED <<picked, retrying, wanted, review>>,
         NEW c, Send(c), c.kind # "track", InFlight(c),
         started' # Unset => started'.run \in {Unset, started'.reviewed}
  PROVE  SetupInv'
<1>1. requests' = {c} /\ occupied' = TRUE
  BY DEF Send
<1>2. InFlight(c)'
  BY DEF InFlight, Agrees, Subject
<1>3. Agrees(wanted)'
  BY DEF SetupInv, Agrees, Subject
<1>4. IsOptions(wanted)'
  BY DEF SetupInv
<1>5. (\A d \in requests : InFlight(d))'
  BY <1>1, <1>2
<1>6. (\A d, e \in requests : d = e)'
  BY <1>1
<1> QED BY <1>1, <1>3, <1>4, <1>5, <1>6 DEF SetupInv, RunsWhatWasReviewed

LEMMA AnswerStep ==
  ASSUME SetupInv, Answer
  PROVE  SetupInv'
<1>1. PICK c \in requests :
        /\ requests' = requests \ {c}
        /\ CheckAnswered(c) \/ RetryAnswered(c) \/ TrackAnswered(c) \/ OtherAnswered(c)
  BY DEF Answer
<1>2. requests' = {} /\ started' = started
  BY <1>1 DEF SetupInv, Answer
<1>3. IsOptions(wanted) /\ InFlight(c)
  BY <1>1 DEF SetupInv
<1> DEFINE p == wanted.profile  m == wanted.method  e == wanted.enhance
<1>4. wanted = Options(p, m, wanted.track, e)
  BY <1>3 DEF IsOptions
<1>5. \A t : [wanted EXCEPT !.track = t] = Options(p, m, t, e)
  BY <1>3, OtherTrack
<1> HIDE DEF p, m, e
<1>6. c.kind # "track" => Agrees(wanted)
  BY <1>1 DEF SetupInv
<1>7. ASSUME UNCHANGED <<picked, retrying, wanted, review>>, c.kind # "track"
      PROVE  IsOptions(wanted)' /\ Agrees(wanted)'
  BY <1>3, <1>6, <1>7 DEF Agrees, Subject
<1>8. ASSUME CheckAnswered(c) PROVE IsOptions(wanted)' /\ Agrees(wanted)'
  <2>1. c.of = picked /\ retrying = Unset /\ c.options = wanted
    BY <1>3, <1>8 DEF CheckAnswered, InFlight
  <2> DEFINE plan == Preflight(c.of, c.options)
  <2>2. CASE review' = Unset /\ UNCHANGED <<wanted, retrying>>
    BY <1>3, <2>2 DEF Agrees
  <2>3. CASE ShowPlan(plan, TrackAfter(plan)) /\ retrying' = Unset
    <3>1. review' = Preflight(picked, Options(p, m, wanted.track, e))
      BY <1>4, <2>1, <2>3 DEF ShowPlan
    <3>2. wanted' = Options(p, m, TrackAfter(review'), e)
      BY <1>5, <2>3 DEF ShowPlan
    <3>3. review'.choose \/ TrackAfter(review') = review'.track
      BY DEF TrackAfter
    <3>4. Subject' = picked
      BY <1>8, <2>3 DEF Subject, CheckAnswered
    <3>5. Agrees(wanted)'
      BY <3>1, <3>2, <3>3, <3>4, PlanAgrees
    <3> QED BY <3>2, <3>5, OptionsFacts
  <2> QED BY <1>8, <2>2, <2>3 DEF CheckAnswered
<1>9. ASSUME RetryAnswered(c) PROVE IsOptions(wanted)' /\ Agrees(wanted)'
  <2>1. PICK t : c.options = Options(p, m, t, e)
    BY <1>3, <1>9 DEF RetryAnswered, InFlight, p, m, e
  <2> DEFINE plan == Preflight(RecordingOf[c.of], c.options)
  <2>2. CASE UNCHANGED <<picked, retrying, wanted, review>>
    BY <1>7, <1>9, <2>2 DEF RetryAnswered
  <2>3. CASE ShowPlan(plan, TrackAfter(plan)) /\ picked' = Unset /\ retrying' = c.of
    <3>1. review' = Preflight(RecordingOf[c.of], Options(p, m, t, e))
      BY <2>1, <2>3 DEF ShowPlan
    <3>2. wanted' = Options(p, m, TrackAfter(review'), e)
      BY <1>5, <2>3 DEF ShowPlan
    <3>3. review'.choose \/ TrackAfter(review') = review'.track
      BY DEF TrackAfter
    <3>4. {picked', retrying'} # {Unset} => Subject' = RecordingOf[c.of]
      BY <2>3 DEF Subject
    <3>5. Agrees(wanted)'
      BY <3>1, <3>2, <3>3, <3>4, PlanAgrees
    <3> QED BY <3>2, <3>5, OptionsFacts
  <2> QED BY <1>9, <2>2, <2>3 DEF RetryAnswered
<1>10. ASSUME TrackAnswered(c) PROVE IsOptions(wanted)' /\ Agrees(wanted)'
  <2>1. /\ Agrees(Options(p, m, c.previous, e))
        /\ c.of = Subject /\ c.options = wanted
    BY <1>3, <1>10 DEF TrackAnswered, InFlight, p, m, e
  <2>2. UNCHANGED <<picked, retrying>>
    BY <1>10 DEF TrackAnswered
  <2> DEFINE plan == Preflight(c.of, c.options)
  <2>3. CASE wanted' = [wanted EXCEPT !.track = c.previous] /\ UNCHANGED review
    <3>1. wanted' = Options(p, m, c.previous, e)
      BY <1>5, <2>3
    <3>2. Agrees(wanted)'
      BY <2>1, <2>2, <2>3, <3>1 DEF Agrees, Subject
    <3> QED BY <3>1, <3>2, OptionsFacts
  <2>4. CASE ShowPlan(plan, plan.track)
    <3>1. review' = Preflight(Subject, Options(p, m, wanted.track, e))
      BY <1>4, <2>1, <2>4 DEF ShowPlan
    <3>2. wanted' = Options(p, m, review'.track, e)
      BY <1>5, <2>4 DEF ShowPlan
    <3>3. Subject' = Subject
      BY <2>2 DEF Subject
    <3>4. Agrees(wanted)'
      BY <3>1, <3>2, <3>3, PlanAgrees
    <3> QED BY <3>2, <3>4, OptionsFacts
  <2> QED BY <1>10, <2>3, <2>4 DEF TrackAnswered
<1>11. ASSUME OtherAnswered(c) PROVE IsOptions(wanted)' /\ Agrees(wanted)'
  BY <1>7, <1>11 DEF OtherAnswered
<1>12. IsOptions(wanted)' /\ Agrees(wanted)'
  BY <1>1, <1>8, <1>9, <1>10, <1>11
<1> QED BY <1>2, <1>12 DEF SetupInv, RunsWhatWasReviewed

LEMMA SetupStep ==
  ASSUME Patient
  PROVE  SetupInv /\ [SetupNext]_setupVars => SetupInv'
<1> SUFFICES ASSUME SetupInv, [SetupNext]_setupVars PROVE SetupInv'
  OBVIOUS
<1>1. IsOptions(wanted) /\ (~occupied => requests = {}) /\ (Unhindered => requests = {})
  BY DEF SetupInv, Unhindered
<1>2. \A t : IsOptions([wanted EXCEPT !.track = t])
  BY <1>1, OtherTrack, OptionsFacts
<1>3. ASSUME NEW r \in Recordings, Pick(r), requests = {} PROVE SetupInv'
  BY <1>2, <1>3, ClearsPlan DEF Pick
<1>4. CASE ChooseRecording
  BY <1>1, <1>3, <1>4 DEF ChooseRecording
<1>5. CASE PickDiscovered
  BY <1>1, <1>3, <1>5 DEF PickDiscovered
<1>6. CASE ChangeProfile
  <2>1. requests = {} /\ requests' = {[kind |-> "refresh"]} /\ occupied' = TRUE
    BY <1>1, <1>6 DEF ChangeProfile, Send
  <2>2. IsOptions(wanted')
    BY <1>1, <1>6 DEF ChangeProfile, IsOptions, Options
  <2> QED BY <1>6, <2>1, <2>2, ClearsPlan DEF ChangeProfile
<1>7. CASE ChangeMethod
  <2>1. IsOptions(wanted')
    BY <1>1, <1>7 DEF ChangeMethod, IsOptions, Options
  <2> QED BY <1>1, <1>7, <2>1, ClearsPlan DEF ChangeMethod
<1>8. CASE ChangeEnhance
  <2>1. IsOptions(wanted')
    BY <1>1, <1>8 DEF ChangeEnhance, IsOptions, Options
  <2> QED BY <1>1, <1>8, <2>1, ClearsPlan DEF ChangeEnhance
<1>9. started # Unset => started.run \in {Unset, started.reviewed}
  BY DEF SetupInv, RunsWhatWasReviewed
<1>10. CASE Check
  <2>1. requests = {} /\ UNCHANGED <<picked, retrying, wanted, review, started>>
    BY <1>1, <1>10 DEF Check, Page
  <2>2. CASE retrying # Unset
    <3> DEFINE c == [kind |-> "retry", of |-> retrying, options |-> wanted]
    <3>1. Send(c)
      BY <1>10, <2>2 DEF Check
    <3>2. c.kind = "retry" /\ c.options = wanted
      OBVIOUS
    <3> HIDE DEF c
    <3>3. InFlight(c)
      BY <1>1, <3>2 DEF InFlight, IsOptions
    <3> QED BY <1>9, <2>1, <3>1, <3>2, <3>3, Calls
  <2>3. CASE retrying = Unset
    <3> DEFINE c == [kind |-> "check", of |-> picked, options |-> wanted]
    <3>1. Send(c)
      BY <1>10, <2>3 DEF Check
    <3>2. c.kind = "check" /\ c.of = picked /\ c.options = wanted
      OBVIOUS
    <3> HIDE DEF c
    <3>3. InFlight(c)
      BY <2>3, <3>2 DEF InFlight
    <3> QED BY <1>9, <2>1, <3>1, <3>2, <3>3, Calls
  <2> QED BY <2>2, <2>3
<1>11. CASE PrepareRetry
  <2>1. requests = {} /\ UNCHANGED <<picked, retrying, wanted, review, started>>
    BY <1>1, <1>11 DEF PrepareRetry, Page
  <2>2. PICK j \in Jobs :
          Send([kind |-> "retry", of |-> j, options |-> [wanted EXCEPT !.track = Unset]])
    BY <1>11 DEF PrepareRetry
  <2> DEFINE c == [kind |-> "retry", of |-> j, options |-> [wanted EXCEPT !.track = Unset]]
  <2>3. c.kind = "retry" /\ c.options = [wanted EXCEPT !.track = Unset] /\ Send(c)
    BY <2>2
  <2> HIDE DEF c
  <2>4. c.options = Options(wanted.profile, wanted.method, Unset, wanted.enhance)
    BY <1>1, <2>3, OtherTrack
  <2>5. InFlight(c)
    BY <2>3, <2>4 DEF InFlight
  <2> QED BY <1>9, <2>1, <2>3, <2>5, Calls
<1>12. CASE ChooseTrack
  <2>1. requests = {} /\ UNCHANGED <<picked, retrying, review, started>>
    BY <1>1, <1>12 DEF ChooseTrack, Page
  <2>2. PICK t \in TracksOf[review.recording] :
          LET options == [wanted EXCEPT !.track = t]
          IN /\ wanted' = options
             /\ Send([kind |-> "track", previous |-> wanted.track, options |-> options,
                      of |-> IF retrying # Unset THEN RecordingOf[retrying] ELSE picked])
    BY <1>12 DEF ChooseTrack
  <2>3. wanted' = [wanted EXCEPT !.track = t]
    BY <2>2
  <2>4. PICK c : /\ c.kind = "track" /\ c.previous = wanted.track
                 /\ c.options = wanted' /\ c.of = Subject /\ Send(c)
    <3> DEFINE d == [kind |-> "track", previous |-> wanted.track, options |-> wanted', of |-> Subject]
    <3>1. Send(d) /\ d.kind = "track" /\ d.previous = wanted.track /\ d.options = wanted' /\ d.of = Subject
      BY <2>2 DEF Subject
    <3> HIDE DEF d
    <3> QED BY <3>1
  <2>5. requests' = {c} /\ occupied' = TRUE
    BY <2>1, <2>4 DEF Send
  <2>6. wanted' = Options(wanted.profile, wanted.method, t, wanted.enhance)
    BY <1>1, <2>3, OtherTrack
  <2>7. wanted'.profile = wanted.profile /\ wanted'.method = wanted.method /\ wanted'.enhance = wanted.enhance
    BY <2>6, OptionsFacts
  <2>8. wanted = Options(wanted'.profile, wanted'.method, c.previous, wanted'.enhance)
    BY <1>1, <2>4, <2>7 DEF IsOptions
  <2>9. Agrees(wanted)
    BY <2>1 DEF SetupInv
  <2>10. Agrees(Options(wanted.profile, wanted.method, c.previous, wanted.enhance))'
    BY <2>1, <2>8, <2>9 DEF Agrees, Subject
  <2>11. InFlight(c)'
    BY <2>1, <2>4, <2>10 DEF InFlight, Subject
  <2>12. IsOptions(wanted)'
    BY <1>2, <2>3
  <2>13. (\A d \in requests : InFlight(d))' /\ (\A d, e \in requests : d = e)'
         /\ (\E d \in requests : d.kind = "track")'
    BY <2>4, <2>5, <2>11
  <2> QED BY <1>9, <2>1, <2>5, <2>12, <2>13 DEF SetupInv, RunsWhatWasReviewed
<1>13. CASE Start
  <2>1. requests = {} /\ UNCHANGED <<picked, retrying, wanted, review>> /\ Agrees(wanted)
    BY <1>1, <1>13 DEF Start, SetupInv
  <2>2. started' = [run |-> Transcribed(Subject, wanted), reviewed |-> review]
    BY <1>13 DEF Start, Subject
  <2>3. started'.run = Transcribed(Subject, wanted) /\ started'.reviewed = review
    BY <2>2
  <2>4. started'.run \in {Unset, started'.reviewed}
    BY <1>13, <2>1, <2>3 DEF Agrees, Start
  <2> DEFINE c == [kind |-> "start"]
  <2>5. Send(c) /\ c.kind = "start"
    BY <1>13 DEF Start
  <2> HIDE DEF c
  <2>6. InFlight(c)
    BY <2>5 DEF InFlight
  <2> QED BY <2>1, <2>4, <2>5, <2>6, Calls
<1>14. CASE OtherCall
  <2>1. requests = {} /\ UNCHANGED <<picked, retrying, wanted, review, started>>
    BY <1>1, <1>14 DEF OtherCall, Page
  <2> DEFINE c == [kind |-> "other"]
  <2>2. Send(c) /\ c.kind = "other"
    BY <1>14 DEF OtherCall
  <2> HIDE DEF c
  <2>3. InFlight(c)
    BY <2>2 DEF InFlight
  <2> QED BY <1>9, <2>1, <2>2, <2>3, Calls
<1>15. CASE Answer
  BY <1>15, AnswerStep
<1>16. CASE UNCHANGED setupVars
  <2>1. UNCHANGED <<picked, retrying, wanted, review, occupied, requests, started>>
    BY <1>16 DEF setupVars
  <2>2. Agrees(wanted)' = Agrees(wanted) /\ \A c : InFlight(c)' = InFlight(c)
    BY <2>1 DEF Agrees, Subject, InFlight
  <2> QED BY <2>1, <2>2 DEF SetupInv, RunsWhatWasReviewed
<1> QED
  BY <1>4, <1>5, <1>6, <1>7, <1>8, <1>10, <1>11, <1>12, <1>13, <1>14, <1>15, <1>16 DEF SetupNext

\* Of a user who waits for each answer, the transcription that is started is that of
\* the plan on the page, for any recordings, tracks, earlier jobs and preferences.
\* Of one who does not wait it is not: the run hasty shows how.
THEOREM ReviewHolds ==
  ASSUME Patient
  PROVE  SetupSpec => []RunsWhatWasReviewed
<1>1. SetupInit => SetupInv
  BY SetupInvInit
<1>2. SetupInv /\ [SetupNext]_setupVars => SetupInv'
  BY SetupStep
<1>3. SetupInv => RunsWhatWasReviewed
  BY DEF SetupInv
<1> QED BY <1>1, <1>2, <1>3, PTL DEF SetupSpec
-----------------------------------------------------------------------------
(* The lists of notes and of saved searches.                                *)

\* A version of a row that the row has reached, if it still exists.
NotNewer(v, i) == row[i] \in Nat => v \in Nat /\ v <= row[i]

\* A change of a saved search names no version newer than the one it was made from.
Based(from, names, i) ==
  i \in Searches /\ row[i] \in Nat =>
    /\ names \in Nat /\ from \in Nat
    /\ names <= from /\ from <= row[i]

IsRequest(c) ==
  /\ c = [op |-> c.op, item |-> c.item, list |-> c.list, from |-> c.from, names |-> c.names, here |-> c.here]
  /\ c.op \in {"replace", "delete", "create", "inspect", "run"}
  /\ c.item \in Items /\ c.list = ListOf(c.item)

IsReading(c) ==
  /\ c = [op |-> c.op, list |-> c.list, last |-> c.last, found |-> c.found, here |-> c.here]
  /\ c.op = "list" /\ c.list \in Lists

Sound(c) ==
  \/ /\ IsReading(c)
     /\ c.found # Nothing => \A i \in c.list : NotNewer(c.found[i], i)
  \/ /\ IsRequest(c)
     /\ c.op \in {"replace", "delete"} => Based(c.from, c.names, c.item)
     /\ c.op = "run" => NotNewer(c.names, c.item)
     /\ c.op = "create" => row[c.item] = 0

ListedInv == \A i \in Items : NotNewer(listed[i], i)

EditorInv ==
  /\ editor = [l \in Lists |-> editor[l]]
  /\ \A l \in Lists : editor[l] # Nothing =>
       editor[l].item \in l /\ Based(editor[l].from, editor[l].names, editor[l].item)

AskedInv ==
  /\ \A c \in asked : Sound(c)
  /\ \A c, d \in asked : c.op = "create" /\ d.op = "create" => c = d

ViewInv ==
  /\ row \in [Items -> Nat \cup {Nothing}]
  /\ ListedInv /\ EditorInv /\ AskedInv

\* No row comes back, or to an earlier version.
Ageing ==
  /\ row' \in [Items -> Nat \cup {Nothing}]
  /\ \A i \in Items : row'[i] \in Nat => row[i] \in Nat /\ row[i] <= row'[i]

LEMMA Ages ==
  ASSUME ViewInv, Ageing, NEW i \in Items
  PROVE  /\ \A v : NotNewer(v, i) => NotNewer(v, i)'
         /\ \A v, w : Based(v, w, i) => Based(v, w, i)'
<1>1. row'[i] \in Nat => row[i] \in Nat /\ row[i] <= row'[i]
  BY DEF Ageing
<1>2. row[i] \in Nat \cup {Nothing} /\ row'[i] \in Nat \cup {Nothing}
  BY DEF Ageing, ViewInv
<1> QED BY <1>1, <1>2 DEF NotNewer, Based

LEMMA SoundAges ==
  ASSUME ViewInv, Ageing, NEW c, Sound(c), c.op = "create" => row'[c.item] = row[c.item]
  PROVE  Sound(c)'
<1>1. CASE IsReading(c) /\ (c.found # Nothing => \A i \in c.list : NotNewer(c.found[i], i))
  <2>1. c.list \subseteq Items
    BY <1>1 DEF IsReading, Lists, Items
  <2>2. ASSUME NEW i \in c.list, NotNewer(c.found[i], i) PROVE NotNewer(c.found[i], i)'
    <3>1. i \in Items
      BY <2>1
    <3> DEFINE v == c.found[i]
    <3>2. NotNewer(v, i)
      BY <2>2
    <3> HIDE DEF v
    <3>3. NotNewer(v, i)'
      BY <3>1, <3>2, Ages
    <3> QED BY <3>3 DEF v, NotNewer
  <2>3. (c.found # Nothing => \A i \in c.list : NotNewer(c.found[i], i))'
    BY <1>1, <2>2
  <2> QED BY <1>1, <2>3 DEF Sound, IsReading
<1>2. CASE ~IsReading(c)
  <2>1. IsRequest(c) /\ c.item \in Items
    BY <1>2 DEF Sound, IsRequest
  <2>2. Based(c.from, c.names, c.item) => Based(c.from, c.names, c.item)'
    BY <2>1, Ages
  <2>3. NotNewer(c.names, c.item) => NotNewer(c.names, c.item)'
    BY <2>1, Ages
  <2> QED BY <1>2, <2>1, <2>2, <2>3 DEF Sound, IsRequest
<1>3. IsReading(c) => ~IsRequest(c)
  BY DEF IsReading, IsRequest
<1> QED BY <1>1, <1>2, <1>3 DEF Sound

LEMMA ListedFrame ==
  ASSUME ViewInv, Ageing, listed' = listed
  PROVE  ListedInv'
<1> SUFFICES ASSUME NEW i \in Items PROVE NotNewer(listed[i], i)'
  BY DEF ListedInv
<1>1. NotNewer(listed[i], i)
  BY DEF ViewInv, ListedInv
<1> DEFINE v == listed[i]
<1>2. v' = v
  OBVIOUS
<1> QED BY <1>1, <1>2, Ages DEF NotNewer

LEMMA EditorFrame ==
  ASSUME ViewInv, Ageing,
         NEW list \in Lists, NEW draft, editor' = [editor EXCEPT ![list] = draft],
         draft # Nothing => draft.item \in list /\ Based(draft.from, draft.names, draft.item)'
  PROVE  EditorInv'
<1>1. editor = [l \in Lists |-> editor[l]]
  BY DEF ViewInv, EditorInv
<1>2. editor' = [l \in Lists |-> IF l = list THEN draft ELSE editor[l]]
  BY <1>1
<1>3. editor' = [l \in Lists |-> editor'[l]]
  BY <1>2
<1> SUFFICES ASSUME NEW l \in Lists, editor'[l] # Nothing
             PROVE  /\ editor'[l].item \in l
                    /\ Based(editor[l].from, editor[l].names, editor[l].item)'
  BY <1>3 DEF EditorInv
<1> DEFINE e == editor'[l]
<1>4. CASE l = list
  BY <1>2, <1>4 DEF Based
<1>5. CASE l # list
  <2>1. editor'[l] = editor[l]
    BY <1>2, <1>5
  <2>2. editor[l].item \in l /\ Based(editor[l].from, editor[l].names, editor[l].item)
    BY <2>1 DEF ViewInv, EditorInv
  <2>3. editor[l].item \in Items
    BY <2>2 DEF Lists, Items
  <2>4. \A v, w : Based(v, w, editor[l].item) => Based(v, w, editor[l].item)'
    BY <2>1, <2>3, Ages DEF Based, Ageing
  <2> QED BY <2>1, <2>2, <2>4 DEF Based
<1> QED BY <1>4, <1>5

LEMMA EditorStays ==
  ASSUME ViewInv, Ageing, editor' = editor
  PROVE  EditorInv'
<1> SUFFICES ASSUME NEW l \in Lists, editor[l] # Nothing
             PROVE  /\ editor[l].item \in l
                    /\ Based(editor[l].from, editor[l].names, editor[l].item)'
  BY DEF ViewInv, EditorInv
<1> DEFINE e == editor[l]
<1>1. e.item \in l /\ Based(e.from, e.names, e.item)
  BY DEF ViewInv, EditorInv
<1>2. e.item \in Items
  BY <1>1 DEF Lists, Items
<1>3. e' = e
  OBVIOUS
<1> HIDE DEF e
<1>4. Based(e.from, e.names, e.item)'
  BY <1>1, <1>2, <1>3, Ages DEF Based
<1> QED BY <1>1, <1>4 DEF e

\* Calls are answered or made, but not to create a row.
LEMMA AskedFrame ==
  ASSUME ViewInv, Ageing,
         NEW New, \A c \in New : Sound(c)' /\ c.op # "create", asked' \subseteq asked \cup New,
         \A c \in asked' : c.op = "create" => row'[c.item] = row[c.item]
  PROVE  AskedInv'
<1>1. \A c \in asked : c \in asked' => Sound(c)'
  BY SoundAges DEF ViewInv, AskedInv
<1>2. \A c, d \in asked : c.op = "create" /\ d.op = "create" => c = d
  BY DEF ViewInv, AskedInv
<1>3. (\A c \in asked : Sound(c))'
  BY <1>1
<1>4. (\A c, d \in asked : c.op = "create" /\ d.op = "create" => c = d)'
  BY <1>2
<1> QED BY <1>3, <1>4 DEF AskedInv
\* A call as it is made.
LEMMA Asks ==
  ASSUME NEW op \in {"replace", "delete", "create", "inspect", "run"},
         NEW i \in Items, NEW from, NEW names
  PROVE  LET c == Request(op, i, from, names)
         IN /\ IsRequest(c) /\ c.op = op /\ c.item = i /\ c.list = ListOf(i)
            /\ c.from = from /\ c.names = names
BY DEF Request, IsRequest

LEMMA ReadingSound ==
  ASSUME NEW list \in Lists, NEW last
  PROVE  Sound(Reading(list, last))' /\ Reading(list, last).op = "list"
BY DEF Reading, Sound, IsReading

LEMMA Left ==
  ASSUME NEW c, NEW o, NEW i, NEW l, NEW f, NEW n, NEW h, NEW k,
         c = [op |-> o, item |-> i, list |-> l, from |-> f, names |-> n, here |-> h]
  PROVE  [c EXCEPT !.here = k] =
           [op |-> o, item |-> i, list |-> l, from |-> f, names |-> n, here |-> k]
OBVIOUS

\* The call of a part of the page that is gone.
LEMMA LeftSound ==
  ASSUME NEW c, NEW k, Sound(c), c.op # "list"
  PROVE  LET d == [c EXCEPT !.here = k] IN Sound(d) /\ d.op = c.op /\ d.item = c.item
<1>1. IsRequest(c)
  BY DEF Sound, IsReading
<1>5. c = [op |-> c.op, item |-> c.item, list |-> c.list, from |-> c.from, names |-> c.names,
           here |-> c.here]
  BY <1>1 DEF IsRequest
<1> DEFINE d == [c EXCEPT !.here = k]
<1>6. d = [op |-> c.op, item |-> c.item, list |-> c.list, from |-> c.from, names |-> c.names,
           here |-> k]
  BY <1>5, Left
<1> HIDE DEF d
<1>2. /\ d.op = c.op /\ d.item = c.item /\ d.list = c.list /\ d.from = c.from /\ d.names = c.names
      /\ d.here = k
  BY <1>6
<1>3. IsRequest(d)
  BY <1>1, <1>2, <1>6 DEF IsRequest
<1>4. Sound(d)
  BY <1>1, <1>2, <1>3 DEF Sound, IsReading
<1> QED BY <1>2, <1>4 DEF d

LEMMA FoundSound ==
  ASSUME ViewInv, NEW c \in asked, c.op = "list"
  PROVE  LET d == [c EXCEPT !.found = [i \in c.list |-> row[i]]]
         IN Sound(d) /\ d.op = "list"
<1>1. IsReading(c)
  BY DEF ViewInv, AskedInv, Sound, IsRequest
<1> DEFINE f == [i \in c.list |-> row[i]]  d == [c EXCEPT !.found = f]
<1>2. \A i \in c.list : NotNewer(f[i], i)
  BY DEF NotNewer, ViewInv
<1> HIDE DEF f
<1>3. /\ d = [op |-> c.op, list |-> c.list, last |-> c.last, found |-> f, here |-> c.here]
      /\ d.op = c.op /\ d.list = c.list /\ d.last = c.last /\ d.here = c.here /\ d.found = f
  BY <1>1 DEF IsReading
<1> HIDE DEF d
<1>4. IsReading(d)
  BY <1>1, <1>3 DEF IsReading
<1>5. Sound(d)
  BY <1>2, <1>3, <1>4 DEF Sound
<1> QED BY <1>3, <1>5 DEF d, f

LEMMA ViewInvInit == ViewInit => ViewInv
<1> SUFFICES ASSUME ViewInit PROVE ViewInv
  OBVIOUS
<1>1. row \in [Items -> Nat \cup {Nothing}] /\ editor = [l \in Lists |-> editor[l]]
  BY DEF ViewInit
<1>2. ListedInv
  BY DEF ViewInit, ListedInv, NotNewer
<1>3. EditorInv
  BY <1>1 DEF ViewInit, EditorInv
<1>4. AskedInv
  BY DEF ViewInit, AskedInv
<1> QED BY <1>1, <1>2, <1>3, <1>4 DEF ViewInv
\* A step that touches no row.
LEMMA NoRow ==
  ASSUME ViewInv, row' = row
  PROVE  Ageing /\ \A c \in asked' : c.op = "create" => row'[c.item] = row[c.item]
BY DEF ViewInv, Ageing

\* A step that changes one row: to its next version, from none to the first, or to none.
LEMMA OneRow ==
  ASSUME ViewInv, NEW i \in Items, NEW v \in Nat \cup {Nothing}, row' = [row EXCEPT ![i] = v],
         row[i] \in Nat /\ (v \in Nat => row[i] <= v)
  PROVE  Ageing /\ \A j : j # i => row'[j] = row[j]
BY DEF ViewInv, Ageing

LEMMA ExistsFacts ==
  ASSUME ViewInv, NEW i \in Items, Exists(i)
  PROVE  row[i] \in Nat /\ row[i] # 0 /\ row[i] + 1 \in Nat /\ row[i] <= row[i] + 1
<1>1. row[i] \in Nat
  BY DEF ViewInv, Exists
<1> QED BY <1>1 DEF Exists

\* Nobody asks to create a row that is there.
LEMMA NotThere ==
  ASSUME ViewInv, NEW c \in asked, c.op = "create"
  PROVE  row[c.item] = 0
BY DEF ViewInv, AskedInv, Sound, IsReading, IsRequest

LEMMA RequestFacts ==
  ASSUME ViewInv, NEW c \in asked, c.op # "list"
  PROVE  IsRequest(c) /\ c.item \in Items /\ c.list = ListOf(c.item) /\ c.list \in Lists
         /\ (c.op \in {"replace", "delete"} => Based(c.from, c.names, c.item))
         /\ (c.op = "run" => NotNewer(c.names, c.item))
<1>1. IsRequest(c)
  BY DEF ViewInv, AskedInv, Sound, IsReading
<1>2. c.item \in Items /\ c.list = ListOf(c.item)
  BY <1>1 DEF IsRequest
<1>3. c.list \in Lists
  BY <1>2 DEF ListOf, Lists
<1>4. ~IsReading(c)
  BY DEF IsReading
<1>5. Sound(c)
  BY DEF ViewInv, AskedInv
<1>6. c.op \in {"replace", "delete"} => Based(c.from, c.names, c.item)
  BY <1>4, <1>5 DEF Sound
<1>7. c.op = "run" => NotNewer(c.names, c.item)
  BY <1>4, <1>5 DEF Sound
<1> QED BY <1>1, <1>2, <1>3, <1>6, <1>7

LEMMA ListOfItem ==
  ASSUME NEW i \in Items
  PROVE  ListOf(i) \in Lists /\ i \in ListOf(i) /\ (i \in Searches <=> ListOf(i) = Searches)
BY ViewAssumption DEF ListOf, Lists, Items

\* A call of a control, other than to create a row.
LEMMA Presses ==
  ASSUME ViewInv, NEW op \in {"replace", "delete", "inspect", "run"},
         NEW i \in Items, NEW from, NEW names, Press(i, Request(op, i, from, names)),
         op \in {"replace", "delete"} => Based(from, names, i),
         op = "run" => NotNewer(names, i)
  PROVE  ViewInv'
<1> DEFINE c == Request(op, i, from, names)
<1>1. row' = row /\ listed' = listed /\ editor' = editor /\ asked' = asked \cup {c}
  BY DEF Press
<1>2. /\ IsRequest(c) /\ c.op = op /\ c.item = i /\ c.from = from /\ c.names = names
  BY Asks
<1> HIDE DEF c
<1>3. op # "create"
  OBVIOUS
<1>4. Sound(c)' /\ c.op # "create"
  BY <1>1, <1>2, <1>3 DEF Sound, IsRequest, Based, NotNewer
<1>5. Ageing /\ \A d \in asked' : d.op = "create" => row'[d.item] = row[d.item]
  BY <1>1, NoRow
<1>6. AskedInv'
  <2> DEFINE New == {c}
  <2>1. asked' \subseteq asked \cup New /\ \A d \in New : Sound(d)' /\ d.op # "create"
    BY <1>1, <1>4
  <2> HIDE DEF New
  <2> QED BY <1>5, <2>1, AskedFrame
<1>7. ListedInv' /\ EditorInv'
  BY <1>1, <1>5, ListedFrame, EditorStays
<1> QED BY <1>1, <1>6, <1>7 DEF ViewInv

\* A step of the page that makes or answers calls, and touches no row and no list.
LEMMA AskedStep ==
  ASSUME ViewInv, row' = row, listed' = listed, EditorInv', NEW New, asked' \subseteq asked \cup New,
         \A c \in New : Sound(c)' /\ c.op # "create"
  PROVE  ViewInv'
<1>1. Ageing /\ \A d \in asked' : d.op = "create" => row'[d.item] = row[d.item]
  BY NoRow
<1>2. AskedInv'
  BY <1>1, AskedFrame
<1>3. ListedInv'
  BY <1>1, ListedFrame
<1> QED BY <1>2, <1>3 DEF ViewInv

\* A transaction that changes the row of its call.
LEMMA Transacts ==
  ASSUME ViewInv, NEW c \in asked, c.op # "list", c.op \in {"replace", "delete", "create"},
         NEW v \in Nat \cup {Nothing}, row' = [row EXCEPT ![c.item] = v],
         row[c.item] \in Nat, v \in Nat => row[c.item] <= v, row[c.item] = 0 => c.op = "create",
         Refresh(c),
         NEW draft, Edits(c, draft),
         draft # Nothing => draft.item \in c.list /\ Based(draft.from, draft.names, draft.item)'
  PROVE  ViewInv'
<1>1. c.item \in Items /\ c.list \in Lists
  BY RequestFacts
<1>2. Ageing /\ \A j : j # c.item => row'[j] = row[j]
  BY <1>1, OneRow
<1>3. listed' = listed
       /\ asked' = (asked \ {c}) \cup (IF c.here THEN {Reading(c.list, TRUE)} ELSE {})
  BY DEF Refresh
<1> DEFINE New == {Reading(c.list, TRUE)}
<1>4. \A d \in New : Sound(d)' /\ d.op = "list"
  BY <1>1, ReadingSound
<1>5. asked' \subseteq (asked \ {c}) \cup New
  BY <1>3
<1> HIDE DEF New
<1>6. \A d \in asked' : d.op = "create" => row'[d.item] = row[d.item]
  <2> SUFFICES ASSUME NEW d \in asked', d.op = "create" PROVE row'[d.item] = row[d.item]
    OBVIOUS
  <2>1. d \in asked /\ d # c
    BY <1>4, <1>5
  <2>2. c.op # "create"
    BY <2>1 DEF ViewInv, AskedInv
  <2>3. row[d.item] = 0 /\ row[c.item] # 0
    BY <2>1, <2>2, NotThere
  <2> QED BY <1>2, <2>3
<1>7. AskedInv'
  BY <1>2, <1>4, <1>5, <1>6, AskedFrame
<1>8. ListedInv'
  BY <1>2, <1>3, ListedFrame
<1>9. EditorInv'
  BY <1>1, <1>2, EditorFrame, EditorStays DEF Edits
<1> QED BY <1>2, <1>7, <1>8, <1>9 DEF ViewInv, Ageing
LEMMA ReplaceStep ==
  ASSUME ViewInv, NEW c \in asked, ReplaceSavedSearch(c)
  PROVE  ViewInv'
<1>1. c.op = "replace" /\ c.op # "list" /\ c.item \in Items /\ Exists(c.item)
  BY RequestFacts DEF ReplaceSavedSearch, CurrentVersion
<1>2. row[c.item] \in Nat /\ row[c.item] # 0 /\ row[c.item] + 1 \in Nat /\ row[c.item] <= row[c.item] + 1
  BY <1>1, ExistsFacts
<1> DEFINE v == row[c.item] + 1
<1>3. row' = [row EXCEPT ![c.item] = v] /\ Refresh(c)
  BY DEF ReplaceSavedSearch
<1>4. row'[c.item] = v
  BY <1>1, <1>3 DEF ViewInv
<1>5. PICK draft : Edits(c, draft) /\ draft = IF c.list = Notes THEN Nothing ELSE Draft(c, row'[c.item], row'[c.item])
  BY DEF ReplaceSavedSearch
<1>6. draft # Nothing => draft.item \in c.list /\ Based(draft.from, draft.names, draft.item)'
  <2> SUFFICES ASSUME draft # Nothing
               PROVE  draft.item \in c.list /\ Based(draft.from, draft.names, draft.item)'
    OBVIOUS
  <2>1. draft.item = c.item /\ draft.from = row'[c.item] /\ draft.names = row'[c.item]
    BY <1>5 DEF Draft
  <2>2. c.item \in c.list
    BY <1>1, ListOfItem, RequestFacts
  <2> QED BY <2>1, <2>2 DEF Based
<1> HIDE DEF v
<1> QED BY <1>1, <1>2, <1>3, <1>5, <1>6, Transacts DEF v

LEMMA DeleteStep ==
  ASSUME ViewInv, NEW c \in asked, DeleteSavedSearch(c)
  PROVE  ViewInv'
<1>1. c.op = "delete" /\ c.op # "list" /\ c.item \in Items /\ c.list \in Lists /\ Exists(c.item)
  BY RequestFacts DEF DeleteSavedSearch, CurrentVersion
<1>2. row[c.item] \in Nat /\ row[c.item] # 0
  BY <1>1, ExistsFacts
<1>3. row' = [row EXCEPT ![c.item] = Nothing] /\ Refresh(c)
  BY DEF DeleteSavedSearch
<1>4. Nothing \notin Nat
  BY ViewAssumption
<1>5. PICK draft : Edits(c, draft) /\ draft \in {Nothing, editor[c.list]}
  BY DEF DeleteSavedSearch
<1>6. Ageing
  BY <1>1, <1>2, <1>3, <1>4, OneRow
<1>7. draft # Nothing => draft.item \in c.list /\ Based(draft.from, draft.names, draft.item)'
  <2> SUFFICES ASSUME draft # Nothing
               PROVE  draft.item \in c.list /\ Based(draft.from, draft.names, draft.item)'
    OBVIOUS
  <2>1. draft.item \in c.list /\ Based(draft.from, draft.names, draft.item)
    BY <1>1, <1>5 DEF ViewInv, EditorInv
  <2>2. draft.item \in Items
    BY <1>1, <2>1 DEF Lists, Items
  <2> QED BY <1>6, <2>1, <2>2, Ages
<1> QED BY <1>1, <1>2, <1>3, <1>4, <1>5, <1>7, Transacts

LEMMA CreateStep ==
  ASSUME ViewInv, NEW c \in asked, CreateSavedSearch(c)
  PROVE  ViewInv'
<1>1. c.op = "create" /\ c.op # "list" /\ c.item \in Items /\ c.list \in Lists
  BY RequestFacts DEF CreateSavedSearch
<1>2. row[c.item] = 0
  BY <1>1, NotThere
<1> DEFINE v == 1
<1>3. row' = [row EXCEPT ![c.item] = v] /\ Refresh(c)
  BY DEF CreateSavedSearch
<1>7. v \in Nat /\ v \in Nat \cup {Nothing} /\ row[c.item] \in Nat /\ row[c.item] <= v
  BY <1>2
<1>8. row'[c.item] = 1
  BY <1>1, <1>3 DEF ViewInv
<1> HIDE DEF v
<1>4. PICK draft : Edits(c, draft) /\ draft = IF c.list = Notes THEN editor[Notes] ELSE Draft(c, 1, 1)
  BY DEF CreateSavedSearch
<1>5. Ageing
  BY <1>1, <1>3, <1>7, OneRow
<1>6. draft # Nothing => draft.item \in c.list /\ Based(draft.from, draft.names, draft.item)'
  <2> SUFFICES ASSUME draft # Nothing
               PROVE  draft.item \in c.list /\ Based(draft.from, draft.names, draft.item)'
    OBVIOUS
  <2>1. CASE c.list = Notes
    <3>1. draft.item \in c.list /\ Based(draft.from, draft.names, draft.item)
      BY <1>1, <1>4, <2>1 DEF ViewInv, EditorInv
    <3>2. draft.item \in Items
      BY <1>1, <3>1 DEF Lists, Items
    <3> QED BY <1>5, <3>1, <3>2, Ages
  <2>2. CASE c.list # Notes
    <3>1. draft.item = c.item /\ draft.from = 1 /\ draft.names = 1
      BY <1>4, <2>2 DEF Draft
    <3>2. c.item \in c.list
      BY <1>1, ListOfItem, RequestFacts
    <3> QED BY <1>8, <3>1, <3>2 DEF Based
  <2> QED BY <2>1, <2>2
<1> QED BY <1>1, <1>3, <1>4, <1>6, <1>7, Transacts

\* A saved search is read: what the editor names is no newer than what it shows.
LEMMA ReadStep ==
  ASSUME ViewInv, NEW c \in asked, InspectSavedSearch(c) \/ RunSavedSearch(c)
  PROVE  ViewInv'
<1>1. c.op # "list" /\ c.item \in Items /\ c.list \in Lists /\ Exists(c.item)
  BY RequestFacts DEF InspectSavedSearch, RunSavedSearch
<1>2. row[c.item] \in Nat
  BY <1>1, ExistsFacts
<1>3. row' = row /\ listed' = listed /\ asked' = asked \ {c}
  BY DEF InspectSavedSearch, RunSavedSearch, Settled
<1>4. PICK names : Edits(c, Draft(c, row[c.item], names)) /\ NotNewer(names, c.item)
  <2>1. CASE InspectSavedSearch(c)
    BY <1>2, <2>1 DEF InspectSavedSearch, NotNewer
  <2>2. CASE RunSavedSearch(c)
    BY <2>2, RequestFacts DEF RunSavedSearch
  <2> QED BY <2>1, <2>2
<1>5. PICK draft : draft.item = c.item /\ draft.from = row[c.item] /\ draft.names = names /\ Edits(c, draft)
  <2> DEFINE d == Draft(c, row[c.item], names)
  <2>1. d.item = c.item /\ d.from = row[c.item] /\ d.names = names /\ Edits(c, d)
    BY <1>4 DEF Draft
  <2> HIDE DEF d
  <2> QED BY <2>1
<1>6. c.item \in c.list
  BY <1>1, ListOfItem, RequestFacts
<1>7. draft.item \in c.list /\ Based(draft.from, draft.names, draft.item)'
  BY <1>2, <1>3, <1>4, <1>5, <1>6 DEF Based, NotNewer
<1>8. Ageing
  BY <1>3, NoRow
<1>9. EditorInv'
  BY <1>1, <1>5, <1>7, <1>8, EditorFrame, EditorStays DEF Edits
<1> DEFINE New == {}
<1>10. asked' \subseteq asked \cup New /\ \A d \in New : Sound(d)' /\ d.op # "create"
  BY <1>3
<1> HIDE DEF New
<1> QED BY <1>3, <1>9, <1>10, AskedStep
LEMMA LeaveStep ==
  ASSUME ViewInv, NEW list \in Lists, LeaveView(list)
  PROVE  ViewInv'
<1>1. row' = row
  BY DEF LeaveView
<1>2. Ageing
  BY <1>1, NoRow
<1>3. ListedInv'
  <2> SUFFICES ASSUME NEW i \in Items PROVE NotNewer(listed[i], i)'
    BY DEF ListedInv
  <2>1. listed'[i] = 0 \/ listed'[i] = listed[i]
    BY DEF LeaveView
  <2>2. NotNewer(listed[i], i) /\ row[i] \in Nat \cup {Nothing}
    BY DEF ViewInv, ListedInv
  <2> QED BY <1>1, <2>1, <2>2 DEF NotNewer
<1>4. EditorInv'
  BY <1>2, EditorFrame DEF LeaveView
<1>5. AskedInv'
  <2> SUFFICES ASSUME NEW c \in asked', NEW d \in asked'
               PROVE  Sound(c)' /\ (c.op = "create" /\ d.op = "create" => c = d)
    BY DEF AskedInv
  <2>1. ASSUME NEW x \in asked'
        PROVE  \E y \in asked :
                 /\ Sound(x) /\ x.op = y.op
                 /\ x = IF y.list = list THEN [y EXCEPT !.here = FALSE] ELSE y
    <3>1. CASE x \in asked /\ x.list # list
      BY <3>1 DEF ViewInv, AskedInv
    <3>2. CASE x \in {[y EXCEPT !.here = FALSE] : y \in {z \in asked : z.list = list /\ z.op # "list"}}
      <4>1. PICK y \in asked : y.list = list /\ y.op # "list" /\ x = [y EXCEPT !.here = FALSE]
        BY <3>2
      <4>2. Sound(y)
        BY DEF ViewInv, AskedInv
      <4>3. Sound(x) /\ x.op = y.op
        BY <4>1, <4>2, LeftSound
      <4> QED BY <4>1, <4>3
    <3> QED BY <2>1, <3>1, <3>2 DEF LeaveView
  <2>2. Sound(c)
    BY <2>1
  <2>3. Sound(c)'
    BY <1>1, <1>2, <2>2, SoundAges
  <2>4. PICK y \in asked : c.op = y.op /\ c = IF y.list = list THEN [y EXCEPT !.here = FALSE] ELSE y
    BY <2>1
  <2>5. PICK z \in asked : d.op = z.op /\ d = IF z.list = list THEN [z EXCEPT !.here = FALSE] ELSE z
    BY <2>1
  <2>6. c.op = "create" /\ d.op = "create" => y = z
    BY <2>4, <2>5 DEF ViewInv, AskedInv
  <2> QED BY <2>3, <2>4, <2>5, <2>6
<1> QED BY <1>1, <1>3, <1>4, <1>5 DEF ViewInv

LEMMA ListingStep ==
  ASSUME ViewInv, NEW c \in asked, Listing(c)
  PROVE  ViewInv'
<1>1. row' = row /\ listed' = listed /\ editor' = editor /\ c.op = "list"
  BY DEF Listing
<1> DEFINE d == [c EXCEPT !.found = [i \in c.list |-> row[i]]]  New == {d}
<1>2. Sound(d) /\ d.op = "list" /\ asked' \subseteq asked \cup {d}
  BY <1>1, FoundSound DEF Listing
<1> HIDE DEF d
<1>3. Ageing
  BY <1>1, NoRow
<1>4. \A x \in New : Sound(x)' /\ x.op # "create"
  BY <1>1, <1>2, <1>3, SoundAges
<1>5. EditorInv'
  BY <1>1, <1>3, EditorStays
<1>6. asked' \subseteq asked \cup New
  BY <1>2
<1> HIDE DEF New
<1> QED BY <1>1, <1>4, <1>5, <1>6, AskedStep

LEMMA ShowStep ==
  ASSUME ViewInv, NEW c \in asked, Show(c)
  PROVE  ViewInv'
<1>1. row' = row /\ editor' = editor /\ c.op = "list" /\ c.found # Nothing /\ asked' = asked \ {c}
  BY DEF Show
<1>2. Ageing /\ \A d \in asked' : d.op = "create" => row'[d.item] = row[d.item]
  BY <1>1, NoRow
<1>3. \A i \in c.list : NotNewer(c.found[i], i)
  BY <1>1 DEF ViewInv, AskedInv, Sound, IsRequest
<1>4. ListedInv'
  <2> SUFFICES ASSUME NEW i \in Items PROVE NotNewer(listed[i], i)'
    BY DEF ListedInv
  <2>1. listed'[i] = IF i \in c.list THEN c.found[i] ELSE listed[i]
    BY DEF Show
  <2>2. NotNewer(listed[i], i)
    BY DEF ViewInv, ListedInv
  <2> QED BY <1>1, <1>3, <2>1, <2>2 DEF NotNewer
<1>5. EditorInv'
  BY <1>1, <1>2, EditorStays
<1>6. AskedInv'
  <2> DEFINE New == {}
  <2>1. asked' \subseteq asked \cup New /\ \A d \in New : Sound(d)' /\ d.op # "create"
    BY <1>1
  <2> HIDE DEF New
  <2> QED BY <1>2, <2>1, AskedFrame
<1> QED BY <1>1, <1>4, <1>5, <1>6 DEF ViewInv

\* Pressing Create asks for a row that nobody asks for.
LEMMA AskCreate ==
  ASSUME ViewInv, NEW i \in Items, Create(i)
  PROVE  ViewInv'
<1> DEFINE c == Request("create", i, 0, 0)
<1>1. row' = row /\ listed' = listed /\ editor' = editor /\ asked' = asked \cup {c} /\ row[i] = 0
      /\ \A d \in asked : d.op # "create"
  BY DEF Create
<1>2. IsRequest(c) /\ c.op = "create" /\ c.item = i
  BY Asks
<1> HIDE DEF c
<1>3. Ageing
  BY <1>1, NoRow
<1>4. Sound(c)'
  BY <1>1, <1>2 DEF Sound, IsRequest
<1>5. \A d \in asked : Sound(d)'
  BY <1>1, <1>3, SoundAges DEF ViewInv, AskedInv
<1>6. AskedInv'
  <2>1. (\A d \in asked : Sound(d))'
    BY <1>1, <1>4, <1>5
  <2>2. (\A d, e \in asked : d.op = "create" /\ e.op = "create" => d = e)'
    BY <1>1
  <2> QED BY <2>1, <2>2 DEF AskedInv
<1>7. ListedInv' /\ EditorInv'
  BY <1>1, <1>3, ListedFrame, EditorStays
<1> QED BY <1>1, <1>6, <1>7 DEF ViewInv
LEMMA ListStep ==
  ASSUME ViewInv, NEW list \in Lists, Reload(list) \/ CancelEdit(list) \/ SaveEdit(list)
  PROVE  ViewInv'
<1>1. CASE Reload(list)
  <2> DEFINE New == {Reading(list, FALSE)}
  <2>1. row' = row /\ listed' = listed /\ editor' = editor /\ asked' \subseteq asked \cup New
    BY <1>1 DEF Reload
  <2>2. \A d \in New : Sound(d)' /\ d.op = "list"
    BY ReadingSound
  <2>3. \A d \in New : d.op # "create"
    BY <2>2
  <2>4. EditorInv'
    BY <2>1, NoRow, EditorStays
  <2> HIDE DEF New
  <2> QED BY <2>1, <2>2, <2>3, <2>4, AskedStep
<1>2. CASE CancelEdit(list)
  <2> DEFINE New == {}
  <2>1. row' = row /\ listed' = listed /\ asked' \subseteq asked \cup New
    BY <1>2 DEF CancelEdit
  <2>2. EditorInv'
    BY <1>2, <2>1, NoRow, EditorFrame DEF CancelEdit
  <2>3. \A d \in New : Sound(d)' /\ d.op # "create"
    OBVIOUS
  <2> HIDE DEF New
  <2> QED BY <2>1, <2>2, <2>3, AskedStep
<1>3. CASE SaveEdit(list)
  <2> DEFINE i == editor[list].item  from == editor[list].from  names == Names(list)
  <2>1. i \in list /\ Based(from, editor[list].names, i)
    BY <1>3 DEF SaveEdit, ViewInv, EditorInv
  <2>2. i \in Items
    BY <2>1 DEF Lists, Items
  <2>3. Based(from, names, i)
    <3>1. CASE list = Notes
      BY <2>1, <3>1, ViewAssumption DEF Based
    <3>2. CASE list # Notes
      BY <2>1, <3>2 DEF Names
    <3> QED BY <3>1, <3>2
  <2>4. Press(i, Request("replace", i, from, names))
    BY <1>3 DEF SaveEdit
  <2> HIDE DEF i, from, names
  <2> QED BY <2>2, <2>3, <2>4, Presses
<1> QED BY <1>1, <1>2, <1>3

LEMMA ItemStep ==
  ASSUME ViewInv, NEW i \in Items,
         BeginEdit(i) \/ Inspect(i) \/ Run(i) \/ DeleteRow(i) \/ Create(i) \/ ChangeRow(i)
  PROVE  ViewInv'
<1>1. NotNewer(listed[i], i)
  BY DEF ViewInv, ListedInv
<1>2. CASE BeginEdit(i)
  <2>1. row' = row /\ listed' = listed /\ i \in Notes
    BY <1>2 DEF BeginEdit
  <2>2. EditorInv'
    <3>1. PICK draft : editor' = [editor EXCEPT ![Notes] = draft] /\ draft.item = i
      <4> DEFINE d == [item |-> i, from |-> listed[i], names |-> listed[i]]
      <4>1. editor' = [editor EXCEPT ![Notes] = d] /\ d.item = i
        BY <1>2 DEF BeginEdit
      <4> HIDE DEF d
      <4> QED BY <4>1
    <3>2. i \notin Searches /\ Notes \in Lists
      BY <2>1, ViewAssumption DEF Lists
    <3>3. Based(draft.from, draft.names, draft.item)'
      BY <3>1, <3>2 DEF Based
    <3> QED BY <2>1, <3>1, <3>2, <3>3, NoRow, EditorFrame
  <2> DEFINE New == {}
  <2>3. asked' \subseteq asked \cup New /\ \A d \in New : Sound(d)' /\ d.op # "create"
    BY <1>2 DEF BeginEdit
  <2> HIDE DEF New
  <2> QED BY <2>1, <2>2, <2>3, AskedStep
<1>3. CASE Inspect(i)
  BY <1>3, Presses DEF Inspect
<1>4. CASE Run(i)
  BY <1>1, <1>4, Presses DEF Run
<1>5. CASE DeleteRow(i)
  <2>1. Based(listed[i], listed[i], i)
    BY <1>1 DEF Based, NotNewer
  <2> QED BY <1>5, <2>1, Presses DEF DeleteRow
<1>6. CASE Create(i)
  BY <1>6, AskCreate
<1>7. CASE ChangeRow(i)
  <2>1. row[i] \in Nat /\ row[i] # 0 /\ row[i] + 1 \in Nat /\ row[i] <= row[i] + 1
    BY <1>7, ExistsFacts DEF ChangeRow
  <2>2. PICK v \in Nat \cup {Nothing} : row' = [row EXCEPT ![i] = v] /\ (v \in Nat => row[i] <= v)
    <3>1. CASE row' = [row EXCEPT ![i] = @ + 1]
      BY <2>1, <3>1
    <3>2. CASE row' = [row EXCEPT ![i] = Nothing]
      BY <3>2, ViewAssumption
    <3> QED BY <1>7, <3>1, <3>2 DEF ChangeRow
  <2>3. Ageing /\ \A j : j # i => row'[j] = row[j]
    BY <2>1, <2>2, OneRow
  <2>4. \A d \in asked' : d.op = "create" => row'[d.item] = row[d.item]
    BY <1>7, <2>1, <2>3, NotThere DEF ChangeRow
  <2>5. AskedInv'
    <3> DEFINE New == {}
    <3>1. asked' \subseteq asked \cup New /\ \A d \in New : Sound(d)' /\ d.op # "create"
      BY <1>7 DEF ChangeRow
    <3> HIDE DEF New
    <3> QED BY <2>3, <2>4, <3>1, AskedFrame
  <2>6. ListedInv' /\ EditorInv'
    BY <1>7, <2>3, ListedFrame, EditorStays DEF ChangeRow
  <2> QED BY <2>3, <2>5, <2>6 DEF ViewInv, Ageing
<1> QED BY <1>2, <1>3, <1>4, <1>5, <1>6, <1>7

LEMMA CallStep ==
  ASSUME ViewInv, NEW c \in asked,
         \/ Listing(c) \/ Show(c) \/ ReplaceSavedSearch(c) \/ DeleteSavedSearch(c)
         \/ CreateSavedSearch(c) \/ InspectSavedSearch(c) \/ RunSavedSearch(c) \/ Refuse(c)
  PROVE  ViewInv'
<1>1. CASE Refuse(c)
  <2> DEFINE New == {}
  <2>1. row' = row /\ listed' = listed /\ editor' = editor /\ asked' \subseteq asked \cup New
        /\ \A d \in New : Sound(d)' /\ d.op # "create"
    BY <1>1 DEF Refuse, Settled
  <2> HIDE DEF New
  <2>2. EditorInv'
    BY <2>1, NoRow, EditorStays
  <2> QED BY <2>1, <2>2, AskedStep
<1> QED
  BY <1>1, ListingStep, ShowStep, ReplaceStep, DeleteStep, CreateStep, ReadStep

LEMMA ViewStep == ViewInv /\ [ViewNext]_viewVars => ViewInv'
<1> SUFFICES ASSUME ViewInv, [ViewNext]_viewVars PROVE ViewInv'
  OBVIOUS
<1>1. CASE UNCHANGED viewVars
  <2> DEFINE New == {}
  <2>1. row' = row /\ listed' = listed /\ editor' = editor /\ asked' \subseteq asked \cup New
        /\ \A d \in New : Sound(d)' /\ d.op # "create"
    BY <1>1 DEF viewVars
  <2> HIDE DEF New
  <2>2. EditorInv'
    BY <2>1, NoRow, EditorStays
  <2> QED BY <2>1, <2>2, AskedStep
<1>2. CASE ViewNext
  <2>1. CASE \E l \in Lists : Reload(l) \/ CancelEdit(l) \/ SaveEdit(l) \/ LeaveView(l)
    BY <2>1, ListStep, LeaveStep
  <2>2. CASE \E i \in Items :
               BeginEdit(i) \/ Inspect(i) \/ Run(i) \/ DeleteRow(i) \/ Create(i) \/ ChangeRow(i)
    BY <2>2, ItemStep
  <2>3. CASE \E c \in asked :
               \/ Listing(c) \/ Show(c) \/ ReplaceSavedSearch(c) \/ DeleteSavedSearch(c)
               \/ CreateSavedSearch(c) \/ InspectSavedSearch(c) \/ RunSavedSearch(c) \/ Refuse(c)
    BY <2>3, CallStep
  <2> QED BY <1>2, <2>1, <2>2, <2>3 DEF ViewNext
<1> QED BY <1>1, <1>2

\* What takes a saved search's place takes the place of the version it was made from.
LEMMA Overwriting ==
  ASSUME ViewInv, [ViewNext]_viewVars, NEW c \in asked, Overwrites(c), c.item \in Searches
  PROVE  c.from = row[c.item]
<1>1. c.op \in {"replace", "delete"} /\ c \notin asked' /\ row'[c.item] # row[c.item]
  BY DEF Overwrites
<1>2. c.op # "list" /\ c.op # "create"
  BY <1>1
<1>3. PICK d \in asked :
        \/ ReplaceSavedSearch(d) \/ DeleteSavedSearch(d)
        \/ CreateSavedSearch(d) /\ d.op = "create"
  <2>1. row' # row /\ asked' # asked
    BY <1>1
  <2> QED
    BY <2>1 DEF ViewNext, viewVars, Reload, CancelEdit, SaveEdit, LeaveView, BeginEdit, Inspect, Run,
                DeleteRow, Create, ChangeRow, Press, Listing, Show, InspectSavedSearch,
                RunSavedSearch, Refuse, Settled, CreateSavedSearch
<1>4. asked \ {d} \subseteq asked'
  BY <1>3 DEF ReplaceSavedSearch, DeleteSavedSearch, CreateSavedSearch, Refresh
<1>5. c = d
  BY <1>1, <1>4
<1>6. CurrentVersion(c)
  BY <1>2, <1>3, <1>5 DEF ReplaceSavedSearch, DeleteSavedSearch
<1>7. Exists(c.item) /\ row[c.item] = c.names /\ c.item \in Items
  BY <1>6 DEF CurrentVersion, Items
<1>8. row[c.item] \in Nat
  BY <1>7, ExistsFacts
<1>9. Based(c.from, c.names, c.item)
  BY <1>1, <1>2, RequestFacts
<1> QED BY <1>7, <1>8, <1>9 DEF Based

\* A saved search is replaced or deleted only where it still is the version the
\* change was made from, for any notes and searches, whatever else changes them.
THEOREM ChangesWhatItLoaded == ViewSpec => ReplacesWhatItLoaded
<1>1. ViewInit => ViewInv
  BY ViewInvInit
<1>2. ViewInv /\ [ViewNext]_viewVars => ViewInv'
  BY ViewStep
<1>3. ViewInv /\ [ViewNext]_viewVars =>
        \A c \in asked : Overwrites(c) /\ c.item \in Searches => c.from = row[c.item]
  BY Overwriting
<1> QED BY <1>1, <1>2, <1>3, PTL DEF ViewSpec, ReplacesWhatItLoaded
-----------------------------------------------------------------------------
(* The player of the search view.                                           *)

Entries == Versions \cup {None}

IsPrepare(c) ==
  /\ c = [at |-> c.at, here |-> c.here, step |-> c.step, id |-> c.id]
  /\ c.at \in Versions /\ c.id \in Nat
  /\ c.step # "opened" => c.id = 0

PlayInv ==
  /\ evidence \in Entries
  /\ IsFiniteSet(sessions) /\ \A s \in sessions : s.bytes = 0 /\ s.id \in Nat \ {0}
  /\ \A c \in prepares : IsPrepare(c) /\ (c.here => preparing /\ player = None)
  /\ \A c, d \in prepares : c.here /\ d.here => c = d

\* The host has a number left while it holds fewer recordings than it may.
LEMMA NumberLeft ==
  ASSUME IsFiniteSet(sessions), Cardinality(sessions) < MaxSessions
  PROVE  FreeId \in Nat \ {0}
<1> DEFINE Unused == {i \in 1 .. MaxSessions : \A s \in sessions : s.id # i}
<1>1. MaxSessions \in Nat \ {0}
  BY ReaderAssumption
<1>2. IsFiniteSet(1 .. MaxSessions) /\ Cardinality(1 .. MaxSessions) = MaxSessions
  BY <1>1, FS_Interval
<1>3. Unused # {}
  <2> SUFFICES ASSUME \A i \in 1 .. MaxSessions : \E s \in sessions : s.id = i PROVE FALSE
    OBVIOUS
  <2> DEFINE N == 1 .. MaxSessions  f == [i \in N |-> CHOOSE s \in sessions : s.id = i]
  <2>1. \A i \in N : f[i] \in sessions /\ f[i].id = i
    OBVIOUS
  <2>2. f \in [N -> sessions]
    OBVIOUS
  <2>3. IsFiniteSet(N) /\ Cardinality(sessions) < Cardinality(N)
    BY <1>2
  <2> HIDE DEF N, f
  <2>4. \E i, j \in N : i # j /\ f[i] = f[j]
    BY <2>2, <2>3, FS_PigeonHole
  <2> QED BY <2>1, <2>4
<1>4. Unused \in SUBSET Nat
  BY <1>1
<1>5. \A x \in Unused : x \in Nat \ {0}
  BY <1>1
<1> HIDE DEF Unused
<1>6. \E x \in Unused : \A y \in Unused : x <= y
  <2> DEFINE Below == {p \in Nat \X Nat : p[1] < p[2]}
  <2>1. IsWellFoundedOn(Below, Nat)
    <3>1. OpToRel(<, Nat) = Below
      BY DEF OpToRel
    <3> QED BY <3>1, NatLessThanWellFounded
  <2> HIDE DEF Below
  <2>2. PICK x \in Unused : \A y \in Unused : ~(<<y, x>> \in Below)
    BY <1>3, <1>4, <2>1, WFMin
  <2>3. ASSUME NEW y \in Unused PROVE x <= y
    <3>1. <<y, x>> \in Nat \X Nat /\ <<y, x>>[1] = y /\ <<y, x>>[2] = x
      BY <1>4
    <3>2. ~(y < x)
      BY <2>2, <3>1 DEF Below
    <3> QED BY <1>4, <3>2
  <2> QED BY <2>3
<1>7. FreeId = CHOOSE x \in Unused : \A y \in Unused : x <= y
  BY DEF FreeId, Min, Unused
<1>8. FreeId \in Unused
  BY <1>6, <1>7
<1> QED BY <1>5, <1>8

LEMMA PrepareGone ==
  ASSUME NEW c, NEW k, IsPrepare(c)
  PROVE  LET d == [c EXCEPT !.here = k]
         IN IsPrepare(d) /\ d.id = c.id /\ d.here = k
<1>1. c = [at |-> c.at, here |-> c.here, step |-> c.step, id |-> c.id]
  BY DEF IsPrepare
<1> DEFINE d == [c EXCEPT !.here = k]
<1>2. d = [at |-> c.at, here |-> k, step |-> c.step, id |-> c.id]
  BY <1>1
<1> HIDE DEF d
<1>3. d.at = c.at /\ d.here = k /\ d.step = c.step /\ d.id = c.id
  BY <1>2
<1>4. IsPrepare(d)
  BY <1>2, <1>3 DEF IsPrepare
<1> QED BY <1>3, <1>4 DEF d
\* No session is forgotten that an answer on its way to the page could still use.
Follows ==
  \A s \in sessions' : \/ s.id \in Held(player', prepares')
                       \/ s.id \notin Held(player, prepares)
                       \/ \E c \in prepares : c.id = s.id /\ ~c.here

\* The page gives back the session of its player.
GivesBack == sessions' = {s \in sessions : player = None \/ s.id # player.id}

LEMMA GivenBack ==
  ASSUME PlayInv, GivesBack
  PROVE  /\ IsFiniteSet(sessions') /\ \A s \in sessions' : s.bytes = 0 /\ s.id \in Nat \ {0}
         /\ \A s \in sessions' : s.id \in Held(player, prepares) => \E c \in prepares : c.id = s.id
<1>1. IsFiniteSet(sessions')
  BY FS_Subset DEF PlayInv, GivesBack
<1>2. \A s \in sessions' : s.bytes = 0 /\ s.id \in Nat \ {0}
  BY DEF PlayInv, GivesBack
<1>3. \A s \in sessions' : s.id \in Held(player, prepares) => \E c \in prepares : c.id = s.id
  BY DEF GivesBack, Held
<1> QED BY <1>1, <1>2, <1>3

LEMMA ReaderCloses ==
  ASSUME PlayInv, CloseReader
  PROVE  PlayInv' /\ Follows
<1>1. GivesBack /\ evidence' = None /\ player' = None /\ prepares' = Gone(prepares)
  BY DEF CloseReader, GivesBack
<1>2. IsFiniteSet(sessions') /\ \A s \in sessions' : s.bytes = 0 /\ s.id \in Nat \ {0}
  BY <1>1, GivenBack
<1>3. ASSUME NEW d \in prepares' PROVE IsPrepare(d) /\ d.here = FALSE
  <2>1. PICK c \in prepares : d = [c EXCEPT !.here = FALSE]
    BY <1>1 DEF Gone
  <2> QED BY <2>1, PrepareGone DEF PlayInv
<1>4. ASSUME NEW c \in prepares PROVE \E d \in prepares' : d.id = c.id
  <2>1. [c EXCEPT !.here = FALSE] \in prepares'
    BY <1>1 DEF Gone
  <2> QED BY <2>1, PrepareGone DEF PlayInv
<1>5. PlayInv'
  BY <1>1, <1>2, <1>3 DEF PlayInv, Entries, IsPrepare
<1>6. Follows
  BY <1>1, <1>4, GivenBack DEF Follows, Held
<1> QED BY <1>5, <1>6

LEMMA Asked ==
  ASSUME PlayInv, Prepare
  PROVE  PlayInv' /\ Follows
<1> DEFINE c == [at |-> evidence, here |-> TRUE, step |-> "asked", id |-> 0]
<1>1. /\ GivesBack /\ evidence' = evidence /\ player' = None /\ preparing' = TRUE /\ ~preparing
      /\ prepares' = prepares \cup {c} /\ evidence \in Versions
  BY DEF Prepare, GivesBack, PlayInv, Entries
<1>2. IsPrepare(c) /\ c.here
  BY <1>1 DEF IsPrepare
<1> HIDE DEF c
<1>3. IsFiniteSet(sessions') /\ \A s \in sessions' : s.bytes = 0 /\ s.id \in Nat \ {0}
  BY <1>1, GivenBack
<1>4. \A d \in prepares : ~d.here
  BY <1>1 DEF PlayInv
<1>5. PlayInv'
  <2>1. (\A d \in prepares : IsPrepare(d) /\ (d.here => preparing /\ player = None))'
    BY <1>1, <1>2 DEF PlayInv, IsPrepare
  <2>2. (\A d, e \in prepares : d.here /\ e.here => d = e)'
    BY <1>1, <1>4
  <2> QED BY <1>1, <1>3, <2>1, <2>2 DEF PlayInv, Entries
<1>6. Follows
  BY <1>1, GivenBack DEF Follows, Held
<1> QED BY <1>5, <1>6

\* Only an opened session has a number, and no session has none.
LEMMA RefusedIsFree ==
  ASSUME PlayInv, NEW c \in prepares, c.step # "opened", Refused(c)
  PROVE  PlayInv' /\ Follows
<1>1. /\ prepares' = prepares \ {c} /\ preparing' = (preparing /\ ~c.here)
      /\ evidence' = evidence /\ player' = player /\ sessions' = sessions
  BY DEF Refused
<1>2. c.id = 0
  BY DEF PlayInv, IsPrepare
<1>3. (\A d \in prepares : IsPrepare(d) /\ (d.here => preparing /\ player = None))'
  <2> SUFFICES ASSUME NEW d \in prepares'
               PROVE  IsPrepare(d)' /\ (d.here => preparing' /\ player' = None)
    OBVIOUS
  <2>1. d \in prepares /\ d # c
    BY <1>1
  <2>2. d.here => ~c.here
    BY <2>1 DEF PlayInv
  <2> QED BY <1>1, <2>1, <2>2 DEF PlayInv, IsPrepare
<1>4. PlayInv'
  BY <1>1, <1>3 DEF PlayInv, Entries
<1>5. Follows
  BY <1>1, <1>2 DEF Follows, Held, PlayInv
<1> QED BY <1>4, <1>5

\* A call for playback goes on to its next step.
LEMMA Advances ==
  ASSUME PlayInv, NEW c \in prepares, NEW d, IsPrepare(d)', d.here = c.here,
         prepares' = (prepares \ {c}) \cup {d},
         UNCHANGED <<evidence, player, preparing>>,
         IsFiniteSet(sessions'), \A s \in sessions' : s.bytes = 0 /\ s.id \in Nat \ {0},
         c.id = 0 \/ d.id = c.id, \A s \in sessions' : s \in sessions \/ s.id = d.id
  PROVE  PlayInv' /\ Follows
<1>1. (\A e \in prepares : IsPrepare(e) /\ (e.here => preparing /\ player = None))'
  BY DEF PlayInv, IsPrepare
<1>2. (\A e, f \in prepares : e.here /\ f.here => e = f)'
  BY DEF PlayInv
<1>3. PlayInv'
  BY <1>1, <1>2 DEF PlayInv, Entries
<1>4. Follows
  BY DEF Follows, Held, PlayInv
<1> QED BY <1>3, <1>4
LEMMA PrepareGranted ==
  ASSUME NEW c, IsPrepare(c), NEW k, k # "opened", c.id = 0,
         NEW d, d = [c EXCEPT !.step = k]
  PROVE  IsPrepare(d) /\ d.id = c.id /\ d.here = c.here
<1>1. c = [at |-> c.at, here |-> c.here, step |-> c.step, id |-> c.id]
  BY DEF IsPrepare
<1>2. d = [at |-> c.at, here |-> c.here, step |-> k, id |-> c.id]
  BY <1>1
<1>3. d.at = c.at /\ d.here = c.here /\ d.step = k /\ d.id = c.id
  BY <1>2
<1> QED BY <1>2, <1>3 DEF IsPrepare

LEMMA PrepareOpened ==
  ASSUME NEW c, IsPrepare(c), NEW n \in Nat,
         NEW d, d = [c EXCEPT !.step = "opened", !.id = n]
  PROVE  IsPrepare(d) /\ d.id = n /\ d.here = c.here
<1>1. c = [at |-> c.at, here |-> c.here, step |-> c.step, id |-> c.id]
  BY DEF IsPrepare
<1> DEFINE e == [c EXCEPT !.step = "opened"]
<1>2. e = [at |-> c.at, here |-> c.here, step |-> "opened", id |-> c.id] /\ d = [e EXCEPT !.id = n]
  BY <1>1
<1> HIDE DEF e
<1>3. d = [at |-> c.at, here |-> c.here, step |-> "opened", id |-> n]
  BY <1>2
<1>4. d.at = c.at /\ d.here = c.here /\ d.step = "opened" /\ d.id = n
  BY <1>3
<1> QED BY <1>3, <1>4 DEF IsPrepare

LEMMA Granted ==
  ASSUME PlayInv, NEW c \in prepares, Authorize(c)
  PROVE  PlayInv' /\ Follows
<1>1. c.step # "opened"
  BY DEF Authorize
<1>2. CASE Refused(c)
  BY <1>1, <1>2, RefusedIsFree
<1>3. CASE /\ prepares' = (prepares \ {c}) \cup {[c EXCEPT !.step = "granted"]}
           /\ UNCHANGED <<evidence, player, preparing, sessions>>
  <2> DEFINE d == [c EXCEPT !.step = "granted"]
  <2>1. c.id = 0 /\ IsPrepare(c)
    BY <1>1 DEF PlayInv, IsPrepare
  <2>2. IsPrepare(d) /\ d.id = c.id /\ d.here = c.here
    BY <2>1, PrepareGranted
  <2>3. prepares' = (prepares \ {c}) \cup {d}
    BY <1>3
  <2> HIDE DEF d
  <2>4. IsPrepare(d)'
    BY <2>2 DEF IsPrepare
  <2>5. IsFiniteSet(sessions') /\ \A s \in sessions' : s.bytes = 0 /\ s.id \in Nat \ {0}
    BY <1>3 DEF PlayInv
  <2> QED BY <1>3, <2>1, <2>2, <2>3, <2>4, <2>5, Advances
<1> QED BY <1>2, <1>3 DEF Authorize

\* The host opens only what is still the recording that was authorised.
LEMMA Opened ==
  ASSUME PlayInv, NEW c \in prepares, Open(c)
  PROVE  PlayInv' /\ Follows
<1>1. c.step # "opened" /\ c.id = 0 /\ IsPrepare(c)
  BY DEF Open, PlayInv, IsPrepare
<1>2. CASE Refused(c)
  BY <1>1, <1>2, RefusedIsFree
<1>3. CASE CanOpen(c) /\ Insert(c)
  <2>1. PICK n \in Nat \ {0} : n = FreeId
    BY <1>3, NumberLeft DEF CanOpen, PlayInv
  <2> DEFINE d == [c EXCEPT !.step = "opened", !.id = n]
             s == [id |-> n, at |-> c.at, bytes |-> recording[c.at[1]]]
  <2>2. IsPrepare(d) /\ d.id = n /\ d.here = c.here
    <3>1. d = [c EXCEPT !.step = "opened", !.id = n] /\ n \in Nat
      OBVIOUS
    <3> HIDE DEF d
    <3> QED BY <1>1, <3>1, PrepareOpened
  <2>3. prepares' = (prepares \ {c}) \cup {d} /\ sessions' = sessions \cup {s}
        /\ UNCHANGED <<evidence, player, preparing>>
    BY <1>3, <2>1 DEF Insert
  <2>4. s.id = n /\ s.bytes = 0
    BY <1>3 DEF CanOpen
  <2> HIDE DEF s
  <2>5. PICK e : e = d
    OBVIOUS
  <2> HIDE DEF d
  <2>6. IsPrepare(e)'
    BY <2>2, <2>5 DEF IsPrepare
  <2>7. IsFiniteSet(sessions')
    BY <2>3, FS_AddElement DEF PlayInv
  <2>8. \A x \in sessions' : x.bytes = 0 /\ x.id \in Nat \ {0}
    BY <2>1, <2>3, <2>4 DEF PlayInv
  <2>9. \A x \in sessions' : x \in sessions \/ x.id = e.id
    BY <2>2, <2>3, <2>4, <2>5
  <2> QED BY <1>1, <2>2, <2>3, <2>5, <2>6, <2>7, <2>8, <2>9, Advances
<1> QED BY <1>2, <1>3 DEF Open

\* The page takes a session only when it has none, for it asks for one at a time.
LEMMA Answers ==
  ASSUME PlayInv, NEW c \in prepares, Prepared(c)
  PROVE  PlayInv' /\ Follows
<1>1. /\ prepares' = prepares \ {c} /\ preparing' = (preparing /\ ~c.here)
      /\ evidence' = evidence /\ sessions' = sessions
      /\ player' = IF c.here THEN [id |-> c.id, at |-> c.at] ELSE player
  BY DEF Prepared
<1>2. (\A d \in prepares : IsPrepare(d) /\ (d.here => preparing /\ player = None))'
  <2> SUFFICES ASSUME NEW d \in prepares'
               PROVE  IsPrepare(d)' /\ (d.here => preparing' /\ player' = None)
    OBVIOUS
  <2>1. d \in prepares /\ d # c
    BY <1>1
  <2>2. d.here => ~c.here
    BY <2>1 DEF PlayInv
  <2> QED BY <1>1, <2>1, <2>2 DEF PlayInv, IsPrepare
<1>3. PlayInv'
  BY <1>1, <1>2 DEF PlayInv, Entries
<1>4. CASE c.here
  <2> DEFINE p == [id |-> c.id, at |-> c.at]
  <2>1. p \in [id : Nat, at : Versions] /\ p.id = c.id
    BY DEF PlayInv, IsPrepare
  <2>2. player' = p /\ player = None
    BY <1>1, <1>4 DEF PlayInv
  <2>3. p # None
    BY <2>1, NoneAssumption
  <2> HIDE DEF p
  <2>4. Follows
    BY <1>1, <2>1, <2>2, <2>3 DEF Follows, Held
  <2> QED BY <1>3, <2>4
<1>5. CASE ~c.here
  BY <1>1, <1>3, <1>5 DEF Follows, Held
<1> QED BY <1>4, <1>5

LEMMA PlayStays ==
  ASSUME PlayInv, evidence' \in Entries, UNCHANGED <<player, preparing, prepares, sessions>>
  PROVE  PlayInv' /\ Follows
<1>1. (\A d \in prepares : IsPrepare(d) /\ (d.here => preparing /\ player = None))'
  BY DEF PlayInv, IsPrepare
<1>2. PlayInv'
  BY <1>1 DEF PlayInv, Entries
<1> QED BY <1>2 DEF Follows

LEMMA Ends ==
  ASSUME Kill
  PROVE  PlayInv' /\ Follows
<1>1. sessions' = {} /\ prepares' = {} /\ evidence' = None /\ IsFiniteSet(sessions')
  BY FS_EmptySet DEF Kill
<1> QED BY <1>1 DEF PlayInv, Follows, Entries

LEMMA PlayStep ==
  ASSUME PlayInv, [Next]_vars
  PROVE  PlayInv' /\ Follows
<1>1. CASE CloseReader
  BY <1>1, ReaderCloses
<1>2. CASE Kill
  BY <1>2, Ends
<1>3. CASE Prepare
  BY <1>3, Asked
<1>4. CASE \E c \in prepares : Authorize(c) \/ Open(c) \/ Prepared(c)
  BY <1>4, Granted, Opened, Answers
<1>5. CASE \E v \in Versions : OpenEvidence(v)
  BY <1>5, PlayStays DEF OpenEvidence, Entries
<1>6. CASE UNCHANGED reader
  BY <1>6, PlayStays DEF reader, PlayInv
<1>7. CASE UNCHANGED vars
  BY <1>6, <1>7 DEF vars
<1>8. CASE Next
  <2>1. CASE Search \/ LeaveReader \/ (\E v \in Versions : OpenTools(v))
    BY <1>1, <2>1 DEF Search, LeaveReader, OpenTools
  <2>2. CASE Found \/ LeaveTools \/ SaveNote \/ Inspected \/ Change \/ RefreshLibrary
    BY <1>6, <2>2 DEF Found, LeaveTools, SaveNote, Inspected, Change, RefreshLibrary
  <2>3. CASE \E kind \in {"name", "remove", "export"} : Click(kind)
    BY <1>6, <2>3 DEF Click
  <2>4. CASE \E c \in calls : \/ Handle(c) \/ Publish(c) \/ Published(c)
                              \/ \E left \in SUBSET Slots : Rollback(c, left)
    BY <1>6, <2>4 DEF Handle, Publish, Published, Rollback, Answered
  <2>5. CASE (\E f \in Formats : ReservePublication(f)) \/ (\E s \in Slots : SavePublication(s))
    BY <1>6, <2>5 DEF ReservePublication, SavePublication
  <2> QED BY <1>2, <1>3, <1>4, <1>5, <1>8, <2>1, <2>2, <2>3, <2>4, <2>5 DEF Next
<1> QED BY <1>7, <1>8

\* What is played is the recording the transcript was made from, and a session is
\* forgotten only by a reader that was closed, for any transcripts and any limits.
THEOREM PlaybackHolds == Spec => PlaybackIsVerified
<1>1. Init => PlayInv
  BY FS_EmptySet DEF Init, PlayInv, Entries
<1>2. PlayInv /\ [Next]_vars => PlayInv'
  BY PlayStep
<1>3. PlayInv /\ [Next]_vars =>
        \A s \in sessions' : /\ s.bytes = 0
                             /\ \/ s.id \in Held(player', prepares')
                                \/ s.id \notin Held(player, prepares)
                                \/ \E c \in prepares : c.id = s.id /\ ~c.here
  BY PlayStep DEF PlayInv, Follows
<1> QED BY <1>1, <1>2, <1>3, PTL DEF Spec, PlaybackIsVerified
-----------------------------------------------------------------------------
(* The tools of the search view: notes, names and exports.                  *)

IsCall(c) ==
  /\ c = [kind |-> c.kind, at |-> c.at, shown |-> c.shown, here |-> c.here, writing |-> c.writing]
  /\ c.at \in Versions /\ c.shown \in Versions

PanelInv ==
  /\ evidence \in Entries /\ tools \in Entries /\ panel \in Entries /\ inspecting \in Entries
  /\ ~switched => panel \in {None, tools} /\ inspecting \in {None, tools}

CallsInv == \A c \in calls : IsCall(c) /\ (~switched => c.at = c.shown)

\* One call at most is writing an export, and while it does there is one.
WritingInv ==
  /\ \A c \in calls : c.writing => publishing # None
  /\ \A c, d \in calls : c.writing /\ d.writing => c = d

KeptInv == ~switched => \A x \in labels \cup notes : x.at = x.shown

FolderInv ==
  /\ folder = [s \in Slots |-> folder[s]]
  /\ ~switched => \A s \in Slots : folder[s].kind = "copy" => folder[s].at = folder[s].shown

Export == [at : Versions, shown : Versions, taken : SUBSET Slots, saved : SUBSET Slots]

PublishingInv ==
  publishing # None =>
    /\ publishing \in Export /\ publishing.saved \subseteq publishing.taken
    /\ ~switched => publishing.at = publishing.shown
    /\ \A s \in publishing.saved : folder[s] = Copy(publishing)
    /\ \A s \in publishing.taken \ publishing.saved : folder[s] = Entry("empty")

\* What the panel is given, what it asked for and what was made of that.
BenchInv ==
  faults \in Nat /\ PanelInv /\ CallsInv /\ WritingInv /\ KeptInv /\ FolderInv /\ PublishingInv

LEMMA CallGone ==
  ASSUME NEW c, IsCall(c), NEW k
  PROVE  LET d == [c EXCEPT !.here = k] IN IsCall(d) /\ d.at = c.at /\ d.shown = c.shown /\ d.writing = c.writing
<1>1. c = [kind |-> c.kind, at |-> c.at, shown |-> c.shown, here |-> c.here, writing |-> c.writing]
  BY DEF IsCall
<1> DEFINE d == [c EXCEPT !.here = k]
<1>2. d = [kind |-> c.kind, at |-> c.at, shown |-> c.shown, here |-> k, writing |-> c.writing]
  BY <1>1
<1> HIDE DEF d
<1>3. d.kind = c.kind /\ d.at = c.at /\ d.shown = c.shown /\ d.here = k /\ d.writing = c.writing
  BY <1>2
<1> QED BY <1>2, <1>3 DEF IsCall, d

LEMMA CallWrites ==
  ASSUME NEW c, IsCall(c), NEW k
  PROVE  LET d == [c EXCEPT !.writing = k] IN IsCall(d) /\ d.at = c.at /\ d.shown = c.shown /\ d.writing = k
<1>1. c = [kind |-> c.kind, at |-> c.at, shown |-> c.shown, here |-> c.here, writing |-> c.writing]
  BY DEF IsCall
<1> DEFINE d == [c EXCEPT !.writing = k]
<1>2. d = [kind |-> c.kind, at |-> c.at, shown |-> c.shown, here |-> c.here, writing |-> k]
  BY <1>1
<1> HIDE DEF d
<1>3. d.kind = c.kind /\ d.at = c.at /\ d.shown = c.shown /\ d.here = c.here /\ d.writing = k
  BY <1>2
<1> QED BY <1>2, <1>3 DEF IsCall, d

LEMMA CallMade ==
  ASSUME NEW kind, NEW at \in Versions, NEW shown \in Versions, NEW h, NEW w
  PROVE  LET c == [kind |-> kind, at |-> at, shown |-> shown, here |-> h, writing |-> w]
         IN IsCall(c) /\ c.at = at /\ c.shown = shown
BY DEF IsCall

\* A panel that is closed leaves calls that find no one.
LEMMA ToolsClose ==
  ASSUME BenchInv, CloseTools, publishing' = publishing
  PROVE  /\ CallsInv' /\ WritingInv'
         /\ tools' = None /\ panel' = None /\ inspecting' = None /\ switched' = switched
<1>1. /\ calls' = Gone(calls) /\ switched' = switched
      /\ tools' = None /\ panel' = None /\ inspecting' = None
  BY DEF CloseTools
<1>2. ASSUME NEW d \in calls'
      PROVE  \E c \in calls : /\ d = [c EXCEPT !.here = FALSE] /\ d.writing = c.writing
                              /\ IsCall(d) /\ (~switched => d.at = d.shown)
  <2>1. PICK c \in calls : d = [c EXCEPT !.here = FALSE]
    BY <1>1 DEF Gone
  <2>2. IsCall(c) /\ (~switched => c.at = c.shown)
    BY DEF BenchInv, CallsInv
  <2> QED BY <2>1, <2>2, CallGone
<1>3. CallsInv'
  BY <1>1, <1>2 DEF CallsInv, IsCall
<1>4. (\A d \in calls : d.writing => publishing # None)'
  BY <1>2 DEF BenchInv, WritingInv
<1>5. (\A d, e \in calls : d.writing /\ e.writing => d = e)'
  <2> SUFFICES ASSUME NEW d \in calls', NEW e \in calls', d.writing, e.writing PROVE d = e
    OBVIOUS
  <2>1. PICK c \in calls : d = [c EXCEPT !.here = FALSE] /\ d.writing = c.writing
    BY <1>2
  <2>2. PICK x \in calls : e = [x EXCEPT !.here = FALSE] /\ e.writing = x.writing
    BY <1>2
  <2>3. c = x
    BY <2>1, <2>2 DEF BenchInv, WritingInv
  <2> QED BY <2>1, <2>2, <2>3
<1> QED BY <1>1, <1>3, <1>4, <1>5 DEF WritingInv

LEMMA CallsFrame ==
  ASSUME BenchInv, calls' \subseteq calls, switched' = switched
  PROVE  CallsInv'
BY DEF BenchInv, CallsInv, IsCall

LEMMA WritingStays ==
  ASSUME BenchInv, calls' \subseteq calls, publishing' = publishing
  PROVE  WritingInv'
BY DEF BenchInv, WritingInv

LEMMA KeptFrame ==
  ASSUME BenchInv, UNCHANGED <<labels, notes, switched>>
  PROVE  KeptInv'
BY DEF BenchInv, KeptInv

LEMMA FolderFrame ==
  ASSUME BenchInv, UNCHANGED <<folder, switched>>
  PROVE  FolderInv'
BY DEF BenchInv, FolderInv

LEMMA PublishingFrame ==
  ASSUME BenchInv, UNCHANGED <<folder, publishing, switched>>
  PROVE  PublishingInv'
BY DEF BenchInv, PublishingInv, Export

\* The page, while nothing is kept or written.
LEMMA PageStep ==
  ASSUME BenchInv, UNCHANGED <<labels, notes, folder, publishing, faults>>,
         switched' = switched, PanelInv', CallsInv', WritingInv'
  PROVE  BenchInv'
BY KeptFrame, FolderFrame, PublishingFrame DEF BenchInv

LEMMA PanelFrame ==
  ASSUME BenchInv, evidence' \in Entries, UNCHANGED <<tools, panel, inspecting, switched>>
  PROVE  PanelInv'
BY DEF BenchInv, PanelInv, Entries

\* Once switched, nothing is said of what is shown.
LEMMA ToolsOpen ==
  ASSUME BenchInv, NEW v \in Versions, OpenTools(v)
  PROVE  BenchInv'
<1>1. /\ tools' = v /\ inspecting' = v /\ panel' = panel /\ calls' = calls
      /\ switched' = (switched \/ panel \notin {None, v} \/ calls # Gone(calls))
      /\ evidence' = None /\ UNCHANGED <<labels, notes, folder, publishing, faults>>
  BY DEF OpenTools, CloseReader, kept, bounds
<1>2. ~switched' => ~switched /\ panel \in {None, v}
  BY <1>1
<1>3. PanelInv'
  BY <1>1, <1>2 DEF BenchInv, PanelInv, Entries
<1>4. CallsInv'
  BY <1>1, <1>2 DEF BenchInv, CallsInv, IsCall
<1>5. KeptInv'
  BY <1>1, <1>2 DEF BenchInv, KeptInv
<1>6. FolderInv'
  BY <1>1, <1>2 DEF BenchInv, FolderInv
<1>7. PublishingInv'
  BY <1>1, <1>2 DEF BenchInv, PublishingInv, Export
<1>8. WritingInv'
  BY <1>1, WritingStays
<1> QED BY <1>1, <1>3, <1>4, <1>5, <1>6, <1>7, <1>8 DEF BenchInv
\* A file of the owner's is not touched, and an export that ends writes all or nothing.
Whole ==
  /\ \A s \in Slots : folder[s].kind = "theirs" => folder'[s].kind = "theirs"
  /\ publishing # None /\ publishing' = None /\ faults' = faults =>
       \/ \A s \in publishing.taken : folder'[s] = Copy(publishing)
       \/ \A s \in publishing.taken : folder'[s].kind = "free"

\* A document that a call works on is the version it names.
LEMMA DocumentFacts ==
  ASSUME BenchInv, NEW c \in calls, NEW v \in Document(c)
  PROVE  /\ v = c.at /\ v \in Versions /\ c.shown \in Versions
         /\ Made(v, c).at = v /\ Made(v, c).shown = c.shown
         /\ ~switched => Made(v, c).at = Made(v, c).shown
BY DEF BenchInv, CallsInv, IsCall, Document, Made

LEMMA Handled ==
  ASSUME BenchInv, NEW c \in calls, Handle(c)
  PROVE  BenchInv'
<1>1. /\ calls' = calls \ {c} /\ switched' = switched /\ faults' = faults
      /\ UNCHANGED <<tools, panel, inspecting, evidence>>
  BY DEF Handle, Answered, bounds, reader
<1>2. UNCHANGED <<folder, publishing>>
  BY DEF Handle, SetSpeakerLabel, RemoveSpeakerLabel, CreateResearchNote, Rejected, kept
<1>3. KeptInv'
  <2> SUFFICES ASSUME ~switched, NEW x \in labels' \cup notes' PROVE x.at = x.shown
    BY <1>1 DEF KeptInv
  <2>1. \A y \in labels \cup notes : y.at = y.shown
    BY DEF BenchInv, KeptInv
  <2>2. CASE SetSpeakerLabel(c)
    <3>1. PICK v \in Document(c) :
            /\ labels' = {l \in labels : l.at # v} \cup {Made(v, c)} /\ notes' = notes
      BY <2>2 DEF SetSpeakerLabel
    <3>2. x \in labels \cup notes \/ x = Made(v, c)
      BY <3>1
    <3> QED BY <2>1, <3>2, DocumentFacts
  <2>3. CASE RemoveSpeakerLabel(c)
    BY <2>1, <2>3 DEF RemoveSpeakerLabel
  <2>4. CASE CreateResearchNote(c)
    <3>1. PICK v \in Document(c) : notes' = notes \cup {Made(v, c)} /\ labels' = labels
      BY <2>4 DEF CreateResearchNote
    <3>2. x \in labels \cup notes \/ x = Made(v, c)
      BY <3>1
    <3> QED BY <2>1, <3>2, DocumentFacts
  <2>5. CASE Rejected(c)
    BY <2>1, <2>5 DEF Rejected, kept
  <2> QED BY <2>2, <2>3, <2>4, <2>5 DEF Handle
<1>4. PanelInv'
  BY <1>1, PanelFrame DEF BenchInv, PanelInv
<1>5. CallsInv' /\ WritingInv'
  BY <1>1, <1>2, CallsFrame, WritingStays
<1>6. FolderInv' /\ PublishingInv'
  BY <1>1, <1>2, FolderFrame, PublishingFrame
<1> QED BY <1>1, <1>3, <1>4, <1>5, <1>6 DEF BenchInv

LEMMA ExportStarts ==
  ASSUME BenchInv, NEW c \in calls, Publish(c)
  PROVE  BenchInv' /\ Whole
<1>1. /\ UNCHANGED <<tools, panel, inspecting, evidence, switched, labels, notes, folder, faults>>
      /\ publishing = None
  BY DEF Publish, reader, bounds
<1>2. CallsInv'
  <2> SUFFICES ASSUME NEW d \in calls' PROVE IsCall(d) /\ (~switched => d.at = d.shown)
    BY <1>1 DEF CallsInv, IsCall
  <2>1. \A x \in calls : IsCall(x) /\ (~switched => x.at = x.shown)
    BY DEF BenchInv, CallsInv
  <2>2. PICK k : calls' = (calls \ {c}) \cup {[c EXCEPT !.writing = k]}
    BY DEF Publish
  <2>3. CASE d = [c EXCEPT !.writing = k]
    BY <2>1, <2>3, CallWrites
  <2> QED BY <2>1, <2>2, <2>3
<1>3. PICK v \in Document(c) : publishing' = [at |-> v, shown |-> c.shown, taken |-> {}, saved |-> {}]
  BY DEF Publish
<1>4. publishing'.at = v /\ publishing'.shown = c.shown /\ publishing'.taken = {} /\ publishing'.saved = {}
  BY <1>3
<1>5. v \in Versions /\ c.shown \in Versions /\ (~switched => v = c.shown)
  BY DocumentFacts DEF BenchInv, CallsInv
<1>6. publishing' \in Export
  BY <1>3, <1>5 DEF Export
<1>7. PublishingInv'
  BY <1>1, <1>4, <1>5, <1>6 DEF PublishingInv
<1>8. KeptInv' /\ FolderInv' /\ PanelInv'
  BY <1>1, KeptFrame, FolderFrame, PanelFrame DEF BenchInv, PanelInv
<1>9. Whole
  BY <1>1 DEF Whole
<1>10. publishing' # None
  BY <1>6, NoneAssumption DEF Export
<1>11. WritingInv'
  <2>1. \A x \in calls : ~x.writing
    BY <1>1 DEF BenchInv, WritingInv
  <2>2. calls' \subseteq calls \cup {[c EXCEPT !.writing = TRUE]}
    BY DEF Publish
  <2> QED BY <1>10, <2>1, <2>2 DEF WritingInv
<1> QED BY <1>1, <1>2, <1>7, <1>8, <1>9, <1>11 DEF BenchInv

\* The steps of an export that leave the page and what is kept alone.
LEMMA WritingFrame ==
  ASSUME BenchInv, UNCHANGED <<labels, notes, bench, reader, faults>>, FolderInv', PublishingInv',
         publishing' = None => publishing = None
  PROVE  BenchInv'
<1>1. UNCHANGED <<tools, panel, inspecting, calls, switched, evidence>>
  BY DEF bench, reader
<1>2. WritingInv'
  BY <1>1 DEF BenchInv, WritingInv
<1> QED
  BY <1>1, <1>2, KeptFrame, PanelFrame, CallsFrame DEF BenchInv, PanelInv

LEMMA EntryFacts ==
  ASSUME NEW k
  PROVE  Entry(k).kind = k
BY DEF Entry

LEMMA CopyFacts ==
  ASSUME NEW c
  PROVE  Copy(c).kind = "copy" /\ Copy(c).at = c.at /\ Copy(c).shown = c.shown
BY DEF Copy

LEMMA FolderWrites ==
  ASSUME BenchInv, switched' = switched, NEW s \in Slots, NEW e, folder' = [folder EXCEPT ![s] = e],
         ~switched /\ e.kind = "copy" => e.at = e.shown
  PROVE  FolderInv' /\ folder'[s] = e /\ \A t \in Slots : t # s => folder'[t] = folder[t]
BY DEF BenchInv, FolderInv

LEMMA Reserves ==
  ASSUME BenchInv, NEW f \in Formats, ReservePublication(f)
  PROVE  BenchInv' /\ Whole
<1>1. UNCHANGED <<labels, notes, bench, reader, faults, switched>> /\ publishing # None
  BY DEF ReservePublication, bounds, bench
<1>2. PICK n \in 1 .. MaxNames :
        /\ folder[<<f, n>>].kind = "free"
        /\ folder' = [folder EXCEPT ![<<f, n>>] = Entry("empty")]
        /\ publishing' = [publishing EXCEPT !.taken = @ \cup {<<f, n>>}]
  BY DEF ReservePublication
<1>3. PICK s \in Slots : s = <<f, n>>
  BY DEF Slots
<1>4. folder[s].kind = "free" /\ folder' = [folder EXCEPT ![s] = Entry("empty")]
      /\ publishing' = [publishing EXCEPT !.taken = @ \cup {s}]
  BY <1>2, <1>3
<1>5. FolderInv' /\ folder'[s] = Entry("empty") /\ \A t \in Slots : t # s => folder'[t] = folder[t]
  <2> DEFINE e == Entry("empty")
  <2>1. e.kind # "copy" /\ folder' = [folder EXCEPT ![s] = e] /\ switched' = switched
    BY <1>1, <1>4, EntryFacts
  <2> HIDE DEF e
  <2>2. FolderInv' /\ folder'[s] = e /\ \A t \in Slots : t # s => folder'[t] = folder[t]
    BY <2>1, FolderWrites
  <2> QED BY <2>2 DEF e
<1>6. publishing \in Export
  BY <1>1 DEF BenchInv, PublishingInv
<1>7. /\ publishing' \in Export /\ publishing'.at = publishing.at /\ publishing'.shown = publishing.shown
      /\ publishing'.taken = publishing.taken \cup {s} /\ publishing'.saved = publishing.saved
  BY <1>4, <1>6 DEF Export
<1>8. publishing' # None
  BY <1>7, NoneAssumption DEF Export
<1>9. \A t \in publishing.saved : folder[t].kind = "copy" /\ t \in Slots
  BY <1>1, <1>6, CopyFacts DEF BenchInv, PublishingInv, Export
<1>10. s \notin publishing.saved
  BY <1>4, <1>9
<1>11. PublishingInv'
  <2>1. Copy(publishing') = Copy(publishing)
    BY <1>7 DEF Copy
  <2>2. \A t \in publishing'.saved : folder'[t] = Copy(publishing')
    BY <1>1, <1>5, <1>7, <1>9, <1>10, <2>1 DEF BenchInv, PublishingInv
  <2>3. \A t \in publishing'.taken \ publishing'.saved : folder'[t] = Entry("empty")
    BY <1>1, <1>5, <1>6, <1>7 DEF BenchInv, PublishingInv, Export
  <2>4. publishing'.saved \subseteq publishing'.taken /\ (~switched => publishing'.at = publishing'.shown)
    BY <1>1, <1>7 DEF BenchInv, PublishingInv
  <2> QED BY <1>1, <1>7, <2>2, <2>3, <2>4 DEF PublishingInv, Export, Copy, Entry
<1>12. Whole
  BY <1>4, <1>5, <1>8 DEF Whole
<1> QED BY <1>1, <1>5, <1>8, <1>11, <1>12, WritingFrame
LEMMA Saves ==
  ASSUME BenchInv, NEW s \in Slots, SavePublication(s)
  PROVE  BenchInv' /\ Whole
<1>1. UNCHANGED <<labels, notes, bench, reader, faults, switched>> /\ publishing # None
      /\ s \in publishing.taken \ publishing.saved
  BY DEF SavePublication, bounds, bench
<1>2. folder' = [folder EXCEPT ![s] = Copy(publishing)]
      /\ publishing' = [publishing EXCEPT !.saved = @ \cup {s}]
  BY DEF SavePublication
<1>3. ~switched => publishing.at = publishing.shown
  BY <1>1 DEF BenchInv, PublishingInv
<1>4. FolderInv' /\ folder'[s] = Copy(publishing) /\ \A t \in Slots : t # s => folder'[t] = folder[t]
  <2> DEFINE e == Copy(publishing)
  <2>1. (~switched => e.at = e.shown) /\ folder' = [folder EXCEPT ![s] = e] /\ switched' = switched
    BY <1>1, <1>2, <1>3, CopyFacts
  <2> HIDE DEF e
  <2>2. FolderInv' /\ folder'[s] = e /\ \A t \in Slots : t # s => folder'[t] = folder[t]
    BY <2>1, FolderWrites
  <2> QED BY <2>2 DEF e
<1>5. publishing \in Export
  BY <1>1 DEF BenchInv, PublishingInv
<1>6. /\ publishing' \in Export /\ publishing'.at = publishing.at /\ publishing'.shown = publishing.shown
      /\ publishing'.taken = publishing.taken /\ publishing'.saved = publishing.saved \cup {s}
  BY <1>2, <1>5 DEF Export
<1>7. publishing' # None
  BY <1>6, NoneAssumption DEF Export
<1>8. folder[s].kind = "empty"
  BY <1>1, EntryFacts DEF BenchInv, PublishingInv
<1>9. PublishingInv'
  <2>1. Copy(publishing') = Copy(publishing)
    BY <1>6 DEF Copy
  <2>2. \A t \in publishing'.saved : folder'[t] = Copy(publishing')
    BY <1>1, <1>4, <1>5, <1>6, <2>1 DEF BenchInv, PublishingInv, Export
  <2>3. \A t \in publishing'.taken \ publishing'.saved : folder'[t] = Entry("empty")
    BY <1>1, <1>4, <1>5, <1>6 DEF BenchInv, PublishingInv, Export
  <2>4. publishing'.saved \subseteq publishing'.taken /\ (~switched => publishing'.at = publishing'.shown)
    BY <1>1, <1>3, <1>6 DEF BenchInv, PublishingInv
  <2> QED BY <1>1, <1>6, <2>2, <2>3, <2>4 DEF PublishingInv, Export, Copy, Entry
<1>10. Whole
  BY <1>4, <1>7, <1>8 DEF Whole
<1> QED BY <1>1, <1>4, <1>7, <1>9, <1>10, WritingFrame

\* An export that ends leaves the page as it was, but for its call.
LEMMA ExportEnds ==
  ASSUME BenchInv, NEW c \in calls, c.writing, Answered(c), publishing' = None, FolderInv', faults' \in Nat,
         UNCHANGED <<labels, notes>>
  PROVE  BenchInv'
<1>1. /\ calls' = calls \ {c} /\ UNCHANGED <<tools, panel, inspecting, evidence, switched>>
  BY DEF Answered, reader
<1>2. PanelInv' /\ CallsInv' /\ KeptInv'
  BY <1>1, PanelFrame, CallsFrame, KeptFrame DEF BenchInv, PanelInv
<1>3. WritingInv'
  BY <1>1 DEF BenchInv, WritingInv
<1> QED BY <1>2, <1>3 DEF BenchInv, PublishingInv

LEMMA Ended ==
  ASSUME BenchInv, NEW c \in calls, Published(c)
  PROVE  BenchInv' /\ Whole
<1>4. c.writing /\ publishing # None
  BY DEF Published, BenchInv, WritingInv
<1>1. /\ Answered(c) /\ publishing' = None /\ publishing.saved = publishing.taken
      /\ UNCHANGED <<labels, notes, folder, faults, switched>>
  BY DEF Published, bounds, Answered
<1>2. BenchInv'
  BY <1>1, <1>4, FolderFrame, ExportEnds DEF BenchInv
<1>3. Whole
  BY <1>1, <1>4 DEF Whole, BenchInv, PublishingInv
<1> QED BY <1>2, <1>3

LEMMA RolledBack ==
  ASSUME BenchInv, NEW c \in calls, NEW left, Rollback(c, left)
  PROVE  BenchInv' /\ Whole
<1>9. c.writing /\ publishing # None
  BY DEF Rollback, BenchInv, WritingInv
<1>1. /\ Answered(c) /\ publishing' = None /\ UNCHANGED <<labels, notes, switched>>
      /\ left \subseteq publishing.taken
      /\ folder' = [s \in Slots |-> IF s \in publishing.taken \ left THEN Entry("free") ELSE folder[s]]
      /\ faults' = faults + (IF left = {} THEN 0 ELSE 1)
  BY DEF Rollback, Answered
<1>2. faults \in Nat /\ faults' \in Nat /\ (faults' = faults => left = {})
  BY <1>1 DEF BenchInv
<1>3. \A s \in Slots : folder'[s] = IF s \in publishing.taken \ left THEN Entry("free") ELSE folder[s]
  BY <1>1
<1>4. FolderInv'
  <2>1. folder' = [s \in Slots |-> folder'[s]]
    BY <1>1
  <2>2. \A s \in Slots : ~switched /\ folder'[s].kind = "copy" => folder'[s].at = folder'[s].shown
    BY <1>3, EntryFacts DEF BenchInv, FolderInv
  <2> QED BY <1>1, <2>1, <2>2 DEF FolderInv
<1>5. BenchInv'
  BY <1>1, <1>2, <1>4, <1>9, ExportEnds
<1>6. publishing.taken \subseteq Slots
  BY <1>9 DEF BenchInv, PublishingInv, Export
<1>7. \A s \in publishing.taken : folder[s].kind # "theirs"
  BY <1>9, EntryFacts, CopyFacts DEF BenchInv, PublishingInv
<1>8. Whole
  BY <1>1, <1>2, <1>3, <1>6, <1>7, EntryFacts DEF Whole
<1> QED BY <1>5, <1>8

LEMMA Killed ==
  ASSUME BenchInv, Kill
  PROVE  BenchInv' /\ Whole
<1>1. /\ faults' = faults + 1 /\ publishing' = None /\ evidence' = None /\ calls' = {}
      /\ tools' = None /\ panel' = None /\ inspecting' = None
      /\ UNCHANGED <<switched, labels, notes, folder>>
  BY DEF Kill
<1>2. faults \in Nat /\ faults' \in Nat /\ faults' # faults
  BY <1>1 DEF BenchInv
<1>3. PanelInv' /\ CallsInv' /\ WritingInv' /\ PublishingInv' /\ KeptInv' /\ FolderInv'
  BY <1>1, KeptFrame, FolderFrame DEF PanelInv, CallsInv, WritingInv, PublishingInv, Entries
<1> QED BY <1>1, <1>2, <1>3 DEF BenchInv, Whole

\* The owner puts a file where none is: in no name an export has taken.
LEMMA Changed ==
  ASSUME BenchInv, Change
  PROVE  BenchInv' /\ Whole
<1>1. UNCHANGED <<labels, notes, publishing, reader, bench, faults, switched>>
  BY DEF Change, bench
<1>2. CASE folder' = folder
  <2>1. FolderInv' /\ PublishingInv'
    BY <1>1, <1>2, FolderFrame, PublishingFrame
  <2>2. Whole
    BY <1>1, <1>2 DEF Whole
  <2> QED BY <1>1, <2>1, <2>2, WritingFrame
<1>3. ASSUME NEW s \in Slots, folder[s].kind = "free", folder' = [folder EXCEPT ![s] = Entry("theirs")]
      PROVE  BenchInv' /\ Whole
  <2>1. FolderInv' /\ folder'[s] = Entry("theirs") /\ \A t \in Slots : t # s => folder'[t] = folder[t]
    <3> DEFINE e == Entry("theirs")
    <3>1. e.kind # "copy" /\ folder' = [folder EXCEPT ![s] = e] /\ switched' = switched
      BY <1>1, <1>3, EntryFacts
    <3> HIDE DEF e
    <3>2. FolderInv' /\ folder'[s] = e /\ \A t \in Slots : t # s => folder'[t] = folder[t]
      BY <3>1, FolderWrites
    <3> QED BY <3>2 DEF e
  <2>2. publishing # None => s \notin publishing.taken
    BY <1>3, EntryFacts, CopyFacts DEF BenchInv, PublishingInv
  <2>3. PublishingInv'
    BY <1>1, <2>1, <2>2 DEF BenchInv, PublishingInv, Export, Copy, Entry
  <2>4. Whole
    BY <1>1, <1>3, <2>1, EntryFacts DEF Whole
  <2> QED BY <1>1, <2>1, <2>3, <2>4, WritingFrame
<1> QED BY <1>2, <1>3 DEF Change
\* A call of the page, about what it shows.
LEMMA CallStarts ==
  ASSUME BenchInv, NEW kind, NEW at \in Versions, NEW shown \in Versions, Call(kind, at, shown),
         ~switched => at = shown, UNCHANGED <<switched, publishing>>
  PROVE  CallsInv' /\ WritingInv'
<1> DEFINE c == [kind |-> kind, at |-> at, shown |-> shown, here |-> kind # "note", writing |-> FALSE]
<1>1. calls' = calls \cup {c}
  BY DEF Call
<1>2. IsCall(c) /\ c.at = at /\ c.shown = shown
  BY CallMade
<1>3. ~c.writing
  OBVIOUS
<1> HIDE DEF c
<1>4. CallsInv'
  <2> SUFFICES ASSUME NEW d \in calls' PROVE IsCall(d) /\ (~switched => d.at = d.shown)
    BY DEF CallsInv, IsCall
  <2> QED BY <1>1, <1>2 DEF BenchInv, CallsInv
<1>5. WritingInv'
  BY <1>1, <1>3 DEF BenchInv, WritingInv
<1> QED BY <1>4, <1>5

\* What changes nothing of the tools but what the reader shows.
LEMMA BenchStays ==
  ASSUME BenchInv, UNCHANGED <<kept, bench, faults>>, evidence' \in Entries
  PROVE  BenchInv' /\ Whole
<1>1. UNCHANGED <<tools, panel, inspecting, calls, switched, labels, notes, folder, publishing>>
  BY DEF bench, kept
<1>2. PanelInv' /\ CallsInv' /\ WritingInv'
  BY <1>1, PanelFrame, CallsFrame, WritingStays
<1> QED BY <1>1, <1>2, PageStep DEF Whole

\* The tools are left for something else.
LEMMA ToolsLeft ==
  ASSUME BenchInv, CloseTools, UNCHANGED <<kept, faults>>, evidence' \in Entries
  PROVE  BenchInv' /\ Whole
<1>1. UNCHANGED <<labels, notes, folder, publishing>>
  BY DEF kept
<1>2. /\ CallsInv' /\ WritingInv'
      /\ tools' = None /\ panel' = None /\ inspecting' = None /\ switched' = switched
  BY <1>1, ToolsClose
<1>3. PanelInv'
  BY <1>2 DEF PanelInv, Entries
<1> QED BY <1>1, <1>2, <1>3, PageStep DEF Whole

LEMMA BenchStep ==
  ASSUME BenchInv, [Next]_vars
  PROVE  BenchInv' /\ Whole
<1>1. evidence \in Entries /\ tools \in Entries /\ panel \in Entries /\ inspecting \in Entries
      /\ (~switched => panel \in {None, tools} /\ inspecting \in {None, tools})
  BY DEF BenchInv, PanelInv
<1>2. None \in Entries /\ \A v \in Versions : v \in Entries
  BY DEF Entries
<1>3. CASE Search \/ LeaveTools \/ (\E v \in Versions : OpenEvidence(v))
  BY <1>1, <1>2, <1>3, ToolsLeft DEF Search, LeaveTools, OpenEvidence, CloseReader, reader, bounds
<1>4. CASE UNCHANGED vars \/ Found \/ LeaveReader \/ Prepare \/ RefreshLibrary
  BY <1>1, <1>2, <1>4, BenchStays
  DEF vars, Found, LeaveReader, Prepare, RefreshLibrary, CloseReader, reader, bounds
<1>5. CASE \E c \in prepares : Authorize(c) \/ Open(c) \/ Prepared(c)
  BY <1>1, <1>5, BenchStays DEF Authorize, Open, Prepared, Refused, Insert, bounds
<1>6. CASE \E v \in Versions : OpenTools(v)
  <2>1. UNCHANGED <<folder, publishing>>
    BY <1>6 DEF OpenTools, kept
  <2> QED BY <1>6, <2>1, ToolsOpen DEF Whole
<1>7. CASE SaveNote
  <2>1. /\ UNCHANGED <<tools, panel, inspecting, switched, evidence>>
        /\ UNCHANGED <<labels, notes, folder, publishing, faults>>
    BY <1>7 DEF SaveNote, reader, kept, bounds
  <2>2. evidence \in Versions /\ Call("note", evidence, evidence)
    BY <1>1, <1>7 DEF SaveNote, Entries
  <2>3. CallsInv' /\ WritingInv'
    BY <2>1, <2>2, CallStarts
  <2> QED BY <1>1, <2>1, <2>3, PanelFrame, PageStep DEF Whole
<1>8. CASE \E kind \in {"name", "remove", "export"} : Click(kind)
  <2>1. PICK kind : Click(kind)
    BY <1>8
  <2>2. /\ UNCHANGED <<tools, panel, inspecting, switched, evidence>>
        /\ UNCHANGED <<labels, notes, folder, publishing, faults>>
    BY <2>1 DEF Click, reader, kept, bounds
  <2>3. tools \in Versions /\ panel \in Versions /\ (~switched => tools = panel) /\ Call(kind, tools, panel)
    BY <1>1, <2>1 DEF Click, Entries
  <2>4. CallsInv' /\ WritingInv'
    BY <2>2, <2>3, CallStarts
  <2> QED BY <1>1, <2>2, <2>4, PanelFrame, PageStep DEF Whole
<1>9. CASE Inspected
  <2>1. /\ UNCHANGED <<tools, calls, switched, evidence>> /\ inspecting' = None
        /\ panel' \in {panel, inspecting}
        /\ UNCHANGED <<labels, notes, folder, publishing, faults>>
    BY <1>9 DEF Inspected, reader, kept, bounds
  <2>2. PanelInv'
    BY <1>1, <1>2, <2>1 DEF PanelInv, Entries
  <2>3. CallsInv' /\ WritingInv'
    BY <2>1, CallsFrame, WritingStays
  <2> QED BY <2>1, <2>2, <2>3, PageStep DEF Whole
<1>10. CASE \E c \in calls : \/ Handle(c) \/ Publish(c) \/ Published(c)
                             \/ \E left \in SUBSET Slots : Rollback(c, left)
  <2>1. ASSUME NEW c \in calls, Handle(c) PROVE Whole
    BY <2>1 DEF Handle, SetSpeakerLabel, RemoveSpeakerLabel, CreateResearchNote, Rejected, kept, Whole
  <2> QED BY <1>10, <2>1, Handled, ExportStarts, Ended, RolledBack
<1>11. CASE (\E f \in Formats : ReservePublication(f)) \/ (\E s \in Slots : SavePublication(s))
  BY <1>11, Reserves, Saves
<1>12. CASE Kill \/ Change
  BY <1>12, Killed, Changed
<1> QED
  BY <1>3, <1>4, <1>5, <1>6, <1>7, <1>8, <1>9, <1>10, <1>11, <1>12 DEF Next

LEMMA BenchInvInit == Init => BenchInv
<1> SUFFICES ASSUME Init PROVE BenchInv
  OBVIOUS
<1>1. faults = 0 /\ calls = {} /\ labels = {} /\ notes = {} /\ publishing = None
      /\ evidence = None /\ tools = None /\ panel = None /\ inspecting = None
  BY DEF Init
<1>2. folder = [s \in Slots |-> folder[s]] /\ \A s \in Slots : folder[s].kind = "free"
  BY EntryFacts DEF Init
<1> QED
  BY <1>1, <1>2
  DEF BenchInv, PanelInv, CallsInv, WritingInv, KeptInv, FolderInv, PublishingInv, Entries

\* Until a transcript is opened over another in the tools panel, a name, a note
\* and a copy are of the version that was shown when they were asked for, for any
\* transcripts, formats and limits.
THEOREM ActsOnShown == Spec => []ActsOnWhatIsShown
<1>1. Init => BenchInv
  BY BenchInvInit
<1>2. BenchInv /\ [Next]_vars => BenchInv'
  BY BenchStep
<1>3. BenchInv => ActsOnWhatIsShown
  BY DEF BenchInv, KeptInv, FolderInv, ActsOnWhatIsShown, Exports
<1> QED BY <1>1, <1>2, <1>3, PTL DEF Spec

\* An export writes all its copies or none, and over nobody's file, for any
\* formats, names and limits.
THEOREM ExportsHold == Spec => ExportsAreWhole
<1>1. Init => BenchInv
  BY BenchInvInit
<1>2. BenchInv /\ [Next]_vars => BenchInv'
  BY BenchStep
<1>3. BenchInv /\ [Next]_vars => Whole
  BY BenchStep
<1> QED BY <1>1, <1>2, <1>3, PTL DEF Spec, ExportsAreWhole, Whole
=============================================================================
