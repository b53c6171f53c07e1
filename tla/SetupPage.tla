------------------------------ MODULE SetupPage ------------------------------
(***************************************************************************)
(* The page of the desktop on which a transcription is set up               *)
(* (ProcessingCenter.tsx): a recording or an earlier job is picked, Python  *)
(* is asked for a plan, the plan is shown for review, and Start sends the   *)
(* page's present choices under the plan's job identity.  Every call is     *)
(* answered later, in any order, and one flag says that some call is out.   *)
(* Not every control heeds that flag.                                       *)
(***************************************************************************)
EXTENDS Naturals, FiniteSets

CONSTANTS
  Recordings, TracksOf,  \* recordings on disk and the audio tracks of each
  Jobs, RecordingOf,     \* earlier jobs and the recording of each
  Profiles, Methods,     \* transcription preferences; strategies to ask for
  MaxRequests,           \* bound: calls out at once
  Patient,               \* whether the user waits for an answer before touching the page
  Unset

ASSUME SetupAssumption ==
  /\ TracksOf \in [Recordings -> (SUBSET Nat) \ {{}}]
  /\ RecordingOf \in [Jobs -> Recordings]
  /\ MaxRequests \in Nat \ {0} /\ Patient \in BOOLEAN

VARIABLES
  picked,    \* selectedPath
  retrying,  \* retrySourceJobId
  wanted,    \* profile, strategyId, audioStreamIndex, enhance
  review,    \* preflight: the plan on the page
  occupied,  \* busy
  requests,  \* the calls that are out
  started    \* history: the last run, with the plan that was on the page

setupVars == <<picked, retrying, wanted, review, occupied, requests, started>>

SetupInit ==
  /\ picked = Unset /\ retrying = Unset /\ review = Unset /\ started = Unset
  /\ \E p \in Profiles :
       wanted = [profile |-> p, method |-> Unset, track |-> Unset, enhance |-> FALSE]
  /\ occupied = TRUE /\ requests = {[kind |-> "refresh"]}

-----------------------------------------------------------------------------
(* What Python answers.                                                     *)

FirstTrack(r) == CHOOSE t \in TracksOf[r] : \A u \in TracksOf[r] : t <= u

\* The user is asked for a track when none was named and there are several.
MustChoose(r, o) == o.track = Unset /\ Cardinality(TracksOf[r]) > 1

Selectable(r, o) == o.track = Unset \/ o.track \in TracksOf[r]

Preflight(r, o) ==
  [recording |-> r, profile |-> o.profile, method |-> o.method, enhance |-> o.enhance,
   track |-> IF o.track = Unset THEN FirstTrack(r) ELSE o.track,
   choose |-> MustChoose(r, o)]

\* What the worker plans again from the choices it is sent, and runs.
Transcribed(r, o) == IF Selectable(r, o) THEN Preflight(r, o) ELSE Unset

TrackAfter(plan) == IF plan.choose THEN Unset ELSE plan.track

-----------------------------------------------------------------------------
(* The controls.  Buttons marked `disabled={busy}` wait; the others do not. *)

Unhindered == Patient => ~occupied

Send(c) ==
  /\ Cardinality(requests) < MaxRequests
  /\ requests' = requests \cup {c} /\ occupied' = TRUE

\* Mutant: the plan of the recording picked before stays on the page.
PickKeepsPlan(r) ==
  /\ picked' = r /\ retrying' = Unset
  /\ wanted' = [wanted EXCEPT !.track = Unset]
  /\ UNCHANGED <<review, occupied, requests, started>>

Pick(r) ==
  /\ picked' = r /\ retrying' = Unset /\ review' = Unset
  /\ wanted' = [wanted EXCEPT !.track = Unset]
  /\ UNCHANGED <<occupied, requests, started>>

ChooseRecording == ~occupied /\ \E r \in Recordings : Pick(r)
PickDiscovered == Unhindered /\ \E r \in Recordings : Pick(r)

\* Another preference clears the plan and has the machine checked again.
ChangeProfile ==
  /\ Unhindered
  /\ \E p \in Profiles \ {wanted.profile} :
       wanted' = [wanted EXCEPT !.profile = p, !.method = Unset, !.track = Unset]
  /\ review' = Unset /\ retrying' = Unset
  /\ Send([kind |-> "refresh"])
  /\ UNCHANGED <<picked, started>>

\* The advanced options are on the page while a plan is.
ChangeMethod ==
  /\ Unhindered /\ review # Unset
  /\ \E s \in Methods \cup {Unset} : s # wanted.method /\ wanted' = [wanted EXCEPT !.method = s]
  /\ review' = Unset
  /\ UNCHANGED <<picked, retrying, occupied, requests, started>>

ChangeEnhance ==
  /\ Unhindered /\ review # Unset
  /\ wanted' = [wanted EXCEPT !.enhance = ~wanted.enhance]
  /\ review' = Unset
  /\ UNCHANGED <<picked, retrying, occupied, requests, started>>

Page == <<picked, retrying, review, started>>

Check ==
  /\ ~occupied
  /\ IF retrying # Unset
     THEN Send([kind |-> "retry", of |-> retrying, options |-> wanted])
     ELSE picked # Unset /\ Send([kind |-> "check", of |-> picked, options |-> wanted])
  /\ UNCHANGED wanted /\ UNCHANGED Page

\* Retry from beginning asks without the track the page has selected.
PrepareRetry ==
  /\ Unhindered
  /\ \E j \in Jobs :
       Send([kind |-> "retry", of |-> j, options |-> [wanted EXCEPT !.track = Unset]])
  /\ UNCHANGED wanted /\ UNCHANGED Page

ChooseTrack ==
  /\ ~occupied /\ review # Unset /\ {picked, retrying} # {Unset}
  /\ \E t \in TracksOf[review.recording] :
       LET options == [wanted EXCEPT !.track = t]
       IN /\ wanted' = options
          /\ Send([kind |-> "track", previous |-> wanted.track, options |-> options,
                   of |-> IF retrying # Unset THEN RecordingOf[retrying] ELSE picked])
  /\ UNCHANGED Page

\* Start sends what the page has selected now, not what the plan was made for.
Start ==
  /\ ~occupied /\ review # Unset /\ ~review.choose /\ {picked, retrying} # {Unset}
  /\ LET r == IF retrying # Unset THEN RecordingOf[retrying] ELSE picked
     IN started' = [run |-> Transcribed(r, wanted), reviewed |-> review]
  /\ Send([kind |-> "start"])
  /\ UNCHANGED <<picked, retrying, wanted, review>>

\* Resume, Remove temporary files, Stop and the models' buttons.
OtherCall ==
  /\ Unhindered /\ Send([kind |-> "other"])
  /\ UNCHANGED wanted /\ UNCHANGED Page

-----------------------------------------------------------------------------
(* The answers.  Each one lowers the flag, whatever else is out.            *)

ShowPlan(plan, track) ==
  /\ review' = plan
  /\ wanted' = [wanted EXCEPT !.track = track]

CheckAnswered(c) ==
  /\ c.kind = "check"
  /\ \/ Selectable(c.of, c.options) /\ LET plan == Preflight(c.of, c.options)
                                       IN ShowPlan(plan, TrackAfter(plan)) /\ retrying' = Unset
     \/ review' = Unset /\ UNCHANGED <<wanted, retrying>>
  /\ UNCHANGED picked

RetryAnswered(c) ==
  /\ c.kind = "retry"
  /\ \/ /\ Selectable(RecordingOf[c.of], c.options)
        /\ LET plan == Preflight(RecordingOf[c.of], c.options) IN ShowPlan(plan, TrackAfter(plan))
        /\ picked' = Unset /\ retrying' = c.of
     \/ UNCHANGED <<picked, retrying, wanted, review>>

TrackAnswered(c) ==
  /\ c.kind = "track"
  /\ \/ Selectable(c.of, c.options) /\ LET plan == Preflight(c.of, c.options)
                                       IN ShowPlan(plan, plan.track)
     \/ wanted' = [wanted EXCEPT !.track = c.previous] /\ UNCHANGED review
  /\ UNCHANGED <<picked, retrying>>

OtherAnswered(c) ==
  c.kind \in {"refresh", "start", "other"} /\ UNCHANGED <<picked, retrying, wanted, review>>

Answer ==
  /\ \E c \in requests :
       /\ requests' = requests \ {c}
       /\ CheckAnswered(c) \/ RetryAnswered(c) \/ TrackAnswered(c) \/ OtherAnswered(c)
  /\ occupied' = FALSE
  /\ UNCHANGED started

SetupNext ==
  \/ ChooseRecording \/ PickDiscovered \/ ChangeProfile \/ ChangeMethod \/ ChangeEnhance
  \/ Check \/ PrepareRetry \/ ChooseTrack \/ Start \/ OtherCall \/ Answer

SetupSpec == SetupInit /\ [][SetupNext]_setupVars

-----------------------------------------------------------------------------
\* The transcription that is started is that of the plan on the page, in its
\* recording, preference, strategy, track and enhancement: nothing the user did
\* between asking for a plan and pressing Start went past the review
\* (docs/architecture/processing-center.md, start flow, steps 6 and 7).
RunsWhatWasReviewed ==
  started # Unset => started.run \in {Unset, started.reviewed}
=============================================================================
