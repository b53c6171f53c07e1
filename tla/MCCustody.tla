------------------------------ MODULE MCCustody ------------------------------
(* What Scholion holds: the material of one transcript, with each kind of   *)
(* request and everything at once; and the models, with a release without a *)
(* policy and two that pin a revision each.  The two share no state and are *)
(* followed apart.                                                          *)
EXTENDS Custody, ModelCustody, TLC

VARIABLE held

MCRequests ==
  {{"library-view"}, {"derived-artifacts", "execution-state", "saved-searches"},
   {"canonical-transcript"}, {"canonical-transcript", "research-notes"},
   {"research-notes", "saved-searches"}, {"source-recording"}, Scopes}

MCPolicies ==
  [n \in 0 .. MaxRelease |->
     IF n = 0 THEN NoModel ELSE [m \in Models |-> IF n = 1 THEN "r1" ELSE "r2"]]

Alike == Permutations(Texts) \cup Permutations(Models)

MCInit ==
  /\ held \in {"transcript", "models"} /\ Init /\ ModelInit
  /\ held = "models" =>
       ~semantic /\ ~workspace /\ searches = {} /\ \A n \in Notes : notes[n] = None

MCNext ==
  \/ held = "transcript" /\ Next /\ UNCHANGED <<held, modelVars>>
  \/ held = "models" /\ ModelNext /\ UNCHANGED <<held, vars>>
=============================================================================
