---------------------------- MODULE MCUnitWriting ----------------------------
(***************************************************************************)
(* Runs for TLC: one run writing its units, or the jobs that share a       *)
(* clone.  The two share no state (to the units the clone is what the      *)
(* agents happen to read), so each behaviour goes through one of them.     *)
(***************************************************************************)
EXTENDS UnitWriting, CloneStore, TLC
CONSTANTS c, p, q, r, b1, b2, cut
MCOrder == <<c, p, q, r>>
MCParent == c :> p @@ p :> p @@ q :> q @@ r :> r
MCPlans == {{c, p}, {c, q, r}}
MCDrawings == [u \in {c, p, q, r} |->
  IF u \in {p, r} THEN {<<Fine>>, <<b1, b1>>, <<b1, b2, cut>>} ELSE {<<>>}]

(* The first artifact names the first repository, the others either one. *)
ClonesRun ==
  /\ CloneInit
  /\ repoOf[CHOOSE a \in Artifacts : TRUE] = CHOOSE repo \in Repos : TRUE
ClonesRest ==
  /\ repoOf = [a \in Artifacts |-> CHOOSE repo \in Repos : TRUE]
  /\ remote = [tip |-> [repo \in Repos |-> MaxCommits], hangs |-> TRUE]
  /\ dir = NoDir /\ job = [a \in Artifacts |-> NoJob]
  /\ docs = [a \in Artifacts |-> {}]
  /\ base = [a \in Artifacts |-> NoCommit]
  /\ clean = [a \in Artifacts |-> TRUE]
  /\ jobs = MaxJobs /\ cloneFaults = MaxCloneFaults

(* A specification whose run is over. *)
UnitsRest ==
  /\ flow = "spec" /\ plan = {} /\ model = TRUE
  /\ stop = FALSE /\ phase = "over" /\ outcome = "done"
  /\ at = 1 /\ draft = "none" /\ gaveUp = {}
  /\ agent = [u \in Units |-> "off"] /\ tries = [u \in Units |-> 0]
  /\ text = [u \in Units |-> "none"]
  /\ page = [u \in Units |-> Old] /\ row = [u \in Units |-> Old]
  /\ guard = NoGuard /\ loop = NoLoop

MCInit == (WritingInit /\ ClonesRest) \/ (UnitsRest /\ ClonesRun)
MCNext == (WritingNext /\ UNCHANGED cloneVars) \/ (CloneNext /\ UNCHANGED uvars)
MCSpec ==
  /\ MCInit /\ [][MCNext]_<<uvars, cloneVars>>
  /\ Fairness /\ CloneFairness
=============================================================================
