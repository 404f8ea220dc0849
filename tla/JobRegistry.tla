----------------------------- MODULE JobRegistry -----------------------------
(***************************************************************************)
(* What the docgen job registry promises to those who use it: a run of a   *)
(* key is active until it gets its one outcome, a key has at most one      *)
(* active run, and only runs with an outcome are ever forgotten.           *)
(* DocgenJobs implements this, worker pool and entity locks included;      *)
(* Scheduler is built on it.                                               *)
(***************************************************************************)
EXTENDS Naturals, FiniteSets

CONSTANTS
    Entities,    \* artifacts of the products
    JobIds       \* job ids; an id is reused once its job has been pruned

VARIABLE run     \* run[j]: what the registry says of job j

\* A generation and an incremental update share the entity's key; a change
\* detection has a key of its own.
RegistryKeys == {"docgen", "detect"}
Outcomes == {"succeeded", "failed", "cancelled"}

Runs == [key : RegistryKeys, entity : Entities,
         status : {"absent", "active"} \cup Outcomes]

NoRun == [key |-> "docgen", entity |-> CHOOSE e \in Entities : TRUE, status |-> "absent"]

ActiveRuns(key, e) ==
    {j \in JobIds : run[j].status = "active" /\ run[j].key = key /\ run[j].entity = e}

\* Jobs that may be pruned.
Done == {j \in JobIds : run[j].status \in Outcomes}

Without(P) == [j \in JobIds |-> IF j \in P THEN NoRun ELSE run[j]]

RegistryInit == run = [j \in JobIds |-> NoRun]

\* A job is registered, unless its key has one already; those in P are pruned.
Open(j, key, e, P) ==
    /\ ActiveRuns(key, e) = {}
    /\ Without(P)[j].status = "absent"
    /\ run' = [Without(P) EXCEPT ![j] = [key |-> key, entity |-> e, status |-> "active"]]

Prune == \E P \in SUBSET Done : run' = Without(P)

Close(j, outcome) ==
    /\ run[j].status = "active"
    /\ run' = [run EXCEPT ![j].status = outcome]

RegistryNext ==
    \/ Prune
    \/ \E j \in JobIds :
          \/ \E key \in RegistryKeys, e \in Entities, P \in SUBSET Done : Open(j, key, e, P)
          \/ \E outcome \in Outcomes : Close(j, outcome)

RegistrySpec == RegistryInit /\ [][RegistryNext]_run
==============================================================================
