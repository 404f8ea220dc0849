---------------------------- MODULE MCScheduler ----------------------------
(***************************************************************************)
(* The instance of Scheduler that TLC checks, in two scenes searched side  *)
(* by side: one artifact whose schedule comes, goes and is switched while  *)
(* others run jobs of it, over several fire times; and two artifacts whose *)
(* schedules are due in one tick, one of which may be deleted under it.    *)
(***************************************************************************)
EXTENDS Scheduler, TLC

CONSTANTS e1, e2, s1, s2

VARIABLE scene

Row(e) == [NoRow EXCEPT !.exists = TRUE, !.entity = e, !.enabled = TRUE]

\* Two schedules have been put before the first fire time.
TwoRows ==
    /\ RegistryInit
    /\ points = [e \in Entities |-> 0]
    /\ row = s1 :> Row(e1) @@ s2 :> Row(e2)
    /\ pending = [s \in Schedules |-> Nobody]
    /\ tick = Resting
    /\ launched = [e \in Entities |-> 0]
    /\ failures = 0

MCInit ==
    \/ scene = "one" /\ SchedulerInit
    \/ scene = "two" /\ TwoRows

OneArtifact ==
    \/ CronPoint(e1)
    \/ \E s \in Schedules, on \in BOOLEAN : PutSchedule(s, e1, on)
    \/ \E key \in RegistryKeys : Others(key, e1)

TwoArtifacts == \E e \in Entities : points[e] = 0 /\ CronPoint(e)

MCNext ==
    /\ \/ TickStep \/ Restart
       \/ \E s \in Schedules : DeleteSchedule(s)
       \/ \E j \in JobIds : Ends(j)
       \/ scene = "one" /\ OneArtifact
       \/ scene = "two" /\ TwoArtifacts
    /\ UNCHANGED scene

mcVars == <<schedulerVars, scene>>

MCSpec == MCInit /\ [][MCNext]_mcVars /\ WF_mcVars(TickStep /\ UNCHANGED scene)
=============================================================================
