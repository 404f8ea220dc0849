------------------------------ MODULE Scheduler ------------------------------
(***************************************************************************)
(* Scheduled docgen, api/docgen/scheduler.py and routers/schedules.py, on  *)
(* top of the job registry.  The minute tick runs on a thread of its own   *)
(* (asyncio.to_thread), one at a time, beside the event loop, the threads  *)
(* that serve the schedule endpoints and the docgen workers.  The jobs     *)
(* appear as JobRegistry, which DocgenJobs implements.                     *)
(*                                                                         *)
(* Time is counted in cron fire times: points[e] have passed for the cron  *)
(* expression of entity e, and last_run_at of a schedule covers the first  *)
(* `seen` of them.                                                         *)
(***************************************************************************)
EXTENDS JobRegistry

CONSTANTS
    Schedules,     \* ids of docgen_schedules rows
    Nobody,        \* no schedule, no job
    MaxPoints,     \* bound on the cron fire times of an entity
    MaxFailures    \* bound on the failing commits of the tick and the restarts

ASSUME SchedulerAssumption ==
    /\ Nobody \notin Schedules \cup JobIds /\ Entities # {}
    /\ MaxPoints \in Nat /\ MaxFailures \in Nat

VARIABLES
    points,    \* cron fire times passed, per entity
    row,       \* docgen_schedules
    pending,   \* _pending: the job a schedule launched, not yet reconciled
    tick,      \* locals of _tick_sync
    launched,  \* history: jobs the scheduler launched, per entity
    failures   \* commits of the tick that failed, and restarts, so far

schedulerVars == <<run, points, row, pending, tick, launched, failures>>

Results == {"none", "submitted", "skipped_busy", "ok", "error", "cancelled"}
Phases == {"idle", "visit", "register", "submit", "commit"}

RowRecord == [exists : BOOLEAN, entity : Entities, enabled : BOOLEAN,
              seen : 0..MaxPoints, result : Results]

SchedulerTypeOK ==
    /\ run \in [JobIds -> Runs]
    /\ points \in [Entities -> 0..MaxPoints]
    /\ row \in [Schedules -> RowRecord]
    /\ pending \in [Schedules -> JobIds \cup {Nobody}]
    /\ tick \in [phase : Phases, now : [Entities -> 0..MaxPoints],
                 todo : SUBSET Schedules, row : Schedules \cup {Nobody},
                 job : JobIds \cup {Nobody}, result : Results, expired : BOOLEAN]
    /\ launched \in [Entities -> Nat]
    /\ failures \in 0..MaxFailures

NoRow == [exists |-> FALSE, entity |-> CHOOSE e \in Entities : TRUE,
          enabled |-> FALSE, seen |-> 0, result |-> "none"]

Resting == [phase |-> "idle", now |-> [e \in Entities |-> 0], todo |-> {},
            row |-> Nobody, job |-> Nobody, result |-> "none", expired |-> FALSE]

SchedulerInit ==
    /\ RegistryInit
    /\ points = [e \in Entities |-> 0]
    /\ row = [s \in Schedules |-> NoRow]
    /\ pending = [s \in Schedules |-> Nobody]
    /\ tick = Resting
    /\ launched = [e \in Entities |-> 0]
    /\ failures = 0

-----------------------------------------------------------------------------
(* The clock and the schedule endpoints *)

CronPoint(e) ==
    /\ points[e] < MaxPoints
    /\ points' = [points EXCEPT ![e] = @ + 1]
    /\ UNCHANGED <<run, row, pending, tick, launched, failures>>

\* upsert_schedule: one row per entity; a new row waits for the next fire time.
PutSchedule(s, e, on) ==
    /\ IF \E r \in Schedules : row[r].exists /\ row[r].entity = e
       THEN row[s].exists /\ row[s].entity = e
            /\ row' = [row EXCEPT ![s].enabled = on]
       ELSE ~row[s].exists /\ pending[s] = Nobody /\ s \notin tick.todo \cup {tick.row}
            /\ row' = [row EXCEPT ![s] = [exists |-> TRUE, entity |-> e, enabled |-> on,
                                          seen |-> points[e], result |-> "none"]]
    /\ UNCHANGED <<run, points, pending, tick, launched, failures>>

\* A tick that holds the row may still use the attributes it has read.
DeleteSchedule(s) ==
    /\ row[s].exists
    /\ row' = [row EXCEPT ![s] = IF s \in tick.todo \cup {tick.row}
                                 THEN [row[s] EXCEPT !.exists = FALSE, !.result = "none"]
                                 ELSE NoRow]
    /\ UNCHANGED <<run, points, pending, tick, launched, failures>>

\* The process restarts: the registry, the pool and _pending are memory.
Restart ==
    /\ failures < MaxFailures
    /\ failures' = failures + 1
    /\ run' = [j \in JobIds |-> NoRun]
    /\ pending' = [s \in Schedules |-> Nobody]
    /\ tick' = Resting
    /\ UNCHANGED <<points, row, launched>>

-----------------------------------------------------------------------------
(* Jobs of others, and what becomes of the jobs *)

\* A job is pruned an hour after its end, and the tick that records its outcome
\* comes within a minute; of other jobs the scheduler asks only if they are active.
Retained == {pending[s] : s \in Schedules}

\* A job id is a fresh uuid: the first one here that no active and no retained job
\* has.  The ids never run out: others leave one to the tick.
Free == {j \in JobIds \ Retained : run[j].status # "active"}
NewId == CHOOSE j \in Free : TRUE

Others(key, e) ==
    /\ Cardinality(Free) > 1
    /\ Open(NewId, key, e, Done \ Retained)
    /\ UNCHANGED <<points, row, pending, tick, launched, failures>>

\* A worker ends the job, which has been submitted; a job that hangs in git ends
\* never (DocgenJobs).
Ends(j) ==
    /\ j # tick.job
    /\ \E outcome \in IF j \in Retained THEN Outcomes ELSE {"succeeded"} : Close(j, outcome)
    /\ UNCHANGED <<points, row, pending, tick, launched, failures>>

-----------------------------------------------------------------------------
(* _tick_sync *)

\* A statement or a commit of the tick fails: rollback, and the tick is over.
Abort ==
    /\ failures < MaxFailures
    /\ failures' = failures + 1
    /\ tick' = Resting
    /\ UNCHANGED <<points, row>>

\* Pending entries whose job has an outcome, or is gone from the registry.
Settled == {s \in Schedules : pending[s] # Nobody /\ run[pending[s]].status # "active"}

StatusAsResult(s) == run[pending[s]].status     \* bug: _JOB_RESULTS is not applied

\* _JOB_RESULTS; a job lost from the registry leaves the recorded result.
LastResult(s) == CASE run[pending[s]].status = "succeeded" -> "ok"
                   [] run[pending[s]].status = "cancelled" -> "cancelled"
                   [] run[pending[s]].status = "failed" -> "error"
                   [] OTHER -> row[s].result

Forget(S) == pending' = [s \in Schedules |-> IF s \in S THEN Nobody ELSE pending[s]]

\* The outcomes of the settled jobs, on the rows that still exist.
Reconciled ==
    [s \in Schedules |-> IF s \in Settled /\ row[s].exists
                         THEN [row[s] EXCEPT !.result = LastResult(s)] ELSE row[s]]

\* A tick begins: _reconcile pops the settled entries, sets their outcomes and
\* commits, then the enabled rows are read.
TickStart ==
    /\ tick.phase = "idle"
    /\ Forget(Settled)
    /\ row' = Reconciled
    /\ tick' = [Resting EXCEPT !.phase = "visit", !.now = points,
                               !.todo = {s \in Schedules : row[s].exists /\ row[s].enabled}]
    /\ UNCHANGED <<run, points, launched, failures>>

\* ... or a read or the commit of _reconcile fails: what was popped by then
\* stays popped.
ReconcileFails ==
    /\ tick.phase = "idle"
    /\ \E popped \in SUBSET Settled : popped # {} /\ Forget(popped)
    /\ Abort
    /\ UNCHANGED <<run, launched>>

DueIgnoresLastRun(s) == tick.now[row[s].entity] > 0    \* bug: no anchor

\* _is_due: a fire time after last_run_at had passed when the tick began.
Due(s) == tick.now[row[s].entity] > row[s].seen

Skip(s) == ~Due(s) /\ tick' = [tick EXCEPT !.todo = @ \ {s}]

\* A deleted row is noticed only when its attributes must be read again: the
\* refresh raises, and that ends the whole tick.
Gone(s) == tick.expired /\ ~row[s].exists

\* entity_busy: any job of the entity, a detect job included.
Busy(e) == \E key \in RegistryKeys : ActiveRuns(key, e) # {}

\* _fire up to the job: the artifact may be gone from the product, a busy one is
\* skipped, a free one is to get a job.
Consider(s) ==
    /\ Due(s)
    /\ \E next \in {[phase |-> "commit", result |-> "error"],
                    IF Busy(row[s].entity)
                    THEN [phase |-> "commit", result |-> "skipped_busy"]
                    ELSE [phase |-> "register", result |-> "none"]} :
          tick' = [tick EXCEPT !.todo = @ \ {s}, !.row = s,
                               !.phase = next.phase, !.result = next.result]

Visit(s) ==
    /\ tick.phase = "visit" /\ s \in tick.todo
    /\ IF Gone(s) THEN tick' = Resting ELSE Skip(s) \/ Consider(s)
    /\ UNCHANGED <<run, points, row, pending, launched, failures>>

VisitEnd ==
    /\ tick.phase = "visit" /\ tick.todo = {}
    /\ tick' = Resting
    /\ UNCHANGED <<run, points, row, pending, launched, failures>>

\* create_or_get_job, directly or in submit_incremental_job.  A job of another
\* caller may have slipped in since entity_busy was asked: no job then.
Register ==
    /\ tick.phase = "register"
    /\ LET e == row[tick.row].entity IN
         \/ /\ ActiveRuns("docgen", e) # {}
            /\ tick' = [tick EXCEPT !.phase = "commit", !.result = "skipped_busy"]
            /\ UNCHANGED run
         \/ /\ Free # {}
            /\ Open(NewId, "docgen", e, Done \ Retained)
            /\ tick' = [tick EXCEPT !.phase = "submit", !.job = NewId]
    /\ UNCHANGED <<points, row, pending, launched, failures>>

\* The job is submitted to the pool and entered in _pending.
Launch ==
    /\ tick.phase = "submit"
    /\ pending' = [pending EXCEPT ![tick.row] = tick.job]
    /\ launched' = [launched EXCEPT ![row[tick.row].entity] = @ + 1]
    /\ tick' = [tick EXCEPT !.phase = "commit", !.job = Nobody, !.result = "submitted"]
    /\ UNCHANGED <<run, points, row, failures>>

ResultOnly(s, r) == [row EXCEPT ![s].result = r]       \* bug: last_run_at is forgotten

\* last_run_at and last_result, set together.
Recorded(s, r) ==
    [row EXCEPT ![s].seen = tick.now[row[s].entity], ![s].result = r]

\* The commit of _fire; for a row deleted meanwhile its UPDATE matches nothing,
\* which raises.  A commit expires every loaded row.
Commit ==
    /\ tick.phase = "commit"
    /\ \/ /\ row[tick.row].exists
          /\ row' = Recorded(tick.row, tick.result)
          /\ tick' = [tick EXCEPT !.phase = "visit", !.row = Nobody,
                                  !.result = "none", !.expired = TRUE]
          /\ UNCHANGED <<points, failures>>
       \/ /\ ~row[tick.row].exists
          /\ tick' = Resting
          /\ UNCHANGED <<points, row, failures>>
       \/ Abort
    /\ UNCHANGED <<run, pending, launched>>

TickStep ==
    \/ TickStart \/ ReconcileFails \/ VisitEnd \/ Register \/ Launch \/ Commit
    \/ \E s \in Schedules : Visit(s)

SchedulerNext ==
    \/ TickStep \/ Restart
    \/ \E e \in Entities : CronPoint(e)
    \/ \E s \in Schedules, e \in Entities, on \in BOOLEAN : PutSchedule(s, e, on)
    \/ \E s \in Schedules : DeleteSchedule(s)
    \/ \E key \in RegistryKeys, e \in Entities : Others(key, e)
    \/ \E j \in JobIds : Ends(j)

\* The interval trigger keeps firing, one tick at a time.  Nothing is asked of the
\* jobs: one that hangs stays active, and its artifact busy, for ever.
SchedulerSpec ==
    /\ SchedulerInit /\ [][SchedulerNext]_schedulerVars
    /\ WF_schedulerVars(TickStep)

-----------------------------------------------------------------------------
\* "A missed window fires once on the next tick and is never queued or
\* accumulated": the scheduler starts at most one job per fire time, over all
\* schedules the entity has had, and one more for each commit or process it lost.
LaunchBound == \A e \in Entities : launched[e] <= points[e] + failures

\* A due schedule is acted on (run, skipped as busy or in error), whatever other
\* schedules do and even after failed ticks, unless deletions, which end a tick
\* early, go on for ever.
Waiting(s) == row[s].exists /\ row[s].enabled /\ row[s].seen < points[row[s].entity]

DueHandled ==
    <>[][\A s \in Schedules : row[s].exists => row'[s].exists]_row
        => \A s \in Schedules : Waiting(s) ~> ~Waiting(s)

\* The module docstring: "Job outcomes are reconciled into last_result
\* (ok|error|cancelled) by the next tick that sees the job finished."  A tick
\* that pops the entry and then fails loses the outcome.
FinishedIsRecorded ==
    [][\A s \in Schedules :
          tick.phase = "idle" /\ s \in Settled /\ pending'[s] = Nobody
          /\ row[s].exists /\ run[pending[s]].status \in Outcomes
          /\ run' = run
            => row'[s].result = LastResult(s)]_schedulerVars
==============================================================================
