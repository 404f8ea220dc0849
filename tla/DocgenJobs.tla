------------------------------ MODULE DocgenJobs ------------------------------
(***************************************************************************)
(* The docgen job registry and its worker pool, api/docgen/jobs.py.        *)
(*                                                                         *)
(* Callers (request handlers on the event loop, the scheduler tick on a    *)
(* thread of its own) register a job under _JOBS_LOCK and then submit it   *)
(* to the ThreadPoolExecutor; worker threads take the entity lock, run the *)
(* job's coroutine and record the outcome.  Three kinds of job exist:      *)
(* "generate" and "incremental", registered under the entity's own key,    *)
(* and "detect", registered under a key of its own although its worker     *)
(* takes the same entity lock.  What a job writes to the artifact is in    *)
(* DocVersions; the lock registry is in EntityLocks and appears here as    *)
(* the mutex it implements.                                                *)
(***************************************************************************)
EXTENDS Integers, Sequences, FiniteSets

CONSTANTS
    Entities,    \* artifacts of the products
    JobIds,      \* job ids; an id is reused once its job has been pruned
    Workers,     \* threads _docgen_executor may have
    Callers,     \* threads that register and submit jobs
    Nobody       \* no thread, no job

ASSUME JobsAssumption ==
    Nobody \notin JobIds \cup Workers \cup Callers /\ Entities # {}

VARIABLES
    job,      \* _docgen_jobs
    queue,    \* the executor's work queue: submitted, not yet picked up
    at,       \* at[w]: the job of worker w and the step it is about to take
    lock,     \* lock[e]: the worker inside lock_for_entity(e)
    caller    \* caller[c]: a job registered by c and not yet submitted

vars == <<job, queue, at, lock, caller>>

Kinds == {"generate", "incremental", "detect"}
Finished == {"succeeded", "failed", "cancelled"}
Statuses == {"absent", "queued", "running"} \cup Finished
Steps == {"none", "idle", "lock", "preflight", "detect", "poll", "work", "hung", "persist", "unlock"}

JobRecord == [kind : Kinds, entity : Entities, status : Statuses,
              cancel : BOOLEAN,  \* cancel_requested
              early : BOOLEAN,   \* history: it was requested before the job started
              old : BOOLEAN]     \* finished longer ago than max_age_seconds

TypeOK ==
    /\ job \in [JobIds -> JobRecord]
    /\ queue \in Seq(JobIds)
    /\ at \in [Workers -> [job : JobIds \cup {Nobody}, step : Steps]]
    /\ lock \in [Entities -> Workers \cup {Nobody}]
    /\ caller \in [Callers -> JobIds \cup {Nobody}]

-----------------------------------------------------------------------------
NoJob == [kind |-> "generate", entity |-> CHOOSE e \in Entities : TRUE,
          status |-> "absent", cancel |-> FALSE, early |-> FALSE, old |-> FALSE]

Idle == [job |-> Nobody, step |-> "idle"]
NoThread == [job |-> Nobody, step |-> "none"]

Active(j) == job[j].status \in {"queued", "running"}

\* The registry key: detect jobs have one of their own per entity.
SameKey(j, kind, e) ==
    job[j].entity = e /\ (job[j].kind = "detect" <=> kind = "detect")

InFlight(kind, e) == {j \in JobIds : Active(j) /\ SameKey(j, kind, e)}

\* entity_busy: any job of the entity, a detect job included.
EntityBusy(e) == \E j \in JobIds : Active(j) /\ job[j].entity = e

\* DOCGEN_MAX_WORKERS, read when the process starts: the pool has so many of the
\* threads, and one at least.
PoolSizes == {[w \in Workers |-> IF w \in pool THEN Idle ELSE NoThread] :
                  pool \in SUBSET Workers \ {{}}}

Init ==
    /\ job = [j \in JobIds |-> NoJob]
    /\ queue = <<>>
    /\ at \in PoolSizes
    /\ lock = [e \in Entities |-> Nobody]
    /\ caller = [c \in Callers |-> Nobody]

-----------------------------------------------------------------------------
(* Callers *)

PrunedByStart == [j \in JobIds |->       \* bug: the age counts from created_at
                    IF job[j].status \in {"absent", "queued"} THEN job[j] ELSE NoJob]

\* _docgen_prune_old_jobs, run at the head of every registration.
Pruned == [j \in JobIds |-> IF job[j].old THEN NoJob ELSE job[j]]

Queued(kind, e) ==
    [NoJob EXCEPT !.kind = kind, !.entity = e, !.status = "queued"]

AddWithoutLookup(c, j, kind, e) ==     \* bug: create_job on the request path
    /\ Pruned[j].status = "absent"
    /\ job' = [Pruned EXCEPT ![j] = Queued(kind, e)]
    /\ caller' = [caller EXCEPT ![c] = j]

\* create_or_get_job: one critical section of _JOBS_LOCK.
Add(c, j, kind, e) ==
    /\ InFlight(kind, e) = {}
    /\ Pruned[j].status = "absent"
    /\ job' = [Pruned EXCEPT ![j] = Queued(kind, e)]
    /\ caller' = [caller EXCEPT ![c] = j]

Reattach(kind, e) == InFlight(kind, e) # {} /\ job' = Pruned /\ UNCHANGED caller

Create(c, kind, e) ==
    /\ caller[c] = Nobody
    /\ Reattach(kind, e) \/ \E j \in JobIds : Add(c, j, kind, e)
    /\ UNCHANGED <<queue, at, lock>>

\* submit_job / submit_detect_job, for a job that is new.
Submit(c) ==
    /\ caller[c] # Nobody
    /\ queue' = Append(queue, caller[c])
    /\ caller' = [caller EXCEPT ![c] = Nobody]
    /\ UNCHANGED <<job, at, lock>>

\* request_cancel_for_entity: the real key first, then the detect key.
Cancellable(e) ==
    IF InFlight("generate", e) # {} THEN InFlight("generate", e)
                                    ELSE InFlight("detect", e)

CancelAtOnce(e) ==                     \* bug: the status says what was asked
    /\ \E j \in Cancellable(e) :
          job' = [job EXCEPT ![j].cancel = TRUE, ![j].status = "cancelling"]
    /\ UNCHANGED <<queue, at, lock, caller>>

Cancel(e) ==
    /\ \E j \in Cancellable(e) :
          job' = [job EXCEPT ![j].cancel = TRUE,
                             ![j].early = @ \/ job[j].status = "queued"]
    /\ UNCHANGED <<queue, at, lock, caller>>

\* An hour passes after the job finished; its worker left it long ago.
Age(j) ==
    /\ job[j].status \in Finished /\ ~job[j].old
    /\ \A w \in Workers : at[w].job # j
    /\ job' = [job EXCEPT ![j].old = TRUE]
    /\ UNCHANGED <<queue, at, lock, caller>>

-----------------------------------------------------------------------------
(* Workers: _run_docgen_job and _run_detect_job *)

Running(w) == at[w].job
Kind(w) == job[Running(w)].kind
Entity(w) == job[Running(w)].entity

Step(w, from, to) ==
    /\ at[w].step = from
    /\ at' = [at EXCEPT ![w].step = to]

SetStatus(w, status) == job' = [job EXCEPT ![Running(w)].status = status]

Dequeue(w) ==
    /\ at[w].step = "idle" /\ queue # <<>>
    /\ at' = [at EXCEPT ![w] = [job |-> Head(queue), step |-> "lock"]]
    /\ queue' = Tail(queue)
    /\ UNCHANGED <<job, lock, caller>>

LockAnyway(w) ==                       \* bug: the detect worker takes no lock
    /\ Step(w, "lock", "preflight")
    /\ SetStatus(w, "running")
    /\ lock' = [lock EXCEPT ![Entity(w)] = w]
    /\ UNCHANGED <<queue, caller>>

\* The entity lock is taken; the coroutine starts and says so.
Lock(w) ==
    /\ Step(w, "lock", "preflight")
    /\ lock[Entity(w)] = Nobody
    /\ lock' = [lock EXCEPT ![Entity(w)] = w]
    /\ SetStatus(w, "running")
    /\ UNCHANGED <<queue, caller>>

BusyLeavesJob(w) ==                    \* bug: EntityBusyError only ends the worker
    /\ at[w].step = "lock" /\ lock[Entity(w)] # Nobody
    /\ at' = [at EXCEPT ![w] = Idle]
    /\ UNCHANGED <<job, queue, lock, caller>>

\* lock_for_entity times out: _fail_job_with_busy.
Busy(w) ==
    /\ at[w].step = "lock" /\ lock[Entity(w)] # Nobody
    /\ SetStatus(w, "failed")
    /\ at' = [at EXCEPT ![w] = Idle]
    /\ UNCHANGED <<queue, lock, caller>>

\* A terminal status is written; the lock is still held.
Finish(w, from, status) ==
    /\ Step(w, from, "unlock")
    /\ SetStatus(w, status)
    /\ UNCHANGED <<queue, lock, caller>>

\* Embedder preflight, entity load and baseline version of a docgen job; the
\* entity load of a detect job.  The incremental job detects before it works.
Preflight(w) ==
    \/ /\ Step(w, "preflight", IF Kind(w) = "generate" THEN "poll" ELSE "detect")
       /\ UNCHANGED <<job, queue, lock, caller>>
    \/ Finish(w, "preflight", "failed")

\* detect_changes: a detect job ends here; an incremental job goes on only when
\* the source changed.  Neither looks at cancel_requested.
Detect(w) ==
    \/ Finish(w, "detect", "succeeded")
    \/ Finish(w, "detect", "failed")
    \/ /\ Step(w, "detect", "poll")
       /\ Kind(w) = "incremental"
       /\ UNCHANGED <<job, queue, lock, caller>>

PollIgnored(w) ==                      \* bug: a pipeline drops should_cancel
    Step(w, "poll", "work") /\ UNCHANGED <<job, queue, lock, caller>>

\* _check_cancel of the pipelines.
Poll(w) ==
    /\ at[w].step = "poll"
    /\ IF job[Running(w)].cancel
       THEN Finish(w, "poll", "cancelled")
       ELSE Step(w, "poll", "work") /\ UNCHANGED <<job, queue, lock, caller>>

\* A stretch of pipeline work up to the next poll, or the last one, after which
\* the artifact is persisted.
Work(w) == Step(w, "work", "poll") /\ UNCHANGED <<job, queue, lock, caller>>

\* The checkout of a codebase run waits for a remote that never answers: its git
\* commands have no limit.  The worker stays there for ever, inside the lock.
Hang(w) == Step(w, "work", "hung") /\ UNCHANGED <<job, queue, lock, caller>>

LastWork(w) ==
    \/ Step(w, "work", "persist") /\ UNCHANGED <<job, queue, lock, caller>>
    \/ Finish(w, "work", "failed")

\* Persist, append_version and commit.
Persist(w) == Finish(w, "persist", "succeeded") \/ Finish(w, "persist", "failed")

UnlockForgotten(w) ==                  \* bug: acquire and release by hand
    /\ at[w].step = "unlock"
    /\ lock' = [lock EXCEPT ![Entity(w)] =
                    IF job[Running(w)].status = "failed" THEN @ ELSE Nobody]
    /\ at' = [at EXCEPT ![w] = Idle]
    /\ UNCHANGED <<job, queue, caller>>

\* Leaving lock_for_entity; the worker drains its loop and is free again.
Unlock(w) ==
    /\ at[w].step = "unlock"
    /\ lock' = [lock EXCEPT ![Entity(w)] = Nobody]
    /\ at' = [at EXCEPT ![w] = Idle]
    /\ UNCHANGED <<job, queue, caller>>

WorkerStep(w) ==
    \/ Dequeue(w) \/ Lock(w) \/ Busy(w) \/ Preflight(w) \/ Detect(w)
    \/ Poll(w) \/ Work(w) \/ Hang(w) \/ LastWork(w) \/ Persist(w) \/ Unlock(w)

CallerStep(c) ==
    Submit(c) \/ \E kind \in Kinds, e \in Entities : Create(c, kind, e)

Next ==
    \/ \E c \in Callers : CallerStep(c)
    \/ \E e \in Entities : Cancel(e)
    \/ \E j \in JobIds : Age(j)
    \/ \E w \in Workers : WorkerStep(w)

Spec == Init /\ [][Next]_vars

\* Callers submit what they registered, a worker that is not hung keeps running,
\* and a pipeline has finitely many units, so it gets past its last poll or hangs.
FairSpec ==
    /\ Spec
    /\ \A c \in Callers : WF_vars(Submit(c))
    /\ \A w \in Workers : WF_vars(WorkerStep(w)) /\ SF_vars(LastWork(w))

-----------------------------------------------------------------------------

Inside(w) == at[w].step \notin {"none", "idle", "lock"}

\* A generation and a change detection of one artifact have different keys, yet
\* they never run together.
EntitySerial ==
    \A v, w \in Workers : Inside(v) /\ Inside(w) /\ Entity(v) = Entity(w) => v = w

\* "A queued job that was cancelled before start raises at its first
\* checkpoint": no full generation cancelled in the queue ends with documents.
EarlyCancelHonoured ==
    \A j \in JobIds : job[j].kind = "generate" /\ job[j].early =>
        job[j].status # "succeeded"

\* What a caller of the registry sees of the jobs.
Seen == [j \in JobIds |->
            [key |-> IF job[j].kind = "detect" THEN "detect" ELSE "docgen",
             entity |-> job[j].entity,
             status |-> IF Active(j) THEN "active" ELSE job[j].status]]

Registry == INSTANCE JobRegistry WITH run <- Seen

\* The registry keeps its promise: one active job per key, one outcome per job,
\* and only jobs with an outcome are pruned, whatever the workers do meanwhile.
RegistrySpec == Registry!RegistrySpec

Hung(w) == at[w].step = "hung"
Pool == {w \in Workers : at[w].step # "none"}

\* Every registered job gets an outcome (and leaves the way of the next one),
\* unless its own run hangs in git or every thread of the pool does: neither a
\* hung run of the same artifact nor one of another keeps it from ending.
JobsFinish ==
    \A j \in JobIds : job[j].status = "queued" ~>
        \/ job[j].status \in Finished
        \/ \E w \in Workers : Hung(w) /\ Running(w) = j
        \/ \A w \in Pool : Hung(w)

\* The docstring of request_cancel_for_entity: a detect job "is stoppable the
\* same way".  Its coroutine never polls, so this fails.
DetectStoppable ==
    \A j \in JobIds : job[j].kind = "detect" /\ job[j].early =>
        job[j].status # "succeeded"
==============================================================================
