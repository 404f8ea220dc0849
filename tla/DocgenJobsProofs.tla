-------------------------- MODULE DocgenJobsProofs --------------------------
(***************************************************************************)
(* Machine-checked proofs about DocgenJobs, for any number of entities,    *)
(* jobs, workers and callers.                                              *)
(***************************************************************************)
EXTENDS DocgenJobs, TLAPS

\* A job on its way to a worker is queued, and is on one way only.
WaitingJobs ==
    /\ \A c \in Callers : caller[c] # Nobody => job[caller[c]].status = "queued"
    /\ \A i \in 1..Len(queue) : job[queue[i]].status = "queued"

OneWay ==
    /\ \A c, d \in Callers : caller[c] = caller[d] /\ caller[c] # Nobody => c = d
    /\ \A i, k \in 1..Len(queue) : queue[i] = queue[k] => i = k
    /\ \A c \in Callers, i \in 1..Len(queue) : caller[c] # queue[i]
    /\ \A w \in Workers, i \in 1..Len(queue) : at[w].job # queue[i]
    /\ \A w \in Workers, c \in Callers : at[w].job = caller[c] => at[w].job = Nobody
    /\ \A v, w \in Workers : at[v].job = at[w].job /\ at[v].job # Nobody => v = w

\* The job of a worker has the status of the step the worker is at.
StatusOf(step) == CASE step = "lock" -> {"queued"}
                    [] step = "unlock" -> Finished
                    [] OTHER -> {"running"}

WorkersJobs ==
    \A w \in Workers :
        IF at[w].step \in {"none", "idle"} THEN at[w].job = Nobody
        ELSE at[w].job \in JobIds /\ job[at[w].job].status \in StatusOf(at[w].step)

\* Only a finished job that its worker has left gets old, and may be pruned.
OldOnes ==
    \A j \in JobIds : job[j].old =>
        job[j].status \in Finished /\ \A w \in Workers : at[w].job # j

\* A worker at work holds the lock of the entity.
LockHeld == \A w \in Workers : Inside(w) => lock[Entity(w)] = w

\* A generation cancelled in the queue does not get past its first poll.
EarlyStops ==
    /\ \A j \in JobIds : job[j].early => job[j].cancel
    /\ \A w \in Workers : at[w].step \in {"detect", "work", "persist"} =>
           ~(job[at[w].job].kind = "generate" /\ job[at[w].job].early)

IInv == /\ TypeOK
        /\ WaitingJobs /\ OneWay /\ WorkersJobs /\ OldOnes
        /\ LockHeld /\ EarlyStops /\ EarlyCancelHonoured

-----------------------------------------------------------------------------
\* A job that is not there.
LEMMA NoJobFields ==
    /\ NoJob \in JobRecord /\ NoJob.status = "absent"
    /\ ~NoJob.cancel /\ ~NoJob.early /\ ~NoJob.old
<1>1. (CHOOSE e \in Entities : TRUE) \in Entities
  BY JobsAssumption
<1> QED
  BY <1>1 DEF NoJob, JobRecord, Kinds, Statuses

\* No job is registered at first.
LEMMA InitIInv == Init => IInv
<1> SUFFICES ASSUME Init PROVE IInv
  OBVIOUS
<1>1. TypeOK
  BY NoJobFields DEF Init, TypeOK, PoolSizes, Idle, NoThread, Steps
<1>2. WaitingJobs /\ OneWay /\ WorkersJobs
  BY JobsAssumption DEF Init, PoolSizes, NoThread, WaitingJobs, OneWay, WorkersJobs, Idle
<1>3. OldOnes /\ LockHeld /\ EarlyStops /\ EarlyCancelHonoured
  BY NoJobFields DEF Init, OldOnes, LockHeld, EarlyStops, EarlyCancelHonoured, Inside, PoolSizes, NoThread, Idle
<1> QED
  BY <1>1, <1>2, <1>3 DEF IInv

\* Pruning takes only jobs that nobody has in hand.
LEMMA PrunedSound ==
    ASSUME IInv
    PROVE  /\ Pruned \in [JobIds -> JobRecord]
           /\ \A j \in JobIds : Pruned[j] = job[j] \/ (job[j].old /\ Pruned[j] = NoJob)
           /\ \A c \in Callers : caller[c] # Nobody => Pruned[caller[c]] = job[caller[c]]
           /\ \A i \in 1..Len(queue) : Pruned[queue[i]] = job[queue[i]]
           /\ \A w \in Workers : at[w].step \notin {"none", "idle"} => Pruned[at[w].job] = job[at[w].job]
           /\ \A j \in JobIds : Pruned[j].status = "absent" =>
                 /\ \A c \in Callers : caller[c] # j
                 /\ \A i \in 1..Len(queue) : queue[i] # j
                 /\ \A w \in Workers : at[w].job # j
<1> USE DEF IInv
<1>2. Pruned \in [JobIds -> JobRecord]
  BY NoJobFields DEF Pruned, TypeOK
<1>3. \A j \in JobIds : Pruned[j] = job[j] \/ (job[j].old /\ Pruned[j] = NoJob)
  BY DEF Pruned
<1>4. \A c \in Callers : caller[c] # Nobody =>
          caller[c] \in JobIds /\ ~job[caller[c]].old
  BY DEF TypeOK, WaitingJobs, OldOnes, Finished
<1>5. \A i \in 1..Len(queue) : queue[i] \in JobIds /\ ~job[queue[i]].old
  BY DEF TypeOK, WaitingJobs, OldOnes, Finished
<1>6. \A w \in Workers : at[w].step \notin {"none", "idle"} =>
          at[w].job \in JobIds /\ ~job[at[w].job].old
  BY DEF WorkersJobs, OldOnes
<1>7. ASSUME NEW j \in JobIds, Pruned[j].status = "absent"
      PROVE  /\ \A c \in Callers : caller[c] # j
             /\ \A i \in 1..Len(queue) : queue[i] # j
             /\ \A w \in Workers : at[w].job # j
  <2>1. job[j].old \/ job[j].status = "absent"
    BY <1>3, <1>7
  <2>2. \A c \in Callers : caller[c] # j
    BY <2>1, <1>4, JobsAssumption DEF WaitingJobs
  <2>3. \A i \in 1..Len(queue) : queue[i] # j
    BY <2>1, <1>5 DEF WaitingJobs
  <2>4. ASSUME NEW w \in Workers PROVE at[w].job # j
    <3>1. CASE at[w].step \in {"none", "idle"}
      BY <3>1, JobsAssumption DEF WorkersJobs
    <3>2. CASE at[w].step \notin {"none", "idle"}
      BY <3>2, <2>1, <1>6 DEF WorkersJobs, StatusOf, Finished
    <3> QED BY <3>1, <3>2
  <2> QED BY <2>2, <2>3, <2>4
<1> QED
  BY <1>2, <1>3, <1>4, <1>5, <1>6, <1>7 DEF Pruned

\* Registering, with the pruning at its head.
LEMMA CreateIInv ==
    ASSUME IInv, NEW c \in Callers, NEW kind \in Kinds, NEW e \in Entities, Create(c, kind, e)
    PROVE  IInv'
<1> USE DEF IInv
<1>1. CASE Reattach(kind, e)
  <2>1. job' = Pruned /\ caller' = caller /\ queue' = queue /\ at' = at /\ lock' = lock
    BY <1>1 DEF Create, Reattach
  <2>2. TypeOK'
    BY <2>1, PrunedSound DEF TypeOK
  <2>3. WaitingJobs' /\ OneWay'
    BY <2>1, PrunedSound DEF WaitingJobs, OneWay
  <2>4. WorkersJobs'
    BY <2>1, PrunedSound DEF WorkersJobs
  <2>5. OldOnes'
    BY <2>1, PrunedSound, NoJobFields DEF OldOnes
  <2>6. LockHeld'
    BY <2>1, PrunedSound DEF LockHeld, Inside, Entity, Running
  <2>7. EarlyStops'
    BY <2>1, PrunedSound, NoJobFields DEF EarlyStops
  <2>8. EarlyCancelHonoured'
    BY <2>1, PrunedSound, NoJobFields DEF EarlyCancelHonoured
  <2> QED BY <2>2, <2>3, <2>4, <2>5, <2>6, <2>7, <2>8
<1>2. ASSUME NEW j \in JobIds, Add(c, j, kind, e) PROVE IInv'
  <2> DEFINE new == Queued(kind, e)
  <2>1. /\ Pruned[j].status = "absent"
        /\ job' = [Pruned EXCEPT ![j] = new]
        /\ caller' = [caller EXCEPT ![c] = j]
        /\ queue' = queue /\ at' = at /\ lock' = lock
    BY <1>2 DEF Create, Add
  <2>2. caller[c] = Nobody
    BY DEF Create
  <2>3. /\ new \in JobRecord /\ new.status = "queued"
        /\ ~new.cancel /\ ~new.early /\ ~new.old
    BY DEF Queued, NoJob, JobRecord, Kinds, Statuses
  <2> HIDE DEF new
  <2>4. \A k \in JobIds : job'[k] = IF k = j THEN new ELSE Pruned[k]
    BY <2>1, PrunedSound
  <2>5. \A d \in Callers : caller'[d] = IF d = c THEN j ELSE caller[d]
    BY <2>1 DEF TypeOK
  <2>6. /\ \A d \in Callers : caller[d] # j
        /\ \A i \in 1..Len(queue) : queue[i] # j
        /\ \A w \in Workers : at[w].job # j
    BY <2>1, PrunedSound
  <2>7. TypeOK'
    BY <2>1, <2>3, PrunedSound DEF TypeOK
  <2>8. WaitingJobs'
    <3>1. \A d \in Callers : caller'[d] # Nobody => job'[caller'[d]].status = "queued"
      BY <2>3, <2>4, <2>5, <2>6, PrunedSound DEF WaitingJobs, TypeOK
    <3>2. \A i \in 1..Len(queue) : queue[i] \in JobIds
      BY DEF TypeOK
    <3>3. \A i \in 1..Len(queue) : job'[queue[i]].status = "queued"
      BY <3>2, <2>4, <2>6, PrunedSound DEF WaitingJobs
    <3> QED BY <3>1, <3>3, <2>1 DEF WaitingJobs
  <2>9. OneWay'
    BY <2>1, <2>5, <2>6, JobsAssumption DEF OneWay
  <2>10. \A w \in Workers : at[w].step \notin {"none", "idle"} =>
            at[w].job \in JobIds /\ job'[at[w].job] = job[at[w].job]
    BY <2>4, <2>6, PrunedSound DEF WorkersJobs
  <2>11. WorkersJobs'
    BY <2>1, <2>10 DEF WorkersJobs
  <2>12. OldOnes'
    BY <2>1, <2>3, <2>4, PrunedSound, NoJobFields DEF OldOnes
  <2>13. LockHeld'
    BY <2>1, <2>10 DEF LockHeld, Inside, Entity, Running
  <2>14. EarlyStops'
    BY <2>1, <2>3, <2>4, <2>10, PrunedSound, NoJobFields DEF EarlyStops
  <2>15. EarlyCancelHonoured'
    BY <2>3, <2>4, PrunedSound, NoJobFields DEF EarlyCancelHonoured
  <2> QED BY <2>7, <2>8, <2>9, <2>11, <2>12, <2>13, <2>14, <2>15
<1> QED
  BY <1>1, <1>2 DEF Create

\* Submitting moves a job from its caller to the end of the queue.
LEMMA SubmitIInv == ASSUME IInv, NEW c \in Callers, Submit(c) PROVE IInv'
<1> USE DEF IInv
<1> DEFINE j == caller[c]
<1>1. /\ j # Nobody /\ queue' = Append(queue, j)
      /\ caller' = [caller EXCEPT ![c] = Nobody]
      /\ job' = job /\ at' = at /\ lock' = lock
  BY DEF Submit
<1>2. j \in JobIds
  BY <1>1 DEF TypeOK
<1>3. \A d \in Callers : caller'[d] = IF d = c THEN Nobody ELSE caller[d]
  BY <1>1 DEF TypeOK
<1>4. /\ Len(queue') = Len(queue) + 1 /\ Len(queue) \in Nat
      /\ \A i \in 1..Len(queue') : queue'[i] = IF i \in 1..Len(queue) THEN queue[i] ELSE j
  BY <1>1, <1>2 DEF TypeOK
<1>5. TypeOK'
  BY <1>1, <1>2 DEF TypeOK
<1>6. WaitingJobs'
  BY <1>1, <1>3, <1>4 DEF WaitingJobs
<1>7. OneWay'
  <2>1. \A d \in Callers : caller'[d] # j
    BY <1>1, <1>3 DEF OneWay
  <2>2. \A w \in Workers : at[w].job # j
    BY <1>1 DEF OneWay
  <2>3. \A i \in 1..Len(queue) : queue[i] # j
    BY DEF OneWay
  <2>4. \A i, k \in 1..Len(queue') : queue'[i] = queue'[k] => i = k
    BY <1>4, <2>3 DEF OneWay
  <2>5. \A d \in Callers, i \in 1..Len(queue') : caller'[d] # queue'[i]
    <3>1. \A i \in 1..Len(queue) : queue[i] # Nobody
      BY JobsAssumption DEF TypeOK
    <3> QED BY <3>1, <1>1, <1>3, <1>4, <2>1 DEF OneWay
  <2>6. \A w \in Workers, i \in 1..Len(queue') : at[w].job # queue'[i]
    BY <1>4, <2>2 DEF OneWay
  <2> QED BY <2>4, <2>5, <2>6, <1>1, <1>3 DEF OneWay
<1>8. WorkersJobs' /\ OldOnes' /\ LockHeld' /\ EarlyStops' /\ EarlyCancelHonoured'
  BY <1>1 DEF WorkersJobs, OldOnes, LockHeld, Inside, Entity, Running, EarlyStops,
              EarlyCancelHonoured
<1> QED BY <1>5, <1>6, <1>7, <1>8

\* Asking for cancellation leaves a job its place and its status.
LEMMA CancelIInv == ASSUME IInv, NEW e \in Entities, Cancel(e) PROVE IInv'
<1> USE DEF IInv
<1>1. PICK j \in JobIds :
          /\ Active(j)
          /\ job' = [job EXCEPT ![j].cancel = TRUE,
                                ![j].early = @ \/ job[j].status = "queued"]
  BY DEF Cancel, Cancellable, InFlight
<1>2. queue' = queue /\ at' = at /\ lock' = lock /\ caller' = caller
  BY DEF Cancel
<1>3. \A k \in JobIds :
          /\ job'[k].kind = job[k].kind /\ job'[k].entity = job[k].entity
          /\ job'[k].status = job[k].status /\ job'[k].old = job[k].old
          /\ k # j => job'[k] = job[k]
  BY <1>1 DEF TypeOK, JobRecord
<1>4. /\ job'[j].cancel
      /\ job'[j].early <=> job[j].early \/ job[j].status = "queued"
  BY <1>1 DEF TypeOK, JobRecord
<1>5. TypeOK'
  <2>1. job'[j] \in JobRecord
    <3>1. job'[j] = [job[j] EXCEPT !.cancel = TRUE,
                                   !.early = @ \/ job[j].status = "queued"]
      BY <1>1 DEF TypeOK
    <3>2. job[j] \in JobRecord /\ (job[j].early \/ job[j].status = "queued") \in BOOLEAN
      BY DEF TypeOK, JobRecord
    <3> QED BY <3>1, <3>2 DEF JobRecord
  <2>2. job' \in [JobIds -> JobRecord]
    BY <2>1, <1>1 DEF TypeOK
  <2> QED BY <2>2, <1>2 DEF TypeOK
<1>6. WaitingJobs'
  BY <1>2, <1>3 DEF WaitingJobs, TypeOK
<1>7. OneWay'
  BY <1>2 DEF OneWay
<1>8. WorkersJobs' /\ OldOnes'
  BY <1>2, <1>3 DEF WorkersJobs, OldOnes
<1>9. LockHeld'
  BY <1>2, <1>3 DEF LockHeld, Inside, Entity, Running, WorkersJobs
<1>10. EarlyStops'
  <2>1. \A k \in JobIds : job'[k].early => job'[k].cancel
    BY <1>3, <1>4 DEF EarlyStops
  <2>2. \A w \in Workers : at[w].step \in {"detect", "work", "persist"} =>
            at[w].job \in JobIds /\ job[at[w].job].status = "running"
    BY DEF WorkersJobs, StatusOf
  <2>3. \A w \in Workers : at[w].step \in {"detect", "work", "persist"} =>
            ~(job'[at[w].job].kind = "generate" /\ job'[at[w].job].early)
    BY <2>2, <1>3, <1>4 DEF EarlyStops
  <2> QED BY <2>1, <2>3, <1>2 DEF EarlyStops
<1>11. EarlyCancelHonoured'
  BY <1>1, <1>3, <1>4 DEF EarlyCancelHonoured, Active
<1> QED BY <1>5, <1>6, <1>7, <1>8, <1>9, <1>10, <1>11

\* A job that gets old is finished and its worker has left it.
LEMMA AgeIInv == ASSUME IInv, NEW j \in JobIds, Age(j) PROVE IInv'
<1> USE DEF IInv
<1>1. /\ job[j].status \in Finished /\ \A w \in Workers : at[w].job # j
      /\ job' = [job EXCEPT ![j].old = TRUE]
      /\ queue' = queue /\ at' = at /\ lock' = lock /\ caller' = caller
  BY DEF Age
<1>2. \A k \in JobIds :
          /\ job'[k].kind = job[k].kind /\ job'[k].entity = job[k].entity
          /\ job'[k].status = job[k].status /\ job'[k].cancel = job[k].cancel
          /\ job'[k].early = job[k].early
          /\ k # j => job'[k] = job[k]
  BY <1>1 DEF TypeOK, JobRecord
<1>3. TypeOK'
  BY <1>1 DEF TypeOK, JobRecord
<1>4. WaitingJobs' /\ OneWay'
  BY <1>1, <1>2 DEF WaitingJobs, OneWay, TypeOK
<1>5. WorkersJobs' /\ OldOnes'
  BY <1>1, <1>2 DEF WorkersJobs, OldOnes
<1>6. LockHeld'
  BY <1>1, <1>2 DEF LockHeld, Inside, Entity, Running, WorkersJobs
<1>7. EarlyStops' /\ EarlyCancelHonoured'
  BY <1>1, <1>2 DEF EarlyStops, EarlyCancelHonoured, WorkersJobs
<1> QED BY <1>3, <1>4, <1>5, <1>6, <1>7

\* A worker takes the first job of the queue.
LEMMA DequeueIInv == ASSUME IInv, NEW w \in Workers, Dequeue(w) PROVE IInv'
<1> USE DEF IInv
<1> DEFINE j == Head(queue)
<1>1. /\ at[w].step = "idle" /\ queue # <<>>
      /\ at' = [at EXCEPT ![w] = [job |-> j, step |-> "lock"]]
      /\ queue' = Tail(queue)
      /\ job' = job /\ lock' = lock /\ caller' = caller
  BY DEF Dequeue
<1>2. /\ Len(queue) \in Nat \ {0} /\ Len(queue') = Len(queue) - 1
      /\ queue' \in Seq(JobIds)
      /\ \A i \in 1..Len(queue') : i + 1 \in 1..Len(queue) /\ queue'[i] = queue[i + 1]
      /\ j = queue[1] /\ j \in JobIds
  BY <1>1 DEF TypeOK
<1>3. \A v \in Workers : at'[v] = IF v = w THEN [job |-> j, step |-> "lock"] ELSE at[v]
  BY <1>1 DEF TypeOK
<1>4. job[j].status = "queued"
  BY <1>2 DEF WaitingJobs
<1>5. TypeOK'
  BY <1>1, <1>2 DEF TypeOK, Steps
<1>6. WaitingJobs'
  BY <1>1, <1>2 DEF WaitingJobs
<1>7. OneWay'
  <2>1. \A v \in Workers : at[v].job # j
    BY <1>2 DEF OneWay
  <2>2. \A c \in Callers : caller[c] # j
    BY <1>2 DEF OneWay
  <2>3. \A i \in 1..Len(queue') : queue'[i] # j
    BY <1>2 DEF OneWay
  <2>4. \A i, k \in 1..Len(queue') : queue'[i] = queue'[k] => i = k
    BY <1>2 DEF OneWay
  <2>5. \A c \in Callers, i \in 1..Len(queue') : caller[c] # queue'[i]
    BY <1>2 DEF OneWay
  <2>6. \A v \in Workers, i \in 1..Len(queue') : at'[v].job # queue'[i]
    BY <1>2, <1>3, <2>3 DEF OneWay
  <2>7. \A v \in Workers, c \in Callers : at'[v].job = caller[c] => at'[v].job = Nobody
    BY <1>3, <2>2 DEF OneWay
  <2>8. \A u, v \in Workers : at'[u].job = at'[v].job /\ at'[u].job # Nobody => u = v
    BY <1>3, <2>1 DEF OneWay
  <2>9. \A c, d \in Callers : caller[c] = caller[d] /\ caller[c] # Nobody => c = d
    BY DEF OneWay
  <2> QED BY <2>4, <2>5, <2>6, <2>7, <2>8, <2>9, <1>1 DEF OneWay
<1>8. WorkersJobs'
  BY <1>1, <1>2, <1>3, <1>4 DEF WorkersJobs, StatusOf
<1>9. OldOnes'
  BY <1>1, <1>3, <1>4 DEF OldOnes, Finished
<1>10. LockHeld'
  BY <1>1, <1>3 DEF LockHeld, Inside, Entity, Running
<1>11. EarlyStops' /\ EarlyCancelHonoured'
  BY <1>1, <1>3 DEF EarlyStops, EarlyCancelHonoured
<1> QED BY <1>5, <1>6, <1>7, <1>8, <1>9, <1>10, <1>11

\* A worker that has a job takes a step with it, changing its status at most.
LEMMA WorkerMoves ==
    ASSUME IInv, NEW w \in Workers, NEW to \in Steps, NEW s \in Statuses,
           at[w].step \notin {"none", "idle"}, to \notin {"none", "idle", "lock"},
           s \in StatusOf(to),
           at' = [at EXCEPT ![w].step = to],
           job' = [job EXCEPT ![at[w].job].status = s],
           IF at[w].step = "lock"
           THEN lock[Entity(w)] = Nobody /\ lock' = [lock EXCEPT ![Entity(w)] = w]
           ELSE lock' = lock,
           queue' = queue, caller' = caller,
           to \in {"detect", "work", "persist"} \/ s = "succeeded" =>
               ~(Kind(w) = "generate" /\ job[at[w].job].early)
    PROVE  IInv'
<1> USE DEF IInv
<1> DEFINE j == at[w].job
<1>1. j \in JobIds /\ job[j].status \in StatusOf(at[w].step)
  BY DEF WorkersJobs
<1>2. \A v \in Workers :
          at'[v] = IF v = w THEN [job |-> j, step |-> to] ELSE at[v]
  BY DEF TypeOK
<1>3. \A k \in JobIds :
          /\ job'[k].kind = job[k].kind /\ job'[k].entity = job[k].entity
          /\ job'[k].cancel = job[k].cancel /\ job'[k].early = job[k].early
          /\ job'[k].old = job[k].old
          /\ job'[k].status = IF k = j THEN s ELSE job[k].status
  BY DEF TypeOK, JobRecord
<1>4. ~job[j].old
  BY <1>1 DEF OldOnes
<1>5. TypeOK'
  <2>1. job' \in [JobIds -> JobRecord]
    BY DEF TypeOK, JobRecord
  <2>2. at' \in [Workers -> [job : JobIds \cup {Nobody}, step : Steps]]
    BY DEF TypeOK
  <2>3. Entity(w) \in Entities
    BY <1>1 DEF Entity, Running, TypeOK, JobRecord
  <2>4. lock' \in [Entities -> Workers \cup {Nobody}]
    BY <2>3 DEF TypeOK
  <2> QED BY <2>1, <2>2, <2>4 DEF TypeOK
<1>6. j # Nobody
  BY <1>1, JobsAssumption
<1>7. WaitingJobs'
  <2>1. \A c \in Callers : caller[c] # Nobody => caller[c] \in JobIds /\ caller[c] # j
    BY <1>6 DEF OneWay, TypeOK
  <2>2. \A i \in 1..Len(queue) : queue[i] \in JobIds /\ queue[i] # j
    BY DEF OneWay, TypeOK
  <2> QED BY <2>1, <2>2, <1>3 DEF WaitingJobs
<1>8. \A v \in Workers : at'[v].job = at[v].job
  BY <1>2
<1>9. OneWay'
  BY <1>8 DEF OneWay
<1>10. \A v \in Workers : v # w /\ at[v].step \notin {"none", "idle"} =>
          at[v].job \in JobIds /\ at[v].job # j
  BY <1>6 DEF OneWay, WorkersJobs
<1>11. WorkersJobs'
  BY <1>1, <1>2, <1>3, <1>10 DEF WorkersJobs
<1>12. OldOnes'
  BY <1>3, <1>4, <1>8 DEF OldOnes
<1>13. LockHeld'
  <2> SUFFICES ASSUME NEW v \in Workers, at'[v].step \notin {"none", "idle", "lock"}
               PROVE  lock'[job'[at'[v].job].entity] = v
    BY DEF LockHeld, Inside, Entity, Running
  <2>1. job'[at'[v].job].entity = job[at[v].job].entity /\ job[at[v].job].entity \in Entities
    BY <1>1, <1>2, <1>3, <1>8, <1>10 DEF TypeOK, JobRecord
  <2>2. CASE at[w].step = "lock"
    <3>1. lock'[job[j].entity] = w /\ lock[job[j].entity] = Nobody
      BY <2>2, <1>1 DEF Entity, Running, TypeOK, JobRecord
    <3>2. CASE v = w
      BY <3>1, <3>2, <2>1
    <3>3. CASE v # w
      <4>1. lock[job[at[v].job].entity] = v
        BY <3>3, <1>2 DEF LockHeld, Inside, Entity, Running
      <4>2. job[at[v].job].entity # job[j].entity \/ v = Nobody
        BY <4>1, <3>1
      <4> QED BY <4>1, <4>2, <2>1, <2>2, JobsAssumption DEF Entity, Running, TypeOK
    <3> QED BY <3>2, <3>3
  <2>3. CASE at[w].step # "lock"
    <3>1. at[v].step \notin {"none", "idle", "lock"}
      BY <1>2, <2>3
    <3> QED BY <3>1, <2>1, <2>3 DEF LockHeld, Inside, Entity, Running
  <2> QED BY <2>2, <2>3
<1>14. EarlyStops'
  BY <1>1, <1>2, <1>3, <1>10 DEF EarlyStops, Kind, Running
<1>15. EarlyCancelHonoured'
  BY <1>3 DEF EarlyCancelHonoured, Kind, Running
<1> QED BY <1>5, <1>7, <1>9, <1>11, <1>12, <1>13, <1>14, <1>15

\* The step without a change of status.
LEMMA WorkerGoes ==
    ASSUME IInv, NEW w \in Workers, NEW from \in Steps, NEW to \in Steps,
           Step(w, from, to), UNCHANGED <<job, queue, lock, caller>>,
           from \notin {"none", "idle", "lock", "unlock"}, to \notin {"none", "idle", "lock", "unlock"},
           to \in {"detect", "work", "persist"} =>
               ~(Kind(w) = "generate" /\ job[at[w].job].early)
    PROVE  IInv'
<1>1. /\ at[w].step = from /\ at' = [at EXCEPT ![w].step = to]
      /\ job' = job /\ lock' = lock /\ queue' = queue /\ caller' = caller
  BY DEF Step
<1>2. at[w].job \in JobIds /\ job[at[w].job].status = "running"
  BY <1>1 DEF IInv, WorkersJobs, StatusOf
<1>3. job' = [job EXCEPT ![at[w].job].status = "running"]
  BY <1>1, <1>2 DEF IInv, TypeOK, JobRecord
<1>4. "running" \in StatusOf(to) /\ "running" \in Statuses
  BY DEF StatusOf, Statuses
<1> QED
  BY <1>1, <1>3, <1>4, WorkerMoves

\* The step that gives the job its outcome.
LEMMA FinishIInv ==
    ASSUME IInv, NEW w \in Workers, NEW from \in Steps, NEW s \in Finished,
           Finish(w, from, s), from \notin {"none", "idle", "lock", "unlock"},
           s = "succeeded" => ~(Kind(w) = "generate" /\ job[at[w].job].early)
    PROVE  IInv'
<1>1. /\ at[w].step = from /\ at' = [at EXCEPT ![w].step = "unlock"]
      /\ job' = [job EXCEPT ![at[w].job].status = s]
      /\ lock' = lock /\ queue' = queue /\ caller' = caller
  BY DEF Finish, Step, SetStatus, Running
<1>2. s \in StatusOf("unlock") /\ s \in Statuses /\ "unlock" \in Steps
  BY DEF StatusOf, Finished, Statuses, Steps
<1> QED
  BY <1>1, <1>2, WorkerMoves

\* Taking the entity lock.
LEMMA LockIInv == ASSUME IInv, NEW w \in Workers, Lock(w) PROVE IInv'
<1>1. /\ at[w].step = "lock" /\ at' = [at EXCEPT ![w].step = "preflight"]
      /\ job' = [job EXCEPT ![at[w].job].status = "running"]
      /\ lock[Entity(w)] = Nobody /\ lock' = [lock EXCEPT ![Entity(w)] = w]
      /\ queue' = queue /\ caller' = caller
  BY DEF Lock, Step, SetStatus, Running
<1>2. "running" \in StatusOf("preflight") /\ "running" \in Statuses /\ "preflight" \in Steps
  BY DEF StatusOf, Statuses, Steps
<1> QED
  BY <1>1, <1>2, WorkerMoves

\* A worker is free again: its job is finished, and nobody has it in hand.
LEMMA LeaveIInv ==
    ASSUME IInv, NEW w \in Workers, NEW s \in Finished,
           at[w].step \notin {"none", "idle"}, at' = [at EXCEPT ![w] = Idle],
           job' = [job EXCEPT ![at[w].job].status = s],
           s = "succeeded" => ~(Kind(w) = "generate" /\ job[at[w].job].early),
           IF at[w].step = "lock" THEN lock' = lock
           ELSE lock' = [lock EXCEPT ![Entity(w)] = Nobody],
           queue' = queue, caller' = caller
    PROVE  IInv'
<1> USE DEF IInv
<1> DEFINE j == at[w].job
<1>1. j \in JobIds /\ j # Nobody
  BY JobsAssumption DEF WorkersJobs
<1>2. \A v \in Workers : at'[v] = IF v = w THEN Idle ELSE at[v]
  BY DEF TypeOK
<1>3. \A k \in JobIds :
          /\ job'[k].kind = job[k].kind /\ job'[k].entity = job[k].entity
          /\ job'[k].cancel = job[k].cancel /\ job'[k].early = job[k].early
          /\ job'[k].old = job[k].old
          /\ job'[k].status = IF k = j THEN s ELSE job[k].status
  BY DEF TypeOK, JobRecord
<1>4. ~job[j].old
  BY <1>1 DEF OldOnes
<1>5. TypeOK'
  <2>0. s \in Statuses
    BY DEF Finished, Statuses
  <2>1. job' \in [JobIds -> JobRecord]
    <3>1. [job[j] EXCEPT !.status = s] \in JobRecord
      BY <2>0, <1>1 DEF TypeOK, JobRecord
    <3> QED BY <3>1 DEF TypeOK
  <2>2. at' \in [Workers -> [job : JobIds \cup {Nobody}, step : Steps]]
    BY DEF TypeOK, Idle, Steps
  <2>3. lock' \in [Entities -> Workers \cup {Nobody}]
    BY DEF TypeOK
  <2> QED BY <2>1, <2>2, <2>3 DEF TypeOK
<1>6. WaitingJobs'
  <2>1. \A c \in Callers : caller[c] # Nobody => caller[c] \in JobIds /\ caller[c] # j
    BY <1>1 DEF OneWay, TypeOK
  <2>2. \A i \in 1..Len(queue) : queue[i] \in JobIds /\ queue[i] # j
    BY DEF OneWay, TypeOK
  <2> QED BY <2>1, <2>2, <1>3 DEF WaitingJobs
<1>7. OneWay'
  <2>1. \A i \in 1..Len(queue) : queue[i] # Nobody
    BY JobsAssumption DEF TypeOK
  <2>2. \A v \in Workers : at'[v].job = at[v].job \/ at'[v].job = Nobody
    BY <1>2 DEF Idle
  <2> QED BY <2>1, <2>2 DEF OneWay
<1>8. \A v \in Workers : v # w /\ at[v].step \notin {"none", "idle"} =>
          at[v].job \in JobIds /\ at[v].job # j
  BY <1>1 DEF OneWay, WorkersJobs
<1>9. WorkersJobs'
  BY <1>2, <1>3, <1>8 DEF WorkersJobs, Idle
<1>10. OldOnes'
  BY <1>2, <1>3, <1>4, JobsAssumption DEF OldOnes, Idle
<1>11. LockHeld'
  <2> SUFFICES ASSUME NEW v \in Workers, at'[v].step \notin {"none", "idle", "lock"}
               PROVE  lock'[job'[at'[v].job].entity] = v
    BY DEF LockHeld, Inside, Entity, Running
  <2>1. v # w /\ at'[v] = at[v] /\ at[v].step \notin {"none", "idle", "lock"}
    BY <1>2 DEF Idle
  <2>2. lock[job[at[v].job].entity] = v /\ job'[at[v].job].entity = job[at[v].job].entity
    BY <2>1, <1>3, <1>8 DEF LockHeld, Inside, Entity, Running
  <2>3. CASE at[w].step = "lock"
    BY <2>1, <2>2, <2>3
  <2>4. CASE at[w].step # "lock"
    <3>1. lock[job[j].entity] = w
      BY <2>4 DEF LockHeld, Inside, Entity, Running
    <3>2. job[at[v].job].entity # job[j].entity
      BY <3>1, <2>1, <2>2
    <3>3. job[at[v].job].entity \in Entities
      BY <2>1, <1>8 DEF TypeOK, JobRecord
    <3>4. lock' = [lock EXCEPT ![job[j].entity] = Nobody]
      BY <2>4 DEF Entity, Running
    <3>5. lock'[job[at[v].job].entity] = lock[job[at[v].job].entity]
      BY <3>2, <3>3, <3>4 DEF TypeOK
    <3> QED BY <3>5, <2>1, <2>2
  <2> QED BY <2>3, <2>4
<1>12. EarlyStops'
  BY <1>2, <1>3, <1>8 DEF EarlyStops, Idle
<1>13. EarlyCancelHonoured'
  BY <1>3 DEF EarlyCancelHonoured, Kind, Running
<1> QED BY <1>5, <1>6, <1>7, <1>9, <1>10, <1>11, <1>12, <1>13

\* Giving up on a busy entity.
LEMMA BusyIInv == ASSUME IInv, NEW w \in Workers, Busy(w) PROVE IInv'
<1>1. /\ at[w].step = "lock" /\ at' = [at EXCEPT ![w] = Idle]
      /\ job' = [job EXCEPT ![at[w].job].status = "failed"]
      /\ lock' = lock /\ queue' = queue /\ caller' = caller
  BY DEF Busy, SetStatus, Running
<1> QED
  BY <1>1, LeaveIInv DEF Finished

\* Leaving the entity lock at the end.
LEMMA UnlockIInv == ASSUME IInv, NEW w \in Workers, Unlock(w) PROVE IInv'
<1>1. /\ at[w].step = "unlock" /\ at' = [at EXCEPT ![w] = Idle]
      /\ lock' = [lock EXCEPT ![Entity(w)] = Nobody]
      /\ job' = job /\ queue' = queue /\ caller' = caller
  BY DEF Unlock
<1> DEFINE s == job[at[w].job].status
<1>2. at[w].job \in JobIds /\ s \in Finished
  BY <1>1 DEF IInv, WorkersJobs, StatusOf
<1>3. job' = [job EXCEPT ![at[w].job].status = s]
  BY <1>1, <1>2 DEF IInv, TypeOK, JobRecord
<1>4. s = "succeeded" => ~(Kind(w) = "generate" /\ job[at[w].job].early)
  BY <1>2 DEF IInv, EarlyCancelHonoured, Kind, Running
<1> HIDE DEF s
<1> QED
  BY <1>1, <1>2, <1>3, <1>4, LeaveIInv

-----------------------------------------------------------------------------
\* The steps of a worker, each one of the kinds above.
LEMMA WorkerIInv == ASSUME IInv, NEW w \in Workers, WorkerStep(w) PROVE IInv'
<1> DEFINE stopped == Kind(w) = "generate" /\ job[at[w].job].early
<1> DEFINE still == UNCHANGED <<job, queue, lock, caller>>
<1>1. /\ "preflight" \in Steps /\ "detect" \in Steps /\ "poll" \in Steps
      /\ "work" \in Steps /\ "hung" \in Steps /\ "persist" \in Steps
      /\ "succeeded" \in Finished /\ "failed" \in Finished /\ "cancelled" \in Finished
  BY DEF Steps, Finished
<1>2. at[w].step \in {"detect", "work", "persist"} => ~stopped
  BY DEF IInv, EarlyStops, Kind, Running
<1>3. at[w].step \notin {"none", "idle"} => at[w].job \in JobIds
  BY DEF IInv, WorkersJobs
<1> HIDE DEF stopped, still
<1>4. CASE Dequeue(w)
  BY <1>4, DequeueIInv
<1>5. CASE Lock(w)
  BY <1>5, LockIInv
<1>6. CASE Busy(w)
  BY <1>6, BusyIInv
<1>7. CASE Preflight(w)
  <2>1. CASE Finish(w, "preflight", "failed")
    BY <2>1, <1>1, FinishIInv
  <2>2. CASE Kind(w) = "generate" /\ Step(w, "preflight", "poll") /\ still
    BY <2>2, <1>1, WorkerGoes DEF still
  <2>3. CASE Kind(w) # "generate" /\ Step(w, "preflight", "detect") /\ still
    BY <2>3, <1>1, WorkerGoes DEF still
  <2> QED
    BY <1>7, <2>1, <2>2, <2>3 DEF Preflight, still
<1>8. CASE Detect(w)
  <2>0. at[w].step = "detect"
    BY <1>8 DEF Detect, Finish, Step
  <2>1. CASE Finish(w, "detect", "succeeded")
    BY <2>0, <2>1, <1>1, <1>2, FinishIInv DEF stopped
  <2>2. CASE Finish(w, "detect", "failed")
    BY <2>2, <1>1, FinishIInv
  <2>3. CASE Step(w, "detect", "poll") /\ still
    BY <2>3, <1>1, WorkerGoes DEF still
  <2> QED
    BY <1>8, <2>1, <2>2, <2>3 DEF Detect, still
<1>9. CASE Poll(w)
  <2>0. at[w].step = "poll"
    BY <1>9 DEF Poll
  <2>1. CASE job[Running(w)].cancel
    <3>1. Finish(w, "poll", "cancelled")
      BY <1>9, <2>1 DEF Poll
    <3> QED BY <3>1, <1>1, FinishIInv
  <2>2. CASE ~job[Running(w)].cancel
    <3>1. Step(w, "poll", "work") /\ still
      BY <1>9, <2>2 DEF Poll, still
    <3>2. ~job[at[w].job].early
      BY <2>0, <2>2, <1>3 DEF IInv, EarlyStops, Running
    <3> QED BY <3>1, <3>2, <1>1, WorkerGoes DEF still
  <2> QED BY <2>1, <2>2
<1>10. CASE Work(w) \/ Hang(w)
  BY <1>10, <1>1, WorkerGoes DEF Work, Hang
<1>11. CASE LastWork(w)
  <2>0. at[w].step = "work"
    BY <1>11 DEF LastWork, Finish, Step
  <2>1. CASE Step(w, "work", "persist") /\ still
    BY <2>0, <2>1, <1>1, <1>2, WorkerGoes DEF still, stopped
  <2>2. CASE Finish(w, "work", "failed")
    BY <2>2, <1>1, FinishIInv
  <2> QED BY <1>11, <2>1, <2>2 DEF LastWork, still
<1>12. CASE Persist(w)
  <2>0. at[w].step = "persist"
    BY <1>12 DEF Persist, Finish, Step
  <2>1. CASE Finish(w, "persist", "succeeded")
    BY <2>0, <2>1, <1>1, <1>2, FinishIInv DEF stopped
  <2>2. CASE Finish(w, "persist", "failed")
    BY <2>2, <1>1, FinishIInv
  <2> QED BY <1>12, <2>1, <2>2 DEF Persist
<1>13. CASE Unlock(w)
  BY <1>13, UnlockIInv
<1> QED
  BY <1>4, <1>5, <1>6, <1>7, <1>8, <1>9, <1>10, <1>11, <1>12, <1>13 DEF WorkerStep

\* Every step of the program keeps the invariant.
LEMMA NextIInv == IInv /\ [Next]_vars => IInv'
<1> SUFFICES ASSUME IInv, [Next]_vars PROVE IInv'
  OBVIOUS
<1>1. ASSUME NEW c \in Callers, CallerStep(c) PROVE IInv'
  BY <1>1, SubmitIInv, CreateIInv DEF CallerStep
<1>2. ASSUME NEW e \in Entities, Cancel(e) PROVE IInv'
  BY <1>2, CancelIInv
<1>3. ASSUME NEW j \in JobIds, Age(j) PROVE IInv'
  BY <1>3, AgeIInv
<1>4. ASSUME NEW w \in Workers, WorkerStep(w) PROVE IInv'
  BY <1>4, WorkerIInv
<1>5. CASE UNCHANGED vars
  <2>1. job' = job /\ queue' = queue /\ at' = at /\ lock' = lock /\ caller' = caller
    BY <1>5 DEF vars
  <2>2. TypeOK' /\ WaitingJobs' /\ OneWay' /\ WorkersJobs' /\ OldOnes'
    BY <2>1 DEF IInv, TypeOK, WaitingJobs, OneWay, WorkersJobs, OldOnes
  <2>3. LockHeld' /\ EarlyStops' /\ EarlyCancelHonoured'
    BY <2>1 DEF IInv, LockHeld, EarlyStops, EarlyCancelHonoured, Inside, Entity, Running
  <2> QED BY <2>2, <2>3 DEF IInv
<1> QED
  BY <1>1, <1>2, <1>3, <1>4, <1>5 DEF Next

\* IInv: what is registered, queued and being run fits together at any time
\* (_docgen_jobs, the executor's queue and the worker threads of docgen/jobs.py).
THEOREM Invariance == Spec => []IInv
<1>1. Init => IInv
  BY InitIInv
<1>2. IInv /\ [Next]_vars => IInv'
  BY NextIInv
<1> QED
  BY <1>1, <1>2, PTL DEF Spec

\* EntitySerial: two runs of one artifact are never at work together, though a
\* detection and a generation have different keys in the registry.
THEOREM EntitySerialHolds == Spec => []EntitySerial
<1>1. IInv => EntitySerial
  BY DEF IInv, EntitySerial, LockHeld
<1> QED
  BY <1>1, Invariance, PTL

\* EarlyCancelHonoured: a generation cancelled while it was queued never ends
\* with documents.
THEOREM EarlyCancelHolds == Spec => []EarlyCancelHonoured
<1>1. IInv => EarlyCancelHonoured
  BY DEF IInv
<1> QED
  BY <1>1, Invariance, PTL

-----------------------------------------------------------------------------
\* What the registry shows of the jobs, unpruned.
LEMMA SeenFields ==
    ASSUME NEW j \in JobIds
    PROVE  /\ Seen[j].key = IF job[j].kind = "detect" THEN "detect" ELSE "docgen"
           /\ Seen[j].entity = job[j].entity
           /\ Seen[j].status = IF Active(j) THEN "active" ELSE job[j].status
BY DEF Seen

\* Pruning the old jobs forgets runs that have their outcome.
LEMMA PruneMaps ==
    ASSUME IInv
    PROVE  \E P \in SUBSET Registry!Done :
              /\ \A j \in JobIds : Pruned[j] = IF j \in P THEN NoJob ELSE job[j]
              /\ \A j \in JobIds : j \notin P => ~job[j].old
<1> DEFINE P == {j \in JobIds : job[j].old}
<1>1. \A j \in P : job[j].status \in Finished /\ ~Active(j)
  BY DEF IInv, OldOnes, Finished, Active
<1>2. P \in SUBSET Registry!Done
  BY <1>1, SeenFields DEF Registry!Done, Registry!Outcomes, Finished
<1>3. \A j \in JobIds : Pruned[j] = IF j \in P THEN NoJob ELSE job[j]
  BY DEF Pruned
<1> QED
  BY <1>2, <1>3

\* After the pruning of P the registry shows the others as before.
LEMMA PrunedSeen ==
    ASSUME NEW P \in SUBSET JobIds, NEW j \in JobIds,
           Pruned[j] = IF j \in P THEN NoJob ELSE job[j],
           job'[j] = Pruned[j]
    PROVE  Seen'[j] = Registry!Without(P)[j]
<1>1. /\ NoJob.kind = "generate" /\ NoJob.status = "absent"
      /\ NoJob.entity = Registry!NoRun.entity
      /\ Registry!NoRun = [key |-> "docgen", entity |-> NoJob.entity, status |-> "absent"]
  BY DEF NoJob, Registry!NoRun
<1>2. Seen'[j] = [key |-> IF job'[j].kind = "detect" THEN "detect" ELSE "docgen",
                  entity |-> job'[j].entity,
                  status |-> IF job'[j].status \in {"queued", "running"}
                             THEN "active" ELSE job'[j].status]
  BY DEF Seen, Active
<1>3. CASE j \in P
  BY <1>1, <1>2, <1>3 DEF Registry!Without
<1>4. CASE j \notin P
  BY <1>2, <1>4 DEF Registry!Without, Seen, Active
<1> QED BY <1>3, <1>4

\* A step that leaves kinds, entities and what counts as active is none of the
\* registry's.
LEMMA Unseen ==
    ASSUME \A j \in JobIds :
               /\ job'[j].kind = job[j].kind /\ job'[j].entity = job[j].entity
               /\ \/ job'[j].status = job[j].status
                  \/ Active(j) /\ job'[j].status \in {"queued", "running"}
    PROVE  Seen' = Seen
<1>1. \A j \in JobIds : Active(j)' <=> Active(j)
  BY DEF Active
<1> QED
  BY <1>1 DEF Seen, Active

\* The step that gives a job its outcome.
LEMMA Outcome ==
    ASSUME IInv, NEW j \in JobIds, NEW s \in Finished, Active(j),
           job' = [job EXCEPT ![j].status = s]
    PROVE  Registry!RegistryNext
<1>1. \A k \in JobIds :
          /\ job'[k].kind = job[k].kind /\ job'[k].entity = job[k].entity
          /\ job'[k].status = IF k = j THEN s ELSE job[k].status
  BY DEF IInv, TypeOK, JobRecord
<1>2. s \in Registry!Outcomes /\ s \notin {"queued", "running"}
  BY DEF Finished, Registry!Outcomes
<1>3. Seen' = [Seen EXCEPT ![j].status = s]
  <2>1. \A k \in JobIds : Seen'[k] = [Seen EXCEPT ![j].status = s][k]
    BY <1>1, <1>2 DEF Seen, Active
  <2> QED BY <2>1 DEF Seen
<1>4. Seen[j].status = "active"
  BY DEF Seen
<1> QED
  BY <1>2, <1>3, <1>4 DEF Registry!RegistryNext, Registry!Close

\* Registering a job is the registry's Open, finding one at work a mere pruning.
LEMMA CreateMaps ==
    ASSUME IInv, NEW c \in Callers, NEW kind \in Kinds, NEW e \in Entities, Create(c, kind, e)
    PROVE  Registry!RegistryNext
<1>1. PICK P \in SUBSET Registry!Done :
          \A j \in JobIds : Pruned[j] = IF j \in P THEN NoJob ELSE job[j]
  BY PruneMaps
<1>2. P \subseteq JobIds
  BY DEF Registry!Done
<1>3. CASE Reattach(kind, e)
  <2>1. \A j \in JobIds : job'[j] = Pruned[j]
    BY <1>3 DEF Reattach
  <2>2. \A j \in JobIds : Seen'[j] = Registry!Without(P)[j]
    BY <2>1, <1>1, <1>2, PrunedSeen
  <2>3. Seen' = Registry!Without(P)
    BY <2>2 DEF Seen, Registry!Without
  <2> QED
    BY <2>3 DEF Registry!RegistryNext, Registry!Prune
<1>4. ASSUME NEW j \in JobIds, Add(c, j, kind, e) PROVE Registry!RegistryNext
  <2> DEFINE key == IF kind = "detect" THEN "detect" ELSE "docgen"
             new == [key |-> key, entity |-> e, status |-> "active"]
  <2>1. /\ InFlight(kind, e) = {} /\ Pruned[j].status = "absent"
        /\ job' = [Pruned EXCEPT ![j] = Queued(kind, e)]
    BY <1>4 DEF Add
  <2>2. \A k \in JobIds : job'[k] = IF k = j THEN Queued(kind, e) ELSE Pruned[k]
    BY <2>1 DEF Pruned
  <2>3. /\ Queued(kind, e).kind = kind /\ Queued(kind, e).entity = e
        /\ Queued(kind, e).status = "queued"
    BY DEF Queued, NoJob
  <2>4. Seen'[j] = new
    BY <2>2, <2>3 DEF Seen, Active
  <2>5. \A k \in JobIds : k # j => Seen'[k] = Registry!Without(P)[k]
    BY <2>2, <1>1, <1>2, PrunedSeen
  <2>6. Seen' = [Registry!Without(P) EXCEPT ![j] = new]
    BY <2>4, <2>5 DEF Seen, Registry!Without
  <2>7. Registry!Without(P)[j].status = "absent"
    <3>1. CASE j \in P
      BY <3>1 DEF Registry!Without, Registry!NoRun
    <3>2. CASE j \notin P
      BY <3>2, <2>1, <1>1 DEF Registry!Without, Seen, Active
    <3> QED BY <3>1, <3>2
  <2>8. Registry!ActiveRuns(key, e) = {}
    <3> SUFFICES ASSUME NEW k \in JobIds, Seen[k].status = "active", Seen[k].key = key,
                        Seen[k].entity = e
                 PROVE  FALSE
      BY DEF Registry!ActiveRuns
    <3>1. Active(k)
      <4>1. job[k].status # "active"
        BY DEF IInv, TypeOK, JobRecord, Statuses, Finished
      <4> QED BY <4>1, SeenFields
    <3>2. job[k].entity = e /\ (job[k].kind = "detect" <=> kind = "detect")
      BY DEF Seen
    <3> QED BY <3>1, <3>2, <2>1 DEF InFlight, SameKey
  <2>9. key \in Registry!RegistryKeys
    BY DEF Registry!RegistryKeys
  <2> HIDE DEF key
  <2> QED
    BY <2>6, <2>7, <2>8, <2>9 DEF Registry!RegistryNext, Registry!Open
<1> QED
  BY <1>3, <1>4 DEF Create

\* A worker's step gives a job its outcome, or is none of the registry's.
LEMMA WorkerMaps ==
    ASSUME IInv, NEW w \in Workers, WorkerStep(w)
    PROVE  Registry!RegistryNext \/ Seen' = Seen
<1> DEFINE j == at[w].job
<1>1. at[w].step \notin {"none", "idle"} => j \in JobIds
  BY DEF IInv, WorkersJobs
<1>2. at[w].step \notin {"none", "idle", "unlock"} => Active(j)
  BY DEF IInv, WorkersJobs, StatusOf, Active
<1>3. ASSUME job' = job PROVE Seen' = Seen
  BY <1>3, Unseen
<1>4. CASE Dequeue(w) \/ Unlock(w)
  BY <1>3, <1>4 DEF Dequeue, Unlock
<1>5. CASE Lock(w)
  <2>1. at[w].step = "lock" /\ job' = [job EXCEPT ![j].status = "running"]
    BY <1>5 DEF Lock, Step, SetStatus, Running
  <2>2. \A k \in JobIds :
            /\ job'[k].kind = job[k].kind /\ job'[k].entity = job[k].entity
            /\ job'[k].status = IF k = j THEN "running" ELSE job[k].status
    BY <2>1 DEF IInv, TypeOK, JobRecord
  <2> QED BY <2>1, <2>2, <1>2, Unseen
<1>6. CASE Busy(w)
  <2>1. at[w].step = "lock" /\ job' = [job EXCEPT ![j].status = "failed"]
    BY <1>6 DEF Busy, SetStatus, Running
  <2> QED BY <2>1, <1>1, <1>2, Outcome DEF Finished
<1>7. ASSUME NEW from \in Steps \ {"none", "idle", "lock", "unlock"}, NEW s \in Finished,
             Finish(w, from, s)
      PROVE  Registry!RegistryNext
  <2>1. at[w].step = from /\ job' = [job EXCEPT ![j].status = s]
    BY <1>7 DEF Finish, Step, SetStatus, Running
  <2> QED BY <2>1, <1>1, <1>2, Outcome
<1>8. /\ {"preflight", "detect", "poll", "work", "persist"} \subseteq Steps \ {"none", "idle", "lock", "unlock"}
      /\ {"succeeded", "failed", "cancelled"} \subseteq Finished
  BY DEF Steps, Finished
<1>9. CASE \/ Preflight(w) \/ Detect(w) \/ Poll(w)
           \/ Work(w) \/ Hang(w) \/ LastWork(w) \/ Persist(w)
  BY <1>3, <1>7, <1>8, <1>9 DEF Preflight, Detect, Poll, Work, Hang, LastWork, Persist
<1> QED
  BY <1>4, <1>5, <1>6, <1>9 DEF WorkerStep

\* RegistrySpec: the registry with its pool and locks keeps what JobRegistry
\* promises (one active run per key, one outcome per run, and no run without
\* an outcome is pruned).
THEOREM Refinement == Spec => RegistrySpec
<1>1. Init => Registry!RegistryInit
  <2> SUFFICES ASSUME Init PROVE Registry!RegistryInit
    OBVIOUS
  <2>1. /\ NoJob.kind = "generate" /\ NoJob.status = "absent"
        /\ Registry!NoRun = [key |-> "docgen", entity |-> NoJob.entity, status |-> "absent"]
    BY DEF NoJob, Registry!NoRun
  <2>2. \A j \in JobIds : Seen[j] = Registry!NoRun
    BY <2>1 DEF Init, Seen, Active
  <2> QED BY <2>2 DEF Seen, Registry!RegistryInit
<1>2. IInv /\ [Next]_vars => [Registry!RegistryNext]_Seen
  <2> SUFFICES ASSUME IInv, [Next]_vars PROVE Registry!RegistryNext \/ Seen' = Seen
    OBVIOUS
  <2>1. ASSUME NEW c \in Callers, CallerStep(c) PROVE Registry!RegistryNext \/ Seen' = Seen
    BY <2>1, CreateMaps, Unseen DEF CallerStep, Submit
  <2>2. ASSUME NEW e \in Entities, Cancel(e) PROVE Seen' = Seen
    <3>1. PICK j \in Cancellable(e) :
              job' = [job EXCEPT ![j].cancel = TRUE,
                                 ![j].early = @ \/ job[j].status = "queued"]
      BY <2>2 DEF Cancel
    <3>2. \A k \in JobIds :
              /\ job'[k].kind = job[k].kind /\ job'[k].entity = job[k].entity
              /\ job'[k].status = job[k].status
      BY <3>1 DEF IInv, TypeOK, JobRecord
    <3> QED BY <3>2, Unseen
  <2>3. ASSUME NEW j \in JobIds, Age(j) PROVE Seen' = Seen
    <3>1. \A k \in JobIds :
              /\ job'[k].kind = job[k].kind /\ job'[k].entity = job[k].entity
              /\ job'[k].status = job[k].status
      BY <2>3 DEF Age, IInv, TypeOK, JobRecord
    <3> QED BY <3>1, Unseen
  <2>4. ASSUME NEW w \in Workers, WorkerStep(w) PROVE Registry!RegistryNext \/ Seen' = Seen
    BY <2>4, WorkerMaps
  <2>5. CASE UNCHANGED vars
    BY <2>5, Unseen DEF vars
  <2> QED
    BY <2>1, <2>2, <2>3, <2>4, <2>5 DEF Next
<1> QED
  BY <1>1, <1>2, Invariance, PTL DEF Spec, RegistrySpec, Registry!RegistrySpec

=============================================================================
