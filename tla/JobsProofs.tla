----------------------------- MODULE JobsProofs -----------------------------
(***************************************************************************)
(* Machine-checked proofs about what docgen jobs run under: EntityLocks,   *)
(* for any number of threads, entities and lock objects, and Scheduler,    *)
(* for any schedules and entities, any number of fire times and failures.  *)
(***************************************************************************)
EXTENDS EntityLocks, Scheduler, FiniteSetTheorems, TLAPS

\* Whoever is in the context of an entity refers to the registered lock.
Registered ==
    \A t \in Threads, k \in Keys :
        pc[t][k] # "out" => table[k] # NoLock /\ mine[t][k] = table[k]

Unregistered ==
    \A t \in Threads, k \in Keys : pc[t][k] = "out" => mine[t][k] = NoLock

\* Two entities never share a lock object.
Unshared ==
    \A j, k \in Keys : table[j] # NoLock /\ table[j] = table[k] => j = k

\* A thread past a successful acquire owns the lock, and only such a thread does.
Owned ==
    \A t \in Threads, k \in Keys : pc[t][k] = "held" => owner[mine[t][k]] = t

OwnerInside ==
    \A k \in Keys : table[k] # NoLock /\ owner[table[k]] # NoThread =>
        pc[owner[table[k]]][k] = "held"

IInv == /\ TypeOK
        /\ Registered /\ Unregistered
        /\ Unshared /\ Owned /\ OwnerInside
        /\ RegistryExact

-----------------------------------------------------------------------------
\* Counting one thread in or out of the context of one entity.
LEMMA InsideFinite == ASSUME NEW k \in Keys PROVE IsFiniteSet(Inside(k))
BY LocksAssumption, FS_Subset DEF Inside

\* The initial registry is empty and consistent.
LEMMA InitIInv == Init => IInv
<1> SUFFICES ASSUME Init PROVE IInv
  OBVIOUS
<1>1. TypeOK /\ Registered /\ Unregistered /\ Unshared /\ Owned /\ OwnerInside
  BY DEF Init, TypeOK, Places, Registered, Unregistered, Unshared, Owned, OwnerInside
<1>2. RegistryExact
  <2>1. \A k \in Keys : Inside(k) = {}
    BY DEF Init, Inside
  <2> QED
    BY <2>1, FS_EmptySet DEF Init, RegistryExact
<1> QED
  BY <1>1, <1>2 DEF IInv

\* Entering keeps the registry consistent, whether the lock is found or created.
LEMMA EnterIInv ==
    ASSUME IInv, NEW t \in Threads, NEW k \in Keys, Enter(t, k)
    PROVE  IInv'
<1>1. PICK l \in LockIds :
          /\ IF table[k] = NoLock
             THEN l \notin InUse /\ owner' = [owner EXCEPT ![l] = NoThread]
             ELSE l = table[k] /\ UNCHANGED owner
          /\ table' = [table EXCEPT ![k] = l]
          /\ mine' = [mine EXCEPT ![t][k] = l]
  BY DEF Enter
<1>2. /\ pc[t][k] = "out"
      /\ pc' = [pc EXCEPT ![t][k] = "waiting"]
      /\ refs' = [refs EXCEPT ![k] = @ + 1]
      /\ unwinding' = unwinding
  BY DEF Enter, MayEnter, Goto
<1>3. TypeOK'
  BY <1>1, <1>2, LocksAssumption DEF IInv, TypeOK, Places
<1>4. \A u \in Threads, j \in Keys :
          /\ pc'[u][j] = IF u = t /\ j = k THEN "waiting" ELSE pc[u][j]
          /\ mine'[u][j] = IF u = t /\ j = k THEN l ELSE mine[u][j]
          /\ table'[j] = IF j = k THEN l ELSE table[j]
  BY <1>1, <1>2 DEF IInv, TypeOK
<1>5. l # NoLock
  BY LocksAssumption
<1>6. \A j \in Keys : j # k => table[j] # l
  <2>1. CASE table[k] = NoLock
    BY <1>1, <2>1 DEF InUse
  <2>2. CASE table[k] # NoLock
    BY <1>1, <2>2 DEF IInv, Unshared
  <2> QED BY <2>1, <2>2
<1>7. \A u \in Threads : pc[u][k] # "out" => table[k] = l
  BY <1>1 DEF IInv, Registered
<1>8. Registered' /\ Unregistered'
  BY <1>4, <1>5, <1>7 DEF IInv, Registered, Unregistered
<1>9. Unshared'
  BY <1>4, <1>6 DEF IInv, Unshared
<1>10. \A m \in LockIds : m # l => owner'[m] = owner[m]
  BY <1>1 DEF IInv, TypeOK
<1>11. \A u \in Threads, j \in Keys : pc[u][j] = "held" =>
          mine[u][j] = table[j] /\ table[j] \in LockIds
  BY DEF IInv, TypeOK, Registered
<1>12. Owned'
  <2> SUFFICES ASSUME NEW u \in Threads, NEW j \in Keys, pc'[u][j] = "held"
               PROVE  owner'[mine'[u][j]] = u
    BY DEF Owned
  <2>1. pc[u][j] = "held" /\ mine'[u][j] = mine[u][j] /\ owner[mine[u][j]] = u
    BY <1>4 DEF IInv, Owned
  <2>2. CASE j = k
    BY <2>1, <2>2, <1>1, <1>7, <1>11, <1>5
  <2>3. CASE j # k
    BY <2>1, <2>3, <1>6, <1>10, <1>11
  <2> QED BY <2>2, <2>3
<1>13. OwnerInside'
  <2> SUFFICES ASSUME NEW j \in Keys, table'[j] # NoLock, owner'[table'[j]] # NoThread
               PROVE  pc'[owner'[table'[j]]][j] = "held"
    BY DEF OwnerInside
  <2>1. table[j] # NoLock /\ owner'[table'[j]] = owner[table[j]] /\ table'[j] = table[j]
    <3>1. CASE j # k
      BY <3>1, <1>4, <1>6, <1>10 DEF IInv, TypeOK
    <3>2. CASE j = k
      BY <3>2, <1>1, <1>4 DEF IInv, TypeOK
    <3> QED BY <3>1, <3>2
  <2>2. pc[owner[table[j]]][j] = "held" /\ owner[table[j]] \in Threads
    BY <2>1 DEF IInv, OwnerInside, TypeOK
  <2> QED
    BY <2>1, <2>2, <1>2, <1>4
<1>14. RegistryExact'
  <2> SUFFICES ASSUME NEW j \in Keys
               PROVE  /\ refs'[j] = Cardinality(Inside(j)')
                      /\ table'[j] = NoLock <=> Inside(j)' = {}
    BY DEF RegistryExact, Inside
  <2>1. refs[j] = Cardinality(Inside(j)) /\ (table[j] = NoLock <=> Inside(j) = {})
    BY DEF IInv, RegistryExact
  <2>2. CASE j # k
    <3>1. Inside(j)' = Inside(j)
      BY <2>2, <1>4 DEF Inside
    <3> QED
      BY <2>1, <2>2, <3>1, <1>2, <1>4 DEF IInv, TypeOK
  <2>3. CASE j = k
    <3>1. Inside(k)' = Inside(k) \cup {t} /\ t \notin Inside(k)
      BY <1>2, <1>4 DEF Inside
    <3>2. Cardinality(Inside(k) \cup {t}) = Cardinality(Inside(k)) + 1
      BY <3>1, InsideFinite, FS_AddElement
    <3>3. refs'[k] = refs[k] + 1 /\ table'[k] # NoLock
      BY <1>2, <1>4, <1>5 DEF IInv, TypeOK
    <3> QED
      BY <2>1, <2>3, <3>1, <3>2, <3>3
  <2> QED BY <2>2, <2>3
<1> QED
  BY <1>3, <1>8, <1>9, <1>12, <1>13, <1>14 DEF IInv

\* A successful acquire makes its thread the one owner of the registered lock.
LEMMA AcquireIInv ==
    ASSUME IInv, NEW t \in Threads, NEW k \in Keys, Acquire(t, k)
    PROVE  IInv'
<1> DEFINE l == table[k]
<1>1. /\ pc[t][k] = "waiting" /\ mine[t][k] = l /\ l \in LockIds
      /\ owner[l] = NoThread
      /\ owner' = [owner EXCEPT ![l] = t]
      /\ pc' = [pc EXCEPT ![t][k] = "held"]
      /\ UNCHANGED <<table, refs, mine, unwinding>>
  BY DEF Acquire, Goto, IInv, TypeOK, Registered
<1>2. TypeOK'
  BY <1>1 DEF IInv, TypeOK, Places
<1>3. \A u \in Threads, j \in Keys :
          pc'[u][j] = IF u = t /\ j = k THEN "held" ELSE pc[u][j]
  BY <1>1 DEF IInv, TypeOK
<1>4. \A m \in LockIds : owner'[m] = IF m = l THEN t ELSE owner[m]
  BY <1>1 DEF IInv, TypeOK
<1>5. Registered' /\ Unregistered' /\ Unshared'
  BY <1>1, <1>3 DEF IInv, Registered, Unregistered, Unshared
<1>6. Owned'
  <2> SUFFICES ASSUME NEW u \in Threads, NEW j \in Keys, pc'[u][j] = "held"
               PROVE  owner'[mine[u][j]] = u
    BY <1>1 DEF Owned
  <2>1. CASE u = t /\ j = k
    BY <2>1, <1>1, <1>4
  <2>2. CASE ~(u = t /\ j = k)
    <3>1. pc[u][j] = "held" /\ owner[mine[u][j]] = u /\ mine[u][j] \in LockIds
      BY <2>2, <1>3 DEF IInv, Owned, Registered, TypeOK
    <3>2. mine[u][j] # l
      BY <3>1, <1>1, LocksAssumption
    <3> QED BY <3>1, <3>2, <1>4
  <2> QED BY <2>1, <2>2
<1>7. OwnerInside'
  <2> SUFFICES ASSUME NEW j \in Keys, table[j] # NoLock, owner'[table[j]] # NoThread
               PROVE  pc'[owner'[table[j]]][j] = "held"
    BY <1>1 DEF OwnerInside
  <2>1. CASE j = k
    BY <2>1, <1>1, <1>3, <1>4
  <2>2. CASE j # k
    <3>1. table[j] # l /\ table[j] \in LockIds
      BY <2>2, <1>1 DEF IInv, Unshared, TypeOK
    <3>2. owner'[table[j]] = owner[table[j]] /\ owner[table[j]] \in Threads
      BY <3>1, <1>4 DEF IInv, TypeOK
    <3>3. pc[owner[table[j]]][j] = "held"
      BY <3>2 DEF IInv, OwnerInside
    <3> QED BY <2>2, <3>2, <3>3, <1>3
  <2> QED BY <2>1, <2>2
<1>8. RegistryExact'
  <2>1. \A j \in Keys : Inside(j)' = Inside(j)
    BY <1>1, <1>3 DEF Inside
  <2> QED BY <1>1, <2>1 DEF IInv, RegistryExact
<1> QED
  BY <1>2, <1>5, <1>6, <1>7, <1>8 DEF IInv

\* A caller that gives up changes nothing but its own place.
LEMMA TimeoutIInv ==
    ASSUME IInv, NEW t \in Threads, NEW k \in Keys, Timeout(t, k)
    PROVE  IInv'
<1>1. /\ pc[t][k] = "waiting"
      /\ pc' = [pc EXCEPT ![t][k] = "busy"]
      /\ UNCHANGED <<table, refs, owner, mine>>
      /\ unwinding' = unwinding \cup {t}
  BY DEF Timeout, Goto
<1>2. TypeOK'
  BY <1>1 DEF IInv, TypeOK, Places
<1>3. \A u \in Threads, j \in Keys :
          pc'[u][j] = IF u = t /\ j = k THEN "busy" ELSE pc[u][j]
  BY <1>1 DEF IInv, TypeOK
<1>4. Registered' /\ Unregistered' /\ Unshared' /\ Owned'
  BY <1>1, <1>3 DEF IInv, Registered, Unregistered, Unshared, Owned
<1>5. OwnerInside'
  <2> SUFFICES ASSUME NEW j \in Keys, table[j] # NoLock, owner[table[j]] # NoThread
               PROVE  pc'[owner[table[j]]][j] = "held"
    BY <1>1 DEF OwnerInside
  <2>1. pc[owner[table[j]]][j] = "held" /\ owner[table[j]] \in Threads
    BY DEF IInv, OwnerInside, TypeOK
  <2> QED BY <2>1, <1>1, <1>3
<1>6. RegistryExact'
  <2>1. \A j \in Keys : Inside(j)' = Inside(j)
    BY <1>1, <1>3 DEF Inside
  <2> QED BY <1>1, <2>1 DEF IInv, RegistryExact
<1> QED
  BY <1>2, <1>4, <1>5, <1>6 DEF IInv

\* The owner lets go; nobody else was past the acquire.
LEMMA ReleaseIInv ==
    ASSUME IInv, NEW t \in Threads, NEW k \in Keys, Release(t, k)
    PROVE  IInv'
<1> DEFINE l == table[k]
<1>1. /\ pc[t][k] = "held" /\ mine[t][k] = l /\ l \in LockIds
      /\ owner[l] = t
      /\ owner' = [owner EXCEPT ![l] = NoThread]
      /\ pc' = [pc EXCEPT ![t][k] = "leaving"]
      /\ UNCHANGED <<table, refs, mine>>
      /\ unwinding' = unwinding \cup {t}
  BY DEF Release, Goto, IInv, TypeOK, Registered, Owned
<1>2. TypeOK'
  BY <1>1 DEF IInv, TypeOK, Places
<1>3. \A u \in Threads, j \in Keys :
          pc'[u][j] = IF u = t /\ j = k THEN "leaving" ELSE pc[u][j]
  BY <1>1 DEF IInv, TypeOK
<1>4. \A m \in LockIds : owner'[m] = IF m = l THEN NoThread ELSE owner[m]
  BY <1>1 DEF IInv, TypeOK
<1>5. Registered' /\ Unregistered' /\ Unshared'
  BY <1>1, <1>3 DEF IInv, Registered, Unregistered, Unshared
<1>6. Owned'
  <2> SUFFICES ASSUME NEW u \in Threads, NEW j \in Keys, pc'[u][j] = "held"
               PROVE  owner'[mine[u][j]] = u
    BY <1>1 DEF Owned
  <2>1. /\ pc[u][j] = "held" /\ ~(u = t /\ j = k)
        /\ mine[u][j] = table[j] /\ table[j] # NoLock
        /\ owner[mine[u][j]] = u /\ mine[u][j] \in LockIds
    BY <1>1, <1>3 DEF IInv, Owned, Registered, TypeOK
  <2>2. mine[u][j] # l
    BY <2>1, <1>1 DEF IInv, Unshared
  <2> QED BY <2>1, <2>2, <1>4
<1>7. OwnerInside'
  <2> SUFFICES ASSUME NEW j \in Keys, table[j] # NoLock, owner'[table[j]] # NoThread
               PROVE  pc'[owner'[table[j]]][j] = "held"
    BY <1>1 DEF OwnerInside
  <2>1. table[j] # l /\ table[j] \in LockIds
    BY <1>4 DEF IInv, TypeOK
  <2>2. owner'[table[j]] = owner[table[j]] /\ owner[table[j]] \in Threads
    BY <2>1, <1>4 DEF IInv, TypeOK
  <2>3. pc[owner[table[j]]][j] = "held"
    BY <2>2 DEF IInv, OwnerInside
  <2> QED BY <2>1, <2>2, <2>3, <1>3
<1>8. RegistryExact'
  <2>1. \A j \in Keys : Inside(j)' = Inside(j)
    BY <1>1, <1>3 DEF Inside
  <2> QED BY <1>1, <2>1 DEF IInv, RegistryExact
<1> QED
  BY <1>2, <1>5, <1>6, <1>7, <1>8 DEF IInv

\* The entry is dropped exactly when the leaving thread was the last inside.
LEMMA LeaveIInv ==
    ASSUME IInv, NEW t \in Threads, NEW k \in Keys, Leave(t, k)
    PROVE  IInv'
<1>1. /\ pc[t][k] \in {"busy", "leaving"}
      /\ IF refs[k] - 1 <= 0
         THEN /\ refs' = [refs EXCEPT ![k] = 0]
              /\ table' = [table EXCEPT ![k] = NoLock]
         ELSE refs' = [refs EXCEPT ![k] = @ - 1] /\ UNCHANGED table
      /\ pc' = [pc EXCEPT ![t][k] = "out"]
      /\ mine' = [mine EXCEPT ![t][k] = NoLock]
      /\ UNCHANGED owner
      /\ unwinding' \in {unwinding, unwinding \ {t}}
  BY DEF Leave, CountOut, Goto
<1>2. /\ refs[k] \in Nat /\ refs[k] = Cardinality(Inside(k)) /\ t \in Inside(k)
      /\ IsFiniteSet(Inside(k))
  BY <1>1, InsideFinite DEF IInv, TypeOK, RegistryExact, Inside
<1>3. TypeOK'
  BY <1>1, <1>2 DEF IInv, TypeOK, Places
<1>4. \A u \in Threads, j \in Keys :
          /\ pc'[u][j] = IF u = t /\ j = k THEN "out" ELSE pc[u][j]
          /\ mine'[u][j] = IF u = t /\ j = k THEN NoLock ELSE mine[u][j]
  BY <1>1 DEF IInv, TypeOK
<1>5. /\ Inside(k)' = Inside(k) \ {t}
      /\ IsFiniteSet(Inside(k)') /\ Cardinality(Inside(k)') = refs[k] - 1
      /\ \A j \in Keys \ {k} : Inside(j)' = Inside(j)
  <2>1. /\ Inside(k)' = Inside(k) \ {t}
        /\ \A j \in Keys \ {k} : Inside(j)' = Inside(j)
    BY <1>4 DEF Inside
  <2> QED BY <2>1, <1>2, FS_RemoveElement
<1>6. Cardinality(Inside(k)') \in Nat /\ (Cardinality(Inside(k)') = 0 <=> Inside(k)' = {})
  BY <1>5, FS_CardinalityType, FS_EmptySet
<1>7. \/ /\ Inside(k)' = {} /\ refs'[k] = 0 /\ table'[k] = NoLock
      \/ /\ Inside(k)' # {} /\ refs'[k] = refs[k] - 1 /\ table'[k] = table[k]
         /\ table[k] # NoLock
  <2>1. table[k] # NoLock
    BY <1>2 DEF IInv, RegistryExact
  <2> QED BY <2>1, <1>1, <1>2, <1>5, <1>6 DEF IInv, TypeOK
<1>8. \A j \in Keys \ {k} : refs'[j] = refs[j] /\ table'[j] = table[j]
  BY <1>1 DEF IInv, TypeOK
<1>9. RegistryExact'
  <2>1. \A j \in Keys : /\ refs'[j] = Cardinality(Inside(j)')
                        /\ table'[j] = NoLock <=> Inside(j)' = {}
    BY <1>5, <1>6, <1>7, <1>8 DEF IInv, RegistryExact
  <2> QED BY <2>1 DEF RegistryExact, Inside
<1>10. Registered' /\ Unregistered'
  <2>1. \A u \in Threads : pc'[u][k] # "out" => table'[k] = table[k]
    BY <1>7 DEF Inside
  <2> QED BY <2>1, <1>4, <1>8 DEF IInv, Registered, Unregistered
<1>11. Unshared'
  BY <1>7, <1>8 DEF IInv, Unshared
<1>12. Owned'
  BY <1>1, <1>4 DEF IInv, Owned
<1>13. OwnerInside'
  <2> SUFFICES ASSUME NEW j \in Keys, table'[j] # NoLock, owner[table'[j]] # NoThread
               PROVE  pc'[owner[table'[j]]][j] = "held"
    BY <1>1 DEF OwnerInside
  <2>1. table'[j] = table[j]
    BY <1>7, <1>8
  <2>2. pc[owner[table[j]]][j] = "held" /\ owner[table[j]] \in Threads
    BY <2>1 DEF IInv, OwnerInside, TypeOK
  <2> QED BY <2>1, <2>2, <1>1, <1>4
<1> QED
  BY <1>3, <1>9, <1>10, <1>11, <1>12, <1>13 DEF IInv

\* The inductive invariant of the registry.
LEMMA NextIInv == IInv /\ [Next]_vars => IInv'
<1> SUFFICES ASSUME IInv, [Next]_vars PROVE IInv'
  OBVIOUS
<1>1. CASE Next
  <2>1. PICK t \in Threads, k \in Keys :
            \/ Enter(t, k) \/ Acquire(t, k) \/ Timeout(t, k)
            \/ Release(t, k) \/ Leave(t, k)
    BY <1>1 DEF Next
  <2> QED
    BY <2>1, EnterIInv, AcquireIInv, TimeoutIInv, ReleaseIInv, LeaveIInv
<1>2. CASE UNCHANGED vars
  <2>1. \A k \in Keys : Inside(k)' = Inside(k)
    BY <1>2 DEF vars, Inside
  <2>2. RegistryExact'
    BY <1>2, <2>1 DEF vars, IInv, RegistryExact
  <2> QED
    BY <1>2, <2>2
       DEF vars, IInv, TypeOK, Registered, Unregistered, Unshared, Owned, OwnerInside
<1> QED
  BY <1>1, <1>2

\* The registry and the lock objects of lock_for_entity stay consistent: the
\* strengthened invariant that the theorems below are read off from.
THEOREM Invariance == Spec => []IInv
BY InitIInv, NextIInv, PTL DEF Spec

\* Dropping and re-creating registry entries never breaks mutual exclusion:
\* no API write and no docgen job are inside the context of one entity together.
THEOREM MutualExclusionHolds == Spec => []MutualExclusion
<1>1. IInv => MutualExclusion
  BY DEF IInv, Registered, Owned, MutualExclusion
<1> QED
  BY <1>1, Invariance, PTL

\* The refcount counts the threads in the context, and the entry of an entity
\* exists exactly while there is one.
THEOREM RegistryExactHolds == Spec => []RegistryExact
<1>1. IInv => RegistryExact
  BY DEF IInv
<1> QED
  BY <1>1, Invariance, PTL

-----------------------------------------------------------------------------
\* A thread has one context at most that it neither holds nor is out of, and
\* waits only for an entity that sorts after all it holds.
SoleOpen ==
    \A t \in Threads, j, k \in Keys :
        pc[t][k] \notin {"out", "held"} /\ j # k => pc[t][j] \in {"out", "held"}

Ordered ==
    \A t \in Threads, j, k \in Keys :
        pc[t][k] = "waiting" /\ pc[t][j] = "held" => j < k

\* Sorted acquisition is kept by every step.
LEMMA NextOrdered ==
    ASSUME IInv, SoleOpen, Ordered, [Next]_vars
    PROVE  SoleOpen' /\ Ordered'
<1>1. ASSUME NEW t \in Threads, NEW k \in Keys, NEW place,
             pc' = [pc EXCEPT ![t][k] = place]
      PROVE  \A u \in Threads, j \in Keys :
                pc'[u][j] = IF u = t /\ j = k THEN place ELSE pc[u][j]
  BY <1>1 DEF IInv, TypeOK
<1>2. ASSUME NEW t \in Threads, NEW k \in Keys, Enter(t, k)
      PROVE  SoleOpen' /\ Ordered'
  <2>1. /\ pc' = [pc EXCEPT ![t][k] = "waiting"]
        /\ \A j \in Keys : pc[t][j] # "out" => pc[t][j] = "held" /\ j < k
    BY <1>2 DEF Enter, MayEnter, Goto
  <2> QED BY <2>1, <1>1 DEF SoleOpen, Ordered
<1>3. ASSUME NEW t \in Threads, NEW k \in Keys, Acquire(t, k)
      PROVE  SoleOpen' /\ Ordered'
  <2>1. pc[t][k] = "waiting" /\ pc' = [pc EXCEPT ![t][k] = "held"]
    BY <1>3 DEF Acquire, Goto
  <2>2. \A j \in Keys \ {k} : pc[t][j] \in {"out", "held"}
    BY <2>1 DEF SoleOpen
  <2> QED BY <2>1, <2>2, <1>1 DEF SoleOpen, Ordered
<1>4. ASSUME NEW t \in Threads, NEW k \in Keys, Timeout(t, k)
      PROVE  SoleOpen' /\ Ordered'
  <2>1. pc[t][k] = "waiting" /\ pc' = [pc EXCEPT ![t][k] = "busy"]
    BY <1>4 DEF Timeout, Goto
  <2> QED BY <2>1, <1>1 DEF SoleOpen, Ordered
<1>5. ASSUME NEW t \in Threads, NEW k \in Keys, Release(t, k)
      PROVE  SoleOpen' /\ Ordered'
  <2>1. /\ pc' = [pc EXCEPT ![t][k] = "leaving"]
        /\ \A j \in Keys \ {k} : pc[t][j] \in {"out", "held"}
    BY <1>5 DEF Release, Goto
  <2> QED BY <2>1, <1>1 DEF SoleOpen, Ordered
<1>6. ASSUME NEW t \in Threads, NEW k \in Keys, Leave(t, k)
      PROVE  SoleOpen' /\ Ordered'
  <2>1. pc' = [pc EXCEPT ![t][k] = "out"]
    BY <1>6 DEF Leave, CountOut, Goto
  <2> QED BY <2>1, <1>1 DEF SoleOpen, Ordered
<1>7. CASE UNCHANGED vars
  BY <1>7 DEF vars, SoleOpen, Ordered
<1> QED
  BY <1>2, <1>3, <1>4, <1>5, <1>6, <1>7 DEF Next

\* A nonempty finite set of integers has a greatest member.
LEMMA Greatest ==
    ASSUME NEW S \in SUBSET Int, IsFiniteSet(S), S # {}
    PROVE  \E m \in S : \A n \in S : n <= m
<1> DEFINE Above(m) == {n \in S : n > m}
           Families == {Above(m) : m \in S}
<1>1. Families \subseteq FiniteSubsetsOf(S) /\ Families # {}
  <2>1. \A m \in S : Above(m) \in SUBSET S /\ IsFiniteSet(Above(m))
    BY FS_Subset
  <2> HIDE DEF Above
  <2> QED BY <2>1 DEF FiniteSubsetsOf
<1>2. IsWellFoundedOn(StrictSubsetOrdering(S), FiniteSubsetsOf(S))
  BY FS_StrictSubsetOrderingWellFounded
<1>3. PICK F \in Families : \A G \in Families : <<G, F>> \notin StrictSubsetOrdering(S)
  <2> HIDE DEF Families
  <2> QED BY <1>1, <1>2, WFMin
<1>4. PICK m \in S : F = Above(m)
  BY <1>3
<1>5. SUFFICES ASSUME NEW n \in S, n > m PROVE FALSE
  BY <1>4
<1>6. Above(n) \subseteq Above(m) /\ Above(n) # Above(m)
  <2>1. n \in Above(m) /\ n \notin Above(n)
    BY <1>5
  <2>2. ASSUME NEW x \in S, x > n PROVE x > m
    BY <1>5, <2>2
  <2> QED BY <2>1, <2>2
<1>7. <<Above(n), Above(m)>> \in StrictSubsetOrdering(S)
  BY <1>6 DEF StrictSubsetOrdering
<1> QED
  BY <1>3, <1>4, <1>7

\* Threads that wait for one another would need an endless ascent of entities.
LEMMA NoRing == ASSUME IInv, SoleOpen, Ordered PROVE NoWaitCycle
<1>0. SUFFICES ASSUME NEW T \in (SUBSET Threads) \ {{}},
                      \A t \in T : \E u \in T : Waits(t, u)
               PROVE  FALSE
  BY DEF NoWaitCycle
<1> DEFINE W == {k \in Keys : \E t \in T : pc[t][k] = "waiting"}
<1>1. \A t \in T : \E k \in Keys, u \in T :
          pc[t][k] = "waiting" /\ owner[mine[t][k]] = u
  BY <1>0 DEF Waits
<1>2. \A t \in T, k \in Keys, u \in T :
          pc[t][k] = "waiting" /\ owner[mine[t][k]] = u => pc[u][k] = "held"
  BY LocksAssumption DEF IInv, Registered, OwnerInside
<1>3. W \in SUBSET Int /\ W # {} /\ IsFiniteSet(W)
  <2>1. W # {}
    <3>0. T # {}
      OBVIOUS
    <3>1. PICK t \in T : TRUE
      BY <3>0
    <3>2. PICK k \in Keys : pc[t][k] = "waiting"
      BY <3>1, <1>1
    <3> QED BY <3>1, <3>2
  <2>2. IsFiniteSet(W)
    BY LocksAssumption, FS_Subset
  <2> QED BY <2>1, <2>2, LocksAssumption
<1>4. \A k \in W : \E n \in W : k < n
  <2> SUFFICES ASSUME NEW k \in W PROVE \E n \in W : k < n
    OBVIOUS
  <2>1. PICK t \in T : pc[t][k] = "waiting"
    OBVIOUS
  <2>2. PICK u \in T : pc[u][k] = "held"
    <3>1. PICK j \in Keys, u \in T : pc[t][j] = "waiting" /\ owner[mine[t][j]] = u
      BY <1>1
    <3>2. j = k
      BY <2>1, <3>1 DEF SoleOpen
    <3>3. pc[u][k] = "held"
      BY <1>2, <3>1, <3>2
    <3> QED BY <3>3
  <2>3. PICK n \in Keys : pc[u][n] = "waiting"
    BY <1>1
  <2>4. k < n
    BY <2>2, <2>3 DEF Ordered
  <2>5. n \in W
    BY <2>3
  <2> QED BY <2>4, <2>5
<1>5. PICK m \in W : \A n \in W : n <= m
  <2> HIDE DEF W
  <2> QED BY <1>3, Greatest
<1> QED
  BY <1>3, <1>4, <1>5

\* The claim of upsert_product: acquiring the locks of all children in sorted
\* order is free of deadlock, whatever the other threads hold or wait for.
THEOREM NoWaitCycleHolds == Spec => []NoWaitCycle
<1>1. Init => SoleOpen /\ Ordered
  BY DEF Init, SoleOpen, Ordered
<1>2. IInv /\ SoleOpen /\ Ordered /\ [Next]_vars => SoleOpen' /\ Ordered'
  BY NextOrdered
<1>3. Spec => [](SoleOpen /\ Ordered)
  BY <1>1, <1>2, Invariance, PTL DEF Spec
<1> QED
  BY <1>3, Invariance, NoRing, PTL

-----------------------------------------------------------------------------
\* A step of the registry is a step of the abstract mutex or changes nothing a
\* caller can see.
LEMMA RefinementStep ==
    ASSUME IInv, [Next]_vars
    PROVE  [Mutex!Next]_Statuses
<1>1. ASSUME NEW t \in Threads, NEW k \in Keys, NEW place \in Places,
             pc' = [pc EXCEPT ![t][k] = place]
      PROVE  Statuses' = [Statuses EXCEPT ![t][k] =
                            CASE place = "held" -> "holding"
                              [] place = "busy" -> "refused"
                              [] OTHER -> "idle"]
  BY <1>1 DEF IInv, TypeOK, Statuses, Status, Places
<1>2. /\ \A t \in Threads, k \in Keys : Statuses[t][k] = Status(t, k)
      /\ Statuses \in [Threads -> [Keys -> {"idle", "holding", "refused"}]]
  BY DEF Statuses, Status
<1>3. ASSUME NEW t \in Threads, NEW k \in Keys, Enter(t, k)
      PROVE  Statuses' = Statuses
  <2>1. pc[t][k] = "out" /\ pc' = [pc EXCEPT ![t][k] = "waiting"]
    BY <1>3 DEF Enter, MayEnter, Goto
  <2>2. Statuses' = [Statuses EXCEPT ![t][k] = "idle"] /\ Statuses[t][k] = "idle"
    BY <2>1, <1>1, <1>2 DEF Places, Status
  <2> QED BY <2>2, <1>2
<1>4. ASSUME NEW t \in Threads, NEW k \in Keys, Acquire(t, k)
      PROVE  Mutex!Take(t, k)
  <2>1. /\ pc[t][k] = "waiting" /\ pc' = [pc EXCEPT ![t][k] = "held"]
        /\ owner[table[k]] = NoThread
    BY <1>4 DEF Acquire, Goto, IInv, Registered
  <2>2. Statuses' = [Statuses EXCEPT ![t][k] = "holding"] /\ Statuses[t][k] = "idle"
    BY <2>1, <1>1, <1>2 DEF Places, Status
  <2>3. \A u \in Threads : pc[u][k] # "held"
    BY <2>1, LocksAssumption DEF IInv, Registered, Owned
  <2> QED
    BY <2>2, <2>3, <1>2 DEF Mutex!Take, Mutex!Free, Mutex!Move, Status
<1>5. ASSUME NEW t \in Threads, NEW k \in Keys, Timeout(t, k)
      PROVE  Mutex!Refuse(t, k)
  <2>1. /\ pc[t][k] = "waiting" /\ pc' = [pc EXCEPT ![t][k] = "busy"]
        /\ table[k] # NoLock /\ owner[table[k]] # NoThread
    BY <1>5 DEF Timeout, Goto, IInv, Registered
  <2>2. Statuses' = [Statuses EXCEPT ![t][k] = "refused"] /\ Statuses[t][k] = "idle"
    BY <2>1, <1>1, <1>2 DEF Places, Status
  <2>3. PICK u \in Threads : pc[u][k] = "held"
    BY <2>1 DEF IInv, OwnerInside, TypeOK
  <2>4. u \in Threads \ {t} /\ Statuses[u][k] = "holding"
    BY <2>1, <2>3, <1>2 DEF Status
  <2> QED
    BY <2>2, <2>4 DEF Mutex!Refuse, Mutex!Move
<1>6. ASSUME NEW t \in Threads, NEW k \in Keys, Release(t, k)
      PROVE  Mutex!Give(t, k)
  <2>1. pc[t][k] = "held" /\ pc' = [pc EXCEPT ![t][k] = "leaving"]
    BY <1>6 DEF Release, Goto
  <2>2. Statuses' = [Statuses EXCEPT ![t][k] = "idle"] /\ Statuses[t][k] = "holding"
    BY <2>1, <1>1, <1>2 DEF Places, Status
  <2> QED
    BY <2>2 DEF Mutex!Give, Mutex!Move
<1>7. ASSUME NEW t \in Threads, NEW k \in Keys, Leave(t, k)
      PROVE  Mutex!Forget(t, k) \/ Statuses' = Statuses
  <2>1. pc[t][k] \in {"busy", "leaving"} /\ pc' = [pc EXCEPT ![t][k] = "out"]
    BY <1>7 DEF Leave, CountOut, Goto
  <2>2. /\ Statuses' = [Statuses EXCEPT ![t][k] = "idle"]
        /\ Statuses[t][k] \in {"refused", "idle"}
    BY <2>1, <1>1, <1>2 DEF Places, Status
  <2> QED
    BY <2>2, <1>2 DEF Mutex!Forget, Mutex!Move
<1>8. CASE UNCHANGED vars
  BY <1>8 DEF vars, Statuses, Status
<1> QED
  BY <1>3, <1>4, <1>5, <1>6, <1>7, <1>8 DEF Next, Mutex!Next

\* The refcounted registry implements the abstract mutex of every entity: what
\* it adds (lock objects, counts, re-creation) is invisible to its callers, and
\* a caller is refused only while another thread really holds the entity.
THEOREM Refinement == Spec => MutexSpec
<1>1. Init => Mutex!Init
  BY DEF Init, Mutex!Init, Statuses, Status
<1>2. IInv /\ [Next]_vars => [Mutex!Next]_Statuses
  BY RefinementStep
<1> QED
  BY <1>1, <1>2, Invariance, PTL DEF Spec, MutexSpec, Mutex!Spec

-----------------------------------------------------------------------------
(***************************************************************************)
(* Scheduled docgen                                                        *)
(***************************************************************************)

\* The rows a tick has in hand: still to visit, and the one it is at.
InHand(s) == s \in tick.todo \/ s = tick.row

AtRow == tick.phase \in {"register", "submit", "commit"}

TickShape ==
    /\ AtRow => tick.row \in Schedules /\ tick.row \notin tick.todo
    /\ ~AtRow => tick.row = Nobody
    /\ tick.phase = "idle" => tick.todo = {}
    /\ tick.phase = "submit" => tick.job \in JobIds

\* One row per entity, in the table and in the hand of a tick: a row that
\* is deleted under the tick, and its successor, are two.
OneRow ==
    \A r, s \in Schedules : row[r].entity = row[s].entity /\ r # s =>
        ~(row[r].exists /\ row[s].exists) /\ ~(InHand(r) /\ InHand(s))

Times ==
    /\ \A e \in Entities : tick.now[e] <= points[e]
    /\ \A s \in Schedules : row[s].seen <= points[row[s].entity]
    /\ AtRow => row[tick.row].seen < tick.now[row[tick.row].entity]

\* A row created under a tick that has its predecessor in hand waits for a
\* fire time after those the tick knows.
Newer ==
    \A r, s \in Schedules :
        InHand(r) /\ row[s].exists /\ ~InHand(s) /\ row[r].entity = row[s].entity
            => tick.now[row[s].entity] <= row[s].seen

\* The job launched and not yet committed.
Debt(s) == IF s = tick.row /\ tick.phase = "commit" THEN 1 ELSE 0

\* What was launched for the entity of a row is covered by last_run_at.
Covered ==
    \A s \in Schedules : row[s].exists \/ InHand(s) =>
        launched[row[s].entity] <= row[s].seen + failures + Debt(s)

SchedulerIInv == /\ SchedulerTypeOK /\ TickShape
        /\ OneRow /\ Times /\ Newer /\ Covered
        /\ LaunchBound

-----------------------------------------------------------------------------
\* The empty values are of their types.
LEMMA EmptyValues ==
    /\ NoRun \in Runs
    /\ NoRow \in RowRecord /\ ~NoRow.exists /\ NoRow.seen = 0
    /\ Resting \in [phase : Phases, now : [Entities -> 0..MaxPoints],
                    todo : SUBSET Schedules, row : Schedules \cup {Nobody},
                    job : JobIds \cup {Nobody}, result : Results, expired : BOOLEAN]
<1>1. (CHOOSE e \in Entities : TRUE) \in Entities
  BY SchedulerAssumption
<1>2. 0 \in 0..MaxPoints
  BY SchedulerAssumption
<1>3. NoRun \in Runs
  BY <1>1 DEF NoRun, Runs, RegistryKeys, Outcomes
<1>4. NoRow \in RowRecord /\ ~NoRow.exists /\ NoRow.seen = 0
  BY <1>1, <1>2 DEF NoRow, RowRecord, Results
<1> QED
  BY <1>2, <1>3, <1>4 DEF Resting, Phases, Results

\* Times and counts are numbers.
LEMMA Numbers ==
    ASSUME SchedulerTypeOK
    PROVE  /\ \A e \in Entities : points[e] \in Nat /\ tick.now[e] \in Nat /\ launched[e] \in Nat
           /\ \A s \in Schedules : row[s].entity \in Entities /\ row[s].seen \in Nat
           /\ failures \in Nat
BY SchedulerAssumption DEF SchedulerTypeOK, RowRecord

\* Nothing is launched at first.
LEMMA SchedulerInitIInv == SchedulerInit => SchedulerIInv
<1> SUFFICES ASSUME SchedulerInit PROVE SchedulerIInv
  OBVIOUS
<1>1. SchedulerTypeOK
  BY EmptyValues, SchedulerAssumption DEF SchedulerInit, RegistryInit, SchedulerTypeOK
<1>2. /\ tick.phase = "idle" /\ tick.row = Nobody /\ tick.todo = {}
      /\ \A e \in Entities : tick.now[e] = 0
  BY DEF SchedulerInit, Resting
<1>3. TickShape
  BY <1>2 DEF TickShape, AtRow
<1>4. \A s \in Schedules : ~InHand(s) /\ ~row[s].exists /\ row[s].seen = 0
  BY <1>2, EmptyValues, SchedulerAssumption DEF InHand, SchedulerInit
<1>5. OneRow /\ Newer /\ Covered
  BY <1>4 DEF OneRow, Newer, Covered
<1>6. \A s \in Schedules : row[s].entity \in Entities
  BY <1>1, Numbers
<1>7. Times
  BY <1>2, <1>4, <1>6 DEF Times, AtRow, SchedulerInit
<1>8. LaunchBound
  BY DEF SchedulerInit, LaunchBound
<1> QED
  BY <1>1, <1>3, <1>5, <1>7, <1>8 DEF SchedulerIInv

\* A tick ends, in whatever way; nothing launched is left uncovered.
LEMMA Rests ==
    ASSUME SchedulerIInv, tick' = Resting, points' = points, launched' = launched,
           SchedulerTypeOK', failures <= failures',
           \A s \in Schedules : /\ row'[s].exists <=> row[s].exists
                                /\ row'[s].entity = row[s].entity
                                /\ row'[s].seen = row[s].seen,
           \A s \in Schedules : row[s].exists =>
               launched[row[s].entity] <= row[s].seen + failures'
    PROVE  SchedulerIInv'
<1> USE DEF SchedulerIInv
<1>1. /\ tick'.phase = "idle" /\ tick'.row = Nobody /\ tick'.todo = {}
      /\ \A e \in Entities : tick'.now[e] = 0
  BY DEF Resting
<1>2. TickShape' /\ ~AtRow'
  BY <1>1 DEF TickShape, AtRow
<1>3. \A s \in Schedules : ~InHand(s)'
  BY <1>1, SchedulerAssumption DEF InHand
<1>4. OneRow' /\ Newer'
  BY <1>3 DEF OneRow, Newer
<1>5. Times'
  BY <1>1, <1>2, Numbers DEF Times
<1>6. Covered'
  <2> SUFFICES ASSUME NEW s \in Schedules, row[s].exists
               PROVE  launched[row[s].entity] <= row[s].seen + failures' + Debt(s)'
    BY <1>3 DEF Covered
  <2>1. Debt(s)' = 0
    BY <1>1 DEF Debt
  <2>2. failures' \in Nat
    BY SchedulerAssumption DEF SchedulerTypeOK
  <2> QED BY <2>1, <2>2, Numbers
<1>7. LaunchBound'
  <2>1. failures' \in Nat
    BY SchedulerAssumption DEF SchedulerTypeOK
  <2> QED BY <2>1, Numbers DEF LaunchBound
<1> QED
  BY <1>2, <1>4, <1>5, <1>6, <1>7

\* A step that touches neither rows nor tick nor counters.
LEMMA Aside ==
    ASSUME SchedulerIInv, SchedulerTypeOK', UNCHANGED <<points, row, tick, launched, failures>>
    PROVE  SchedulerIInv'
<1>1. points' = points /\ row' = row /\ tick' = tick /\ launched' = launched
      /\ failures' = failures
  OBVIOUS
<1>2. TickShape' /\ OneRow' /\ Times'
  BY <1>1 DEF SchedulerIInv, TickShape, OneRow, Times, AtRow, InHand
<1>3. Newer' /\ Covered' /\ LaunchBound'
  BY <1>1 DEF SchedulerIInv, Newer, Covered, InHand, Debt, LaunchBound
<1> QED
  BY <1>2, <1>3 DEF SchedulerIInv

\* Registering a job keeps the registry typed.
LEMMA OpenTyped ==
    ASSUME run \in [JobIds -> Runs], NEW j \in JobIds, NEW key \in RegistryKeys,
           NEW e \in Entities, NEW P, Open(j, key, e, P)
    PROVE  run' \in [JobIds -> Runs]
<1>1. Without(P) \in [JobIds -> Runs]
  BY EmptyValues DEF Without
<1>2. [key |-> key, entity |-> e, status |-> "active"] \in Runs
  BY DEF Runs
<1> QED
  BY <1>1, <1>2 DEF Open

\* A fire time passes.
LEMMA CronIInv == ASSUME SchedulerIInv, NEW e \in Entities, CronPoint(e) PROVE SchedulerIInv'
<1> USE DEF SchedulerIInv
<1>1. /\ points[e] < MaxPoints /\ points' = [points EXCEPT ![e] = @ + 1]
      /\ run' = run /\ row' = row /\ pending' = pending /\ tick' = tick
      /\ launched' = launched /\ failures' = failures
  BY DEF CronPoint
<1>2. SchedulerTypeOK'
  BY <1>1, SchedulerAssumption DEF SchedulerTypeOK
<1>3. \A d \in Entities : points'[d] \in Nat /\ points[d] \in Nat /\ points[d] <= points'[d]
  BY <1>1, SchedulerAssumption DEF SchedulerTypeOK
<1>4. Times'
  BY <1>1, <1>3, Numbers DEF Times, AtRow
<1>5. LaunchBound'
  BY <1>1, <1>3, Numbers DEF LaunchBound
<1>6. TickShape' /\ OneRow' /\ Newer' /\ Covered'
  BY <1>1 DEF TickShape, OneRow, AtRow, InHand, Newer, Covered, Debt
<1> QED BY <1>2, <1>4, <1>5, <1>6

\* A row changes no more than whether it is enabled and what it shows.
LEMMA Repainted ==
    ASSUME SchedulerIInv, SchedulerTypeOK', UNCHANGED <<points, tick, launched, failures>>,
           \A s \in Schedules : /\ row'[s].exists => row[s].exists
                                /\ row'[s].exists \/ InHand(s) =>
                                      row'[s].entity = row[s].entity /\ row'[s].seen = row[s].seen,
           \A s \in Schedules : \/ row'[s].seen = row[s].seen /\ row'[s].entity = row[s].entity
                                \/ row'[s].seen = 0
    PROVE  SchedulerIInv'
<1> USE DEF SchedulerIInv
<1>1. points' = points /\ tick' = tick /\ launched' = launched /\ failures' = failures
  OBVIOUS
<1>2. \A s \in Schedules : (InHand(s)' <=> InHand(s)) /\ Debt(s)' = Debt(s)
  BY <1>1 DEF InHand, Debt
<1>3. TickShape'
  BY <1>1 DEF TickShape, AtRow
<1>4. OneRow'
  BY <1>2 DEF OneRow
<1>5. Times'
  <2>1. \A s \in Schedules : row'[s].seen <= points[row'[s].entity]
    <3> TAKE s \in Schedules
    <3>1. row'[s].entity \in Entities
      BY DEF SchedulerTypeOK, RowRecord
    <3> QED BY <3>1, Numbers DEF Times
  <2>2. AtRow => row'[tick.row].seen < tick.now[row'[tick.row].entity]
    BY DEF Times, TickShape, InHand
  <2> QED BY <2>1, <2>2, <1>1 DEF Times, AtRow
<1>6. Newer'
  BY <1>1, <1>2 DEF Newer
<1>7. Covered'
  BY <1>1, <1>2 DEF Covered
<1>8. LaunchBound'
  BY <1>1 DEF LaunchBound
<1> QED BY <1>3, <1>4, <1>5, <1>6, <1>7, <1>8

\* A schedule is created, or switched on or off.
LEMMA PutIInv ==
    ASSUME SchedulerIInv, NEW s \in Schedules, NEW e \in Entities, NEW on \in BOOLEAN, PutSchedule(s, e, on)
    PROVE  SchedulerIInv'
<1> USE DEF SchedulerIInv
<1>0. /\ run' = run /\ points' = points /\ pending' = pending /\ tick' = tick
      /\ launched' = launched /\ failures' = failures
  BY DEF PutSchedule
<1>1. CASE \E r \in Schedules : row[r].exists /\ row[r].entity = e
  <2>1. row' = [row EXCEPT ![s].enabled = on]
    BY <1>1 DEF PutSchedule
  <2>2. SchedulerTypeOK'
    BY <1>0, <2>1 DEF SchedulerTypeOK, RowRecord
  <2>3. \A r \in Schedules : /\ row'[r].exists = row[r].exists
                             /\ row'[r].entity = row[r].entity /\ row'[r].seen = row[r].seen
    BY <2>1 DEF SchedulerTypeOK, RowRecord
  <2> QED BY <2>2, <2>3, <1>0, Repainted
<1>2. CASE ~ \E r \in Schedules : row[r].exists /\ row[r].entity = e
  <2> DEFINE new == [exists |-> TRUE, entity |-> e, enabled |-> on,
                     seen |-> points[e], result |-> "none"]
  <2>1. ~row[s].exists /\ ~InHand(s) /\ row' = [row EXCEPT ![s] = new]
    BY <1>2 DEF PutSchedule, InHand
  <2>2. new \in RowRecord
    BY DEF RowRecord, Results, SchedulerTypeOK
  <2>3. \A r \in Schedules : row'[r] = IF r = s THEN new ELSE row[r]
    BY <2>1 DEF SchedulerTypeOK
  <2>4. new.exists /\ new.entity = e /\ new.seen = points[e]
    OBVIOUS
  <2> HIDE DEF new
  <2>5. SchedulerTypeOK'
    BY <1>0, <2>1, <2>2 DEF SchedulerTypeOK
  <2>6. \A r \in Schedules : (InHand(r)' <=> InHand(r)) /\ Debt(r)' = Debt(r)
    BY <1>0 DEF InHand, Debt
  <2>7. TickShape'
    BY <1>0 DEF TickShape, AtRow
  <2>8. OneRow'
    BY <1>2, <2>1, <2>3, <2>4, <2>6 DEF OneRow
  <2>9. Times'
    <3>1. AtRow => tick.row # s
      BY <2>1 DEF InHand
    <3> QED BY <3>1, <1>0, <2>3, <2>4, Numbers DEF Times, AtRow, TickShape
  <2>10. Newer'
    BY <1>0, <2>1, <2>3, <2>4, <2>6 DEF Newer, Times
  <2>11. Covered'
    <3> SUFFICES ASSUME NEW r \in Schedules, row'[r].exists \/ InHand(r)
                 PROVE  launched[row'[r].entity] <= row'[r].seen + failures + Debt(r)
      BY <1>0, <2>6 DEF Covered
    <3>1. CASE r = s
      <4>1. Debt(r) = 0
        BY <3>1, <2>1 DEF Debt, InHand
      <4> QED BY <3>1, <4>1, <2>3, <2>4, Numbers DEF LaunchBound
    <3>2. CASE r # s
      BY <3>2, <2>3 DEF Covered
    <3> QED BY <3>1, <3>2
  <2>12. LaunchBound'
    BY <1>0 DEF LaunchBound
  <2> QED BY <2>5, <2>7, <2>8, <2>9, <2>10, <2>11, <2>12
<1> QED BY <1>1, <1>2

\* A row is deleted, perhaps under a tick that has it in hand.
LEMMA DeleteIInv == ASSUME SchedulerIInv, NEW s \in Schedules, DeleteSchedule(s) PROVE SchedulerIInv'
<1> USE DEF SchedulerIInv
<1> DEFINE gone == IF InHand(s) THEN [row[s] EXCEPT !.exists = FALSE, !.result = "none"] ELSE NoRow
<1>1. /\ row' = [row EXCEPT ![s] = gone]
      /\ run' = run /\ points' = points /\ pending' = pending /\ tick' = tick
      /\ launched' = launched /\ failures' = failures
  BY DEF DeleteSchedule, InHand
<1>2. gone \in RowRecord /\ ~gone.exists
  BY EmptyValues DEF SchedulerTypeOK, RowRecord, Results
<1>3. IF InHand(s) THEN gone.seen = row[s].seen /\ gone.entity = row[s].entity ELSE gone.seen = 0
  BY EmptyValues DEF SchedulerTypeOK, RowRecord
<1> HIDE DEF gone
<1>4. SchedulerTypeOK'
  BY <1>1, <1>2 DEF SchedulerTypeOK
<1>5. \A r \in Schedules : row'[r] = IF r = s THEN gone ELSE row[r]
  BY <1>1 DEF SchedulerTypeOK
<1> QED
  BY <1>1, <1>2, <1>3, <1>4, <1>5, Repainted

\* A restart loses the tick and costs a failure.
LEMMA RestartIInv == ASSUME SchedulerIInv, Restart PROVE SchedulerIInv'
<1> USE DEF SchedulerIInv
<1>1. /\ failures < MaxFailures /\ failures' = failures + 1
      /\ run' = [j \in JobIds |-> NoRun]
      /\ pending' = [s \in Schedules |-> Nobody]
      /\ tick' = Resting
      /\ points' = points /\ row' = row /\ launched' = launched
  BY DEF Restart
<1>2. SchedulerTypeOK'
  BY <1>1, EmptyValues, SchedulerAssumption DEF SchedulerTypeOK
<1>3. \A s \in Schedules : row[s].exists => launched[row[s].entity] <= row[s].seen + failures'
  BY <1>1, Numbers DEF Covered, Debt
<1>4. failures <= failures'
  BY <1>1, Numbers
<1> QED BY <1>1, <1>2, <1>3, <1>4, Rests

\* The id of a new job is the id of a job nobody has in hand.
LEMMA NewIdIsFree == ASSUME Free # {} PROVE NewId \in Free /\ NewId \in JobIds
<1>1. NewId \in Free
  BY DEF NewId
<1> QED BY <1>1 DEF Free

\* Where two ids are free, one is.
LEMMA NoneFree == Cardinality(Free) > 1 => Free # {}
BY FS_EmptySet

\* Jobs of others come, and jobs end.
LEMMA OthersIInv ==
    ASSUME SchedulerIInv, NEW key \in RegistryKeys, NEW e \in Entities, Others(key, e)
    PROVE  SchedulerIInv'
<1>1. Free # {}
  BY NoneFree DEF Others
<1>2. SchedulerTypeOK'
  BY <1>1, NewIdIsFree, OpenTyped DEF SchedulerIInv, Others, SchedulerTypeOK
<1> QED BY <1>2, Aside DEF Others

\* A job of whoever ends.
LEMMA EndsIInv == ASSUME SchedulerIInv, NEW j \in JobIds, Ends(j) PROVE SchedulerIInv'
<1>1. PICK outcome \in Outcomes : run' = [run EXCEPT ![j].status = outcome]
  BY DEF Ends, Close, Outcomes
<1>2. SchedulerTypeOK'
  BY <1>1 DEF SchedulerIInv, Ends, SchedulerTypeOK, Runs
<1> QED BY <1>2, Aside DEF Ends

\* The result a row shows after reconciliation.
LEMMA ReconciledRows ==
    ASSUME SchedulerTypeOK
    PROVE  /\ Reconciled \in [Schedules -> RowRecord]
           /\ \A s \in Schedules : /\ Reconciled[s].exists = row[s].exists
                                   /\ Reconciled[s].entity = row[s].entity
                                   /\ Reconciled[s].seen = row[s].seen
<1>1. ASSUME NEW s \in Schedules PROVE LastResult(s) \in Results
  <2>1. row[s].result \in Results
    BY DEF SchedulerTypeOK, RowRecord
  <2>2. CASE run[pending[s]].status = "succeeded"
    BY <2>2 DEF LastResult, Results
  <2>3. CASE run[pending[s]].status = "cancelled"
    BY <2>3 DEF LastResult, Results
  <2>4. CASE run[pending[s]].status = "failed"
    BY <2>4 DEF LastResult, Results
  <2>5. CASE run[pending[s]].status \notin {"succeeded", "cancelled", "failed"}
    BY <2>1, <2>5 DEF LastResult
  <2> QED BY <2>2, <2>3, <2>4, <2>5
<1>2. ASSUME NEW s \in Schedules
      PROVE  /\ Reconciled[s] \in RowRecord
             /\ Reconciled[s].exists = row[s].exists
             /\ Reconciled[s].entity = row[s].entity
             /\ Reconciled[s].seen = row[s].seen
  BY <1>1 DEF Reconciled, SchedulerTypeOK, RowRecord
<1> QED BY <1>2 DEF Reconciled

\* With no tick under way there is no debt.
LEMMA NoDebt ==
    ASSUME SchedulerIInv, ~AtRow
    PROVE  \A s \in Schedules : row[s].exists \/ InHand(s) =>
               Debt(s) = 0 /\ launched[row[s].entity] <= row[s].seen + failures
<1>1. \A s \in Schedules : Debt(s) = 0
  BY DEF Debt, AtRow
<1> QED BY <1>1, Numbers DEF SchedulerIInv, Covered

\* A tick takes in hand the rows there are.
LEMMA TickStartIInv == ASSUME SchedulerIInv, TickStart PROVE SchedulerIInv'
<1> USE DEF SchedulerIInv
<1>1. /\ tick.phase = "idle" /\ row' = Reconciled
      /\ tick' = [Resting EXCEPT !.phase = "visit", !.now = points,
                                 !.todo = {s \in Schedules : row[s].exists /\ row[s].enabled}]
      /\ pending' = [s \in Schedules |-> IF s \in Settled THEN Nobody ELSE pending[s]]
      /\ run' = run /\ points' = points /\ launched' = launched /\ failures' = failures
  BY DEF TickStart, Forget
<1>2. /\ tick'.phase = "visit" /\ tick'.row = Nobody /\ tick'.now = points
      /\ tick'.todo = {s \in Schedules : row[s].exists /\ row[s].enabled}
  BY <1>1 DEF Resting
<1>3. SchedulerTypeOK'
  <2>1. row' \in [Schedules -> RowRecord]
    BY <1>1, ReconciledRows
  <2>2. pending' \in [Schedules -> JobIds \cup {Nobody}]
    BY <1>1 DEF SchedulerTypeOK
  <2>3. tick' \in [phase : Phases, now : [Entities -> 0..MaxPoints],
                   todo : SUBSET Schedules, row : Schedules \cup {Nobody},
                   job : JobIds \cup {Nobody}, result : Results, expired : BOOLEAN]
    BY <1>1 DEF SchedulerTypeOK, Resting, Phases, Results
  <2> QED BY <2>1, <2>2, <2>3, <1>1 DEF SchedulerTypeOK
<1>4. \A s \in Schedules : InHand(s)' <=> row[s].exists /\ row[s].enabled
  BY <1>2, SchedulerAssumption DEF InHand
<1>5. \A s \in Schedules : /\ row'[s].exists = row[s].exists
                           /\ row'[s].entity = row[s].entity /\ row'[s].seen = row[s].seen
  BY <1>1, ReconciledRows
<1>6. TickShape' /\ ~AtRow'
  BY <1>2 DEF TickShape, AtRow
<1>7. OneRow'
  BY <1>4, <1>5 DEF OneRow
<1>8. Times'
  BY <1>1, <1>2, <1>5, <1>6, Numbers DEF Times
<1>9. Newer'
  BY <1>4, <1>5 DEF Newer, OneRow
<1>10. Covered'
  <2>1. ~AtRow
    BY <1>1 DEF AtRow
  <2>2. \A s \in Schedules : Debt(s)' = 0
    BY <1>2 DEF Debt
  <2>3. \A s \in Schedules : row'[s].exists \/ InHand(s)' => row[s].exists
    BY <1>4, <1>5
  <2> QED BY <1>1, <1>5, <2>1, <2>2, <2>3, NoDebt, Numbers DEF Covered
<1>11. LaunchBound'
  BY <1>1 DEF LaunchBound
<1> QED BY <1>3, <1>6, <1>7, <1>8, <1>9, <1>10, <1>11

\* A failed reconciliation costs a failure.
LEMMA ReconcileFailsIInv == ASSUME SchedulerIInv, ReconcileFails PROVE SchedulerIInv'
<1> USE DEF SchedulerIInv
<1>1. PICK popped \in SUBSET Settled :
          pending' = [s \in Schedules |-> IF s \in popped THEN Nobody ELSE pending[s]]
  BY DEF ReconcileFails, Forget
<1>2. /\ tick.phase = "idle" /\ failures < MaxFailures /\ failures' = failures + 1
      /\ tick' = Resting /\ points' = points /\ row' = row
      /\ run' = run /\ launched' = launched
  BY DEF ReconcileFails, Abort
<1>3. SchedulerTypeOK'
  BY <1>1, <1>2, EmptyValues, SchedulerAssumption DEF SchedulerTypeOK
<1>4. ~AtRow
  BY <1>2 DEF AtRow
<1>5. failures <= failures'
  BY <1>2, Numbers
<1>6. \A s \in Schedules : row[s].exists => launched[row[s].entity] <= row[s].seen + failures'
  BY <1>2, <1>4, NoDebt, Numbers
<1> QED BY <1>2, <1>3, <1>5, <1>6, Rests

\* A row is passed over or taken up, or its loss ends the tick.
LEMMA VisitIInv == ASSUME SchedulerIInv, NEW s \in Schedules, Visit(s) PROVE SchedulerIInv'
<1> USE DEF SchedulerIInv
<1>1. /\ tick.phase = "visit" /\ s \in tick.todo
      /\ run' = run /\ points' = points /\ row' = row /\ pending' = pending
      /\ launched' = launched /\ failures' = failures
  BY DEF Visit
<1>2. ~AtRow /\ tick.row = Nobody
  BY <1>1 DEF AtRow, TickShape
<1>3. CASE tick' = Resting
  <2>1. SchedulerTypeOK'
    BY <1>1, <1>3, EmptyValues DEF SchedulerTypeOK
  <2>2. \A r \in Schedules : row[r].exists => launched[row[r].entity] <= row[r].seen + failures'
    BY <1>1, <1>2, NoDebt
  <2>3. failures <= failures'
    BY <1>1, Numbers
  <2> QED BY <1>1, <1>3, <2>1, <2>2, <2>3, Rests
<1>4. CASE Skip(s)
  <2>1. tick' = [tick EXCEPT !.todo = @ \ {s}]
    BY <1>4 DEF Skip
  <2>2. /\ tick'.phase = tick.phase /\ tick'.row = tick.row /\ tick'.now = tick.now
        /\ tick'.todo = tick.todo \ {s}
    BY <2>1 DEF SchedulerTypeOK
  <2>3. SchedulerTypeOK'
    BY <1>1, <2>1 DEF SchedulerTypeOK
  <2>4. \A r \in Schedules : (InHand(r)' <=> InHand(r) /\ r # s) /\ Debt(r)' = Debt(r)
    BY <1>2, <2>2, SchedulerAssumption DEF InHand, Debt
  <2>5. InHand(s)
    BY <1>1 DEF InHand
  <2>6. TickShape'
    BY <1>1, <1>2, <2>2 DEF TickShape, AtRow
  <2>7. OneRow'
    BY <1>1, <2>4 DEF OneRow
  <2>8. Times'
    BY <1>1, <1>2, <2>2 DEF Times, AtRow
  <2>9. Newer'
    BY <1>1, <2>2, <2>4, <2>5 DEF Newer, OneRow
  <2>10. Covered' /\ LaunchBound'
    BY <1>1, <2>4 DEF Covered, LaunchBound
  <2> QED BY <2>3, <2>6, <2>7, <2>8, <2>9, <2>10
<1>5. CASE Consider(s)
  <2>1. PICK next \in {[phase |-> "commit", result |-> "error"],
                       [phase |-> "commit", result |-> "skipped_busy"],
                       [phase |-> "register", result |-> "none"]} :
            tick' = [tick EXCEPT !.todo = @ \ {s}, !.row = s,
                                 !.phase = next.phase, !.result = next.result]
    BY <1>5 DEF Consider
  <2>2. next.phase \in {"commit", "register"} /\ next.result \in Results
    BY DEF Results
  <2>3. /\ tick'.phase \in {"commit", "register"} /\ tick'.row = s /\ tick'.now = tick.now
        /\ tick'.todo = tick.todo \ {s}
    BY <2>1, <2>2 DEF SchedulerTypeOK
  <2>4. SchedulerTypeOK'
    BY <1>1, <2>1, <2>2 DEF SchedulerTypeOK, Phases
  <2>5. \A r \in Schedules : InHand(r)' <=> InHand(r)
    BY <1>1, <1>2, <2>3, SchedulerAssumption DEF InHand
  <2>6. TickShape' /\ AtRow'
    BY <2>3 DEF TickShape, AtRow
  <2>7. OneRow'
    BY <1>1, <2>5 DEF OneRow
  <2>8. Times'
    BY <1>1, <1>5, <2>3 DEF Times, Consider, Due
  <2>9. Newer'
    BY <1>1, <2>3, <2>5 DEF Newer
  <2>10. Covered'
    <3> SUFFICES ASSUME NEW r \in Schedules, row[r].exists \/ InHand(r)
                 PROVE  launched[row[r].entity] <= row[r].seen + failures + Debt(r)'
      BY <1>1, <2>5 DEF Covered
    <3>1. Debt(r)' \in {0, 1}
      BY DEF Debt
    <3> QED BY <3>1, <1>2, NoDebt, Numbers
  <2>11. LaunchBound'
    BY <1>1 DEF LaunchBound
  <2> QED BY <2>4, <2>6, <2>7, <2>8, <2>9, <2>10, <2>11
<1> QED BY <1>3, <1>4, <1>5 DEF Visit

\* A tick ends with nothing left to visit.
LEMMA VisitEndIInv == ASSUME SchedulerIInv, VisitEnd PROVE SchedulerIInv'
<1> USE DEF SchedulerIInv
<1>1. /\ tick.phase = "visit" /\ tick' = Resting
      /\ run' = run /\ points' = points /\ row' = row /\ pending' = pending
      /\ launched' = launched /\ failures' = failures
  BY DEF VisitEnd
<1>2. SchedulerTypeOK'
  BY <1>1, EmptyValues DEF SchedulerTypeOK
<1>3. ~AtRow
  BY <1>1 DEF AtRow
<1>4. \A r \in Schedules : row[r].exists => launched[row[r].entity] <= row[r].seen + failures'
  BY <1>1, <1>3, NoDebt
<1>5. failures <= failures'
  BY <1>1, Numbers
<1> QED BY <1>1, <1>2, <1>4, <1>5, Rests

\* The tick goes on with the row it is at.
LEMMA SameRow ==
    ASSUME SchedulerIInv, SchedulerTypeOK', AtRow, tick.phase # "commit",
           tick'.phase \in {"submit", "commit"}, tick'.row = tick.row,
           tick'.todo = tick.todo, tick'.now = tick.now,
           tick'.phase = "submit" => tick'.job \in JobIds,
           UNCHANGED <<points, row, launched, failures>>
    PROVE  SchedulerIInv'
<1> USE DEF SchedulerIInv
<1>1. points' = points /\ row' = row /\ launched' = launched /\ failures' = failures
  OBVIOUS
<1>2. \A r \in Schedules : InHand(r)' <=> InHand(r)
  BY DEF InHand
<1>3. TickShape' /\ AtRow'
  BY DEF TickShape, AtRow
<1>4. OneRow' /\ Newer'
  BY <1>1, <1>2 DEF OneRow, Newer
<1>5. Times'
  BY <1>1 DEF Times
<1>6. Covered'
  <2> SUFFICES ASSUME NEW r \in Schedules, row[r].exists \/ InHand(r)
               PROVE  launched[row[r].entity] <= row[r].seen + failures + Debt(r)'
    BY <1>1, <1>2 DEF Covered
  <2>1. Debt(r) = 0 /\ Debt(r)' \in {0, 1}
    BY DEF Debt
  <2> QED BY <2>1, Numbers DEF Covered
<1>7. LaunchBound'
  BY <1>1 DEF LaunchBound
<1> QED BY <1>3, <1>4, <1>5, <1>6, <1>7

\* A due row gets a job, or finds its entity busy after all.
LEMMA RegisterIInv == ASSUME SchedulerIInv, Register PROVE SchedulerIInv'
<1>1. /\ tick.phase = "register"
      /\ points' = points /\ row' = row /\ pending' = pending
      /\ launched' = launched /\ failures' = failures
  BY DEF Register
<1>2. AtRow /\ tick.row \in Schedules
  BY <1>1 DEF SchedulerIInv, AtRow, TickShape
<1>3. CASE run' = run /\ tick' = [tick EXCEPT !.phase = "commit", !.result = "skipped_busy"]
  <2>1. SchedulerTypeOK'
    BY <1>1, <1>3 DEF SchedulerIInv, SchedulerTypeOK, Phases, Results
  <2>2. /\ tick'.phase = "commit" /\ tick'.row = tick.row
        /\ tick'.todo = tick.todo /\ tick'.now = tick.now
    BY <1>3 DEF SchedulerIInv, SchedulerTypeOK
  <2> QED BY <1>1, <1>2, <2>1, <2>2, SameRow
<1>4. ASSUME NEW j \in JobIds, Open(j, "docgen", row[tick.row].entity, Done \ Retained),
             tick' = [tick EXCEPT !.phase = "submit", !.job = j]
      PROVE  SchedulerIInv'
  <2>1. run' \in [JobIds -> Runs]
    <3>1. row[tick.row].entity \in Entities /\ "docgen" \in RegistryKeys
      BY <1>2, Numbers DEF SchedulerIInv, RegistryKeys
    <3> QED BY <3>1, <1>4, OpenTyped DEF SchedulerIInv, SchedulerTypeOK
  <2>2. SchedulerTypeOK'
    BY <1>1, <1>4, <2>1 DEF SchedulerIInv, SchedulerTypeOK, Phases
  <2>3. /\ tick'.phase = "submit" /\ tick'.row = tick.row /\ tick'.job = j
        /\ tick'.todo = tick.todo /\ tick'.now = tick.now
    BY <1>4 DEF SchedulerIInv, SchedulerTypeOK
  <2> QED BY <1>1, <1>2, <2>2, <2>3, SameRow
<1>5. CASE Free # {} /\ Open(NewId, "docgen", row[tick.row].entity, Done \ Retained)
            /\ tick' = [tick EXCEPT !.phase = "submit", !.job = NewId]
  BY <1>5, <1>4, NewIdIsFree
<1> QED BY <1>3, <1>5 DEF Register

\* The launch itself: what is covered before it leaves room for one more,
\* for the row in hand because it was due, for a row created meanwhile
\* because that one already covers the times the tick knows.
LEMMA LaunchIInv == ASSUME SchedulerIInv, Launch PROVE SchedulerIInv'
<1> USE DEF SchedulerIInv
<1> DEFINE s == tick.row
           e == row[tick.row].entity
<1>1. /\ tick.phase = "submit"
      /\ pending' = [pending EXCEPT ![s] = tick.job]
      /\ launched' = [launched EXCEPT ![e] = @ + 1]
      /\ tick' = [tick EXCEPT !.phase = "commit", !.job = Nobody, !.result = "submitted"]
      /\ run' = run /\ points' = points /\ row' = row /\ failures' = failures
  BY DEF Launch
<1>2. AtRow /\ s \in Schedules /\ s \notin tick.todo /\ tick.job \in JobIds /\ e \in Entities
  BY <1>1, Numbers DEF AtRow, TickShape
<1>3. /\ tick'.phase = "commit" /\ tick'.row = s
      /\ tick'.todo = tick.todo /\ tick'.now = tick.now
  BY <1>1 DEF SchedulerTypeOK
<1>4. SchedulerTypeOK'
  <2>1. launched' \in [Entities -> Nat]
    BY <1>1, <1>2, Numbers DEF SchedulerTypeOK
  <2>2. pending' \in [Schedules -> JobIds \cup {Nobody}]
    BY <1>1, <1>2 DEF SchedulerTypeOK
  <2>3. tick' \in [phase : Phases, now : [Entities -> 0..MaxPoints],
                   todo : SUBSET Schedules, row : Schedules \cup {Nobody},
                   job : JobIds \cup {Nobody}, result : Results, expired : BOOLEAN]
    BY <1>1 DEF SchedulerTypeOK, Phases, Results
  <2> QED BY <2>1, <2>2, <2>3, <1>1 DEF SchedulerTypeOK
<1>5. \A r \in Schedules : InHand(r)' <=> InHand(r)
  BY <1>3 DEF InHand
<1>6. TickShape' /\ AtRow'
  BY <1>2, <1>3 DEF TickShape, AtRow
<1>7. OneRow' /\ Newer'
  BY <1>1, <1>3, <1>5 DEF OneRow, Newer
<1>8. Times'
  BY <1>1, <1>2, <1>3 DEF Times
<1>9. \A d \in Entities : launched'[d] = IF d = e THEN launched[d] + 1 ELSE launched[d]
  BY <1>1, <1>2 DEF SchedulerTypeOK
<1>10. InHand(s) /\ Debt(s) = 0
  BY <1>1 DEF InHand, Debt
<1>11. launched[e] + 1 <= tick.now[e] + failures /\ launched[e] <= row[s].seen + failures
  <2>1. launched[e] <= row[s].seen + failures
    BY <1>2, <1>10, Numbers DEF Covered
  <2>2. row[s].seen < tick.now[e]
    BY <1>2 DEF Times
  <2> QED BY <2>1, <2>2, <1>2, Numbers
<1>12. Covered'
  <2> SUFFICES ASSUME NEW r \in Schedules, row[r].exists \/ InHand(r)
               PROVE  launched'[row[r].entity] <= row[r].seen + failures + Debt(r)'
    BY <1>1, <1>5 DEF Covered
  <2>1. CASE r = s
    <3>1. Debt(r)' = 1
      BY <2>1, <1>3 DEF Debt
    <3> QED BY <2>1, <3>1, <1>2, <1>9, <1>11, Numbers
  <2>2. CASE r # s
    <3>1. Debt(r)' = 0 /\ Debt(r) = 0
      BY <2>2, <1>1, <1>3 DEF Debt
    <3>2. CASE row[r].entity # e
      BY <3>1, <3>2, <1>9, Numbers DEF Covered
    <3>3. CASE row[r].entity = e
      <4>1. ~InHand(r) /\ row[r].exists
        BY <2>2, <3>3, <1>2, <1>10 DEF OneRow
      <4>2. tick.now[e] <= row[r].seen
        BY <4>1, <3>3, <1>2, <1>10 DEF Newer
      <4> QED BY <4>2, <3>1, <3>3, <1>2, <1>9, <1>11, Numbers
    <3> QED BY <3>2, <3>3
  <2> QED BY <2>1, <2>2
<1>13. LaunchBound'
  <2>1. tick.now[e] <= points[e]
    BY <1>2 DEF Times
  <2>2. launched'[e] <= points[e] + failures
    BY <2>1, <1>2, <1>9, <1>11, Numbers
  <2> QED BY <2>2, <1>1, <1>9 DEF LaunchBound
<1> QED BY <1>4, <1>6, <1>7, <1>8, <1>12, <1>13

\* The commit records the time of the tick, or fails at the price of a
\* failure, or finds the row gone.
LEMMA CommitIInv == ASSUME SchedulerIInv, Commit PROVE SchedulerIInv'
<1> USE DEF SchedulerIInv
<1> DEFINE s == tick.row
<1>1. /\ tick.phase = "commit"
      /\ run' = run /\ pending' = pending /\ launched' = launched
  BY DEF Commit
<1>2. AtRow /\ s \in Schedules /\ s \notin tick.todo /\ InHand(s)
  BY <1>1 DEF AtRow, TickShape, InHand
<1>3. \A r \in Schedules : Debt(r) = IF r = s THEN 1 ELSE 0
  BY <1>1 DEF Debt
<1>4. CASE row[s].exists /\ row' = Recorded(s, tick.result)
           /\ tick' = [tick EXCEPT !.phase = "visit", !.row = Nobody,
                                   !.result = "none", !.expired = TRUE]
           /\ points' = points /\ failures' = failures
  <2>1. /\ tick'.phase = "visit" /\ tick'.row = Nobody
        /\ tick'.todo = tick.todo /\ tick'.now = tick.now
    BY <1>4 DEF SchedulerTypeOK
  <2>2. row' = [row EXCEPT ![s].seen = tick.now[row[s].entity], ![s].result = tick.result]
    BY <1>4 DEF Recorded
  <2>3. /\ \A r \in Schedules : /\ row'[r].exists = row[r].exists
                                /\ row'[r].entity = row[r].entity
                                /\ r # s => row'[r].seen = row[r].seen
        /\ row'[s].seen = tick.now[row[s].entity]
    BY <1>2, <2>2 DEF SchedulerTypeOK, RowRecord
  <2>4. row' \in [Schedules -> RowRecord]
    <3>1. tick.now[row[s].entity] \in 0..MaxPoints /\ tick.result \in Results
      BY <1>2, Numbers DEF SchedulerTypeOK
    <3>2. row'[s] \in RowRecord
      BY <3>1, <1>2, <2>2 DEF SchedulerTypeOK, RowRecord
    <3> QED BY <3>2, <2>2 DEF SchedulerTypeOK
  <2>5. tick' \in [phase : Phases, now : [Entities -> 0..MaxPoints],
                   todo : SUBSET Schedules, row : Schedules \cup {Nobody},
                   job : JobIds \cup {Nobody}, result : Results, expired : BOOLEAN]
    BY <1>4 DEF SchedulerTypeOK, Phases, Results
  <2>6. SchedulerTypeOK'
    BY <1>1, <1>4, <2>4, <2>5 DEF SchedulerTypeOK
  <2>7. \A r \in Schedules : (InHand(r)' <=> InHand(r) /\ r # s) /\ Debt(r)' = 0
    BY <1>2, <2>1, SchedulerAssumption DEF InHand, Debt
  <2>8. TickShape' /\ ~AtRow'
    BY <2>1 DEF TickShape, AtRow
  <2>9. OneRow'
    BY <2>3, <2>7 DEF OneRow
  <2>10. Times'
    <3> SUFFICES ASSUME NEW r \in Schedules PROVE row'[r].seen <= points[row'[r].entity]
      BY <1>4, <2>1, <2>8 DEF Times
    <3>1. row[r].entity \in Entities
      BY Numbers
    <3> QED BY <3>1, <2>3 DEF Times
  <2>11. Newer'
    BY <1>2, <2>1, <2>3, <2>7 DEF Newer, OneRow
  <2>12. Covered'
    <3> SUFFICES ASSUME NEW r \in Schedules, row[r].exists \/ InHand(r)
                 PROVE  launched[row[r].entity] <= row'[r].seen + failures
      BY <1>1, <1>4, <2>3, <2>7, Numbers DEF Covered
    <3>1. launched[row[r].entity] <= row[r].seen + failures + Debt(r)
      BY DEF Covered
    <3>2. CASE r = s
      <4>1. row[s].seen < tick.now[row[s].entity]
        BY <1>2 DEF Times
      <4>2. row[s].entity \in Entities
        BY <1>2, Numbers
      <4> QED BY <4>1, <4>2, <3>1, <3>2, <1>3, <2>3, Numbers
    <3>3. CASE r # s
      BY <3>1, <3>3, <1>3, <2>3, Numbers
    <3> QED BY <3>2, <3>3
  <2>13. LaunchBound'
    BY <1>1, <1>4 DEF LaunchBound
  <2> QED BY <2>6, <2>8, <2>9, <2>10, <2>11, <2>12, <2>13
<1>5. CASE ~row[s].exists /\ tick' = Resting
           /\ points' = points /\ row' = row /\ failures' = failures
  <2>1. SchedulerTypeOK'
    BY <1>1, <1>5, EmptyValues DEF SchedulerTypeOK
  <2>2. \A r \in Schedules : row[r].exists => launched[row[r].entity] <= row[r].seen + failures
    BY <1>3, <1>5, Numbers DEF Covered
  <2>3. failures <= failures'
    BY <1>5, Numbers
  <2> QED BY <1>1, <1>5, <2>1, <2>2, <2>3, Rests
<1>6. CASE Abort
  <2>1. /\ failures < MaxFailures /\ failures' = failures + 1 /\ tick' = Resting
        /\ points' = points /\ row' = row
    BY <1>6 DEF Abort
  <2>2. SchedulerTypeOK'
    BY <1>1, <2>1, EmptyValues, SchedulerAssumption DEF SchedulerTypeOK
  <2>3. \A r \in Schedules : row[r].exists => launched[row[r].entity] <= row[r].seen + failures'
    BY <1>3, <2>1, Numbers DEF Covered
  <2>4. failures <= failures'
    BY <2>1, Numbers
  <2> QED BY <1>1, <2>1, <2>2, <2>3, <2>4, Rests
<1> QED BY <1>4, <1>5, <1>6 DEF Commit

\* Every step keeps the invariant.
LEMMA SchedulerNextIInv == SchedulerIInv /\ [SchedulerNext]_schedulerVars => SchedulerIInv'
<1> SUFFICES ASSUME SchedulerIInv, [SchedulerNext]_schedulerVars PROVE SchedulerIInv'
  OBVIOUS
<1>1. CASE TickStep
  BY <1>1, TickStartIInv, ReconcileFailsIInv, VisitEndIInv, RegisterIInv, LaunchIInv,
     CommitIInv, VisitIInv DEF TickStep
<1>2. CASE Restart
  BY <1>2, RestartIInv
<1>3. ASSUME NEW e \in Entities, CronPoint(e) PROVE SchedulerIInv'
  BY <1>3, CronIInv
<1>4. ASSUME NEW s \in Schedules, NEW e \in Entities, NEW on \in BOOLEAN, PutSchedule(s, e, on)
      PROVE  SchedulerIInv'
  BY <1>4, PutIInv
<1>5. ASSUME NEW s \in Schedules, DeleteSchedule(s) PROVE SchedulerIInv'
  BY <1>5, DeleteIInv
<1>6. ASSUME NEW key \in RegistryKeys, NEW e \in Entities, Others(key, e) PROVE SchedulerIInv'
  BY <1>6, OthersIInv
<1>7. ASSUME NEW j \in JobIds, Ends(j) PROVE SchedulerIInv'
  BY <1>7, EndsIInv
<1>8. CASE UNCHANGED schedulerVars
  <2>1. SchedulerTypeOK'
    BY <1>8 DEF schedulerVars, SchedulerIInv, SchedulerTypeOK
  <2> QED BY <1>8, <2>1, Aside DEF schedulerVars
<1> QED
  BY <1>1, <1>2, <1>3, <1>4, <1>5, <1>6, <1>7, <1>8 DEF SchedulerNext

\* SchedulerIInv: what was launched for an entity is covered by last_run_at of its row,
\* by the row a tick has in hand, or by a failure (_tick_sync, upsert_schedule).
THEOREM SchedulerInvariance == SchedulerSpec => []SchedulerIInv
<1>1. SchedulerInit => SchedulerIInv
  BY SchedulerInitIInv
<1>2. SchedulerIInv /\ [SchedulerNext]_schedulerVars => SchedulerIInv'
  BY SchedulerNextIInv
<1> QED
  BY <1>1, <1>2, PTL DEF SchedulerSpec

\* LaunchBound: a fire time launches one job at most, whatever is deleted,
\* re-created, lost or restarted under the tick.
THEOREM LaunchBoundHolds == SchedulerSpec => []LaunchBound
<1>1. SchedulerIInv => LaunchBound
  BY DEF SchedulerIInv
<1> QED
  BY <1>1, SchedulerInvariance, PTL
==============================================================================
