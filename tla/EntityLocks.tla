----------------------------- MODULE EntityLocks -----------------------------
(***************************************************************************)
(* The refcounted registry of per-entity locks, lock_for_entity in         *)
(* api/docgen/jobs.py.  Worker threads hold the lock of one entity for a   *)
(* whole docgen job; the event-loop thread takes it around an API write,   *)
(* and upsert_product takes the locks of all children of a product, in     *)
(* sorted order, on an ExitStack.  All callers of upsert_product are on    *)
(* the event loop, which does not let another one in meanwhile; the module *)
(* does not rely on it and lets any number of threads lock several keys.   *)
(*                                                                         *)
(* A step is one critical section of _entity_locks_guard or one operation  *)
(* of the RLock.  A lock object is a member of LockIds; an object that     *)
(* neither the registry nor a context refers to is garbage and may be      *)
(* handed out again as a new one.  No caller enters the context of a key   *)
(* it is already in, so the re-entrancy of RLock is not used.              *)
(***************************************************************************)
EXTENDS Integers, FiniteSets

CONSTANTS
    Threads,       \* the event-loop thread and the docgen worker threads
    MultiThreads,  \* the threads that run upsert_product (many keys at once)
    Keys,          \* entity keys; their order is the sort order of the strings
    LockIds,       \* identities of RLock objects
    NoThread, NoLock

ASSUME LocksAssumption ==
    /\ IsFiniteSet(Threads) /\ NoThread \notin Threads
    /\ MultiThreads \subseteq Threads
    /\ IsFiniteSet(Keys) /\ Keys \subseteq Int
    /\ NoLock \notin LockIds

VARIABLES
    table,      \* _ENTITY_LOCKS: the lock of a key, NoLock when absent
    refs,       \* _ENTITY_REFCOUNTS, 0 when absent
    owner,      \* owner[l]: the thread that holds the RLock l
    pc,         \* pc[t][k]: where thread t is in the context of key k
    mine,       \* mine[t][k]: the local variable `lock` of that context
    unwinding   \* threads whose ExitStack is closing

vars == <<table, refs, owner, pc, mine, unwinding>>

Places == {"out", "waiting", "held", "busy", "leaving"}

TypeOK ==
    /\ table \in [Keys -> LockIds \cup {NoLock}]
    /\ refs \in [Keys -> Nat]
    /\ owner \in [LockIds -> Threads \cup {NoThread}]
    /\ pc \in [Threads -> [Keys -> Places]]
    /\ mine \in [Threads -> [Keys -> LockIds \cup {NoLock}]]
    /\ unwinding \in SUBSET Threads

Inside(k) == {t \in Threads : pc[t][k] # "out"}

InUse == {table[k] : k \in Keys} \cup {mine[t][k] : t \in Threads, k \in Keys}

Goto(t, k, place) == pc' = [pc EXCEPT ![t][k] = place]

-----------------------------------------------------------------------------
Init ==
    /\ table = [k \in Keys |-> NoLock]
    /\ refs = [k \in Keys |-> 0]
    /\ owner = [l \in LockIds |-> NoThread]
    /\ pc = [t \in Threads |-> [k \in Keys |-> "out"]]
    /\ mine = [t \in Threads |-> [k \in Keys |-> NoLock]]
    /\ unwinding = {}

MayEnterUnsorted(t, k) ==   \* bug: upsert_product forgets sorted(...)
    /\ t \notin unwinding /\ pc[t][k] = "out"
    /\ \A j \in Keys : pc[t][j] # "out" => t \in MultiThreads /\ pc[t][j] = "held"

\* t may open the context of k: all it has open is held and sorts before k.
MayEnter(t, k) ==
    /\ t \notin unwinding /\ pc[t][k] = "out"
    /\ \A j \in Keys : pc[t][j] # "out" =>
            t \in MultiThreads /\ pc[t][j] = "held" /\ j < k

\* First guarded section: look the lock up or create it, count the caller in.
Enter(t, k) ==
    /\ MayEnter(t, k)
    /\ \E l \in LockIds :
          /\ IF table[k] = NoLock
             THEN /\ l \notin InUse
                  /\ owner' = [owner EXCEPT ![l] = NoThread]
             ELSE l = table[k] /\ UNCHANGED owner
          /\ table' = [table EXCEPT ![k] = l]
          /\ mine' = [mine EXCEPT ![t][k] = l]
    /\ refs' = [refs EXCEPT ![k] = @ + 1]
    /\ Goto(t, k, "waiting")
    /\ UNCHANGED unwinding

\* lock.acquire(timeout=...) returns True.
Acquire(t, k) ==
    /\ pc[t][k] = "waiting"
    /\ owner[mine[t][k]] = NoThread
    /\ owner' = [owner EXCEPT ![mine[t][k]] = t]
    /\ Goto(t, k, "held")
    /\ UNCHANGED <<table, refs, mine, unwinding>>

TimeoutSpurious(t, k) ==         \* bug: a non-blocking attempt that may just fail
    /\ pc[t][k] = "waiting"
    /\ Goto(t, k, "busy")
    /\ unwinding' = unwinding \cup {t}
    /\ UNCHANGED <<table, refs, owner, mine>>

TimeoutCountsOut(t, k) ==        \* bug: counted out at the raise and in the finally
    /\ pc[t][k] = "waiting" /\ owner[mine[t][k]] # NoThread
    /\ refs' = [refs EXCEPT ![k] = @ - 1]
    /\ Goto(t, k, "busy")
    /\ unwinding' = unwinding \cup {t}
    /\ UNCHANGED <<table, owner, mine>>

\* The timeout elapses with the lock taken: EntityBusyError.
Timeout(t, k) ==
    /\ pc[t][k] = "waiting"
    /\ owner[mine[t][k]] # NoThread
    /\ Goto(t, k, "busy")
    /\ unwinding' = unwinding \cup {t}
    /\ UNCHANGED <<table, refs, owner, mine>>

\* The body returns or raises; the context opened last is closed first.
Release(t, k) ==
    /\ pc[t][k] = "held"
    /\ \A j \in Keys \ {k} : pc[t][j] # "out" => pc[t][j] = "held" /\ j < k
    /\ owner' = [owner EXCEPT ![mine[t][k]] = NoThread]
    /\ Goto(t, k, "leaving")
    /\ unwinding' = unwinding \cup {t}
    /\ UNCHANGED <<table, refs, mine>>

CountOut(t, k, drop) ==
    /\ pc[t][k] \in {"busy", "leaving"}
    /\ IF drop
       THEN /\ refs' = [refs EXCEPT ![k] = 0]
            /\ table' = [table EXCEPT ![k] = NoLock]
       ELSE refs' = [refs EXCEPT ![k] = @ - 1] /\ UNCHANGED table
    /\ Goto(t, k, "out")
    /\ mine' = [mine EXCEPT ![t][k] = NoLock]
    /\ unwinding' = IF \A j \in Keys \ {k} : pc[t][j] = "out"
                    THEN unwinding \ {t} ELSE unwinding
    /\ UNCHANGED owner

LeaveDropsEarly(t, k) == CountOut(t, k, refs[k] - 1 <= 1)  \* bug: off by one

\* Second guarded section: count the caller out, the last one drops the entry.
Leave(t, k) == CountOut(t, k, refs[k] - 1 <= 0)

Next == \E t \in Threads, k \in Keys :
            \/ Enter(t, k) \/ Acquire(t, k) \/ Timeout(t, k)
            \/ Release(t, k) \/ Leave(t, k)

Spec == Init /\ [][Next]_vars

-----------------------------------------------------------------------------
\* The registry may drop and re-create the lock of an entity at any time, yet
\* no two threads are ever inside the context of one entity together.
MutualExclusion ==
    \A k \in Keys, t, u \in Threads :
        pc[t][k] = "held" /\ pc[u][k] = "held" => t = u

\* The refcount is exact, and an entry lives exactly while somebody is in the
\* context: the dict neither leaks entries nor loses one that is waited on.
RegistryExact ==
    \A k \in Keys :
        /\ refs[k] = Cardinality(Inside(k))
        /\ table[k] = NoLock <=> Inside(k) = {}

Waits(t, u) == \E k \in Keys : pc[t][k] = "waiting" /\ owner[mine[t][k]] = u

\* Sorted acquisition (the claim of upsert_product): no set of threads wait
\* for one another in a ring that only the timeout would break, however many of
\* them lock several keys.
NoWaitCycle ==
    \A T \in (SUBSET Threads) \ {{}} : \E t \in T : \A u \in T : ~Waits(t, u)

\* lock_for_entity gives every caller what the abstract mutex promises.
Status(t, k) == CASE pc[t][k] = "held" -> "holding"
                  [] pc[t][k] = "busy" -> "refused"
                  [] OTHER -> "idle"

Statuses == [t \in Threads |-> [k \in Keys |-> Status(t, k)]]

Mutex == INSTANCE EntityMutex WITH status <- Statuses
MutexSpec == Mutex!Spec

==============================================================================
