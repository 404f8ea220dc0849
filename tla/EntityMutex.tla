----------------------------- MODULE EntityMutex -----------------------------
(***************************************************************************)
(* What lock_for_entity (api/docgen/jobs.py) promises its callers, with    *)
(* no registry and no lock objects: for each entity key at most one thread *)
(* is inside the context, and a caller is refused (EntityBusyError) only   *)
(* when another thread really is inside.                                   *)
(***************************************************************************)
CONSTANTS Threads, Keys

VARIABLE status   \* status[t][k]: what thread t has of the entity k

Free(k) == \A u \in Threads : status[u][k] # "holding"

Move(t, k, from, to) ==
    /\ status[t][k] = from
    /\ status' = [status EXCEPT ![t][k] = to]

Init == status = [t \in Threads |-> [k \in Keys |-> "idle"]]

Take(t, k) == Free(k) /\ Move(t, k, "idle", "holding")

Refuse(t, k) ==
    /\ \E u \in Threads \ {t} : status[u][k] = "holding"
    /\ Move(t, k, "idle", "refused")

Give(t, k) == Move(t, k, "holding", "idle")

Forget(t, k) == Move(t, k, "refused", "idle")

Next == \E t \in Threads, k \in Keys :
            Take(t, k) \/ Refuse(t, k) \/ Give(t, k) \/ Forget(t, k)

Spec == Init /\ [][Next]_status
==============================================================================
