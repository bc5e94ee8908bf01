---------------------------- MODULE ResourceLock ----------------------------
(***************************************************************************)
(* What a multi-resource lock (mrlock.h) promises: a thread asks for a set *)
(* of resources, gets them all at once, and conflicting requests are       *)
(* granted in the order in which they were made.                           *)
(***************************************************************************)
CONSTANTS Threads, Resources

VARIABLES
    request,    \* request[t]: the resources that t asks for or holds
    holds,      \* the threads whose request is granted
    ahead       \* ahead[t]: the threads whose requests t has to wait for

vars == <<request, holds, ahead>>

Conflict(t, u) == t /= u /\ request[t] \cap request[u] /= {}

Init ==
    /\ request = [t \in Threads |-> {}]
    /\ holds = {}
    /\ ahead = [t \in Threads |-> {}]

Request(t, resources) ==
    /\ request[t] = {}
    /\ request' = [request EXCEPT ![t] = resources]
    /\ ahead' = [ahead EXCEPT ![t] = {u \in Threads \ {t} : request[u] \cap resources /= {}}]
    /\ UNCHANGED holds

Grant(t) ==
    /\ request[t] /= {}
    /\ t \notin holds
    /\ ahead[t] = {}
    /\ holds' = holds \cup {t}
    /\ UNCHANGED <<request, ahead>>

Release(t) ==
    /\ t \in holds
    /\ holds' = holds \ {t}
    /\ request' = [request EXCEPT ![t] = {}]
    /\ ahead' = [u \in Threads |-> ahead[u] \ {t}]

Next ==
    \E t \in Threads :
        \/ \E resources \in (SUBSET Resources) \ {{}} : Request(t, resources)
        \/ Grant(t) \/ Release(t)

Spec == Init /\ [][Next]_vars

(* Two threads never hold the same resource: the code that runs between    *)
(* Lock (mrlock.h:68) and Unlock (mrlock.h:114) runs alone.                *)
Exclusive == \A t, u \in holds : ~Conflict(t, u)
=============================================================================
