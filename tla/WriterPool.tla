----------------------------- MODULE WriterPool -----------------------------
(***************************************************************************)
(* What internal/manager/async_adapter.go promises of the goroutines that  *)
(* run PutAll and EvictAll: a request waits until it is admitted, no more  *)
(* than Cap of them run at a time, and each one that was admitted leaves.  *)
(***************************************************************************)
EXTENDS Naturals, FiniteSets

CONSTANTS Requests, Cap

VARIABLES waiting,  \* requests whose handler has not returned yet
          active    \* requests whose goroutine runs

vars == <<waiting, active>>

Init == waiting = {} /\ active = {}

Ask(r) ==
    /\ r \notin waiting \cup active
    /\ waiting' = waiting \cup {r}
    /\ UNCHANGED active

Admit(r) ==
    /\ r \in waiting /\ Cardinality(active) < Cap
    /\ waiting' = waiting \ {r}
    /\ active' = active \cup {r}

Leave(r) ==
    /\ r \in active
    /\ active' = active \ {r}
    /\ UNCHANGED waiting

Next == \E r \in Requests : Ask(r) \/ Admit(r) \/ Leave(r)

Spec == Init /\ [][Next]_vars
=============================================================================
