------------------------------ MODULE TtlStore ------------------------------
(***************************************************************************)
(* What a cache provider with expiring keys promises its callers           *)
(* (CacheProvider of internal/cache/providers/base.go): each call takes    *)
(* effect at one moment between its begin and its return, a get answers    *)
(* with what is stored and has not expired, and nothing but a delete call  *)
(* and the expiry of a key removes it.                                     *)
(***************************************************************************)
EXTENDS Naturals

CONSTANTS Keys, Values, NoValue, Never, Ttl, Callers

VARIABLES store,    \* key |-> value
          until,    \* key |-> last moment it is alive, Never if it stays
          now,
          pending,  \* caller |-> its call
          answer    \* caller |-> what its last get answered

vars == <<store, until, now, pending, answer>>

NoCall == [op |-> "none", keys |-> {}, val |-> NoValue, at |-> 0]

NoAnswer == [k \in Keys |-> NoValue]

Expired(ts, at) == ts # Never /\ at > ts

Init ==
    /\ store = [k \in Keys |-> NoValue]
    /\ until = [k \in Keys |-> Never]
    /\ now = 0
    /\ pending = [t \in Callers |-> NoCall]
    /\ answer = [t \in Callers |-> NoAnswer]

Begin(t, op, S, v) ==
    /\ pending[t] = NoCall
    /\ pending' = [pending EXCEPT ![t] = [op |-> op, keys |-> S, val |-> v, at |-> now]]
    /\ answer' = [answer EXCEPT ![t] = NoAnswer]
    /\ UNCHANGED <<store, until, now>>

\* A call ends; one that failed ends without effect.
End(t) == pending' = [pending EXCEPT ![t] = NoCall]

GiveUp(t) ==
    /\ pending[t] # NoCall /\ End(t)
    /\ UNCHANGED <<store, until, now, answer>>

Get(t) ==
    LET c == pending[t]
    IN  /\ c.op = "get" /\ End(t)
        /\ answer' = [answer EXCEPT ![t] =
               [k \in Keys |-> IF k \in c.keys /\ ~Expired(until[k], c.at)
                               THEN store[k] ELSE NoValue]]
        /\ UNCHANGED <<store, until, now>>

Put(t) ==
    LET c == pending[t]
    IN  /\ c.op = "put" /\ End(t)
        /\ store' = [k \in Keys |-> IF k \in c.keys THEN c.val ELSE store[k]]
        /\ until' = [k \in Keys |-> IF k \notin c.keys THEN until[k]
                                    ELSE IF Ttl[k] > 0 THEN c.at + Ttl[k] ELSE Never]
        /\ UNCHANGED <<now, answer>>

Erase(S) ==
    /\ store' = [k \in Keys |-> IF k \in S THEN NoValue ELSE store[k]]
    /\ until' = [k \in Keys |-> IF k \in S THEN Never ELSE until[k]]

Delete(t) ==
    /\ pending[t].op = "delete" /\ End(t)
    /\ Erase(pending[t].keys)
    /\ UNCHANGED <<now, answer>>

\* Expired keys may be removed at any time.
Purge(S) ==
    /\ \A k \in S : Expired(until[k], now)
    /\ Erase(S)
    /\ UNCHANGED <<now, pending, answer>>

Tick == now' = now + 1 /\ UNCHANGED <<store, until, pending, answer>>

Restart ==
    /\ pending' = [t \in Callers |-> NoCall]
    /\ answer' = [t \in Callers |-> NoAnswer]
    /\ UNCHANGED <<store, until, now>>

Next ==
    \/ \E t \in Callers :
          \/ \E S \in SUBSET Keys :
                \/ \E op \in {"get", "delete"} : Begin(t, op, S, NoValue)
                \/ \E v \in Values : Begin(t, "put", S, v)
          \/ GiveUp(t) \/ Get(t) \/ Put(t) \/ Delete(t)
    \/ \E S \in SUBSET Keys : Purge(S)
    \/ Tick
    \/ Restart

Spec == Init /\ [][Next]_vars
=============================================================================
