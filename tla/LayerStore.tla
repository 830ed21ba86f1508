----------------------------- MODULE LayerStore -----------------------------
(***************************************************************************)
(* What a provider in another process promises its callers: a call that    *)
(* succeeds has read or changed each of its keys while it ran, key by key  *)
(* and possibly more than once; one that fails has changed any part of     *)
(* them, and what it has left behind may still change its keys later.      *)
(***************************************************************************)
CONSTANTS
    Keys,       \* the keys of the store
    Values,     \* what can be stored
    NoValue,    \* "no value": the key is not there
    Callers,    \* goroutines that call the provider
    Mortal      \* keys with a TTL

VARIABLES
    db,         \* what the store holds
    call,       \* call[t]: the call of t and what it has done so far
    owed        \* changes that ended attempts have left behind

vars == <<db, call, owed>>

NothingRead == [k \in Keys |-> NoValue]

\* A call of op with value v on the keys S, and how far it is.
Call(op, v, S, applied, read, outcome) ==
    [op |-> op, value |-> v, keys |-> S, applied |-> applied, read |-> read,
     outcome |-> outcome]

NoCall == Call("none", NoValue, {}, {}, NothingRead, "none")

Init ==
    /\ db = [k \in Keys |-> NoValue]
    /\ call = [t \in Callers |-> NoCall]
    /\ owed = {}

Running(t) == call[t].op # "none" /\ call[t].outcome = "none"

Begin(t, op, S, v) ==
    /\ call[t] = NoCall
    /\ call' = [call EXCEPT ![t] = Call(op, v, S, {}, NothingRead, "none")]
    /\ UNCHANGED <<db, owed>>

\* The call of t goes on.
Goes(t, applied, read, outcome) ==
    call' = [call EXCEPT ![t] = Call(call[t].op, call[t].value, call[t].keys,
                                     applied, read, outcome)]

\* The store reads, or changes, the keys S of the call at once.
Apply(t, S) ==
    /\ Running(t) /\ S # {} /\ S \subseteq call[t].keys
    /\ db' = IF call[t].op = "get" THEN db
             ELSE [k \in Keys |-> IF k \in S THEN call[t].value ELSE db[k]]
    /\ Goes(t, call[t].applied \cup S,
            IF call[t].op # "get" THEN call[t].read
            ELSE [k \in Keys |-> IF k \in S THEN db[k] ELSE call[t].read[k]],
            "none")
    /\ UNCHANGED owed

\* An attempt ends, and the call fails or not; the changes of S may come later.
LeaveBehind(t, S) ==
    /\ Running(t) /\ S \subseteq call[t].keys
    /\ call[t].op = "get" => S = {}
    /\ owed' = owed \cup [key : S, value : {call[t].value}]
    /\ \/ UNCHANGED call
       \/ Goes(t, call[t].applied, NothingRead, "error")
    /\ UNCHANGED db

Succeed(t) ==
    /\ Running(t) /\ call[t].applied = call[t].keys
    /\ Goes(t, call[t].applied, call[t].read, "ok")
    /\ UNCHANGED <<db, owed>>

Take(t) ==
    /\ call[t].outcome # "none"
    /\ call' = [call EXCEPT ![t] = NoCall]
    /\ UNCHANGED <<db, owed>>

\* What was left behind changes its key.
Late(c) ==
    /\ c \in owed
    /\ db' = [db EXCEPT ![c.key] = c.value]
    /\ owed' = owed \ {c}
    /\ UNCHANGED call

Expire(k) ==
    /\ k \in Mortal
    /\ db' = [db EXCEPT ![k] = NoValue]
    /\ UNCHANGED <<call, owed>>

Next ==
    \/ \E t \in Callers, S \in SUBSET Keys :
          \/ \E v \in Values : Begin(t, "put", S, v)
          \/ \E op \in {"get", "delete"} : Begin(t, op, S, NoValue)
          \/ Apply(t, S)
          \/ LeaveBehind(t, S)
    \/ \E t \in Callers : Succeed(t) \/ Take(t)
    \/ \E c \in owed : Late(c)
    \/ \E k \in Keys : Expire(k)

Spec == Init /\ [][Next]_vars
=============================================================================
