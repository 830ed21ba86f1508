----------------------------- MODULE RocksDbCF ------------------------------
(***************************************************************************)
(* The RocksDB provider (internal/cache/providers/rocks_db.go): values in  *)
(* one column family, expiry timestamps in another, and a map in memory    *)
(* that caches the timestamps.  A write batch changes both families        *)
(* atomically; the map is changed key by key under a mutex before the      *)
(* batch is written.  Each access of the map or of the database is a step. *)
(***************************************************************************)
EXTENDS Naturals

CONSTANTS
    Keys, Values, NoValue,
    Never,          \* "no timestamp"
    Ttl,            \* key |-> time to live its cache gives this layer, 0: none
    Callers,        \* goroutines that call the provider
    CallsOf,        \* caller |-> the operations it calls
    MaxTime,        \* bound of the clock
    MayFail,        \* reads and writes of the database may fail
    Abortable,      \* operations whose calls may find their context done
    MaxRestarts,    \* bound of the number of restarts
    CollectorRuns   \* StartTTLCollector was called; the server never calls it

ASSUME NeverAssumption == Never \notin Nat
ASSUME NoValueAssumption == NoValue \notin Values
ASSUME TtlAssumption == Ttl \in [Keys -> Nat]
ASSUME CallsAssumption == CallsOf \in [Callers -> SUBSET {"get", "put", "delete"}]
ASSUME AbortableAssumption == Abortable \subseteq {"get", "put", "delete"}
ASSUME BoundsAssumption == MaxTime \in Nat /\ MaxRestarts \in Nat

VARIABLES
    val,       \* column family "default"
    exp,       \* column family "ttl_cf"
    ttlCache,  \* the map in memory
    call,      \* the call each caller is in
    answer,    \* what its last BatchGet returned
    victims,   \* keys collectOnce found expired, {} when it is not running
    unmarked,  \* those it still has to remove from the map
    now, restarts,
    doubtful   \* history: keys whose last put overlapped another one or failed

dbVars        == <<val, exp>>
collectorVars == <<victims, unmarked>>
clockVars     == <<now, restarts>>
vars == <<dbVars, ttlCache, call, answer, collectorVars, clockVars, doubtful>>

\* pc: "ttl"    BatchGet, at the next key: look into the map
\*     "load"   getTTL missed in the map: read ttl_cf
\*     "refill" getTTL found ts: store it into the map
\*     "read"   the key has not expired: read its value
\*     "set"    BatchPut, setTTL of the next key, then the write
\*     "forget" BatchDelete, deleteTTL of the next key, then the write
NoAnswer == [k \in Keys |-> NoValue]

NoCall == [op |-> "none", pc |-> "idle", keys |-> {}, val |-> NoValue, at |-> 0,
           todo |-> {}, key |-> NoValue, ts |-> Never, gone |-> {},
           found |-> NoAnswer]

Expired(ts, at) == ts # Never /\ at > ts

At(t, op, pc) == call[t].op = op /\ call[t].pc = pc

-----------------------------------------------------------------------------
Init ==
    /\ val = [k \in Keys |-> NoValue]
    /\ exp = [k \in Keys |-> Never]
    /\ ttlCache = [k \in Keys |-> Never]
    /\ call = [t \in Callers |-> NoCall]
    /\ answer = [t \in Callers |-> NoAnswer]
    /\ victims = {} /\ unmarked = {}
    /\ now = 0 /\ restarts = 0
    /\ doubtful = {}

PutInFlight(k) == \E t \in Callers : call[t].op = "put" /\ k \in call[t].keys

\* now := time.Now(), with the keys the loop visits.
Begin(t, op, pc, S, v, todo) ==
    /\ op \in CallsOf[t]
    /\ call[t] = NoCall
    /\ call' = [call EXCEPT ![t] =
                  [op |-> op, pc |-> pc, keys |-> S, val |-> v, at |-> now,
                   todo |-> todo, key |-> NoValue, ts |-> Never, gone |-> {},
                   found |-> NoAnswer]]
    /\ answer' = [answer EXCEPT ![t] = NoAnswer]
    /\ doubtful' = IF op = "put" THEN (doubtful \ S) \cup {k \in S : PutInFlight(k)}
                   ELSE doubtful
    /\ UNCHANGED <<dbVars, ttlCache, collectorVars, clockVars>>

Batches == SUBSET Keys \ {{}}

BeginGet(t, S)    == Begin(t, "get", "ttl", S, NoValue, S)
BeginPut(t, S, v) == Begin(t, "put", "set", S, v, {k \in S : Ttl[k] > 0})
BeginDelete(t, S) == Begin(t, "delete", "forget", S, NoValue, S)

-----------------------------------------------------------------------------
(* BatchGet *)

\* The call after `expired` knows the timestamp of key k.
Judged(c, k, ts) ==
    IF Expired(ts, c.at)
    THEN [c EXCEPT !.pc = "ttl", !.todo = @ \ {k}, !.gone = @ \cup {k},
                   !.key = NoValue, !.ts = Never]
    ELSE [c EXCEPT !.pc = "read", !.key = k, !.ts = Never]

\* getTTL looks into the map under the read lock.
LookUp(t) ==
    /\ At(t, "get", "ttl")
    /\ \E k \in call[t].todo :
         call' = [call EXCEPT ![t] =
                    IF ttlCache[k] # Never THEN Judged(@, k, ttlCache[k])
                    ELSE [@ EXCEPT !.pc = "load", !.key = k]]
    /\ UNCHANGED <<dbVars, ttlCache, answer, collectorVars, clockVars, doubtful>>

\* getTTL reads ttl_cf; with no timestamp, or an error, the key has not expired.
Load(t) ==
    /\ At(t, "get", "load")
    /\ \E ts \in {exp[call[t].key]} \cup (IF MayFail THEN {Never} ELSE {}) :
         call' = [call EXCEPT ![t].pc = IF ts = Never THEN "read" ELSE "refill",
                              ![t].ts = ts]
    /\ UNCHANGED <<dbVars, ttlCache, answer, collectorVars, clockVars, doubtful>>

\* getTTL stores the timestamp it read into the map.
Refill(t) ==
    /\ At(t, "get", "refill")
    /\ ttlCache' = [ttlCache EXCEPT ![call[t].key] = call[t].ts]
    /\ call' = [call EXCEPT ![t] = Judged(@, @.key, @.ts)]
    /\ UNCHANGED <<dbVars, answer, collectorVars, clockVars, doubtful>>

\* GetCF of the value; an error ends the call without a cleanup.
Read(t) ==
    /\ At(t, "get", "read")
    /\ LET k == call[t].key
       IN  call' = [call EXCEPT ![t].pc = "ttl", ![t].key = NoValue,
                                ![t].todo = call[t].todo \ {k},
                                ![t].found = [call[t].found EXCEPT ![k] = val[k]]]
    /\ UNCHANGED <<dbVars, ttlCache, answer, collectorVars, clockVars, doubtful>>

ReadFails(t) ==
    /\ MayFail /\ At(t, "get", "read")
    /\ call' = [call EXCEPT ![t] = NoCall]
    /\ UNCHANGED <<dbVars, ttlCache, answer, collectorVars, clockVars, doubtful>>

\* The keys found expired are handed to BatchDelete.
CleanUp(t) ==
    /\ At(t, "get", "ttl") /\ call[t].todo = {} /\ call[t].gone # {}
    /\ call' = [call EXCEPT ![t].pc = "forget", ![t].todo = call[t].gone]
    /\ UNCHANGED <<dbVars, ttlCache, answer, collectorVars, clockVars, doubtful>>

Return(t) ==
    /\ At(t, "get", "ttl") /\ call[t].todo = {} /\ call[t].gone = {}
    /\ answer' = [answer EXCEPT ![t] = call[t].found]
    /\ call' = [call EXCEPT ![t] = NoCall]
    /\ UNCHANGED <<dbVars, ttlCache, collectorVars, clockVars, doubtful>>

-----------------------------------------------------------------------------
(* BatchPut *)

\* Mutants: setTTL keeps an entry of the map; it asks for the time again.
SetTtlTo(t, k, ts) ==
    /\ ttlCache' = [ttlCache EXCEPT ![k] = ts]
    /\ call' = [call EXCEPT ![t].todo = @ \ {k}]
    /\ UNCHANGED <<dbVars, answer, collectorVars, clockVars, doubtful>>
SetTtlKeepsEntry(t) ==
    /\ At(t, "put", "set")
    /\ \E k \in call[t].todo :
         SetTtlTo(t, k, IF ttlCache[k] # Never THEN ttlCache[k] ELSE call[t].at + Ttl[k])
SetTtlReadsClockAgain(t) ==
    /\ At(t, "put", "set")
    /\ \E k \in call[t].todo : SetTtlTo(t, k, now + Ttl[k])

\* setTTL: the map is changed before the batch is written.
SetTtl(t) ==
    /\ At(t, "put", "set")
    /\ \E k \in call[t].todo :
         /\ ttlCache' = [ttlCache EXCEPT ![k] = call[t].at + Ttl[k]]
         /\ call' = [call EXCEPT ![t].todo = @ \ {k}]
    /\ UNCHANGED <<dbVars, answer, collectorVars, clockVars, doubtful>>

\* db.Write of values and timestamps; a key without TTL keeps its timestamp.
PutBatch(c) ==
    /\ val' = [k \in Keys |-> IF k \in c.keys THEN c.val ELSE val[k]]
    /\ exp' = [k \in Keys |-> IF k \in c.keys /\ Ttl[k] > 0 THEN c.at + Ttl[k]
                                                            ELSE exp[k]]

WritePut(t) ==
    /\ At(t, "put", "set") /\ call[t].todo = {}
    /\ \/ PutBatch(call[t]) /\ UNCHANGED doubtful
       \/ MayFail /\ UNCHANGED dbVars /\ doubtful' = doubtful \cup call[t].keys
    /\ call' = [call EXCEPT ![t] = NoCall]
    /\ UNCHANGED <<ttlCache, answer, collectorVars, clockVars>>

-----------------------------------------------------------------------------
(* BatchDelete, called by the service or by BatchGet for expired keys *)

Targets(c) == IF c.op = "get" THEN c.gone ELSE c.keys

\* The caller after BatchDelete returned, with or without an error.
Deleted(c) == IF c.op = "get" THEN [c EXCEPT !.pc = "ttl", !.todo = {}, !.gone = {}]
                              ELSE NoCall

\* deleteTTL.
Forget(t) ==
    /\ call[t].pc = "forget"
    /\ \E k \in call[t].todo :
         /\ ttlCache' = [ttlCache EXCEPT ![k] = Never]
         /\ call' = [call EXCEPT ![t].todo = @ \ {k}]
    /\ UNCHANGED <<dbVars, answer, collectorVars, clockVars, doubtful>>

\* Mutant: deleteTTL does not add the timestamp to the batch.
DeleteBatchLeavesTimestamp(S) ==
    /\ val' = [k \in Keys |-> IF k \in S THEN NoValue ELSE val[k]]
    /\ UNCHANGED exp

DeleteBatch(S) ==
    /\ val' = [k \in Keys |-> IF k \in S THEN NoValue ELSE val[k]]
    /\ exp' = [k \in Keys |-> IF k \in S THEN Never ELSE exp[k]]

WriteDelete(t) ==
    /\ call[t].pc = "forget" /\ call[t].todo = {}
    /\ DeleteBatch(Targets(call[t])) \/ (MayFail /\ UNCHANGED dbVars)
    /\ call' = [call EXCEPT ![t] = Deleted(@)]
    /\ UNCHANGED <<ttlCache, answer, collectorVars, clockVars, doubtful>>

-----------------------------------------------------------------------------
\* ctx.Done() in a loop: what the loop did to the map stays.  A cleanup that is
\* abandoned leaves the answer of its get as it is.
Abort(t) ==
    /\ call[t].op \in Abortable
    /\ call[t].pc \in {"ttl", "set", "forget"} /\ call[t].todo # {}
    /\ call' = [call EXCEPT ![t] = IF @.pc = "forget" THEN Deleted(@) ELSE NoCall]
    /\ doubtful' = IF call[t].op = "put" THEN doubtful \cup call[t].keys ELSE doubtful
    /\ UNCHANGED <<dbVars, ttlCache, answer, collectorVars, clockVars>>

(* collectOnce *)

\* The iterator sees ttl_cf as it was when it was made.
CollectStart ==
    /\ CollectorRuns /\ victims = {}
    /\ victims' = {k \in Keys : Expired(exp[k], now)}
    /\ unmarked' = victims'
    /\ UNCHANGED <<dbVars, ttlCache, call, answer, clockVars, doubtful>>

CollectKey ==
    /\ \E k \in unmarked : /\ ttlCache' = [ttlCache EXCEPT ![k] = Never]
                           /\ unmarked' = unmarked \ {k}
    /\ UNCHANGED <<dbVars, call, answer, victims, clockVars, doubtful>>

\* Mutant: the batch is written before the scan is over.
CollectWriteEarly ==
    /\ victims # {}
    /\ DeleteBatch(victims) \/ (MayFail /\ UNCHANGED dbVars)
    /\ victims' = {}
    /\ UNCHANGED <<ttlCache, call, answer, unmarked, clockVars, doubtful>>

CollectWrite ==
    /\ victims # {} /\ unmarked = {}
    /\ DeleteBatch(victims) \/ (MayFail /\ UNCHANGED dbVars)
    /\ victims' = {}
    /\ UNCHANGED <<ttlCache, call, answer, unmarked, clockVars, doubtful>>

-----------------------------------------------------------------------------
Tick ==
    /\ now < MaxTime
    /\ now' = now + 1
    /\ UNCHANGED <<dbVars, ttlCache, call, answer, collectorVars, restarts, doubtful>>

\* The process is killed and opens the database again.
Restart ==
    /\ restarts < MaxRestarts
    /\ restarts' = restarts + 1
    /\ ttlCache' = [k \in Keys |-> Never]
    /\ call' = [t \in Callers |-> NoCall]
    /\ answer' = [t \in Callers |-> NoAnswer]
    /\ victims' = {} /\ unmarked' = {}
    /\ doubtful' = {}
    /\ UNCHANGED <<dbVars, now>>

BatchGet(t)    == LookUp(t) \/ Load(t) \/ Refill(t) \/ Read(t) \/ ReadFails(t)
                     \/ CleanUp(t) \/ Return(t)
BatchPut(t)    == SetTtl(t) \/ WritePut(t)
BatchDelete(t) == Forget(t) \/ WriteDelete(t)
Run(t)         == BatchGet(t) \/ BatchPut(t) \/ BatchDelete(t)
Collect        == CollectStart \/ CollectKey \/ CollectWrite

Next ==
    \/ \E t \in Callers :
          \/ \E S \in Batches :
                \/ BeginGet(t, S)
                \/ BeginDelete(t, S)
                \/ \E v \in Values : BeginPut(t, S, v)
          \/ Run(t)
          \/ Abort(t)
    \/ Collect
    \/ Tick
    \/ Restart

Spec == Init /\ [][Next]_vars

-----------------------------------------------------------------------------
(* Properties *)

Timestamps == Nat \cup {Never}

Calls == [op : {"none", "get", "put", "delete"},
          pc : {"idle", "ttl", "load", "refill", "read", "set", "forget"},
          keys : SUBSET Keys, val : Values \cup {NoValue}, at : Nat,
          todo : SUBSET Keys, key : Keys \cup {NoValue}, ts : Timestamps,
          gone : SUBSET Keys, found : [Keys -> Values \cup {NoValue}]]

\* The families, the map, the calls and the collector hold what the code can.
TypeOK ==
    /\ val \in [Keys -> Values \cup {NoValue}]
    /\ exp \in [Keys -> Timestamps]
    /\ ttlCache \in [Keys -> Timestamps]
    /\ call \in [Callers -> Calls]
    /\ answer \in [Callers -> [Keys -> Values \cup {NoValue}]]
    /\ victims \subseteq Keys /\ unmarked \subseteq victims
    /\ now \in 0 .. MaxTime /\ restarts \in 0 .. MaxRestarts
    /\ doubtful \subseteq Keys

\* Whatever calls run into each other, fail, are abandoned or cut off by a
\* restart, a value has a timestamp in ttl_cf exactly when its TTL demands one,
\* and no timestamp is left without a value.
FamiliesAgree ==
    \A k \in Keys : exp[k] # Never <=> val[k] # NoValue /\ Ttl[k] > 0

Store == INSTANCE TtlStore WITH
            store <- val, until <- exp,
            pending <- [t \in Callers |->
                          [op |-> call[t].op, keys |-> call[t].keys,
                           val |-> call[t].val, at |-> call[t].at]]

\* One caller at a time, no failing database and no abandoned put: the provider is
\* a store whose keys expire, across expiries, cleanups, restarts and gets,
\* cleanups and deletes that are abandoned half way.  An abandoned put is not one
\* of these: it leaves in the map timestamps that no batch stored.
IsTtlStore == Store!Spec

\* Refills and cleanups of readers leave stale timestamps in the map, but only a
\* put that failed, was abandoned or overlapped another put of its key leaves one
\* that is later than the stored one: otherwise a stale entry may shorten a life
\* and never prolongs it.
MapNeverProlongs ==
    \A k \in Keys \ doubtful :
        ~PutInFlight(k) /\ exp[k] # Never /\ ttlCache[k] # Never
            => ttlCache[k] <= exp[k]
=============================================================================
