---------------------------- MODULE LayeredCache ----------------------------
(***************************************************************************)
(* The core of the service: a GET that cascades through the layers, asks   *)
(* the external source and fills the layers above a hit in the background  *)
(* (internal/manager, internal/cache), and the PUT and EVICT goroutines    *)
(* that walk the same layers (internal/manager/async_adapter.go).          *)
(*                                                                         *)
(* One getter is one GetAll request together with the fillMissingLevels    *)
(* goroutine it spawns; one writer is one goroutine of runAsync.  A call   *)
(* of a provider is one atomic step, except the calls of a fill: they are  *)
(* begun and then land, because the request that spawned the fill may be   *)
(* answered in between.                                                    *)
(***************************************************************************)
EXTENDS Naturals, FiniteSets

CONSTANTS
    Keys,           \* storage keys ("prefix:key") that requests may name
    Values, NoValue,
    NumLevels,      \* number of layers, services[0] .. services[NumLevels-1]
    Caches,         \* names of the configured caches
    CacheOf,        \* key |-> name of its cache, configured or not
    LevelsOf,       \* cache |-> levels where the layer and the cache enable it
    Source,         \* key |-> what the external source answers
    Getters, Writers,
    AtomicLevels,   \* levels that apply a batch entirely or not at all (RocksDB)
    VolatileLevels, \* levels emptied by a restart (Ristretto)
    LossyLevels,    \* levels that may forget a key: TTL, admission, eviction
    FaultyLevels,   \* levels whose provider may return an error
    FailingApis,    \* caches whose external API may fail
    Hasty,          \* getters and writers whose context may end before they do
    MayCrash        \* whether the process may be killed and restarted

Levels   == 0 .. NumLevels - 1
External == NumLevels        \* the "level" of a hit of the external source

ASSUME LevelsAssumption == NumLevels \in Nat \ {0}
ASSUME ValuesAssumption == NoValue \notin Values
ASSUME CachesAssumption == LevelsOf \in [Caches -> SUBSET Levels]
ASSUME SourceAssumption == Source \in [Keys -> Values \cup {NoValue}]
ASSUME MayCrashAssumption == MayCrash \in BOOLEAN

VARIABLES
    layer,      \* layer[l][k]: what a BatchGet of layer l would answer for k
    \* a GetAll request
    handler,    \* "idle", "reading", "answering" (fill spawned), "returned"
    cancelled,  \* the request's context is done
    asked,      \* the resolved ids of the request
    level,      \* the layer the cascade is at; External after the last one
    reqs,       \* the ids the cascade still looks for
    results,    \* results[g][l]: hits, misses and skipped of layer l
    found,      \* found[g][k]: the value of the hit on k
    \* its fillMissingLevels goroutine
    fillLevel,  \* level of the loop over the results; NumLevels: ended
    putLevel,   \* the layer that loop's PutAll is at
    inCall,     \* a BatchPut of the fill passed its context check
    \* a PutAll or EvictAll goroutine
    op,         \* "idle", "put", "evict"
    batch,      \* the keys it writes
    newValue,   \* the value it puts, NoValue for an evict
    wlevel,     \* the layer it is at
    expired,    \* its timeout has passed
    \* history, read by no action's guard
    latest,     \* latest[k]: value of the write of k that started last
    recent,     \* recent[k]: what that write and those it met in flight leave
    overlapped, \* keys whose last write ran at the same time as another use
    failed      \* keys that a read or write error or a crash touched since then

layerVars   == <<layer>>
getVars     == <<handler, cancelled, asked, level, reqs, results, found>>
fillVars    == <<fillLevel, putLevel, inCall>>
writeVars   == <<op, batch, newValue, wlevel, expired>>
historyVars == <<latest, recent, overlapped, failed>>
vars == <<layerVars, getVars, fillVars, writeVars, historyVars>>

-----------------------------------------------------------------------------
(* Services: what a layer does with a batch *)

\* Mutant: the layer does not ask whether the cache enables it.
EnabledKeysIgnoresConfig(l, S) == S

\* The keys of S that layer l stores: the enabled keys of categorizeRequests.
EnabledKeys(l, S) == {k \in S : l \in LevelsOf[CacheOf[k]]}

\* The mapper drops the ids of caches that are not configured.
KnownKeys(S) == {k \in S : CacheOf[k] \in Caches}

NoResult == [hits |-> {}, misses |-> {}, skipped |-> {}]

\* What layer l answers to the ids S.
LayerResult(l, S) ==
    LET enabled == EnabledKeys(l, S)
        hits    == {k \in enabled : layer[l][k] # NoValue}
    IN  [hits |-> hits, misses |-> enabled \ hits, skipped |-> S \ enabled]

\* What the cascade records for a layer whose provider failed.
Unavailable(S) == [hits |-> {}, misses |-> {}, skipped |-> S]

\* Mutants: a layer that does not store a cache ends the search for its keys;
\* a key that was found is searched for again.
NextReqsDropsSkipped(r) == r.misses
NextReqsKeepsHits(r) == r.hits \cup r.misses \cup r.skipped

\* The ids handed to the next layer.
NextReqs(r) == r.misses \cup r.skipped

\* The parts of a batch a provider may have applied when its call ends.
Applied(l, keys, mayFail) ==
    IF ~mayFail THEN {keys}
    ELSE IF l \in AtomicLevels THEN {{}, keys} ELSE SUBSET keys

\* Layers after layer l stored f[k] for the keys of S.
Stored(l, S, f) ==
    [layer EXCEPT ![l] = [k \in Keys |-> IF k \in S THEN f[k] ELSE @[k]]]

\* The ids of unavailable APIs are skipped, the others answered by Source.
ExternalResult(S, failing) ==
    LET answered == {k \in S : CacheOf[k] \notin failing}
        hits     == {k \in answered : Source[k] # NoValue}
    IN  [hits |-> hits, misses |-> answered \ hits, skipped |-> S \ answered]

-----------------------------------------------------------------------------
(* Who uses a key: for the history variables only *)

Filling(g) == handler[g] # "idle" /\ fillLevel[g] < NumLevels

GetterUses(g, k) == handler[g] # "idle" /\ k \in asked[g]
WriterUses(w, k) == op[w] # "idle" /\ k \in batch[w]

\* The keys an operation in flight reads or writes.
BusyKeys == {k \in Keys : \/ \E g \in Getters : GetterUses(g, k)
                          \/ \E w \in Writers : WriterUses(w, k)}

\* The keys an unfinished write may still change.
WrittenKeys == {k \in Keys : \E w \in Writers : WriterUses(w, k)}

\* What the unfinished writes of k put, or NoValue.
InFlight(k) == {newValue[w] : w \in {u \in Writers : WriterUses(u, k)}}

-----------------------------------------------------------------------------
Init ==
    /\ layer = [l \in Levels |-> [k \in Keys |-> NoValue]]
    /\ handler = [g \in Getters |-> "idle"]
    /\ cancelled = [g \in Getters |-> FALSE]
    /\ asked = [g \in Getters |-> {}]
    /\ level = [g \in Getters |-> 0]
    /\ reqs = [g \in Getters |-> {}]
    /\ results = [g \in Getters |-> [l \in 0 .. External |-> NoResult]]
    /\ found = [g \in Getters |-> [k \in Keys |-> NoValue]]
    /\ fillLevel = [g \in Getters |-> NumLevels]
    /\ putLevel = [g \in Getters |-> 0]
    /\ inCall = [g \in Getters |-> FALSE]
    /\ op = [w \in Writers |-> "idle"]
    /\ batch = [w \in Writers |-> {}]
    /\ newValue = [w \in Writers |-> NoValue]
    /\ wlevel = [w \in Writers |-> 0]
    /\ expired = [w \in Writers |-> FALSE]
    /\ latest = [k \in Keys |-> NoValue]
    /\ recent = [k \in Keys |-> {NoValue}]
    /\ overlapped = {}
    /\ failed = {}

-----------------------------------------------------------------------------
(* GetAll: the cascade *)

\* A request names at least one id; the handlers refuse an empty one.
Batches == SUBSET Keys \ {{}}

\* Mutant: the map of hits is reused for the next request.
ForgetKeepsFound(g) ==
    /\ handler' = [handler EXCEPT ![g] = "idle"]
    /\ cancelled' = [cancelled EXCEPT ![g] = FALSE]
    /\ asked' = [asked EXCEPT ![g] = {}]
    /\ level' = [level EXCEPT ![g] = 0]
    /\ reqs' = [reqs EXCEPT ![g] = {}]
    /\ results' = [results EXCEPT ![g] = [l \in 0 .. External |-> NoResult]]
    /\ UNCHANGED found

\* Nothing refers to the request any more.
Forget(g) ==
    /\ handler' = [handler EXCEPT ![g] = "idle"]
    /\ cancelled' = [cancelled EXCEPT ![g] = FALSE]
    /\ asked' = [asked EXCEPT ![g] = {}]
    /\ level' = [level EXCEPT ![g] = 0]
    /\ reqs' = [reqs EXCEPT ![g] = {}]
    /\ results' = [results EXCEPT ![g] = [l \in 0 .. External |-> NoResult]]
    /\ found' = [found EXCEPT ![g] = [k \in Keys |-> NoValue]]

StartGet(g, ids) ==
    /\ handler[g] = "idle"
    /\ handler' = [handler EXCEPT ![g] = "reading"]
    /\ asked' = [asked EXCEPT ![g] = KnownKeys(ids)]
    /\ reqs' = [reqs EXCEPT ![g] = KnownKeys(ids)]
    /\ overlapped' = overlapped \cup (KnownKeys(ids) \cap WrittenKeys)
    /\ UNCHANGED <<layerVars, cancelled, level, results, found, fillVars,
                   writeVars, latest, recent, failed>>

\* Append the result of the current layer and go on to the next one.
Collect(g, r, next) ==
    /\ results' = [results EXCEPT ![g][level[g]] = r]
    /\ reqs' = [reqs EXCEPT ![g] = next]
    /\ level' = [level EXCEPT ![g] = @ + 1]

\* service.GetAll answers.  A layer with no enabled key is not called.
LayerAnswers(g) ==
    LET r == LayerResult(level[g], reqs[g])
    IN  /\ handler[g] = "reading" /\ level[g] < NumLevels
        /\ cancelled[g] => EnabledKeys(level[g], reqs[g]) = {}
        /\ Collect(g, r, NextReqs(r))
        /\ found' = [found EXCEPT ![g] =
                        [k \in Keys |-> IF k \in r.hits THEN layer[level[g]][k]
                                                        ELSE @[k]]]
        /\ UNCHANGED <<layerVars, handler, cancelled, asked, fillVars,
                       writeVars, historyVars>>

\* service.GetAll returns an error: the ids go on to the next layer.
LayerUnavailable(g) ==
    /\ handler[g] = "reading" /\ level[g] < NumLevels
    /\ EnabledKeys(level[g], reqs[g]) # {}
    /\ cancelled[g] \/ level[g] \in FaultyLevels
    /\ Collect(g, Unavailable(reqs[g]), reqs[g])
    /\ failed' = IF cancelled[g] THEN failed
                 ELSE failed \cup EnabledKeys(level[g], reqs[g])
    /\ UNCHANGED <<layerVars, handler, cancelled, asked, found, fillVars,
                   writeVars, latest, recent, overlapped>>

\* The external source is asked for the last layer's misses; the fill starts.
FetchExternal(g) ==
    /\ handler[g] = "reading" /\ level[g] = NumLevels
    /\ \E failing \in IF cancelled[g] THEN {Caches} ELSE SUBSET FailingApis :
         LET r == ExternalResult(results[g][NumLevels - 1].misses, failing)
         IN  /\ results' = [results EXCEPT ![g][External] = r]
             /\ found' = [found EXCEPT ![g] =
                             [k \in Keys |-> IF k \in r.hits THEN Source[k]
                                                             ELSE @[k]]]
    /\ handler' = [handler EXCEPT ![g] = "answering"]
    /\ fillLevel' = [fillLevel EXCEPT ![g] = 1]
    /\ UNCHANGED <<layerVars, cancelled, asked, level, reqs, putLevel, inCall,
                   writeVars, historyVars>>

\* GetAll returns: its deferred cancel ends the context of the fill.
Return(g) ==
    /\ handler[g] = "answering"
    /\ IF Filling(g)
       THEN /\ handler' = [handler EXCEPT ![g] = "returned"]
            /\ UNCHANGED <<cancelled, asked, level, reqs, results, found>>
       ELSE Forget(g)
    /\ UNCHANGED <<layerVars, fillVars, writeVars, historyVars>>

\* The client has gone, or the second of the fill's context has passed.
ContextDone(g) ==
    /\ g \in Hasty
    /\ handler[g] \in {"reading", "answering"} /\ ~cancelled[g]
    /\ cancelled' = [cancelled EXCEPT ![g] = TRUE]
    /\ UNCHANGED <<layerVars, handler, asked, level, reqs, results, found,
                   fillVars, writeVars, historyVars>>

-----------------------------------------------------------------------------
(* fillMissingLevels *)

Hits(g) == UNION {results[g][l].hits : l \in 0 .. External}

\* What the loop puts for result i: its misses that were found somewhere.
ToPut(g, i) == results[g][i].misses \cap Hits(g)

\* Mutant: the fill uses PutAllToAllLevels.
BoundLevelIsLast(i) == NumLevels - 1

\* The last layer the PutAll for result i reaches.
BoundLevel(i) == i - 1

FillContextDone(g) == cancelled[g] \/ handler[g] = "returned"

\* The keys the fill's current layer stores.
FillKeys(g) == EnabledKeys(putLevel[g], ToPut(g, fillLevel[g]))

\* The fill goes on at layer p of result i; its end releases the request.
FillGoesTo(g, i, p) ==
    /\ fillLevel' = [fillLevel EXCEPT ![g] = i]
    /\ putLevel' = [putLevel EXCEPT ![g] = p]
    /\ IF i = NumLevels /\ handler[g] = "returned"
       THEN Forget(g)
       ELSE UNCHANGED getVars

\* The next layer of the same PutAll, or the next result.
FillAdvances(g) ==
    IF putLevel[g] < BoundLevel(fillLevel[g])
    THEN FillGoesTo(g, fillLevel[g], putLevel[g] + 1)
    ELSE FillGoesTo(g, fillLevel[g] + 1, 0)

\* Nothing to put for this result, or nothing this layer stores.
FillPass(g) ==
    /\ Filling(g) /\ ~inCall[g]
    /\ FillKeys(g) = {}
    /\ IF ToPut(g, fillLevel[g]) = {}
       THEN FillGoesTo(g, fillLevel[g] + 1, 0)
       ELSE FillAdvances(g)
    /\ UNCHANGED <<layerVars, inCall, writeVars, historyVars>>

\* Mutant: a put that was refused is tried again.
FillRefusedRetries(g) ==
    /\ Filling(g) /\ ~inCall[g]
    /\ FillKeys(g) # {} /\ FillContextDone(g)
    /\ UNCHANGED vars

\* BatchPut finds the context done: the layer is left as it is.
FillRefused(g) ==
    /\ Filling(g) /\ ~inCall[g]
    /\ FillKeys(g) # {} /\ FillContextDone(g)
    /\ FillAdvances(g)
    /\ UNCHANGED <<layerVars, inCall, writeVars, historyVars>>

FillCall(g) ==
    /\ Filling(g) /\ ~inCall[g]
    /\ FillKeys(g) # {} /\ ~FillContextDone(g)
    /\ inCall' = [inCall EXCEPT ![g] = TRUE]
    /\ UNCHANGED <<layerVars, getVars, fillLevel, putLevel, writeVars,
                   historyVars>>

\* The BatchPut ends; it may be cut short when the context ended meanwhile.
FillLand(g) ==
    /\ Filling(g) /\ inCall[g]
    /\ \E S \in Applied(putLevel[g], FillKeys(g),
                        FillContextDone(g) \/ putLevel[g] \in FaultyLevels) :
          layer' = Stored(putLevel[g], S, found[g])
    /\ inCall' = [inCall EXCEPT ![g] = FALSE]
    /\ FillAdvances(g)
    /\ UNCHANGED <<writeVars, historyVars>>

-----------------------------------------------------------------------------
(* PutAll and EvictAll goroutines *)

StartWrite(w, kind, ids, v) ==
    /\ op[w] = "idle"
    /\ op' = [op EXCEPT ![w] = kind]
    /\ batch' = [batch EXCEPT ![w] = KnownKeys(ids)]
    /\ newValue' = [newValue EXCEPT ![w] = v]
    /\ latest' = [k \in Keys |-> IF k \in KnownKeys(ids) THEN v ELSE latest[k]]
    /\ recent' = [k \in Keys |-> IF k \in KnownKeys(ids) THEN InFlight(k) \cup {v}
                                                            ELSE recent[k]]
    /\ overlapped' = (overlapped \ KnownKeys(ids))
                        \cup (KnownKeys(ids) \cap BusyKeys)
    /\ failed' = failed \ KnownKeys(ids)
    /\ UNCHANGED <<layerVars, getVars, fillVars, wlevel, expired>>

StartPut(w, ids, v) == StartWrite(w, "put", ids, v)

StartEvict(w, ids) == StartWrite(w, "evict", ids, NoValue)

\* Mutants: the loop stops before the last layer, or after it.
NextLayerStopsAt(w, bound) ==
    IF wlevel[w] + 1 < bound
    THEN /\ wlevel' = [wlevel EXCEPT ![w] = @ + 1]
         /\ UNCHANGED <<op, batch, newValue, expired>>
    ELSE /\ wlevel' = [wlevel EXCEPT ![w] = 0]
         /\ op' = [op EXCEPT ![w] = "idle"]
         /\ batch' = [batch EXCEPT ![w] = {}]
         /\ newValue' = [newValue EXCEPT ![w] = NoValue]
         /\ expired' = [expired EXCEPT ![w] = FALSE]

NextLayerStopsEarly(w) == NextLayerStopsAt(w, NumLevels - 1)
NextLayerStopsLate(w)  == NextLayerStopsAt(w, NumLevels + 1)

\* The goroutine goes on to the next layer; after the last one it ends.
NextLayer(w) ==
    IF wlevel[w] + 1 < NumLevels
    THEN /\ wlevel' = [wlevel EXCEPT ![w] = @ + 1]
         /\ UNCHANGED <<op, batch, newValue, expired>>
    ELSE /\ wlevel' = [wlevel EXCEPT ![w] = 0]
         /\ op' = [op EXCEPT ![w] = "idle"]
         /\ batch' = [batch EXCEPT ![w] = {}]
         /\ newValue' = [newValue EXCEPT ![w] = NoValue]
         /\ expired' = [expired EXCEPT ![w] = FALSE]

\* The parts of its batch the provider of layer l may apply for writer w.
WriterApplies(w, l) ==
    LET keys == EnabledKeys(l, batch[w])
    IN  IF expired[w] THEN {{}} ELSE Applied(l, keys, l \in FaultyLevels)

\* One layer of the loop; an error is logged and the loop goes on.
WriteLayer(w) ==
    \E S \in WriterApplies(w, wlevel[w]) :
        /\ layer' = Stored(wlevel[w], S, [k \in Keys |-> newValue[w]])
        /\ failed' = failed \cup (EnabledKeys(wlevel[w], batch[w]) \ S)
        /\ NextLayer(w)
        /\ UNCHANGED <<getVars, fillVars, latest, recent, overlapped>>

PutLayer(w)    == op[w] = "put" /\ WriteLayer(w)
DeleteLayer(w) == op[w] = "evict" /\ WriteLayer(w)

\* The timeout of runAsync's context passes.
Expire(w) ==
    /\ w \in Hasty /\ op[w] # "idle" /\ ~expired[w]
    /\ expired' = [expired EXCEPT ![w] = TRUE]
    /\ UNCHANGED <<layerVars, getVars, fillVars, op, batch, newValue, wlevel,
                   historyVars>>

-----------------------------------------------------------------------------
(* What the layers and the process do by themselves *)

\* A key's TTL passes, or the layer drops or evicts it.
Lose(l, k) ==
    /\ l \in LossyLevels /\ layer[l][k] # NoValue
    /\ layer' = [layer EXCEPT ![l][k] = NoValue]
    /\ UNCHANGED <<getVars, fillVars, writeVars, historyVars>>

\* The process is killed and started again.
Crash ==
    /\ MayCrash
    /\ layer' = [l \in Levels |-> IF l \in VolatileLevels
                                  THEN [k \in Keys |-> NoValue] ELSE layer[l]]
    /\ handler' = [g \in Getters |-> "idle"]
    /\ cancelled' = [g \in Getters |-> FALSE]
    /\ asked' = [g \in Getters |-> {}]
    /\ level' = [g \in Getters |-> 0]
    /\ reqs' = [g \in Getters |-> {}]
    /\ results' = [g \in Getters |-> [l \in 0 .. External |-> NoResult]]
    /\ found' = [g \in Getters |-> [k \in Keys |-> NoValue]]
    /\ fillLevel' = [g \in Getters |-> NumLevels]
    /\ putLevel' = [g \in Getters |-> 0]
    /\ inCall' = [g \in Getters |-> FALSE]
    /\ op' = [w \in Writers |-> "idle"]
    /\ batch' = [w \in Writers |-> {}]
    /\ newValue' = [w \in Writers |-> NoValue]
    /\ wlevel' = [w \in Writers |-> 0]
    /\ expired' = [w \in Writers |-> FALSE]
    /\ failed' = failed \cup WrittenKeys
    /\ UNCHANGED <<latest, recent, overlapped>>

-----------------------------------------------------------------------------
Cascade(g) == LayerAnswers(g) \/ LayerUnavailable(g) \/ FetchExternal(g) \/ Return(g)
Fill(g)    == FillPass(g) \/ FillRefused(g) \/ FillCall(g) \/ FillLand(g)
Write(w)   == PutLayer(w) \/ DeleteLayer(w)

Next ==
    \/ \E g \in Getters : \/ \E ids \in Batches : StartGet(g, ids)
                          \/ Cascade(g)
                          \/ ContextDone(g)
                          \/ Fill(g)
    \/ \E w \in Writers : \/ \E ids \in Batches :
                                \/ \E v \in Values : StartPut(w, ids, v)
                                \/ StartEvict(w, ids)
                          \/ Write(w)
                          \/ Expire(w)
    \/ \E l \in Levels, k \in Keys : Lose(l, k)
    \/ Crash

Spec == Init /\ [][Next]_vars

\* Every goroutine runs on: the scheduler is fair and each call of a layer or
\* of the external source ends.  Nothing makes requests, timeouts or losses occur.
Fairness ==
    /\ \A g \in Getters : WF_vars(Cascade(g)) /\ WF_vars(Fill(g))
    /\ \A w \in Writers : WF_vars(Write(w))

FairSpec == Spec /\ Fairness

-----------------------------------------------------------------------------
(* Properties *)

Results == [hits : SUBSET KnownKeys(Keys), misses : SUBSET KnownKeys(Keys),
            skipped : SUBSET KnownKeys(Keys)]

\* The state of every request, fill and writer is one the code can hold.
TypeOK ==
    /\ layer \in [Levels -> [Keys -> Values \cup {NoValue}]]
    /\ handler \in [Getters -> {"idle", "reading", "answering", "returned"}]
    /\ cancelled \in [Getters -> BOOLEAN]
    /\ asked \in [Getters -> SUBSET KnownKeys(Keys)]
    /\ level \in [Getters -> 0 .. External]
    /\ reqs \in [Getters -> SUBSET KnownKeys(Keys)]
    /\ results \in [Getters -> [0 .. External -> Results]]
    /\ found \in [Getters -> [Keys -> Values \cup {NoValue}]]
    /\ fillLevel \in [Getters -> 1 .. NumLevels]
    /\ putLevel \in [Getters -> Levels]
    /\ inCall \in [Getters -> BOOLEAN]
    /\ op \in [Writers -> {"idle", "put", "evict"}]
    /\ batch \in [Writers -> SUBSET KnownKeys(Keys)]
    /\ newValue \in [Writers -> Values \cup {NoValue}]
    /\ wlevel \in [Writers -> Levels]
    /\ expired \in [Writers -> BOOLEAN]
    /\ latest \in [Keys -> Values \cup {NoValue}]
    /\ recent \in [Keys -> SUBSET (Values \cup {NoValue})]
    /\ overlapped \subseteq Keys
    /\ failed \subseteq Keys

Enabled(l, k) == CacheOf[k] \in Caches /\ l \in LevelsOf[CacheOf[k]]

\* A layer holds nothing for a key whose cache is unknown or disables it: no
\* put, fill or evict of a mixed batch reaches a layer for the wrong keys.
DisabledLayersEmpty ==
    \A l \in Levels, k \in Keys : ~Enabled(l, k) => layer[l][k] = NoValue

\* The levels where the cascade of g found k.
HitLevels(g, k) == {l \in 0 .. External : k \in results[g][l].hits}

\* The cascade neither drops nor duplicates an id: whatever layers were
\* skipped, missed or unavailable, each id of the request was found at exactly
\* one level, with a value, or is among the ids that went through every layer.
CascadeAccounts ==
    \A g \in Getters : \A k \in asked[g] :
        \/ /\ \E h \in HitLevels(g, k) : HitLevels(g, k) = {h}
           /\ found[g][k] # NoValue
           /\ k \in reqs[g] => External \in HitLevels(g, k)
        \/ HitLevels(g, k) = {} /\ k \in reqs[g] /\ found[g][k] = NoValue

\* No result of the cascade lists an id as missed that a level at or above it
\* had found: this is what keeps a fill away from fresher layers.
MissesAreAboveHits ==
    \A g \in Getters : \A l \in Levels : \A k \in results[g][l].misses :
        \A h \in HitLevels(g, k) : l < h

\* What the two properties rest on: levels the cascade has not reached have no
\* result, and it looks only for ids of the request.
CascadeProgress ==
    \A g \in Getters :
        /\ handler[g] = "idle" => /\ asked[g] = {}
                                  /\ \A k \in Keys : found[g][k] = NoValue
        /\ reqs[g] \subseteq asked[g]
        /\ \A l \in 0 .. External : results[g][l].misses \subseteq asked[g]
        /\ handler[g] = "idle" => \A l \in 0 .. External : results[g][l] = NoResult
        /\ handler[g] = "reading" =>
               \A l \in level[g] .. External : results[g][l] = NoResult

CascadeInv == CascadeProgress /\ CascadeAccounts /\ MissesAreAboveHits

\* The keys for which the last write had the layers to itself and is over.
Settled == Keys \ (overlapped \cup failed \cup WrittenKeys)

\* The enabled layers of k that never forget a value and never fail.
ReliableLevels(k) ==
    {l \in Levels : /\ Enabled(l, k)
                    /\ l \notin LossyLevels \cup FaultyLevels
                    /\ MayCrash => l \notin VolatileLevels}

\* When the last write of a key was not disturbed, no layer serves an older
\* value: each holds the written value, nothing, or what the external source
\* answers, and a layer that forgets nothing still holds what was put.  So
\* neither a fill nor a restart brings back a value that was replaced.
LayersReflectLastWrite ==
    \A k \in Settled : \A l \in Levels :
        /\ layer[l][k] \in {NoValue, latest[k], Source[k]}
        /\ latest[k] # NoValue /\ l \in ReliableLevels(k)
              => layer[l][k] = latest[k]

\* However writes of a key overlap each other and the fills of older reads, the
\* last layer, what a GET falls back to and a restart leaves, ends up with what
\* the last write or one it met in flight asked for, unless it forgot the key:
\* a fill that comes late brings back nothing there (cache_manager.go:101).
LastLayerFollowsWrites ==
    LET last == NumLevels - 1
    IN  \A k \in Keys \ (failed \cup WrittenKeys) :
           /\ layer[last][k] \in recent[k] \cup {NoValue}
           /\ last \in ReliableLevels(k) => layer[last][k] \in recent[k]

\* A GET that overlaps no write answers with the last put, with the external
\* source or not at all, and surely with the last put when a layer kept it.
AnswersLastWrite ==
    \A g \in Getters : handler[g] = "answering" =>
        \A k \in Settled \cap asked[g] :
            /\ found[g][k] \in {NoValue, latest[k], Source[k]}
            /\ latest[k] # NoValue /\ ReliableLevels(k) # {} /\ ~cancelled[g]
                  => found[g][k] = latest[k]

\* A fill writes only found values, and only to layers strictly above the one
\* that had them: it never overwrites the layer its value came from.
FillLandsOnlyAbove ==
    [][\A g \in Getters : inCall[g] /\ ~inCall'[g] =>
          \A l \in Levels, k \in Keys :
              layer'[l][k] \notin {layer[l][k], NoValue} =>
                  \E h \in HitLevels(g, k) :
                      l < h /\ layer'[l][k] = found[g][k]]_vars

\* Every request is answered, every fill and every write ends, whatever layers
\* fail and whatever contexts end: no goroutine is leaked.
GoroutinesEnd ==
    /\ \A g \in Getters : handler[g] # "idle" ~> handler[g] = "idle"
    /\ \A w \in Writers : op[w] # "idle" ~> op[w] = "idle"

-----------------------------------------------------------------------------
(* What the documentation says and the code does not do *)

\* "a value found on one of the levels is returned and stored in the higher
\* layers": a value found two or more levels below the first layer, a layer the
\* fill does write, is stored there eventually.
FoundIsStored ==
    \A g \in Getters, k \in Keys, v \in Values :
        ( /\ handler[g] = "answering" /\ found[g][k] = v /\ k \in Settled
          /\ Enabled(0, k) /\ \E h \in Levels : h >= 2 /\ h \in HitLevels(g, k) )
        ~> layer[0][k] = v

\* "the value is deleted from all levels": once no write of k is in progress
\* and none failed, no layer holds a value that was put before the evict.
EvictSticks ==
    \A k \in Keys \ (failed \cup WrittenKeys) : latest[k] = NoValue =>
        \A l \in Levels : layer[l][k] \in {NoValue, Source[k]}
=============================================================================
