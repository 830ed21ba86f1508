------------------------- MODULE LayeredCacheProofs -------------------------
(***************************************************************************)
(* Proofs about LayeredCache for every number of layers, every set of      *)
(* keys, caches, getters and writers, and every configuration of them.     *)
(***************************************************************************)
EXTENDS LayeredCache, TLAPS

USE DEF Levels, External, Results

-----------------------------------------------------------------------------
(* What the operators of the services return *)

LEMMA KnownKeysSubset == \A S : KnownKeys(S) \subseteq S
BY DEF KnownKeys

LEMMA KnownKeysType ==
    ASSUME NEW S \in SUBSET Keys
    PROVE  KnownKeys(S) \in SUBSET KnownKeys(Keys)
BY DEF KnownKeys

LEMMA LayerResultType ==
    ASSUME NEW l, NEW S \in SUBSET KnownKeys(Keys)
    PROVE  /\ LayerResult(l, S) \in Results
           /\ NextReqs(LayerResult(l, S)) \in SUBSET KnownKeys(Keys)
BY DEF LayerResult, EnabledKeys, NextReqs, KnownKeys

LEMMA ExternalResultType ==
    ASSUME NEW S \in SUBSET KnownKeys(Keys), NEW failing
    PROVE  /\ ExternalResult(S, failing) \in Results
           /\ ExternalResult(S, failing).hits \subseteq S
BY DEF ExternalResult

LEMMA NoResultType == NoResult \in Results
BY DEF NoResult

\* A batch applied in part is a part of the batch.
LEMMA AppliedSubset ==
    ASSUME NEW l, NEW S, NEW mayFail \in BOOLEAN, NEW T \in Applied(l, S, mayFail)
    PROVE  T \subseteq S
BY DEF Applied

LEMMA StoredType ==
    ASSUME layer \in [Levels -> [Keys -> Values \cup {NoValue}]],
           NEW l \in Levels, NEW S, NEW f \in [Keys -> Values \cup {NoValue}]
    PROVE  Stored(l, S, f) \in [Levels -> [Keys -> Values \cup {NoValue}]]
BY DEF Stored

-----------------------------------------------------------------------------
(* Type correctness *)

LEMMA InitType == Init => TypeOK
BY LevelsAssumption, NoResultType DEF Init, TypeOK

LEMMA ForgetType ==
    ASSUME TypeOK, NEW g \in Getters, Forget(g)
    PROVE  /\ handler' \in [Getters -> {"idle", "reading", "answering", "returned"}]
           /\ cancelled' \in [Getters -> BOOLEAN]
           /\ asked' \in [Getters -> SUBSET KnownKeys(Keys)]
           /\ level' \in [Getters -> 0 .. External]
           /\ reqs' \in [Getters -> SUBSET KnownKeys(Keys)]
           /\ results' \in [Getters -> [0 .. External -> Results]]
           /\ found' \in [Getters -> [Keys -> Values \cup {NoValue}]]
BY LevelsAssumption, NoResultType DEF Forget, TypeOK

LEMMA FillGoesToType ==
    ASSUME TypeOK, NEW g \in Getters, NEW i \in 1 .. NumLevels, NEW p \in Levels,
           FillGoesTo(g, i, p)
    PROVE  /\ handler' \in [Getters -> {"idle", "reading", "answering", "returned"}]
           /\ cancelled' \in [Getters -> BOOLEAN]
           /\ asked' \in [Getters -> SUBSET KnownKeys(Keys)]
           /\ level' \in [Getters -> 0 .. External]
           /\ reqs' \in [Getters -> SUBSET KnownKeys(Keys)]
           /\ results' \in [Getters -> [0 .. External -> Results]]
           /\ found' \in [Getters -> [Keys -> Values \cup {NoValue}]]
           /\ fillLevel' \in [Getters -> 1 .. NumLevels]
           /\ putLevel' \in [Getters -> Levels]
<1>1. /\ fillLevel' \in [Getters -> 1 .. NumLevels]
      /\ putLevel' \in [Getters -> Levels]
  BY DEF FillGoesTo, TypeOK
<1>2. CASE i = NumLevels /\ handler[g] = "returned"
  BY <1>1, <1>2, ForgetType DEF FillGoesTo
<1>3. CASE ~(i = NumLevels /\ handler[g] = "returned")
  BY <1>1, <1>3 DEF FillGoesTo, TypeOK, getVars
<1>4. QED
  BY <1>2, <1>3

LEMMA TypeStep == TypeOK /\ [Next]_vars => TypeOK'
<1> SUFFICES ASSUME TypeOK, [Next]_vars
             PROVE  TypeOK'
  OBVIOUS
<1> USE LevelsAssumption
<1>1. ASSUME NEW g \in Getters, NEW ids \in Batches, StartGet(g, ids)
      PROVE  TypeOK'
  <2>1. KnownKeys(ids) \in SUBSET KnownKeys(Keys)
    BY KnownKeysType DEF Batches
  <2>2. overlapped' \subseteq Keys
    BY <1>1, <2>1, KnownKeysSubset DEF StartGet, TypeOK
  <2>3. QED
    BY <1>1, <2>1, <2>2 DEF StartGet, TypeOK, layerVars, fillVars, writeVars
<1>2. ASSUME NEW g \in Getters, LayerAnswers(g)
      PROVE  TypeOK'
  <2> DEFINE r == LayerResult(level[g], reqs[g])
  <2>1. r \in Results /\ NextReqs(r) \in SUBSET KnownKeys(Keys)
    BY LayerResultType DEF TypeOK
  <2>2. level[g] \in Levels
    BY <1>2 DEF LayerAnswers, TypeOK
  <2>3. found' \in [Getters -> [Keys -> Values \cup {NoValue}]]
    <3> HIDE DEF r
    <3>1. layer[level[g]] \in [Keys -> Values \cup {NoValue}]
      BY <2>2 DEF TypeOK
    <3>2. found' = [found EXCEPT ![g] =
                      [k \in Keys |-> IF k \in r.hits THEN layer[level[g]][k]
                                                      ELSE found[g][k]]]
      BY <1>2 DEF LayerAnswers, r
    <3>3. QED
      BY <3>1, <3>2 DEF TypeOK
  <2>4. /\ results' \in [Getters -> [0 .. External -> Results]]
        /\ reqs' \in [Getters -> SUBSET KnownKeys(Keys)]
        /\ level' \in [Getters -> 0 .. External]
    <3> HIDE DEF r
    <3>1. Collect(g, r, NextReqs(r))
      BY <1>2 DEF LayerAnswers, r
    <3>2. QED
      BY <2>1, <2>2, <3>1 DEF Collect, TypeOK
  <2>5. QED
    BY <1>2, <2>3, <2>4 DEF LayerAnswers, TypeOK, layerVars, fillVars,
                            writeVars, historyVars
<1>3. ASSUME NEW g \in Getters, LayerUnavailable(g)
      PROVE  TypeOK'
  <2>1. level[g] \in Levels
    BY <1>3 DEF LayerUnavailable, TypeOK
  <2>2. Unavailable(reqs[g]) \in Results
    BY KnownKeysSubset DEF Unavailable, TypeOK
  <2>3. failed' \subseteq Keys
    BY <1>3, KnownKeysSubset DEF LayerUnavailable, EnabledKeys, TypeOK
  <2>4. QED
    BY SMTT(60), <1>3, <2>1, <2>2, <2>3 DEF LayerUnavailable, Collect, TypeOK, layerVars,
                                 fillVars, writeVars
<1>4. ASSUME NEW g \in Getters, FetchExternal(g)
      PROVE  TypeOK'
  <2>1. PICK failing : LET r == ExternalResult(results[g][NumLevels - 1].misses, failing)
         IN  /\ results' = [results EXCEPT ![g][External] = r]
             /\ found' = [found EXCEPT ![g] =
                             [k \in Keys |-> IF k \in r.hits THEN Source[k]
                                                             ELSE @[k]]]
    BY <1>4 DEF FetchExternal
  <2> DEFINE r == ExternalResult(results[g][NumLevels - 1].misses, failing)
  <2>2. r \in Results
    <3>1. results[g][NumLevels - 1] \in Results
      BY DEF TypeOK
    <3>2. results[g][NumLevels - 1].misses \in SUBSET KnownKeys(Keys)
      BY <3>1
    <3>3. QED
      BY <3>2, ExternalResultType
  <2>3. results' \in [Getters -> [0 .. External -> Results]]
    <3> HIDE DEF r
    <3>1. results' = [results EXCEPT ![g][External] = r]
      BY <2>1 DEF r
    <3>2. QED
      BY <2>2, <3>1 DEF TypeOK
  <2>4. found' \in [Getters -> [Keys -> Values \cup {NoValue}]]
    <3> HIDE DEF r
    <3>1. found' = [found EXCEPT ![g] =
                      [k \in Keys |-> IF k \in r.hits THEN Source[k] ELSE found[g][k]]]
      BY <2>1 DEF r
    <3>2. QED
      BY <3>1, SourceAssumption DEF TypeOK
  <2>5. QED
    BY <1>4, <2>3, <2>4 DEF FetchExternal, TypeOK, layerVars, writeVars, historyVars
<1>5. ASSUME NEW g \in Getters, Return(g)
      PROVE  TypeOK'
  <2>1. CASE Filling(g)
    BY <1>5, <2>1 DEF Return, TypeOK, layerVars, fillVars, writeVars, historyVars
  <2>2. CASE ~Filling(g)
    BY <1>5, <2>2, ForgetType DEF Return, TypeOK, layerVars, fillVars, writeVars,
                                historyVars
  <2>3. QED
    BY <2>1, <2>2
<1>6. ASSUME NEW g \in Getters, ContextDone(g)
      PROVE  TypeOK'
  BY <1>6 DEF ContextDone, TypeOK, layerVars, fillVars, writeVars, historyVars
<1>7. ASSUME NEW g \in Getters, Filling(g), FillAdvances(g)
      PROVE  \E i \in 1 .. NumLevels, p \in Levels : FillGoesTo(g, i, p)
  BY <1>7 DEF Filling, FillAdvances, BoundLevel, TypeOK
<1>8. ASSUME NEW g \in Getters, FillPass(g)
      PROVE  TypeOK'
  <2>1. \E i \in 1 .. NumLevels, p \in Levels : FillGoesTo(g, i, p)
    <3>1. CASE ToPut(g, fillLevel[g]) = {}
      BY <1>8, <3>1 DEF FillPass, Filling, TypeOK
    <3>2. CASE ToPut(g, fillLevel[g]) # {}
      BY <1>7, <1>8, <3>2 DEF FillPass
    <3>3. QED
      BY <3>1, <3>2
  <2>2. QED
    BY <1>8, <2>1, FillGoesToType DEF FillPass, TypeOK, layerVars, writeVars,
                                    historyVars
<1>9. ASSUME NEW g \in Getters, FillRefused(g)
      PROVE  TypeOK'
  <2>1. \E i \in 1 .. NumLevels, p \in Levels : FillGoesTo(g, i, p)
    BY <1>7, <1>9 DEF FillRefused
  <2>2. QED
    BY <1>9, <2>1, FillGoesToType DEF FillRefused, TypeOK, layerVars, writeVars,
                                    historyVars
<1>10. ASSUME NEW g \in Getters, FillCall(g)
       PROVE  TypeOK'
  BY <1>10 DEF FillCall, TypeOK, layerVars, getVars, writeVars, historyVars
<1>11. ASSUME NEW g \in Getters, FillLand(g)
       PROVE  TypeOK'
  <2>1. \E i \in 1 .. NumLevels, p \in Levels : FillGoesTo(g, i, p)
    BY <1>7, <1>11 DEF FillLand
  <2>2. layer' \in [Levels -> [Keys -> Values \cup {NoValue}]]
    <3>1. PICK S : layer' = Stored(putLevel[g], S, found[g])
      BY <1>11 DEF FillLand
    <3>2. QED
      BY <3>1, StoredType DEF TypeOK
  <2>3. QED
    BY <1>11, <2>1, <2>2, FillGoesToType DEF FillLand, TypeOK, writeVars,
                                           historyVars
<1>12. ASSUME NEW w \in Writers, NEW kind \in {"put", "evict"}, NEW ids \in Batches,
              NEW v \in Values \cup {NoValue}, StartWrite(w, kind, ids, v)
       PROVE  TypeOK'
  <2>1. KnownKeys(ids) \in SUBSET KnownKeys(Keys)
    BY KnownKeysType DEF Batches
  <2>2. overlapped' \subseteq Keys /\ failed' \subseteq Keys
    BY <1>12 DEF StartWrite, TypeOK, BusyKeys
  <2>3. recent' \in [Keys -> SUBSET (Values \cup {NoValue})]
    BY <1>12 DEF StartWrite, TypeOK, InFlight
  <2>4. QED
    BY <1>12, <2>1, <2>2, <2>3 DEF StartWrite, TypeOK, layerVars, getVars, fillVars
<1>13. ASSUME NEW w \in Writers, WriteLayer(w)
       PROVE  TypeOK'
  <2>1. PICK S \in WriterApplies(w, wlevel[w]) :
            /\ layer' = Stored(wlevel[w], S, [k \in Keys |-> newValue[w]])
            /\ failed' = failed \cup (EnabledKeys(wlevel[w], batch[w]) \ S)
            /\ NextLayer(w)
            /\ UNCHANGED <<getVars, fillVars, latest, recent, overlapped>>
    BY <1>13 DEF WriteLayer
  <2>2. layer' \in [Levels -> [Keys -> Values \cup {NoValue}]]
    BY <2>1, StoredType DEF TypeOK
  <2>3. failed' \subseteq Keys
    BY <2>1, KnownKeysSubset DEF EnabledKeys, TypeOK
  <2>4. /\ wlevel' \in [Writers -> Levels]
        /\ op' \in [Writers -> {"idle", "put", "evict"}]
        /\ batch' \in [Writers -> SUBSET KnownKeys(Keys)]
        /\ newValue' \in [Writers -> Values \cup {NoValue}]
        /\ expired' \in [Writers -> BOOLEAN]
    <3>1. NextLayer(w)
      BY <2>1
    <3>2. CASE wlevel[w] + 1 < NumLevels
      <4>1. /\ wlevel' = [wlevel EXCEPT ![w] = @ + 1]
            /\ UNCHANGED <<op, batch, newValue, expired>>
        BY <3>1, <3>2 DEF NextLayer
      <4>2. QED
        BY <3>2, <4>1 DEF TypeOK
    <3>3. CASE ~(wlevel[w] + 1 < NumLevels)
      <4>1. /\ wlevel' = [wlevel EXCEPT ![w] = 0]
            /\ op' = [op EXCEPT ![w] = "idle"]
            /\ batch' = [batch EXCEPT ![w] = {}]
            /\ newValue' = [newValue EXCEPT ![w] = NoValue]
            /\ expired' = [expired EXCEPT ![w] = FALSE]
        BY <3>1, <3>3 DEF NextLayer
      <4>2. QED
        BY <4>1 DEF TypeOK
    <3>4. QED
      BY <3>2, <3>3
  <2>5. QED
    BY <2>1, <2>2, <2>3, <2>4 DEF TypeOK, getVars, fillVars
<1>14. ASSUME NEW w \in Writers, Expire(w)
       PROVE  TypeOK'
  BY <1>14 DEF Expire, TypeOK, layerVars, getVars, fillVars, historyVars
<1>15. ASSUME NEW l \in Levels, NEW k \in Keys, Lose(l, k)
       PROVE  TypeOK'
  BY <1>15 DEF Lose, TypeOK, getVars, fillVars, writeVars, historyVars
<1>16. ASSUME Crash
       PROVE  TypeOK'
  BY <1>16, NoResultType DEF Crash, TypeOK, WrittenKeys
<1>17. ASSUME UNCHANGED vars
       PROVE  TypeOK'
  BY <1>17 DEF vars, layerVars, getVars, fillVars, writeVars, historyVars, TypeOK
<1>18. QED
  BY <1>1, <1>2, <1>3, <1>4, <1>5, <1>6, <1>8, <1>9, <1>10, <1>11, <1>12, <1>13,
     <1>14, <1>15, <1>16, <1>17
     DEF Next, Cascade, Fill, Write, StartPut, StartEvict, PutLayer, DeleteLayer

\* In every reachable state of every configuration, requests, fills and writers
\* hold levels, keys and values of the kind the code holds.
THEOREM TypeCorrect == Spec => []TypeOK
<1>1. Init => TypeOK
  BY InitType
<1>2. TypeOK /\ [Next]_vars => TypeOK'
  BY TypeStep
<1>3. QED
  BY <1>1, <1>2, PTL DEF Spec

-----------------------------------------------------------------------------
(* Layers hold nothing for the caches that do not use them *)

LEMMA StoredInEnabled ==
    ASSUME TypeOK, DisabledLayersEmpty,
           NEW l \in Levels, NEW T \in SUBSET KnownKeys(Keys),
           NEW S \in SUBSET EnabledKeys(l, T), NEW f,
           layer' = Stored(l, S, f)
    PROVE  DisabledLayersEmpty'
<1> SUFFICES ASSUME NEW m \in Levels, NEW k \in Keys, ~Enabled(m, k)
             PROVE  layer'[m][k] = NoValue
  BY DEF DisabledLayersEmpty, Enabled
<1>1. layer[m][k] = NoValue
  BY DEF DisabledLayersEmpty
<1>2. ~(m = l /\ k \in S)
  BY DEF EnabledKeys, KnownKeys, Enabled
<1>3. QED
  BY <1>1, <1>2 DEF Stored, TypeOK

LEMMA ToPutKnown ==
    ASSUME TypeOK, NEW g \in Getters, fillLevel[g] < NumLevels
    PROVE  ToPut(g, fillLevel[g]) \in SUBSET KnownKeys(Keys)
<1>1. results[g][fillLevel[g]] \in Results
  BY LevelsAssumption DEF TypeOK
<1>2. QED
  BY <1>1 DEF ToPut

LEMMA DisabledStep ==
    TypeOK /\ DisabledLayersEmpty /\ [Next]_vars => DisabledLayersEmpty'
<1> SUFFICES ASSUME TypeOK, DisabledLayersEmpty, [Next]_vars
             PROVE  DisabledLayersEmpty'
  OBVIOUS
<1>1. ASSUME layer' = layer
      PROVE  DisabledLayersEmpty'
  BY <1>1 DEF DisabledLayersEmpty, Enabled
<1>2. ASSUME NEW g \in Getters, FillLand(g)
      PROVE  DisabledLayersEmpty'
  <2> DEFINE T == ToPut(g, fillLevel[g])
  <2>1. T \in SUBSET KnownKeys(Keys)
    BY <1>2, ToPutKnown DEF FillLand, Filling
  <2>2. PICK S \in Applied(putLevel[g], FillKeys(g),
                    FillContextDone(g) \/ putLevel[g] \in FaultyLevels) :
                layer' = Stored(putLevel[g], S, found[g])
    BY <1>2 DEF FillLand
  <2>3. S \in SUBSET EnabledKeys(putLevel[g], T)
    BY <2>2, AppliedSubset DEF FillKeys, FillContextDone, TypeOK
  <2>4. putLevel[g] \in Levels
    BY DEF TypeOK
  <2> HIDE DEF T
  <2>5. QED
    BY <2>1, <2>2, <2>3, <2>4, StoredInEnabled
<1>3. ASSUME NEW w \in Writers, WriteLayer(w)
      PROVE  DisabledLayersEmpty'
  <2>1. PICK S \in WriterApplies(w, wlevel[w]) :
            layer' = Stored(wlevel[w], S, [k \in Keys |-> newValue[w]])
    BY <1>3 DEF WriteLayer
  <2>2. S \in SUBSET EnabledKeys(wlevel[w], batch[w])
    <3>1. CASE expired[w]
      BY <2>1, <3>1 DEF WriterApplies
    <3>2. CASE ~expired[w]
      BY <2>1, <3>2 DEF WriterApplies, Applied
    <3>3. QED
      BY <3>1, <3>2
  <2>3. wlevel[w] \in Levels /\ batch[w] \in SUBSET KnownKeys(Keys)
    BY DEF TypeOK
  <2>4. QED
    BY <2>1, <2>2, <2>3, StoredInEnabled
<1>4. ASSUME NEW l \in Levels, NEW k \in Keys, Lose(l, k)
      PROVE  DisabledLayersEmpty'
  BY <1>4 DEF Lose, DisabledLayersEmpty, Enabled, TypeOK
<1>5. ASSUME Crash
      PROVE  DisabledLayersEmpty'
  BY <1>5 DEF Crash, DisabledLayersEmpty, Enabled, TypeOK
<1>6. QED
  BY <1>1, <1>2, <1>3, <1>4, <1>5
     DEF Next, Cascade, Fill, Write, StartPut, StartEvict, PutLayer, DeleteLayer,
         StartGet, LayerAnswers, LayerUnavailable, FetchExternal, Return,
         ContextDone, FillPass, FillRefused, FillCall, StartWrite, Expire,
         vars, layerVars

\* Whatever batches are put, filled and evicted, no layer ever holds a value of
\* a cache that is not configured or that does not use the layer.
THEOREM DisabledLayersStayEmpty == Spec => []DisabledLayersEmpty
<1>1. Init => DisabledLayersEmpty
  BY DEF Init, DisabledLayersEmpty
<1>2. TypeOK /\ DisabledLayersEmpty /\ [Next]_vars => DisabledLayersEmpty'
  BY DisabledStep
<1>3. QED
  BY <1>1, <1>2, TypeCorrect, PTL DEF Spec

-----------------------------------------------------------------------------
(* The cascade and the fill.  CascadeInv speaks of one request at a time, so *)
(* each step is proved for the request it moves; a frame lemma covers the    *)
(* others.                                                                   *)

\* CascadeInv of one request.
Progress(g) ==
    /\ handler[g] = "idle" => /\ asked[g] = {}
                              /\ \A k \in Keys : found[g][k] = NoValue
    /\ reqs[g] \subseteq asked[g]
    /\ \A l \in 0 .. External : results[g][l].misses \subseteq asked[g]
    /\ handler[g] = "idle" => \A l \in 0 .. External : results[g][l] = NoResult
    /\ handler[g] = "reading" =>
           \A l \in level[g] .. External : results[g][l] = NoResult

FoundOnce(g, k) ==
    /\ \E h \in HitLevels(g, k) : HitLevels(g, k) = {h}
    /\ found[g][k] # NoValue
    /\ k \in reqs[g] => External \in HitLevels(g, k)

NotFound(g, k) == HitLevels(g, k) = {} /\ k \in reqs[g] /\ found[g][k] = NoValue

Accounts(g) == \A k \in asked[g] : FoundOnce(g, k) \/ NotFound(g, k)

MissesAbove(g) ==
    \A l \in Levels : \A k \in results[g][l].misses :
        \A h \in HitLevels(g, k) : l < h

RequestInv(g) == Progress(g) /\ Accounts(g) /\ MissesAbove(g)

LEMMA CascadeInvSplits ==
    /\ CascadeInv <=> \A g \in Getters : RequestInv(g)
    /\ CascadeInv' <=> \A g \in Getters : RequestInv(g)'
BY DEF CascadeInv, CascadeProgress, CascadeAccounts, MissesAreAboveHits,
       RequestInv, Progress, Accounts, FoundOnce, NotFound, MissesAbove

\* What a step that leaves the request g alone does to it.
Untouched(g) ==
    /\ handler'[g] = handler[g] /\ asked'[g] = asked[g] /\ level'[g] = level[g]
    /\ reqs'[g] = reqs[g] /\ results'[g] = results[g] /\ found'[g] = found[g]

LEMMA Frame ==
    ASSUME NEW g \in Getters, RequestInv(g), Untouched(g)
    PROVE  RequestInv(g)'
<1>1. \A k : HitLevels(g, k)' = HitLevels(g, k)
  BY DEF HitLevels, Untouched
<1>2. QED
  BY <1>1 DEF RequestInv, Progress, Accounts, FoundOnce, NotFound, MissesAbove,
              Untouched

\* A request nobody refers to.
LEMMA BlankInv ==
    ASSUME NEW g \in Getters,
           handler'[g] = "idle", asked'[g] = {}, reqs'[g] = {},
           results'[g] = [l \in 0 .. External |-> NoResult],
           found'[g] = [k \in Keys |-> NoValue]
    PROVE  RequestInv(g)'
<1>1. \A l \in 0 .. External : results'[g][l] = NoResult
  OBVIOUS
<1>2. \A l \in Levels : results'[g][l].misses = {}
  BY <1>1, LevelsAssumption DEF NoResult
<1>3. Progress(g)'
  BY <1>1 DEF Progress, NoResult
<1>4. Accounts(g)'
  BY DEF Accounts
<1>5. MissesAbove(g)'
  BY <1>2 DEF MissesAbove
<1>6. QED
  BY <1>3, <1>4, <1>5 DEF RequestInv

LEMMA ForgetInv ==
    ASSUME TypeOK, NEW g \in Getters, Forget(g)
    PROVE  RequestInv(g)' /\ \A f \in Getters \ {g} : Untouched(f)
<1>1. RequestInv(g)'
  BY BlankInv DEF Forget, TypeOK
<1>2. ASSUME NEW f \in Getters \ {g}
      PROVE  Untouched(f)
  BY DEF Forget, TypeOK, Untouched
<1>3. QED
  BY <1>1, <1>2

LEMMA StartGetInv ==
    ASSUME TypeOK, NEW g \in Getters, RequestInv(g), NEW ids \in Batches,
           StartGet(g, ids)
    PROVE  RequestInv(g)'
<1>1. /\ handler'[g] = "reading" /\ asked'[g] = KnownKeys(ids)
      /\ reqs'[g] = KnownKeys(ids) /\ results' = results /\ found' = found
      /\ level' = level
  BY DEF StartGet, TypeOK
<1>2. \A l \in 0 .. External : results[g][l] = NoResult
  BY DEF StartGet, RequestInv, Progress
<1>3. \A k \in Keys : found[g][k] = NoValue /\ HitLevels(g, k)' = {}
  BY <1>1, <1>2 DEF StartGet, RequestInv, Progress, HitLevels, NoResult
<1>4. KnownKeys(ids) \subseteq Keys
  BY KnownKeysSubset DEF Batches
<1>5. Progress(g)'
  <2>1. level[g] \in 0 .. External
    BY DEF TypeOK
  <2>2. \A l \in level[g] .. External : l \in 0 .. External
    BY <2>1, LevelsAssumption
  <2>3. \A l \in 0 .. External : results'[g][l] = NoResult /\ results'[g][l].misses = {}
    BY <1>1, <1>2 DEF NoResult
  <2>4. QED
    BY <1>1, <2>2, <2>3 DEF Progress
<1>6. Accounts(g)'
  BY <1>1, <1>3, <1>4 DEF Accounts, NotFound
<1>7. MissesAbove(g)'
  BY <1>1, <1>2, LevelsAssumption DEF MissesAbove, NoResult
<1>8. QED
  BY <1>5, <1>6, <1>7 DEF RequestInv

\* What Collect does to the hit levels of a key.
LEMMA CollectHits ==
    ASSUME TypeOK, NEW g \in Getters, RequestInv(g), handler[g] = "reading",
           level[g] \in Levels, NEW r, NEW next, Collect(g, r, next)
    PROVE  /\ results'[g][level[g]] = r
           /\ \A l \in 0 .. External : l # level[g] => results'[g][l] = results[g][l]
           /\ \A l \in level[g] .. External : results[g][l] = NoResult
           /\ reqs'[g] = next /\ level'[g] = level[g] + 1
           /\ \A k : HitLevels(g, k)' = IF k \in r.hits
                                       THEN HitLevels(g, k) \cup {level[g]}
                                       ELSE HitLevels(g, k)
           /\ \A k : \A h \in HitLevels(g, k) : h < level[g]
<1>1. /\ results'[g][level[g]] = r
      /\ \A l \in 0 .. External : l # level[g] => results'[g][l] = results[g][l]
      /\ reqs'[g] = next /\ level'[g] = level[g] + 1
  BY LevelsAssumption DEF Collect, TypeOK
<1>2. \A l \in level[g] .. External : results[g][l] = NoResult
  BY DEF RequestInv, Progress
<1>3. \A l \in level[g] .. External : results[g][l].hits = {}
  BY <1>2 DEF NoResult
<1>4. \A k : \A h \in HitLevels(g, k) : h < level[g]
  BY <1>3, LevelsAssumption DEF HitLevels
<1>5. \A k : HitLevels(g, k)' = IF k \in r.hits
                               THEN HitLevels(g, k) \cup {level[g]}
                               ELSE HitLevels(g, k)
  BY <1>1, <1>3, LevelsAssumption DEF HitLevels
<1>6. QED
  BY <1>1, <1>2, <1>4, <1>5

LEMMA LayerAnswersInv ==
    ASSUME TypeOK, NEW g \in Getters, RequestInv(g), LayerAnswers(g)
    PROVE  RequestInv(g)'
<1> USE LevelsAssumption
<1> DEFINE r == LayerResult(level[g], reqs[g])
<1>1. /\ handler[g] = "reading" /\ handler'[g] = "reading"
      /\ level[g] \in Levels /\ asked'[g] = asked[g]
      /\ Collect(g, r, NextReqs(r))
  BY DEF LayerAnswers, TypeOK
<1>2. /\ r.hits \subseteq reqs[g] /\ r.misses \subseteq reqs[g] \ r.hits
      /\ NextReqs(r) = reqs[g] \ r.hits
  BY DEF LayerResult, EnabledKeys, NextReqs
<1>3. \A k \in r.hits : layer[level[g]][k] # NoValue
  BY DEF LayerResult
<1>4. \A k \in Keys : found'[g][k] = IF k \in r.hits THEN layer[level[g]][k]
                                                    ELSE found[g][k]
  BY DEF LayerAnswers, TypeOK
<1>5. asked[g] \subseteq Keys /\ reqs[g] \subseteq asked[g]
  BY KnownKeysSubset DEF TypeOK, RequestInv, Progress
<1> HIDE DEF r
<1>6. /\ results'[g][level[g]] = r
      /\ \A l \in 0 .. External : l # level[g] => results'[g][l] = results[g][l]
      /\ \A l \in level[g] .. External : results[g][l] = NoResult
      /\ reqs'[g] = NextReqs(r) /\ level'[g] = level[g] + 1
      /\ \A k : HitLevels(g, k)' = IF k \in r.hits
                                   THEN HitLevels(g, k) \cup {level[g]}
                                   ELSE HitLevels(g, k)
      /\ \A k : \A h \in HitLevels(g, k) : h < level[g]
  BY <1>1, CollectHits
<1>7. Progress(g)'
  <2>1. \A l \in 0 .. External : results'[g][l].misses \subseteq asked[g]
    BY <1>2, <1>5, <1>6 DEF RequestInv, Progress
  <2>2. \A l \in level[g] + 1 .. External : results'[g][l] = NoResult
    BY <1>1, <1>6
  <2>3. QED
    BY <1>1, <1>2, <1>5, <1>6, <2>1, <2>2 DEF Progress
<1>8. Accounts(g)'
  <2> SUFFICES ASSUME NEW k \in asked[g]
               PROVE  FoundOnce(g, k)' \/ NotFound(g, k)'
    BY <1>1 DEF Accounts
  <2>1. External \notin HitLevels(g, k)
    BY <1>1, <1>6
  <2>2. FoundOnce(g, k) \/ NotFound(g, k)
    BY DEF RequestInv, Accounts
  <2>3. CASE k \in r.hits
    <3>1. HitLevels(g, k)' = {level[g]}
      BY <1>2, <1>6, <2>1, <2>2, <2>3 DEF FoundOnce, NotFound
    <3>2. found'[g][k] # NoValue /\ k \notin reqs'[g]
      BY <1>2, <1>3, <1>4, <1>5, <1>6, <2>3
    <3>3. QED
      BY <3>1, <3>2 DEF FoundOnce
  <2>4. CASE k \notin r.hits
    <3>1. HitLevels(g, k)' = HitLevels(g, k) /\ found'[g][k] = found[g][k]
      BY <1>4, <1>5, <1>6, <2>4
    <3>2. k \in reqs'[g] <=> k \in reqs[g]
      BY <1>2, <1>6, <2>4
    <3>3. QED
      BY <2>2, <3>1, <3>2 DEF FoundOnce, NotFound
  <2>5. QED
    BY <2>3, <2>4
<1>9. MissesAbove(g)'
  <2> SUFFICES ASSUME NEW l \in Levels, NEW k \in results'[g][l].misses,
                      NEW h \in HitLevels(g, k)'
               PROVE  l < h
    BY DEF MissesAbove
  <2>1. CASE l = level[g]
    <3>1. k \in reqs[g] /\ k \notin r.hits /\ k \in asked[g]
      BY <1>2, <1>5, <1>6, <2>1
    <3>2. FoundOnce(g, k) \/ NotFound(g, k)
      BY <3>1 DEF RequestInv, Accounts
    <3>3. External \notin HitLevels(g, k)
      BY <1>1, <1>6
    <3>4. HitLevels(g, k)' = {}
      BY <1>6, <3>1, <3>2, <3>3 DEF FoundOnce, NotFound
    <3>5. QED
      BY <3>4
  <2>2. CASE l # level[g]
    <3>1. k \in results[g][l].misses
      BY <1>6, <2>2
    <3>2. l < level[g]
      BY <1>1, <1>6, <2>2, <3>1 DEF NoResult
    <3>3. CASE h = level[g]
      BY <3>2, <3>3
    <3>4. CASE h \in HitLevels(g, k)
      BY <3>1, <3>4 DEF RequestInv, MissesAbove
    <3>5. QED
      BY <1>6, <3>3, <3>4
  <2>3. QED
    BY <2>1, <2>2
<1>10. QED
  BY <1>7, <1>8, <1>9 DEF RequestInv

LEMMA LayerUnavailableInv ==
    ASSUME TypeOK, NEW g \in Getters, RequestInv(g), LayerUnavailable(g)
    PROVE  RequestInv(g)'
<1> USE LevelsAssumption
<1> DEFINE r == Unavailable(reqs[g])
<1>1. /\ handler[g] = "reading" /\ handler'[g] = "reading"
      /\ level[g] \in Levels /\ asked'[g] = asked[g] /\ found'[g] = found[g]
      /\ Collect(g, r, reqs[g])
  BY DEF LayerUnavailable, TypeOK
<1>2. r.hits = {} /\ r.misses = {}
  BY DEF Unavailable
<1> HIDE DEF r
<1>3. /\ results'[g][level[g]] = r
      /\ \A l \in 0 .. External : l # level[g] => results'[g][l] = results[g][l]
      /\ \A l \in level[g] .. External : results[g][l] = NoResult
      /\ reqs'[g] = reqs[g] /\ level'[g] = level[g] + 1
      /\ \A k : HitLevels(g, k)' = HitLevels(g, k)
  BY <1>1, <1>2, CollectHits
<1>4. Progress(g)'
  <2>1. \A l \in 0 .. External : results'[g][l].misses \subseteq asked[g]
    BY <1>2, <1>3 DEF RequestInv, Progress
  <2>2. \A l \in level[g] + 1 .. External : results'[g][l] = NoResult
    BY <1>1, <1>3
  <2>3. QED
    BY <1>1, <1>3, <2>1, <2>2 DEF Progress, RequestInv
<1>5. Accounts(g)'
  BY <1>1, <1>3 DEF RequestInv, Accounts, FoundOnce, NotFound
<1>6. MissesAbove(g)'
  BY <1>2, <1>3 DEF RequestInv, MissesAbove
<1>7. QED
  BY <1>4, <1>5, <1>6 DEF RequestInv

LEMMA FetchExternalInv ==
    ASSUME TypeOK, NEW g \in Getters, RequestInv(g), FetchExternal(g)
    PROVE  RequestInv(g)'
<1> USE LevelsAssumption
<1> DEFINE last == results[g][NumLevels - 1].misses
<1>1. PICK failing :
         LET r == ExternalResult(last, failing)
         IN  /\ results' = [results EXCEPT ![g][External] = r]
             /\ found' = [found EXCEPT ![g] =
                             [k \in Keys |-> IF k \in r.hits THEN Source[k]
                                                             ELSE @[k]]]
  BY DEF FetchExternal
<1> DEFINE r == ExternalResult(last, failing)
<1>2. /\ handler[g] = "reading" /\ handler'[g] = "answering" /\ level[g] = External
      /\ asked'[g] = asked[g] /\ reqs'[g] = reqs[g] /\ level'[g] = level[g]
  BY DEF FetchExternal, TypeOK
<1>3. r.hits \subseteq last /\ r.misses \subseteq last /\ \A k \in r.hits : Source[k] # NoValue
  BY DEF ExternalResult
<1>4. /\ results'[g][External] = r
      /\ \A l \in Levels : results'[g][l] = results[g][l]
      /\ \A k \in Keys : found'[g][k] = IF k \in r.hits THEN Source[k] ELSE found[g][k]
  <2> HIDE DEF r
  <2>1. /\ results' = [results EXCEPT ![g][External] = r]
        /\ found' = [found EXCEPT ![g] =
                        [k \in Keys |-> IF k \in r.hits THEN Source[k] ELSE found[g][k]]]
    BY <1>1 DEF r
  <2>2. QED
    BY <2>1 DEF TypeOK
<1>5. last \subseteq asked[g] /\ asked[g] \subseteq Keys
  BY KnownKeysSubset DEF TypeOK, RequestInv, Progress
<1>6. \A k \in last : HitLevels(g, k) \cap Levels = {}
  BY DEF RequestInv, MissesAbove
<1>7. \A k : External \notin HitLevels(g, k)
  BY <1>2 DEF RequestInv, Progress, NoResult, HitLevels
<1> HIDE DEF r, last
<1>8. \A k : HitLevels(g, k)' = IF k \in r.hits THEN HitLevels(g, k) \cup {External}
                                               ELSE HitLevels(g, k)
  <2> TAKE k
  <2>1. \A l \in Levels : l \in HitLevels(g, k)' <=> l \in HitLevels(g, k)
    BY <1>4 DEF HitLevels
  <2>2. External \in HitLevels(g, k)' <=> k \in r.hits
    BY <1>4 DEF HitLevels
  <2>3. HitLevels(g, k) \subseteq 0 .. External /\ HitLevels(g, k)' \subseteq 0 .. External
    BY DEF HitLevels
  <2>4. 0 .. External = Levels \cup {External} /\ External \notin Levels
    OBVIOUS
  <2>5. \A h \in 0 .. External :
           h \in HitLevels(g, k)' <=> h \in HitLevels(g, k) \/ (h = External /\ k \in r.hits)
    BY <1>7, <2>1, <2>2, <2>4
  <2> HIDE DEF External, Levels
  <2>6. QED
    BY <2>3, <2>5, <2>2, <1>7
<1>9. Progress(g)'
  <2>1. \A l \in 0 .. External : results'[g][l].misses \subseteq asked[g]
    BY <1>3, <1>4, <1>5 DEF RequestInv, Progress
  <2>2. QED
    BY <1>2, <2>1 DEF RequestInv, Progress
<1>10. Accounts(g)'
  <2> SUFFICES ASSUME NEW k \in asked[g]
               PROVE  FoundOnce(g, k)' \/ NotFound(g, k)'
    BY <1>2 DEF Accounts
  <2>1. FoundOnce(g, k) \/ NotFound(g, k)
    BY DEF RequestInv, Accounts
  <2>2. CASE k \in r.hits
    <3>1. HitLevels(g, k) = {}
      BY <1>3, <1>6, <1>7, <2>2 DEF HitLevels
    <3>2. HitLevels(g, k)' = {External} /\ found'[g][k] # NoValue
      BY <1>3, <1>4, <1>5, <1>8, <2>2, <3>1
    <3>3. QED
      BY <3>2 DEF FoundOnce
  <2>3. CASE k \notin r.hits
    BY <1>2, <1>4, <1>5, <1>8, <2>1, <2>3 DEF FoundOnce, NotFound
  <2>4. QED
    BY <2>2, <2>3
<1>11. MissesAbove(g)'
  BY <1>4, <1>8 DEF RequestInv, MissesAbove
<1>12. QED
  BY <1>9, <1>10, <1>11 DEF RequestInv

\* Answering, or losing the client, changes nothing the invariant speaks of.
LEMMA SameResultsInv ==
    ASSUME NEW g \in Getters, RequestInv(g), handler[g] # "idle",
           handler'[g] \in {handler[g], "returned"},
           asked'[g] = asked[g], level'[g] = level[g], reqs'[g] = reqs[g],
           results'[g] = results[g], found'[g] = found[g]
    PROVE  RequestInv(g)'
<1>1. \A k : HitLevels(g, k)' = HitLevels(g, k)
  BY DEF HitLevels
<1>2. QED
  BY <1>1 DEF RequestInv, Progress, Accounts, FoundOnce, NotFound, MissesAbove

LEMMA FillGoesToInv ==
    ASSUME TypeOK, NEW g \in Getters, RequestInv(g), NEW i, NEW p, FillGoesTo(g, i, p)
    PROVE  RequestInv(g)' /\ \A f \in Getters \ {g} : Untouched(f)
<1>1. CASE i = NumLevels /\ handler[g] = "returned"
  BY <1>1, ForgetInv DEF FillGoesTo
<1>2. CASE ~(i = NumLevels /\ handler[g] = "returned")
  <2>1. \A f \in Getters : Untouched(f)
    BY <1>2 DEF FillGoesTo, getVars, Untouched
  <2>2. QED
    BY <2>1, Frame
<1>3. QED
  BY <1>1, <1>2

LEMMA CascadeStep == TypeOK /\ CascadeInv /\ [Next]_vars => CascadeInv'
<1> SUFFICES ASSUME TypeOK, \A f \in Getters : RequestInv(f), [Next]_vars
             PROVE  \A f \in Getters : RequestInv(f)'
  BY CascadeInvSplits
<1>1. ASSUME NEW g \in Getters, RequestInv(g)', \A f \in Getters \ {g} : Untouched(f)
      PROVE  \A f \in Getters : RequestInv(f)'
  BY <1>1, Frame
<1>2. ASSUME UNCHANGED getVars
      PROVE  \A f \in Getters : RequestInv(f)'
  BY <1>2, Frame DEF getVars, Untouched
<1>3. ASSUME NEW g \in Getters, NEW ids \in Batches, StartGet(g, ids)
      PROVE  \A f \in Getters : RequestInv(f)'
  <2>1. \A f \in Getters \ {g} : Untouched(f)
    BY <1>3 DEF StartGet, Untouched, TypeOK
  <2>2. QED
    BY <1>1, <1>3, <2>1, StartGetInv
<1>4. ASSUME NEW g \in Getters, LayerAnswers(g)
      PROVE  \A f \in Getters : RequestInv(f)'
  <2>1. \A f \in Getters \ {g} : Untouched(f)
    BY <1>4 DEF LayerAnswers, Collect, Untouched, TypeOK
  <2>2. QED
    BY <1>1, <1>4, <2>1, LayerAnswersInv
<1>5. ASSUME NEW g \in Getters, LayerUnavailable(g)
      PROVE  \A f \in Getters : RequestInv(f)'
  <2>1. \A f \in Getters \ {g} : Untouched(f)
    BY <1>5 DEF LayerUnavailable, Collect, Untouched, TypeOK
  <2>2. QED
    BY <1>1, <1>5, <2>1, LayerUnavailableInv
<1>6. ASSUME NEW g \in Getters, FetchExternal(g)
      PROVE  \A f \in Getters : RequestInv(f)'
  <2>1. \A f \in Getters \ {g} : Untouched(f)
    BY <1>6 DEF FetchExternal, Untouched, TypeOK
  <2>2. QED
    BY <1>1, <1>6, <2>1, FetchExternalInv
<1>7. ASSUME NEW g \in Getters, Return(g)
      PROVE  \A f \in Getters : RequestInv(f)'
  <2>1. CASE Filling(g)
    <3>1. handler' = [handler EXCEPT ![g] = "returned"] /\ handler[g] = "answering"
      BY <1>7, <2>1 DEF Return
    <3>2. UNCHANGED <<asked, level, reqs, results, found>>
      BY <1>7, <2>1 DEF Return
    <3>3. RequestInv(g)'
      BY <3>1, <3>2, SameResultsInv DEF TypeOK
    <3>4. \A f \in Getters \ {g} : Untouched(f)
      BY <3>1, <3>2 DEF Untouched, TypeOK
    <3>5. QED
      BY <1>1, <3>3, <3>4
  <2>2. CASE ~Filling(g)
    BY <1>1, <1>7, <2>2, ForgetInv DEF Return
  <2>3. QED
    BY <2>1, <2>2
<1>8. ASSUME NEW g \in Getters, ContextDone(g)
      PROVE  \A f \in Getters : RequestInv(f)'
  BY <1>8, Frame DEF ContextDone, Untouched
<1>9. ASSUME NEW g \in Getters, Fill(g)
      PROVE  \A f \in Getters : RequestInv(f)'
  <2>1. CASE FillCall(g)
    BY <1>2, <2>1 DEF FillCall
  <2>2. CASE \E i, p : FillGoesTo(g, i, p)
    BY <1>1, <2>2, FillGoesToInv
  <2>3. QED
    BY <1>9, <2>1, <2>2 DEF Fill, FillPass, FillRefused, FillLand, FillAdvances
<1>10. ASSUME Crash
       PROVE  \A f \in Getters : RequestInv(f)'
  BY <1>10, BlankInv DEF Crash
<1>11. QED
  BY <1>2, <1>3, <1>4, <1>5, <1>6, <1>7, <1>8, <1>9, <1>10
     DEF Next, Cascade, Write, StartPut, StartEvict, StartWrite, PutLayer,
         DeleteLayer, WriteLayer, Expire, Lose, vars

LEMMA CascadeInvariant == Spec => []CascadeInv
<1>1. Init => CascadeInv
  <2> SUFFICES ASSUME Init, NEW g \in Getters
               PROVE  RequestInv(g)
    BY CascadeInvSplits
  <2>1. \A l \in 0 .. External : results[g][l] = NoResult
    BY DEF Init
  <2>2. Progress(g)
    BY <2>1 DEF Init, Progress, NoResult
  <2>3. Accounts(g)
    BY DEF Init, Accounts
  <2>4. MissesAbove(g)
    BY <2>1, LevelsAssumption DEF MissesAbove, NoResult
  <2>5. QED
    BY <2>2, <2>3, <2>4 DEF RequestInv
<1>2. TypeOK /\ CascadeInv /\ [Next]_vars => CascadeInv'
  BY CascadeStep
<1>3. QED
  BY <1>1, <1>2, TypeCorrect, PTL DEF Spec

\* Whatever layers are skipped, miss or fail, GetAll finds each id of the request
\* at exactly one level or passes it through all of them: none is lost.
THEOREM CascadeAccountsForAll == Spec => []CascadeAccounts
<1>1. CascadeInv => CascadeAccounts
  BY DEF CascadeInv
<1>2. QED
  BY <1>1, CascadeInvariant, PTL

\* The ids that fillMissingLevels puts for a level were found strictly below it.
THEOREM MissesStayAboveHits == Spec => []MissesAreAboveHits
<1>1. CascadeInv => MissesAreAboveHits
  BY DEF CascadeInv
<1>2. QED
  BY <1>1, CascadeInvariant, PTL

-----------------------------------------------------------------------------
(* Where a fill may write *)

\* A fill runs between FetchExternal and its end, always above its level.
FillInv ==
    \A g \in Getters :
        /\ fillLevel[g] < NumLevels => /\ putLevel[g] < fillLevel[g]
                                       /\ handler[g] \in {"answering", "returned"}
        /\ fillLevel[g] = NumLevels => putLevel[g] = 0 /\ ~inCall[g]

LEMMA FillAdvancesInv ==
    ASSUME TypeOK, FillInv, NEW g \in Getters, Filling(g),
           FillAdvances(g) \/ FillGoesTo(g, fillLevel[g] + 1, 0),
           inCall' = [inCall EXCEPT ![g] = FALSE]
    PROVE  FillInv'
<1> USE LevelsAssumption
<1>1. \E i \in 1 .. NumLevels, p \in Levels :
         FillGoesTo(g, i, p) /\ p < i /\ (i = NumLevels => p = 0)
  <2>1. CASE FillGoesTo(g, fillLevel[g] + 1, 0)
    BY <2>1 DEF Filling, TypeOK
  <2>2. CASE FillAdvances(g)
    BY <2>2 DEF Filling, FillAdvances, BoundLevel, TypeOK, FillInv
  <2>3. QED
    BY <2>1, <2>2
<1>2. PICK i \in 1 .. NumLevels, p \in Levels :
         FillGoesTo(g, i, p) /\ p < i /\ (i = NumLevels => p = 0)
  BY <1>1
<1>3. handler[g] \in {"answering", "returned"}
  BY DEF Filling, FillInv
<1>4. ASSUME NEW f \in Getters, f # g
      PROVE  /\ fillLevel'[f] = fillLevel[f] /\ putLevel'[f] = putLevel[f]
             /\ inCall'[f] = inCall[f] /\ handler'[f] = handler[f]
  BY <1>2, <1>4 DEF FillGoesTo, Forget, getVars, TypeOK
<1>5. fillLevel'[g] = i /\ putLevel'[g] = p /\ ~inCall'[g]
  BY <1>2 DEF FillGoesTo, TypeOK
<1>6. i # NumLevels => handler'[g] = handler[g]
  BY <1>2 DEF FillGoesTo, getVars
<1>7. QED
  BY <1>2, <1>3, <1>4, <1>5, <1>6 DEF FillInv

LEMMA FillStep == TypeOK /\ FillInv /\ [Next]_vars => FillInv'
<1> SUFFICES ASSUME TypeOK, FillInv, [Next]_vars
             PROVE  FillInv'
  OBVIOUS
<1> USE LevelsAssumption
<1>1. ASSUME UNCHANGED fillVars, NEW g \in Getters, fillLevel[g] = NumLevels,
             \A f \in Getters \ {g} : handler'[f] = handler[f]
      PROVE  FillInv'
  BY <1>1 DEF FillInv, fillVars
<1>2. ASSUME UNCHANGED fillVars, UNCHANGED handler
      PROVE  FillInv'
  BY <1>2 DEF FillInv, fillVars
<1> HIDE DEF Results
<1>0. ASSUME NEW g \in Getters, handler[g] \in {"idle", "reading"}
      PROVE  fillLevel[g] = NumLevels
  <2>1. fillLevel[g] \in 1 .. NumLevels
    BY DEF TypeOK
  <2>2. ~(fillLevel[g] < NumLevels)
    BY <1>0 DEF FillInv
  <2>3. QED
    BY <2>1, <2>2
<1>3. ASSUME NEW g \in Getters, NEW ids \in Batches, StartGet(g, ids)
      PROVE  FillInv'
  <2>1. fillLevel[g] = NumLevels
    BY <1>0, <1>3 DEF StartGet
  <2>2. QED
    BY <1>1, <1>3, <2>1 DEF StartGet, TypeOK
<1>4. ASSUME NEW g \in Getters, FetchExternal(g)
      PROVE  FillInv'
  <2>1. fillLevel[g] = NumLevels
    BY <1>0, <1>4 DEF FetchExternal
  <2>2. putLevel[g] = 0 /\ ~inCall[g]
    BY <2>1 DEF FillInv
  <2>3. /\ handler' = [handler EXCEPT ![g] = "answering"]
        /\ fillLevel' = [fillLevel EXCEPT ![g] = 1]
        /\ UNCHANGED <<putLevel, inCall>>
    BY <1>4 DEF FetchExternal
  <2>4. QED
    BY <2>2, <2>3 DEF FillInv, TypeOK
<1>5. ASSUME NEW g \in Getters, Return(g)
      PROVE  FillInv'
  <2>1. CASE Filling(g)
    BY <1>5, <2>1 DEF Return, FillInv, fillVars, TypeOK
  <2>2. CASE ~Filling(g)
    <3>1. fillLevel[g] = NumLevels
      BY <1>5, <2>2 DEF Return, Filling, TypeOK
    <3>2. QED
      BY <1>1, <1>5, <2>2, <3>1 DEF Return, Forget, TypeOK
  <2>3. QED
    BY <2>1, <2>2
<1>6. ASSUME NEW g \in Getters, Fill(g)
      PROVE  FillInv'
  <2>1. CASE FillCall(g)
    BY <2>1 DEF FillCall, Filling, FillInv, getVars, TypeOK
  <2>2. CASE FillPass(g) \/ FillRefused(g)
    <3>1. inCall' = [inCall EXCEPT ![g] = FALSE]
      BY <2>2 DEF FillPass, FillRefused, TypeOK
    <3>2. QED
      BY <2>2, <3>1, FillAdvancesInv DEF FillPass, FillRefused
  <2>3. CASE FillLand(g)
    BY <2>3, FillAdvancesInv DEF FillLand
  <2>4. QED
    BY <1>6, <2>1, <2>2, <2>3 DEF Fill
<1>7. ASSUME Crash
      PROVE  FillInv'
  BY <1>7 DEF Crash, FillInv
<1>8. QED
  BY <1>2, <1>3, <1>4, <1>5, <1>6, <1>7
     DEF Next, Cascade, Write, LayerAnswers, LayerUnavailable, ContextDone,
         StartPut, StartEvict, StartWrite, PutLayer, DeleteLayer, WriteLayer,
         Expire, Lose, vars, getVars

LEMMA FillLandAbove ==
    ASSUME TypeOK, CascadeInv, FillInv, NEW g \in Getters, FillLand(g),
           NEW l \in Levels, NEW k \in Keys, layer'[l][k] # layer[l][k]
    PROVE  \E h \in HitLevels(g, k) : l + 1 < h /\ layer'[l][k] = found[g][k]
<1> USE LevelsAssumption
<1>1. PICK S \in Applied(putLevel[g], FillKeys(g),
                   FillContextDone(g) \/ putLevel[g] \in FaultyLevels) :
               layer' = Stored(putLevel[g], S, found[g])
  BY DEF FillLand
<1>2. S \subseteq FillKeys(g)
  BY <1>1 DEF Applied
<1>3. l = putLevel[g] /\ k \in S /\ layer'[l][k] = found[g][k]
  BY <1>1 DEF Stored, TypeOK
<1>4. k \in ToPut(g, fillLevel[g])
  BY <1>2, <1>3 DEF FillKeys, EnabledKeys
<1>5. PICK h \in 0 .. External : k \in results[g][h].hits
  BY <1>4 DEF ToPut, Hits
<1>6. h \in HitLevels(g, k)
  BY <1>5 DEF HitLevels
<1>7. fillLevel[g] \in Levels /\ putLevel[g] < fillLevel[g]
  BY DEF FillLand, Filling, FillInv, TypeOK
<1>8. fillLevel[g] < h
  BY <1>4, <1>6, <1>7 DEF ToPut, CascadeInv, MissesAreAboveHits
<1>9. QED
  BY <1>3, <1>6, <1>7, <1>8 DEF TypeOK

LEMMA FillInvariant == Spec => []FillInv
<1>1. Init => FillInv
  BY LevelsAssumption DEF Init, FillInv
<1>2. TypeOK /\ FillInv /\ [Next]_vars => FillInv'
  BY FillStep
<1>3. QED
  BY <1>1, <1>2, TypeCorrect, PTL DEF Spec

\* What a fill does write: the layer directly above the one that had the value,
\* and the last layer in front of the external source, are left out.
FillSkipsTheLayerAbove ==
    [][\A g \in Getters : inCall[g] /\ ~inCall'[g] =>
          \A l \in Levels, k \in Keys :
              layer'[l][k] \notin {layer[l][k], NoValue} =>
                  \E h \in HitLevels(g, k) :
                      l + 1 < h /\ layer'[l][k] = found[g][k]]_vars

\* No fill ever stores a value in the layer directly above its hit: the bound of
\* the loop is one less than the level that missed (cache_manager.go:101).
THEOREM FillsSkipTheLayerAbove == Spec => FillSkipsTheLayerAbove
<1>1. ASSUME TypeOK, CascadeInv, FillInv, [Next]_vars
      PROVE  [\A g \in Getters : inCall[g] /\ ~inCall'[g] =>
                \A l \in Levels, k \in Keys :
                    layer'[l][k] \notin {layer[l][k], NoValue} =>
                        \E h \in HitLevels(g, k) :
                            l + 1 < h /\ layer'[l][k] = found[g][k]]_vars
  <2> SUFFICES ASSUME Next, NEW g \in Getters, inCall[g], ~inCall'[g],
                      NEW l \in Levels, NEW k \in Keys,
                      layer'[l][k] \notin {layer[l][k], NoValue}
               PROVE  \E h \in HitLevels(g, k) :
                          l + 1 < h /\ layer'[l][k] = found[g][k]
    BY <1>1 DEF vars, fillVars
  <2>1. CASE FillLand(g)
    BY <1>1, <2>1, FillLandAbove
  <2>2. CASE Crash
    BY <2>2 DEF Crash, TypeOK
  <2>3. CASE \E f \in Getters \ {g} : FillLand(f)
    BY <2>3 DEF FillLand, TypeOK
  <2>4. CASE \E f \in Getters : FillCall(f)
    BY <2>4 DEF FillCall, TypeOK
  <2>5. CASE inCall' = inCall
    BY <2>5
  <2>6. QED
    BY <2>1, <2>2, <2>3, <2>4, <2>5
       DEF Next, Cascade, Fill, Write, LayerAnswers, LayerUnavailable,
           FetchExternal, Return, ContextDone, FillPass, FillRefused, StartGet,
           StartPut, StartEvict, StartWrite, PutLayer, DeleteLayer, WriteLayer,
           Expire, Lose, fillVars
<1>2. QED
  BY <1>1, TypeCorrect, CascadeInvariant, FillInvariant, PTL
     DEF Spec, FillSkipsTheLayerAbove

\* Every write of every fill carries the value the request found and goes to a
\* layer strictly above the one that had it.
THEOREM FillsLandOnlyAbove == Spec => FillLandsOnlyAbove
<1> DEFINE LandsFrom(d) ==
        \A g \in Getters : inCall[g] /\ ~inCall'[g] =>
           \A l \in Levels, k \in Keys :
              layer'[l][k] \notin {layer[l][k], NoValue} =>
                 \E h \in HitLevels(g, k) : l + d < h /\ layer'[l][k] = found[g][k]
<1>1. [LandsFrom(1)]_vars => [LandsFrom(0)]_vars
  <2> SUFFICES ASSUME LandsFrom(1)
               PROVE  LandsFrom(0)
    OBVIOUS
  <2>1. \A g \in Getters, k \in Keys : HitLevels(g, k) \subseteq 0 .. External
    BY DEF HitLevels
  <2>2. QED
    BY <2>1, LevelsAssumption
<1>2. LandsFrom(0) <=> \A g \in Getters : inCall[g] /\ ~inCall'[g] =>
           \A l \in Levels, k \in Keys :
              layer'[l][k] \notin {layer[l][k], NoValue} =>
                 \E h \in HitLevels(g, k) : l < h /\ layer'[l][k] = found[g][k]
  BY LevelsAssumption
<1>3. QED
  BY <1>1, <1>2, FillsSkipTheLayerAbove, PTL
     DEF FillSkipsTheLayerAbove, FillLandsOnlyAbove
=============================================================================
