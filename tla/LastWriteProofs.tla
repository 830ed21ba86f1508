--------------------------- MODULE LastWriteProofs --------------------------
(***************************************************************************)
(* That the layers and the answers of LayeredCache follow the last write,  *)
(* for every configuration.  The inductive invariant speaks of the clean   *)
(* keys: those whose last write overlapped no other use and met no error.  *)
(***************************************************************************)
EXTENDS LayeredCacheProofs

USE DEF Levels, External, Results

\* The keys whose last write nothing has disturbed; it may still be running.
Clean == Keys \ (overlapped \cup failed)

\* What the layers and a request may hold of k: once a layer surely has what was
\* put, no request gets as far as the external source.
MayHold(k) ==
    IF latest[k] # NoValue /\ ReliableLevels(k) # {}
    THEN {NoValue, latest[k]} ELSE {NoValue, latest[k], Source[k]}

\* The layers the write of k has behind it; all of them when it is over.
Passed(k) == {l \in Levels : \A w \in Writers : WriterUses(w, k) => l < wlevel[w]}

\* Nothing runs for an idle writer, and a cascade is where its request says.
Places ==
    /\ \A w \in Writers : op[w] = "idle" => wlevel[w] = 0 /\ batch[w] = {}
    /\ \A g \in Getters : /\ handler[g] = "idle" => level[g] = 0
                          /\ handler[g] \in {"answering", "returned"}
                                => level[g] = NumLevels

\* The write of k has the key to itself and puts the latest value.
Alone(k) ==
    \A w \in Writers : WriterUses(w, k) =>
        /\ newValue[w] = latest[k]
        /\ \A u \in Writers : WriterUses(u, k) => u = w
        /\ \A g \in Getters : ~GetterUses(g, k)

\* The layers it has passed reflect it.
Follows(k) ==
    \A l \in Passed(k) :
        /\ layer[l][k] \in MayHold(k)
        /\ latest[k] # NoValue /\ l \in ReliableLevels(k) => layer[l][k] = latest[k]

\* A request that passed a layer which surely has k found k there or above;
\* unless its context was done, and then its fill calls no layer.
FoundByNow(g, k) ==
    latest[k] # NoValue => \A l \in ReliableLevels(k) : l < level[g] =>
        \/ \E h \in HitLevels(g, k) : h <= l
        \/ cancelled[g] /\ ~inCall[g]

Learns(k) ==
    \A g \in Getters : GetterUses(g, k) => /\ found[g][k] \in MayHold(k)
                                           /\ FoundByNow(g, k)

KeyInv(k) == Alone(k) /\ Follows(k) /\ Learns(k)

LastWriteInv == Places /\ \A k \in Clean : KeyInv(k)

-----------------------------------------------------------------------------
(* Where the cascades and the writers are *)

LEMMA PlacesOfGetters ==
    ASSUME TypeOK, Places, NEW g \in Getters,
           UNCHANGED writeVars,
           \A f \in Getters \ {g} : Untouched(f),
           handler'[g] = "idle" => level'[g] = 0,
           handler'[g] \in {"answering", "returned"} => level'[g] = NumLevels
    PROVE  Places'
BY DEF Places, Untouched, writeVars

LEMMA ForgetPlaces ==
    ASSUME TypeOK, NEW g \in Getters, Forget(g)
    PROVE  /\ handler'[g] = "idle" /\ level'[g] = 0 /\ asked'[g] = {}
           /\ \A f \in Getters \ {g} : /\ Untouched(f)
                                       /\ cancelled'[f] = cancelled[f]
BY DEF Forget, Untouched, TypeOK

\* What the steps of a fill do to its request.
LEMMA FillGoesToPlaces ==
    ASSUME TypeOK, NEW g \in Getters, NEW i, NEW p, FillGoesTo(g, i, p)
    PROVE  /\ \/ handler'[g] = "idle" /\ level'[g] = 0 /\ asked'[g] = {}
              \/ Untouched(g) /\ cancelled'[g] = cancelled[g]
           /\ \A f \in Getters \ {g} : Untouched(f) /\ cancelled'[f] = cancelled[f]
<1>1. CASE i = NumLevels /\ handler[g] = "returned"
  BY <1>1, ForgetPlaces DEF FillGoesTo
<1>2. CASE ~(i = NumLevels /\ handler[g] = "returned")
  BY <1>2 DEF FillGoesTo, getVars, Untouched
<1>3. QED
  BY <1>1, <1>2

LEMMA NextLayerPlaces ==
    ASSUME TypeOK, NEW w \in Writers, NextLayer(w), op[w] # "idle"
    PROVE  /\ \/ /\ wlevel'[w] = wlevel[w] + 1 /\ op'[w] = op[w]
                 /\ batch'[w] = batch[w] /\ newValue'[w] = newValue[w]
              \/ /\ wlevel[w] = NumLevels - 1 /\ wlevel'[w] = 0
                 /\ op'[w] = "idle" /\ batch'[w] = {}
           /\ \A u \in Writers \ {w} :
                 /\ wlevel'[u] = wlevel[u] /\ op'[u] = op[u]
                 /\ batch'[u] = batch[u] /\ newValue'[u] = newValue[u]
<1>0. /\ op \in [Writers -> {"idle", "put", "evict"}]
      /\ batch \in [Writers -> SUBSET KnownKeys(Keys)]
      /\ newValue \in [Writers -> Values \cup {NoValue}] /\ wlevel \in [Writers -> Levels]
  BY DEF TypeOK
<1>1. CASE wlevel[w] + 1 < NumLevels
  BY <1>0, <1>1 DEF NextLayer
<1>2. CASE ~(wlevel[w] + 1 < NumLevels)
  <2>1. wlevel[w] = NumLevels - 1
    BY <1>0, <1>2, LevelsAssumption
  <2>2. QED
    BY <1>0, <1>2, <2>1 DEF NextLayer
<1>3. QED
  BY <1>1, <1>2

LEMMA PlacesStep == TypeOK /\ Places /\ [Next]_vars => Places'
<1> SUFFICES ASSUME TypeOK, Places, [Next]_vars
             PROVE  Places'
  OBVIOUS
<1> USE LevelsAssumption
<1>1. ASSUME NEW g \in Getters, NEW ids \in Batches, StartGet(g, ids)
      PROVE  Places'
  BY <1>1, PlacesOfGetters DEF StartGet, Untouched, TypeOK
<1>2. ASSUME NEW g \in Getters, LayerAnswers(g) \/ LayerUnavailable(g)
      PROVE  Places'
  <2>1. /\ handler[g] = "reading" /\ handler' = handler /\ UNCHANGED writeVars
        /\ \A f \in Getters \ {g} : Untouched(f)
    BY <1>2 DEF LayerAnswers, LayerUnavailable, Collect, Untouched, TypeOK
  <2>2. QED
    BY <2>1, PlacesOfGetters
<1>3. ASSUME NEW g \in Getters, FetchExternal(g)
      PROVE  Places'
  <2>1. level'[g] = NumLevels /\ handler'[g] = "answering"
    BY <1>3 DEF FetchExternal, TypeOK
  <2>2. \A f \in Getters \ {g} : Untouched(f)
    BY <1>3 DEF FetchExternal, Untouched, TypeOK
  <2>3. QED
    BY <1>3, <2>1, <2>2, PlacesOfGetters DEF FetchExternal
<1>4. ASSUME NEW g \in Getters, Return(g)
      PROVE  Places'
  <2>1. CASE Filling(g)
    <3>1. /\ handler[g] = "answering" /\ handler' = [handler EXCEPT ![g] = "returned"]
          /\ UNCHANGED <<asked, level, reqs, results, found, writeVars>>
      BY <1>4, <2>1 DEF Return
    <3>2. QED
      BY <3>1, PlacesOfGetters DEF Places, Untouched, TypeOK
  <2>2. CASE ~Filling(g)
    BY <1>4, <2>2, ForgetPlaces, PlacesOfGetters DEF Return
  <2>3. QED
    BY <2>1, <2>2
<1>5. ASSUME NEW g \in Getters, Fill(g)
      PROVE  Places'
  <2>1. CASE FillCall(g)
    BY <2>1 DEF FillCall, Places, getVars, writeVars
  <2>2. CASE (\E i, p : FillGoesTo(g, i, p)) /\ UNCHANGED writeVars
    <3>1. PICK i, p : FillGoesTo(g, i, p)
      BY <2>2
    <3>2. handler'[g] \in {"answering", "returned"} => level'[g] = NumLevels
      BY <3>1, FillGoesToPlaces DEF Places, Untouched
    <3>3. handler'[g] = "idle" => level'[g] = 0
      BY <3>1, FillGoesToPlaces DEF Places, Untouched
    <3>4. QED
      BY <2>2, <3>1, <3>2, <3>3, FillGoesToPlaces, PlacesOfGetters
  <2>3. QED
    BY <1>5, <2>1, <2>2 DEF Fill, FillPass, FillRefused, FillLand, FillAdvances
<1>6. ASSUME NEW w \in Writers, NEW kind \in {"put", "evict"}, NEW ids, NEW v,
             StartWrite(w, kind, ids, v)
      PROVE  Places'
  BY <1>6 DEF StartWrite, Places, getVars, TypeOK
<1>7. ASSUME NEW w \in Writers, op[w] # "idle", WriteLayer(w)
      PROVE  Places'
  <2>1. NextLayer(w) /\ UNCHANGED getVars
    BY <1>7 DEF WriteLayer
  <2>2. QED
    BY <1>7, <2>1, NextLayerPlaces DEF Places, getVars
<1>8. CASE Crash
  BY <1>8 DEF Crash, Places
<1>9. CASE UNCHANGED <<handler, level, op, wlevel, batch>>
  BY <1>9 DEF Places
<1>10. QED
  BY <1>1, <1>2, <1>3, <1>4, <1>5, <1>6, <1>7, <1>8, <1>9
     DEF Next, Cascade, ContextDone, Write, StartPut, StartEvict, PutLayer,
         DeleteLayer, Expire, Lose, vars, getVars, writeVars

-----------------------------------------------------------------------------
(* The steps of a request, for one clean key *)

\* A step of g disturbs only what g has learned.
LEMMA LearnsStep ==
    ASSUME TypeOK, NEW k \in Keys, KeyInv(k), NEW g \in Getters,
           UNCHANGED <<writeVars, latest>>,
           \A f \in Getters \ {g} : /\ Untouched(f) /\ cancelled'[f] = cancelled[f]
                                    /\ inCall'[f] = inCall[f],
           GetterUses(g, k)' => GetterUses(g, k) \/ \A w \in Writers : ~WriterUses(w, k),
           GetterUses(g, k)' => found'[g][k] \in MayHold(k) /\ FoundByNow(g, k)'
    PROVE  Alone(k)' /\ Learns(k)'
<1>1. /\ MayHold(k)' = MayHold(k)
      /\ \A w \in Writers : WriterUses(w, k)' = WriterUses(w, k)
  BY DEF MayHold, WriterUses, writeVars
<1>2. \A f \in Getters \ {g} : /\ GetterUses(f, k)' = GetterUses(f, k)
                               /\ HitLevels(f, k)' = HitLevels(f, k)
  BY DEF GetterUses, HitLevels, Untouched
<1>3. Alone(k)'
  BY <1>1, <1>2 DEF KeyInv, Alone, writeVars
<1>4. ASSUME NEW f \in Getters \ {g}, GetterUses(f, k)'
      PROVE  found'[f][k] \in MayHold(k)' /\ FoundByNow(f, k)'
  BY <1>1, <1>2, <1>4 DEF KeyInv, Learns, FoundByNow, Untouched
<1>5. Learns(k)'
  BY <1>1, <1>4 DEF Learns
<1>6. QED
  BY <1>3, <1>5

LEMMA GetterStep ==
    ASSUME TypeOK, NEW k \in Keys, KeyInv(k), NEW g \in Getters,
           UNCHANGED <<layer, writeVars, latest>>,
           \A f \in Getters \ {g} : /\ Untouched(f) /\ cancelled'[f] = cancelled[f]
                                    /\ inCall'[f] = inCall[f],
           GetterUses(g, k)' => GetterUses(g, k) \/ \A w \in Writers : ~WriterUses(w, k),
           GetterUses(g, k)' => found'[g][k] \in MayHold(k) /\ FoundByNow(g, k)'
    PROVE  KeyInv(k)'
<1>1. Alone(k)' /\ Learns(k)'
  BY LearnsStep
<1>2. Follows(k)'
  BY DEF KeyInv, Follows, MayHold, Passed, WriterUses, writeVars
<1>3. QED
  BY <1>1, <1>2 DEF KeyInv

\* A request that is still read has no fill yet.
LEMMA NoFillWhileReading ==
    ASSUME TypeOK, FillInv, NEW g \in Getters, handler[g] \in {"idle", "reading"}
    PROVE  ~inCall[g]
<1>1. ~(fillLevel[g] < NumLevels)
  BY DEF FillInv
<1>2. fillLevel[g] = NumLevels
  BY <1>1, LevelsAssumption DEF TypeOK
<1>3. QED
  BY Zenon, <1>2 DEF FillInv

LEMMA StartGetKey ==
    ASSUME TypeOK, CascadeInv, Places, NEW g \in Getters, NEW ids \in Batches,
           StartGet(g, ids), NEW k \in Clean', KeyInv(k)
    PROVE  KeyInv(k)'
<1>1. k \in Keys /\ k \notin KnownKeys(ids) \cap WrittenKeys
  BY DEF StartGet, Clean
<1>2. GetterUses(g, k)' => \A w \in Writers : ~WriterUses(w, k)
  BY <1>1 DEF GetterUses, StartGet, TypeOK, WrittenKeys
<1>3. found'[g][k] = NoValue /\ level'[g] = 0
  BY <1>1 DEF StartGet, CascadeInv, CascadeProgress, Places
<1>4. found'[g][k] \in MayHold(k) /\ FoundByNow(g, k)'
  BY <1>3, LevelsAssumption DEF MayHold, FoundByNow, ReliableLevels
<1>5. UNCHANGED <<layer, writeVars, latest>>
  BY DEF StartGet, layerVars
<1>6. \A f \in Getters \ {g} : /\ Untouched(f) /\ cancelled'[f] = cancelled[f]
                               /\ inCall'[f] = inCall[f]
  BY DEF StartGet, Untouched, TypeOK, fillVars
<1>7. QED
  BY <1>1, <1>2, <1>4, <1>5, <1>6, GetterStep

LEMMA LayerAnswersKey ==
    ASSUME TypeOK, CascadeInv, NEW g \in Getters, LayerAnswers(g),
           NEW k \in Clean', KeyInv(k)
    PROVE  KeyInv(k)'
<1> USE LevelsAssumption
<1> DEFINE r == LayerResult(level[g], reqs[g])
<1>1. k \in Keys /\ level[g] \in Levels /\ handler' = handler /\ asked' = asked
  BY DEF LayerAnswers, Clean, TypeOK
<1>2. \A f \in Getters \ {g} : /\ Untouched(f) /\ cancelled'[f] = cancelled[f]
                               /\ inCall'[f] = inCall[f]
  BY DEF LayerAnswers, Collect, Untouched, TypeOK, fillVars
<1>3. /\ cancelled' = cancelled /\ inCall' = inCall /\ latest' = latest
      /\ level'[g] = level[g] + 1 /\ UNCHANGED <<layer, writeVars>>
  BY DEF LayerAnswers, Collect, TypeOK, layerVars, historyVars, fillVars
<1>4. found'[g][k] = IF k \in r.hits THEN layer[level[g]][k] ELSE found[g][k]
  BY <1>1 DEF LayerAnswers, TypeOK
<1>5. /\ \A l \in 0 .. External : l # level[g] => results'[g][l] = results[g][l]
      /\ results'[g][level[g]] = r
  <2>1. results' = [results EXCEPT ![g][level[g]] = r]
    BY DEF LayerAnswers, Collect
  <2> HIDE DEF r
  <2>2. QED
    BY <1>1, <2>1 DEF TypeOK
<1>6. GetterUses(g, k)' = GetterUses(g, k)
  BY <1>1 DEF GetterUses
<1>7. ASSUME GetterUses(g, k)
      PROVE  found'[g][k] \in MayHold(k) /\ FoundByNow(g, k)'
  <2>1. Passed(k) = Levels
    BY <1>7 DEF KeyInv, Alone, Passed
  <2>2. found'[g][k] \in MayHold(k)
    BY <1>1, <1>4, <1>7, <2>1 DEF KeyInv, Follows, Learns
  <2>3. ASSUME latest[k] # NoValue, NEW l \in ReliableLevels(k), l < level[g] + 1
        PROVE  (\E h \in HitLevels(g, k)' : h <= l) \/ (cancelled[g] /\ ~inCall[g])
    <3>0. l \in Levels /\ Enabled(l, k) /\ layer[l][k] = latest[k]
      BY <1>1, <2>1, <2>3 DEF ReliableLevels, KeyInv, Follows
    <3>1. \A h \in HitLevels(g, k) : h # level[g]
      BY <1>1, CascadeInvSplits DEF LayerAnswers, HitLevels, RequestInv, Progress, NoResult
    <3>2. HitLevels(g, k) \subseteq HitLevels(g, k)'
      BY <1>5, <3>1 DEF HitLevels
    <3>3. CASE l < level[g]
      BY <1>7, <2>3, <3>2, <3>3 DEF KeyInv, Learns, FoundByNow
    <3>4. CASE l = level[g] /\ k \in reqs[g]
      <4>1. k \in r.hits
        BY <2>3, <3>0, <3>4 DEF LayerResult, EnabledKeys, Enabled
      <4>2. l \in HitLevels(g, k)'
        BY <1>1, <1>5, <3>4, <4>1 DEF HitLevels
      <4>3. QED
        BY <3>0, <4>2
    <3>5. CASE l = level[g] /\ k \notin reqs[g]
      <4>1. PICK h \in 0 .. External : k \in results[g][h].hits
        BY <1>7, <3>5, CascadeInvSplits
           DEF GetterUses, RequestInv, Accounts, FoundOnce, NotFound, HitLevels
      <4>2. h < level[g]
        <5>1. handler[g] = "reading"
          BY DEF LayerAnswers
        <5>2. h \notin level[g] .. External
          BY <4>1, <5>1 DEF CascadeInv, CascadeProgress, NoResult
        <5>3. QED
          BY <1>1, <5>2
      <4>3. h \in HitLevels(g, k)'
        BY <3>2, <4>1 DEF HitLevels
      <4>4. QED
        BY <1>1, <3>5, <4>2, <4>3
    <3>6. QED
      BY <1>1, <2>3, <3>0, <3>3, <3>4, <3>5
  <2>4. QED
    BY <1>3, <2>2, <2>3 DEF FoundByNow
<1>8. QED
  BY <1>1, <1>2, <1>3, <1>6, <1>7, GetterStep

LEMMA LayerUnavailableKey ==
    ASSUME TypeOK, CascadeInv, FillInv, NEW g \in Getters, LayerUnavailable(g),
           NEW k \in Clean', KeyInv(k)
    PROVE  KeyInv(k)'
<1> USE LevelsAssumption
<1>1. /\ k \in Keys /\ level[g] \in Levels /\ handler' = handler /\ asked' = asked
      /\ handler[g] = "reading" /\ found' = found
  BY DEF LayerUnavailable, Clean, TypeOK
<1>2. \A f \in Getters \ {g} : /\ Untouched(f) /\ cancelled'[f] = cancelled[f]
                               /\ inCall'[f] = inCall[f]
  BY DEF LayerUnavailable, Collect, Untouched, TypeOK, fillVars
<1>3. /\ cancelled' = cancelled /\ inCall' = inCall /\ latest' = latest
      /\ level'[g] = level[g] + 1 /\ UNCHANGED <<layer, writeVars>>
  BY DEF LayerUnavailable, Collect, TypeOK, layerVars, fillVars
<1>4. \A l \in 0 .. External : l # level[g] => results'[g][l] = results[g][l]
  BY <1>1 DEF LayerUnavailable, Collect, TypeOK
<1>5. ~inCall[g]
  BY <1>1, NoFillWhileReading
<1>6. HitLevels(g, k) \subseteq HitLevels(g, k)'
  <2>1. \A h \in HitLevels(g, k) : h # level[g]
    BY <1>1, CascadeInvSplits DEF HitLevels, RequestInv, Progress, NoResult
  <2>2. QED
    BY <1>4, <2>1 DEF HitLevels
<1>7. ASSUME GetterUses(g, k), latest[k] # NoValue,
             NEW l \in ReliableLevels(k), l < level[g] + 1
      PROVE  (\E h \in HitLevels(g, k)' : h <= l) \/ (cancelled[g] /\ ~inCall[g])
  <2>1. CASE cancelled[g]
    BY <1>5, <2>1
  <2>2. CASE ~cancelled[g]
    <3>1. l \in Levels /\ l # level[g]
      BY <2>2 DEF LayerUnavailable, ReliableLevels
    <3>2. l < level[g]
      BY <1>1, <1>7, <3>1
    <3>3. QED
      BY <1>6, <1>7, <3>2 DEF KeyInv, Learns, FoundByNow
  <2>3. QED
    BY <2>1, <2>2
<1>8. GetterUses(g, k)' = GetterUses(g, k)
  BY <1>1 DEF GetterUses
<1>9. GetterUses(g, k) => found'[g][k] \in MayHold(k) /\ FoundByNow(g, k)'
  BY <1>1, <1>3, <1>7 DEF KeyInv, Learns, FoundByNow
<1>10. QED
  BY <1>1, <1>2, <1>3, <1>8, <1>9, GetterStep

LEMMA FetchExternalKey ==
    ASSUME TypeOK, CascadeInv, FillInv, NEW g \in Getters, FetchExternal(g),
           NEW k \in Clean', KeyInv(k)
    PROVE  KeyInv(k)'
<1> USE LevelsAssumption
<1>1. /\ k \in Keys /\ level[g] = NumLevels /\ handler[g] = "reading"
      /\ asked' = asked /\ level' = level /\ cancelled' = cancelled
      /\ inCall' = inCall /\ latest' = latest /\ UNCHANGED <<layer, writeVars>>
  BY DEF FetchExternal, Clean, layerVars, historyVars
<1>2. \A f \in Getters \ {g} : /\ Untouched(f) /\ cancelled'[f] = cancelled[f]
                               /\ inCall'[f] = inCall[f]
  BY DEF FetchExternal, Untouched, TypeOK
<1>3. PICK failing \in IF cancelled[g] THEN {Caches} ELSE SUBSET FailingApis :
         LET r == ExternalResult(results[g][NumLevels - 1].misses, failing)
         IN  /\ results' = [results EXCEPT ![g][External] = r]
             /\ found' = [found EXCEPT ![g] =
                             [q \in Keys |-> IF q \in r.hits THEN Source[q] ELSE @[q]]]
  BY DEF FetchExternal
<1> DEFINE r == ExternalResult(results[g][NumLevels - 1].misses, failing)
<1>4. found'[g][k] = IF k \in r.hits THEN Source[k] ELSE found[g][k]
  BY <1>1, <1>3 DEF TypeOK
<1>5. \A l \in 0 .. External : l # External => results'[g][l] = results[g][l]
  <2>1. results' = [results EXCEPT ![g][External] = r]
    BY <1>3
  <2> HIDE DEF r
  <2>2. QED
    BY <2>1 DEF TypeOK
<1>6. HitLevels(g, k) \subseteq HitLevels(g, k)'
  <2>1. \A h \in HitLevels(g, k) : h # External
    BY <1>1, CascadeInvSplits DEF HitLevels, RequestInv, Progress, NoResult
  <2>2. QED
    BY <1>5, <2>1 DEF HitLevels
<1>7. ASSUME GetterUses(g, k), k \in r.hits, latest[k] # NoValue,
             NEW l \in ReliableLevels(k)
      PROVE  FALSE
  <2>1. k \in results[g][NumLevels - 1].misses /\ CacheOf[k] \notin failing
    BY <1>7 DEF ExternalResult
  <2>2. results[g][NumLevels - 1] \in Results
    BY DEF TypeOK
  <2>3. CacheOf[k] \in Caches
    BY <2>1, <2>2 DEF KnownKeys
  <2>4. ~cancelled[g]
    BY <1>3, <2>1, <2>3
  <2>5. l \in Levels
    BY DEF ReliableLevels
  <2>6. PICK h \in HitLevels(g, k) : h <= l
    BY <1>1, <1>7, <2>4, <2>5 DEF KeyInv, Learns, FoundByNow
  <2>7. NumLevels - 1 \in Levels /\ NumLevels - 1 < h
    BY <2>1, <2>6 DEF CascadeInv, MissesAreAboveHits
  <2>8. QED
    BY <2>5, <2>6, <2>7 DEF HitLevels
<1> HIDE DEF r
<1>8. GetterUses(g, k)' => GetterUses(g, k)
  BY <1>1 DEF GetterUses
<1>9. GetterUses(g, k) => found'[g][k] \in MayHold(k)
  BY <1>4, <1>7 DEF KeyInv, Learns, MayHold
<1>10. GetterUses(g, k) => FoundByNow(g, k)'
  BY <1>1, <1>6 DEF KeyInv, Learns, FoundByNow
<1>11. QED
  BY <1>1, <1>2, <1>8, <1>9, <1>10, GetterStep

\* A step that ends the request of g, or leaves alone all it knows.
LEMMA ReleaseStep ==
    ASSUME TypeOK, NEW k \in Keys, KeyInv(k), NEW g \in Getters,
           UNCHANGED <<writeVars, latest>>,
           \A f \in Getters \ {g} : /\ Untouched(f) /\ cancelled'[f] = cancelled[f]
                                    /\ inCall'[f] = inCall[f],
           \/ asked'[g] = {}
           \/ /\ asked'[g] = asked[g] /\ level'[g] = level[g] /\ handler[g] # "idle"
              /\ results'[g] = results[g] /\ found'[g] = found[g]
              /\ cancelled'[g] = cancelled[g]
              /\ inCall'[g] => inCall[g] \/ ~cancelled[g]
    PROVE  Alone(k)' /\ Learns(k)'
<1>1. CASE asked'[g] = {}
  BY <1>1, LearnsStep DEF GetterUses
<1>2. CASE asked'[g] # {}
  <2>1. /\ asked'[g] = asked[g] /\ level'[g] = level[g] /\ handler[g] # "idle"
        /\ results'[g] = results[g] /\ found'[g] = found[g]
        /\ cancelled'[g] = cancelled[g]
        /\ inCall'[g] => inCall[g] \/ ~cancelled[g]
    BY <1>2
  <2>2. GetterUses(g, k)' => GetterUses(g, k)
    BY <2>1 DEF GetterUses
  <2>3. GetterUses(g, k)' => found'[g][k] \in MayHold(k)
    BY <2>1, <2>2 DEF KeyInv, Learns
  <2>4. HitLevels(g, k)' = HitLevels(g, k)
    BY <2>1 DEF HitLevels
  <2>5. GetterUses(g, k)' => FoundByNow(g, k)'
    BY <2>1, <2>2, <2>4 DEF KeyInv, Learns, FoundByNow
  <2>6. QED
    BY <2>2, <2>3, <2>5, LearnsStep
<1>3. QED
  BY <1>1, <1>2

\* Follows is about layers and writers only.
LEMMA FollowsStays ==
    ASSUME NEW k, Follows(k), UNCHANGED <<layer, writeVars, latest>>
    PROVE  Follows(k)'
BY DEF Follows, MayHold, Passed, WriterUses, writeVars

LEMMA ReturnKey ==
    ASSUME TypeOK, NEW g \in Getters, Return(g), NEW k \in Clean', KeyInv(k)
    PROVE  KeyInv(k)'
<1>1. /\ k \in Keys /\ handler[g] = "answering" /\ inCall' = inCall
      /\ UNCHANGED <<layer, writeVars, latest>>
  BY DEF Return, Clean, layerVars, historyVars, fillVars
<1>2. CASE Filling(g)
  <2>1. /\ handler' = [handler EXCEPT ![g] = "returned"]
        /\ UNCHANGED <<cancelled, asked, level, reqs, results, found>>
    BY <1>2 DEF Return
  <2>2. \A f \in Getters \ {g} : Untouched(f)
    BY <2>1 DEF Untouched, TypeOK
  <2>3. Alone(k)' /\ Learns(k)'
    BY <1>1, <2>1, <2>2, ReleaseStep
  <2>4. QED
    BY <1>1, <2>3, FollowsStays DEF KeyInv
<1>3. CASE ~Filling(g)
  <2>1. Forget(g)
    BY <1>3 DEF Return
  <2>2. Alone(k)' /\ Learns(k)'
    BY <1>1, <2>1, ForgetPlaces, ReleaseStep
  <2>3. QED
    BY <1>1, <2>2, FollowsStays DEF KeyInv
<1>4. QED
  BY <1>2, <1>3

LEMMA ContextDoneKey ==
    ASSUME TypeOK, NEW g \in Getters, ContextDone(g), NEW k \in Clean', KeyInv(k)
    PROVE  KeyInv(k)'
<1>1. /\ k \in Keys /\ ~cancelled[g] /\ cancelled'[g] = TRUE /\ inCall' = inCall
      /\ UNCHANGED <<layer, handler, asked, level, reqs, results, found, writeVars, latest>>
  BY DEF ContextDone, Clean, layerVars, historyVars, fillVars, TypeOK
<1>2. \A f \in Getters \ {g} : /\ Untouched(f) /\ cancelled'[f] = cancelled[f]
                               /\ inCall'[f] = inCall[f]
  BY <1>1 DEF ContextDone, Untouched, TypeOK
<1>3. GetterUses(g, k)' = GetterUses(g, k) /\ HitLevels(g, k)' = HitLevels(g, k)
  BY <1>1 DEF GetterUses, HitLevels
<1>4. GetterUses(g, k)' => found'[g][k] \in MayHold(k) /\ FoundByNow(g, k)'
  BY <1>1, <1>3 DEF KeyInv, Learns, FoundByNow
<1>5. QED
  BY <1>1, <1>2, <1>3, <1>4, GetterStep

\* The steps of a fill that change no layer.
LEMMA FillKeyStep ==
    ASSUME TypeOK, FillInv, NEW g \in Getters, FillPass(g) \/ FillRefused(g) \/ FillCall(g),
           NEW k \in Clean', KeyInv(k)
    PROVE  KeyInv(k)'
<1>1. /\ k \in Keys /\ UNCHANGED <<layer, writeVars, latest>>
      /\ handler[g] # "idle"
  BY DEF FillPass, FillRefused, FillCall, Filling, Clean, layerVars, historyVars
<1>2. CASE FillCall(g)
  <2>1. UNCHANGED getVars /\ ~cancelled[g]
    BY <1>2 DEF FillCall, FillContextDone
  <2>2. \A f \in Getters \ {g} : Untouched(f) /\ cancelled'[f] = cancelled[f]
                                 /\ inCall'[f] = inCall[f]
    BY <1>2, <2>1 DEF FillCall, getVars, Untouched, TypeOK
  <2>3. Alone(k)' /\ Learns(k)'
    BY <1>1, <2>1, <2>2, ReleaseStep DEF getVars
  <2>4. QED
    BY <1>1, <2>3, FollowsStays DEF KeyInv
<1>3. CASE FillPass(g) \/ FillRefused(g)
  <2>1. PICK i, p : FillGoesTo(g, i, p)
    BY <1>3 DEF FillPass, FillRefused, FillAdvances
  <2>2. inCall' = inCall
    BY <1>3 DEF FillPass, FillRefused
  <2>3. Alone(k)' /\ Learns(k)'
    BY <1>1, <2>1, <2>2, FillGoesToPlaces, ReleaseStep DEF Untouched
  <2>4. QED
    BY <1>1, <2>3, FollowsStays DEF KeyInv
<1>4. QED
  BY <1>2, <1>3

\* A fill that lands leaves alone the layers which surely have what was put.
LEMMA FillLandKey ==
    ASSUME TypeOK, CascadeInv, FillInv, Places, NEW g \in Getters, FillLand(g),
           NEW k \in Clean', KeyInv(k)
    PROVE  KeyInv(k)'
<1> USE LevelsAssumption
<1>1. /\ k \in Keys /\ UNCHANGED <<writeVars, latest>> /\ inCall[g]
      /\ inCall' = [inCall EXCEPT ![g] = FALSE]
      /\ handler[g] \in {"answering", "returned"} /\ level[g] = NumLevels
      /\ fillLevel[g] \in Levels /\ putLevel[g] \in Levels
      /\ putLevel[g] < fillLevel[g]
  BY DEF FillLand, Filling, Clean, historyVars, FillInv, Places, TypeOK
<1>2. PICK i, p : FillGoesTo(g, i, p)
  BY DEF FillLand, FillAdvances
<1>3. Alone(k)' /\ Learns(k)'
  <2>1. /\ ~inCall'[g] /\ handler[g] # "idle"
        /\ \A f \in Getters \ {g} : inCall'[f] = inCall[f]
    BY <1>1 DEF TypeOK
  <2>2. \/ asked'[g] = {}
        \/ /\ asked'[g] = asked[g] /\ level'[g] = level[g] /\ results'[g] = results[g]
           /\ found'[g] = found[g] /\ cancelled'[g] = cancelled[g]
    BY <1>2, FillGoesToPlaces DEF Untouched
  <2>3. \A f \in Getters \ {g} : Untouched(f) /\ cancelled'[f] = cancelled[f]
    BY <1>2, FillGoesToPlaces
  <2>4. QED
    BY <1>1, <2>1, <2>2, <2>3, ReleaseStep
<1>4. PICK S \in Applied(putLevel[g], FillKeys(g),
                   FillContextDone(g) \/ putLevel[g] \in FaultyLevels) :
               layer' = Stored(putLevel[g], S, found[g])
  BY DEF FillLand
<1>5. S \subseteq FillKeys(g)
  BY <1>4 DEF Applied
<1>6. \A l \in Levels : layer'[l][k] = IF l = putLevel[g] /\ k \in S THEN found[g][k]
                                       ELSE layer[l][k]
  BY <1>1, <1>4 DEF Stored, TypeOK
<1>7. MayHold(k)' = MayHold(k) /\ Passed(k)' = Passed(k)
  BY <1>1 DEF MayHold, Passed, WriterUses, writeVars
<1>8. ASSUME k \in S
      PROVE  /\ found[g][k] \in MayHold(k)
             /\ ~(latest[k] # NoValue /\ putLevel[g] \in ReliableLevels(k))
  <2>1. k \in results[g][fillLevel[g]].misses
    BY <1>5, <1>8 DEF FillKeys, EnabledKeys, ToPut
  <2>2. GetterUses(g, k)
    BY <1>1, <2>1 DEF GetterUses, CascadeInv, CascadeProgress
  <2>3. \A h \in HitLevels(g, k) : fillLevel[g] < h
    BY <1>1, <2>1 DEF CascadeInv, MissesAreAboveHits
  <2>4. ASSUME latest[k] # NoValue, putLevel[g] \in ReliableLevels(k)
        PROVE  FALSE
    <3>1. putLevel[g] < level[g]
      BY <1>1
    <3>2. PICK h \in HitLevels(g, k) : h <= putLevel[g]
      BY <1>1, <2>2, <2>4, <3>1 DEF KeyInv, Learns, FoundByNow
    <3>3. QED
      BY <1>1, <2>3, <3>2 DEF HitLevels
  <2>5. QED
    BY <2>2, <2>4 DEF KeyInv, Learns
<1>9. Follows(k)'
  BY <1>1, <1>6, <1>7, <1>8 DEF KeyInv, Follows, Passed
<1>10. QED
  BY <1>3, <1>9 DEF KeyInv

-----------------------------------------------------------------------------
(* The steps of the writers, of the layers and of the process *)

LEMMA StartWriteKey ==
    ASSUME TypeOK, Places, NEW w \in Writers, NEW kind \in {"put", "evict"}, NEW ids, NEW v,
           StartWrite(w, kind, ids, v), NEW k \in Clean', k \in Clean => KeyInv(k)
    PROVE  KeyInv(k)'
<1>1. /\ k \in Keys /\ UNCHANGED <<layer, getVars, inCall, wlevel>>
      /\ op[w] = "idle" /\ op'[w] # "idle" /\ batch'[w] = KnownKeys(ids)
      /\ newValue'[w] = v /\ wlevel[w] = 0 /\ batch[w] = {}
      /\ latest'[k] = IF k \in KnownKeys(ids) THEN v ELSE latest[k]
      /\ \A u \in Writers \ {w} : /\ op'[u] = op[u] /\ batch'[u] = batch[u]
                                  /\ newValue'[u] = newValue[u]
  BY DEF StartWrite, Clean, TypeOK, layerVars, fillVars, Places
<1>2. /\ \A g \in Getters : GetterUses(g, k)' = GetterUses(g, k)
      /\ \A u \in Writers \ {w} : WriterUses(u, k)' = WriterUses(u, k)
      /\ ~WriterUses(w, k) /\ WriterUses(w, k)' = (k \in KnownKeys(ids))
  BY <1>1 DEF GetterUses, WriterUses, getVars
<1>3. CASE k \in KnownKeys(ids)
  <2>1. k \notin BusyKeys
    BY <1>3 DEF StartWrite, Clean
  <2>2. /\ \A g \in Getters : ~GetterUses(g, k)
        /\ \A u \in Writers : ~WriterUses(u, k)
    BY <1>1, <2>1 DEF BusyKeys
  <2>3. Alone(k)'
    BY <1>1, <1>2, <1>3, <2>2 DEF Alone
  <2>4. Passed(k)' = {}
    <3>1. WriterUses(w, k)' /\ wlevel'[w] = 0
      BY <1>1, <1>2, <1>3
    <3>2. \A l \in Levels : ~(l < 0)
      BY LevelsAssumption
    <3>3. QED
      BY <3>1, <3>2 DEF Passed
  <2>5. Follows(k)' /\ Learns(k)'
    BY <1>2, <2>2, <2>4 DEF Follows, Learns
  <2>6. QED
    BY <2>3, <2>5 DEF KeyInv
<1>4. CASE k \notin KnownKeys(ids)
  <2>1. k \in Clean
    BY <1>4 DEF StartWrite, Clean
  <2>2. /\ MayHold(k)' = MayHold(k) /\ latest'[k] = latest[k]
        /\ \A u \in Writers : WriterUses(u, k)' <=> WriterUses(u, k)
    <3>1. latest'[k] = latest[k]
      BY <1>1, <1>4
    <3>2. \A u \in Writers : WriterUses(u, k)' <=> WriterUses(u, k)
      BY <1>2, <1>4
    <3>3. QED
      BY <3>1, <3>2 DEF MayHold
  <2>3. Alone(k)'
    BY <1>1, <1>2, <2>1, <2>2 DEF KeyInv, Alone
  <2>4. Follows(k)'
    BY <1>1, <2>1, <2>2 DEF KeyInv, Follows, Passed
  <2>5. Learns(k)'
    BY <1>1, <1>2, <2>1, <2>2 DEF KeyInv, Learns, FoundByNow, HitLevels, getVars
  <2>6. QED
    BY <2>3, <2>4, <2>5 DEF KeyInv
<1>5. QED
  BY <1>3, <1>4

\* A layer a write has passed without an error holds what it wrote.
LEMMA WriteLayerKey ==
    ASSUME TypeOK, DisabledLayersEmpty', NEW w \in Writers, op[w] # "idle", WriteLayer(w),
           NEW k \in Clean', KeyInv(k)
    PROVE  KeyInv(k)'
<1> USE LevelsAssumption
<1> DEFINE m == wlevel[w]
<1>1. PICK S \in WriterApplies(w, m) :
         /\ layer' = Stored(m, S, [q \in Keys |-> newValue[w]])
         /\ failed' = failed \cup (EnabledKeys(m, batch[w]) \ S)
         /\ NextLayer(w)
         /\ UNCHANGED <<getVars, fillVars, latest, recent, overlapped>>
  BY DEF WriteLayer
<1>2. S \subseteq batch[w]
  BY <1>1 DEF WriterApplies, Applied, EnabledKeys
<1>3. /\ k \in Keys /\ m \in Levels /\ UNCHANGED <<getVars, inCall, latest>>
      /\ batch[w] \in SUBSET KnownKeys(Keys)
  BY <1>1 DEF Clean, TypeOK, fillVars
<1>4. \A l \in Levels : layer'[l][k] = IF l = m /\ k \in S THEN newValue[w]
                                       ELSE layer[l][k]
  BY <1>1, <1>3 DEF Stored, TypeOK
<1>5. /\ \A u \in Writers \ {w} : /\ WriterUses(u, k)' = WriterUses(u, k)
                                  /\ wlevel'[u] = wlevel[u] /\ newValue'[u] = newValue[u]
      /\ WriterUses(w, k)' => /\ WriterUses(w, k) /\ wlevel'[w] = m + 1
                              /\ newValue'[w] = newValue[w]
      /\ ~WriterUses(w, k)' /\ WriterUses(w, k) => m = NumLevels - 1
  BY <1>1, NextLayerPlaces DEF WriterUses
<1>6. /\ MayHold(k)' = MayHold(k)
      /\ \A g \in Getters : /\ GetterUses(g, k)' = GetterUses(g, k)
                            /\ HitLevels(g, k)' = HitLevels(g, k)
  BY <1>3 DEF MayHold, GetterUses, HitLevels, getVars
<1>7. Alone(k)'
  BY <1>3, <1>5, <1>6 DEF KeyInv, Alone
<1>8. Learns(k)'
  BY <1>3, <1>6 DEF KeyInv, Learns, FoundByNow, getVars
<1>9. CASE WriterUses(w, k)
  <2>1. /\ newValue[w] = latest[k] /\ k \in batch[w]
        /\ \A u \in Writers : WriterUses(u, k) => u = w
    BY <1>9 DEF KeyInv, Alone, WriterUses
  <2>2. Enabled(m, k) => k \in S
    BY <1>1, <2>1 DEF Clean, EnabledKeys, Enabled
  <2>3. k \in S => layer'[m][k] = latest[k]
    BY <1>3, <1>4, <2>1
  <2>4. k \notin S => layer'[m][k] = NoValue /\ m \notin ReliableLevels(k)
    BY <1>3, <2>2 DEF DisabledLayersEmpty, Enabled, ReliableLevels
  <2>5. \A l \in Passed(k)' : l = m \/ l \in Passed(k)
    BY <1>3, <1>5, <2>1, <1>9 DEF Passed, TypeOK
  <2>6. \A l \in Passed(k)' : l # m => layer'[l][k] = layer[l][k]
    BY <1>4 DEF Passed
  <2>7. layer'[m][k] \in MayHold(k)
    BY <2>3, <2>4 DEF MayHold
  <2>8. Follows(k)'
    BY <1>3, <1>6, <2>3, <2>4, <2>5, <2>6, <2>7 DEF KeyInv, Follows
  <2>9. QED
    BY <1>7, <1>8, <2>8 DEF KeyInv
<1>10. CASE ~WriterUses(w, k)
  <2>1. k \notin S
    BY <1>2, <1>10 DEF WriterUses
  <2>2. Passed(k)' = Passed(k)
    BY <1>5, <1>10 DEF Passed
  <2>3. Follows(k)'
    BY <1>3, <1>4, <1>6, <2>1, <2>2 DEF KeyInv, Follows, Passed
  <2>4. QED
    BY <1>7, <1>8, <2>3 DEF KeyInv
<1>11. QED
  BY <1>9, <1>10

\* A step that lets layers forget keys, but no layer that is reliable for k.
LEMMA LayersForget ==
    ASSUME NEW k \in Keys, KeyInv(k), latest' = latest,
           \A l \in Levels : \/ layer'[l][k] = layer[l][k]
                             \/ layer'[l][k] = NoValue /\ l \notin ReliableLevels(k),
           \A l \in Passed(k)' : l \in Passed(k)
    PROVE  Follows(k)'
<1>1. MayHold(k)' = MayHold(k) /\ NoValue \in MayHold(k)
  BY DEF MayHold
<1>2. \A l \in Passed(k)' : l \in Levels
  BY DEF Passed
<1>3. QED
  BY <1>1, <1>2 DEF KeyInv, Follows

LEMMA LoseKey ==
    ASSUME TypeOK, NEW m \in Levels, NEW q \in Keys, Lose(m, q),
           NEW k \in Clean', KeyInv(k)
    PROVE  KeyInv(k)'
<1>1. k \in Keys /\ UNCHANGED <<getVars, inCall, writeVars, latest>>
  BY DEF Lose, Clean, fillVars, historyVars
<1>2. \A l \in Levels : \/ layer'[l][k] = layer[l][k]
                        \/ layer'[l][k] = NoValue /\ l \notin ReliableLevels(k)
  BY DEF Lose, TypeOK, ReliableLevels
<1>3. Follows(k)'
  BY <1>1, <1>2, LayersForget DEF Passed, WriterUses, writeVars
<1>4. Alone(k)' /\ Learns(k)'
  BY <1>1 DEF KeyInv, Alone, Learns, FoundByNow, MayHold, HitLevels, GetterUses,
              WriterUses, getVars, writeVars
<1>5. QED
  BY <1>3, <1>4 DEF KeyInv

LEMMA CrashKey ==
    ASSUME TypeOK, Crash, NEW k \in Clean', KeyInv(k)
    PROVE  KeyInv(k)'
<1>1. k \in Keys /\ k \notin WrittenKeys /\ latest' = latest
  BY DEF Crash, Clean
<1>2. \A w \in Writers : ~WriterUses(w, k) /\ ~WriterUses(w, k)'
  BY <1>1 DEF Crash, WrittenKeys, WriterUses
<1>3. \A g \in Getters : ~GetterUses(g, k)'
  BY DEF Crash, GetterUses
<1>4. \A l \in Levels : \/ layer'[l][k] = layer[l][k]
                        \/ layer'[l][k] = NoValue /\ l \notin ReliableLevels(k)
  BY <1>1 DEF Crash, TypeOK, ReliableLevels
<1>5. Follows(k)'
  BY <1>1, <1>2, <1>4, LayersForget DEF Passed
<1>6. QED
  BY <1>2, <1>3, <1>5 DEF KeyInv, Alone, Learns

\* A step that changes at most what a writer's context says.
LEMMA UnmovedKey ==
    ASSUME NEW k, KeyInv(k),
           UNCHANGED <<layer, getVars, inCall, op, batch, newValue, wlevel, latest>>
    PROVE  KeyInv(k)'
BY DEF KeyInv, Alone, Follows, Passed, Learns, FoundByNow, MayHold, HitLevels,
       GetterUses, WriterUses, getVars

-----------------------------------------------------------------------------
(* The invariant *)

LEMMA LastWriteInit == TypeOK /\ Init => LastWriteInv
<1> SUFFICES ASSUME TypeOK, Init
             PROVE  LastWriteInv
  OBVIOUS
<1>1. Places
  BY DEF Init, Places
<1>2. ASSUME NEW k \in Clean
      PROVE  KeyInv(k)
  <2>1. k \in Keys /\ latest[k] = NoValue /\ \A l \in Levels : layer[l][k] = NoValue
    BY DEF Clean, Init
  <2>2. Follows(k)
    BY <2>1 DEF Follows, Passed, MayHold
  <2>3. Alone(k) /\ Learns(k)
    BY DEF Init, Alone, Learns, WriterUses, GetterUses
  <2>4. QED
    BY <2>2, <2>3 DEF KeyInv
<1>3. QED
  BY <1>1, <1>2 DEF LastWriteInv

\* Only the start of another write makes a key clean again.
LEMMA CleanShrinks ==
    ASSUME [Next]_vars,
           ~ \E w \in Writers, kind \in {"put", "evict"}, ids \in Batches,
                v \in Values \cup {NoValue} : StartWrite(w, kind, ids, v)
    PROVE  Clean' \subseteq Clean
<1>1. ASSUME overlapped \subseteq overlapped', failed \subseteq failed'
      PROVE  Clean' \subseteq Clean
  BY <1>1 DEF Clean
<1>2. CASE UNCHANGED historyVars
  BY <1>1, <1>2 DEF historyVars
<1>3. ASSUME NEW g \in Getters, Cascade(g)
      PROVE  Clean' \subseteq Clean
  BY <1>1, <1>2, <1>3 DEF Cascade, LayerAnswers, LayerUnavailable, FetchExternal, Return
<1>4. ASSUME NEW w \in Writers, WriteLayer(w)
      PROVE  Clean' \subseteq Clean
  BY <1>1, <1>4 DEF WriteLayer
<1>5. ASSUME NEW g \in Getters, NEW ids, StartGet(g, ids)
      PROVE  Clean' \subseteq Clean
  BY <1>1, <1>5 DEF StartGet
<1>6. CASE Crash
  BY <1>1, <1>6 DEF Crash
<1>7. ASSUME NEW g \in Getters, Fill(g) \/ ContextDone(g)
      PROVE  Clean' \subseteq Clean
  BY <1>2, <1>7 DEF Fill, FillPass, FillRefused, FillCall, FillLand, ContextDone
<1>8. QED
  BY <1>2, <1>3, <1>4, <1>5, <1>6, <1>7
     DEF Next, Write, StartPut, StartEvict, PutLayer, DeleteLayer, Expire, Lose, vars

LEMMA LastWriteStep ==
    ASSUME TypeOK, CascadeInv, FillInv, DisabledLayersEmpty', LastWriteInv, [Next]_vars
    PROVE  LastWriteInv'
<1>1. Places /\ Places' /\ \A k \in Clean : KeyInv(k)
  BY PlacesStep DEF LastWriteInv
<1>2. CASE \E w \in Writers, kind \in {"put", "evict"}, ids \in Batches,
              v \in Values \cup {NoValue} : StartWrite(w, kind, ids, v)
  BY <1>1, <1>2, StartWriteKey DEF LastWriteInv
<1>3. CASE ~ \E w \in Writers, kind \in {"put", "evict"}, ids \in Batches,
                v \in Values \cup {NoValue} : StartWrite(w, kind, ids, v)
  <2>1. SUFFICES ASSUME NEW k \in Clean', KeyInv(k)
                 PROVE  KeyInv(k)'
    BY <1>1, <1>3, CleanShrinks DEF LastWriteInv
  <2>2. ASSUME NEW g \in Getters, Cascade(g)
        PROVE  KeyInv(k)'
    BY <2>1, <2>2, LayerAnswersKey, LayerUnavailableKey, FetchExternalKey, ReturnKey
       DEF Cascade
  <2>3. ASSUME NEW g \in Getters, Fill(g)
        PROVE  KeyInv(k)'
    BY <1>1, <2>1, <2>3, FillKeyStep, FillLandKey DEF Fill
  <2>4. ASSUME NEW w \in Writers, Write(w)
        PROVE  KeyInv(k)'
    BY <2>1, <2>4, WriteLayerKey DEF Write, PutLayer, DeleteLayer
  <2>5. ASSUME NEW g \in Getters, (\E ids \in Batches : StartGet(g, ids)) \/ ContextDone(g)
        PROVE  KeyInv(k)'
    BY <1>1, <2>1, <2>5, StartGetKey, ContextDoneKey
  <2>6. ASSUME NEW w \in Writers, Expire(w)
        PROVE  KeyInv(k)'
    BY <2>1, <2>6, UnmovedKey DEF Expire, layerVars, fillVars, historyVars
  <2>7. CASE UNCHANGED vars
    BY <2>1, <2>7, UnmovedKey DEF vars, layerVars, fillVars, historyVars, writeVars
  <2>8. ASSUME NEW l \in Levels, NEW q \in Keys, Lose(l, q)
        PROVE  KeyInv(k)'
    BY <2>1, <2>8, LoseKey
  <2>9. CASE Crash
    BY <2>1, <2>9, CrashKey
  <2>10. ASSUME NEW w \in Writers, NEW ids \in Batches,
                StartEvict(w, ids) \/ \E v \in Values : StartPut(w, ids, v)
         PROVE  FALSE
    BY <1>3, <2>10 DEF StartPut, StartEvict
  <2>11. QED
    BY <2>2, <2>3, <2>4, <2>5, <2>6, <2>7, <2>8, <2>9, <2>10 DEF Next
<1>4. QED
  BY <1>2, <1>3

LEMMA LastWriteInvariant == Spec => []LastWriteInv
<1>1. TypeOK /\ Init => LastWriteInv
  BY LastWriteInit
<1>2. TypeOK /\ CascadeInv /\ FillInv /\ DisabledLayersEmpty' /\ LastWriteInv /\ [Next]_vars
        => LastWriteInv'
  BY LastWriteStep
<1>3. QED
  BY <1>1, <1>2, TypeCorrect, CascadeInvariant, FillInvariant, DisabledLayersStayEmpty, PTL
     DEF Spec

\* A settled key is clean and its write has passed all layers.
LEMMA SettledPassed ==
    ASSUME LastWriteInv, NEW k \in Settled
    PROVE  k \in Keys /\ KeyInv(k) /\ Passed(k) = Levels
BY DEF LastWriteInv, Settled, Clean, Passed, WrittenKeys

\* For any number of layers, requests and writers: when the last write of a key
\* overlapped no other use and met no error, each layer holds its value, nothing
\* or the external source's, and a layer that forgets nothing holds its value.
\* Neither a fill in flight nor a restart brings back what was replaced.
THEOREM LayersFollowLastWrite == Spec => []LayersReflectLastWrite
<1>1. LastWriteInv => LayersReflectLastWrite
  BY SettledPassed DEF LayersReflectLastWrite, KeyInv, Follows, MayHold
<1>2. QED
  BY <1>1, LastWriteInvariant, PTL

\* A GET that overlaps no write answers with the last put, the external source
\* or nothing, and surely with the last put when some layer forgets nothing.
THEOREM AnswersFollowLastWrite == Spec => []AnswersLastWrite
<1>1. ASSUME TypeOK, CascadeInv, LastWriteInv, NEW g \in Getters,
             handler[g] = "answering", NEW k \in Settled \cap asked[g]
      PROVE  /\ found[g][k] \in {NoValue, latest[k], Source[k]}
             /\ latest[k] # NoValue /\ ReliableLevels(k) # {} /\ ~cancelled[g]
                   => found[g][k] = latest[k]
  <2>1. GetterUses(g, k) /\ found[g][k] \in MayHold(k) /\ FoundByNow(g, k)
    BY <1>1, SettledPassed DEF GetterUses, KeyInv, Learns
  <2>2. ASSUME latest[k] # NoValue, NEW l \in ReliableLevels(k), ~cancelled[g]
        PROVE  found[g][k] # NoValue
    <3>1. l < level[g]
      BY <1>1, LevelsAssumption DEF LastWriteInv, Places, ReliableLevels
    <3>2. HitLevels(g, k) # {}
      BY <2>1, <2>2, <3>1 DEF FoundByNow
    <3>3. QED
      BY <1>1, <3>2 DEF CascadeInv, CascadeAccounts
  <2>3. QED
    BY <2>1, <2>2 DEF MayHold
<1>2. TypeOK /\ CascadeInv /\ LastWriteInv => AnswersLastWrite
  BY <1>1 DEF AnswersLastWrite
<1>3. QED
  BY <1>2, TypeCorrect, CascadeInvariant, LastWriteInvariant, PTL

-----------------------------------------------------------------------------
(* The last layer, whatever overlaps *)

LastLevel == NumLevels - 1

\* What the writes of k that are not over put is among what k may come to hold.
WritesAreRecent(k) == \A w \in Writers : WriterUses(w, k) => newValue[w] \in recent[k]

\* The last layer may hold of k what the last write, or one in flight with it, left.
LastFollows(k) ==
    k \notin failed \cup WrittenKeys =>
        /\ layer[LastLevel][k] \in recent[k] \cup {NoValue}
        /\ LastLevel \in ReliableLevels(k) => layer[LastLevel][k] \in recent[k]

LastLayerInv == Places /\ \A k \in Keys : WritesAreRecent(k) /\ LastFollows(k)

LEMMA LastLayerInit == Init => LastLayerInv
<1>1. Init => Places
  BY DEF Init, Places
<1>2. ASSUME Init, NEW k \in Keys
      PROVE  WritesAreRecent(k) /\ LastFollows(k)
  BY <1>2, LevelsAssumption DEF Init, WritesAreRecent, LastFollows, WriterUses, LastLevel
<1>3. QED
  BY <1>1, <1>2 DEF LastLayerInv

\* A step of no writer that leaves the key alone in the last layer, or loses it.
LEMMA LastFollowsStays ==
    ASSUME NEW k \in Keys, WritesAreRecent(k), LastFollows(k),
           UNCHANGED <<op, batch, newValue, recent>>, failed \subseteq failed',
           \/ layer'[LastLevel][k] = layer[LastLevel][k]
           \/ layer'[LastLevel][k] = NoValue /\ LastLevel \notin ReliableLevels(k)
    PROVE  WritesAreRecent(k)' /\ LastFollows(k)'
<1>1. /\ \A w \in Writers : WriterUses(w, k)' = WriterUses(w, k)
      /\ WrittenKeys' = WrittenKeys
  BY DEF WriterUses, WrittenKeys
<1>2. WritesAreRecent(k)'
  BY <1>1 DEF WritesAreRecent
<1>3. LastFollows(k)'
  BY <1>1 DEF LastFollows
<1>4. QED
  BY <1>2, <1>3

\* No fill reaches the last layer.
LEMMA FillLandLast ==
    ASSUME TypeOK, FillInv, NEW g \in Getters, FillLand(g), NEW k \in Keys
    PROVE  layer'[LastLevel][k] = layer[LastLevel][k]
<1>1. fillLevel[g] < NumLevels /\ putLevel[g] < fillLevel[g]
  BY DEF FillLand, Filling, FillInv
<1>2. putLevel[g] \in Levels /\ fillLevel[g] \in 1 .. NumLevels
  BY DEF TypeOK
<1>3. putLevel[g] # LastLevel /\ LastLevel \in Levels
  BY <1>1, <1>2, LevelsAssumption DEF LastLevel
<1>4. PICK S : layer' = Stored(putLevel[g], S, found[g])
  BY DEF FillLand
<1>5. layer \in [Levels -> [Keys -> Values \cup {NoValue}]]
  BY DEF TypeOK
<1>6. QED
  BY <1>2, <1>3, <1>4, <1>5 DEF Stored

LEMMA StartWriteLast ==
    ASSUME TypeOK, Places, NEW w \in Writers, NEW kind \in {"put", "evict"}, NEW ids, NEW v,
           StartWrite(w, kind, ids, v), NEW k \in Keys, WritesAreRecent(k), LastFollows(k)
    PROVE  WritesAreRecent(k)' /\ LastFollows(k)'
<1>0. /\ op \in [Writers -> {"idle", "put", "evict"}]
      /\ batch \in [Writers -> SUBSET KnownKeys(Keys)]
      /\ newValue \in [Writers -> Values \cup {NoValue}]
  BY DEF TypeOK
<1>1. /\ layer' = layer /\ op[w] = "idle"
      /\ op'[w] = kind /\ batch'[w] = KnownKeys(ids) /\ newValue'[w] = v
      /\ recent'[k] = IF k \in KnownKeys(ids) THEN InFlight(k) \cup {v} ELSE recent[k]
      /\ failed' = failed \ KnownKeys(ids)
      /\ \A u \in Writers \ {w} : /\ op'[u] = op[u] /\ batch'[u] = batch[u]
                                  /\ newValue'[u] = newValue[u]
  BY <1>0 DEF StartWrite, layerVars
<1>2. /\ \A u \in Writers \ {w} : WriterUses(u, k)' = WriterUses(u, k)
      /\ ~WriterUses(w, k) /\ WriterUses(w, k)' = (k \in KnownKeys(ids))
  BY <1>1 DEF WriterUses
<1>3. \A u \in Writers : WriterUses(u, k) => newValue[u] \in InFlight(k)
  BY DEF InFlight
<1>4. WritesAreRecent(k)'
  BY <1>1, <1>2, <1>3 DEF WritesAreRecent
<1>5. k \in KnownKeys(ids) => k \in WrittenKeys'
  BY <1>2 DEF WrittenKeys
<1>6. k \notin KnownKeys(ids) => (k \in WrittenKeys' <=> k \in WrittenKeys)
  BY <1>2 DEF WrittenKeys
<1>7. LastFollows(k)'
  BY <1>1, <1>5, <1>6 DEF LastFollows
<1>8. QED
  BY <1>4, <1>7

\* A write of k that ends without an error has left its value in the last layer.
LEMMA WriteLayerLast ==
    ASSUME TypeOK, DisabledLayersEmpty', NEW w \in Writers, op[w] # "idle", WriteLayer(w),
           NEW k \in Keys, WritesAreRecent(k), LastFollows(k)
    PROVE  WritesAreRecent(k)' /\ LastFollows(k)'
<1> DEFINE m == wlevel[w]
<1>1. PICK S \in WriterApplies(w, m) :
         /\ layer' = Stored(m, S, [q \in Keys |-> newValue[w]])
         /\ failed' = failed \cup (EnabledKeys(m, batch[w]) \ S)
         /\ NextLayer(w)
         /\ UNCHANGED <<getVars, fillVars, latest, recent, overlapped>>
  BY DEF WriteLayer
<1>2. S \subseteq batch[w]
  BY <1>1 DEF WriterApplies, Applied, EnabledKeys
<1>3. /\ m \in Levels /\ LastLevel \in Levels /\ batch[w] \in SUBSET KnownKeys(Keys)
      /\ layer \in [Levels -> [Keys -> Values \cup {NoValue}]]
  BY LevelsAssumption DEF TypeOK, LastLevel
<1>4. layer'[LastLevel][k] = IF LastLevel = m /\ k \in S THEN newValue[w]
                             ELSE layer[LastLevel][k]
  BY <1>1, <1>3 DEF Stored
<1>5. /\ \A u \in Writers \ {w} : /\ WriterUses(u, k)' = WriterUses(u, k)
                                  /\ newValue'[u] = newValue[u]
      /\ WriterUses(w, k)' => WriterUses(w, k) /\ newValue'[w] = newValue[w]
      /\ ~WriterUses(w, k)' /\ WriterUses(w, k) => m = LastLevel
  BY <1>1, NextLayerPlaces DEF WriterUses, LastLevel
<1>6. WritesAreRecent(k)'
  BY <1>1, <1>5 DEF WritesAreRecent
<1>7. CASE WriterUses(w, k) /\ ~WriterUses(w, k)'
  <2>1. m = LastLevel /\ k \in batch[w] /\ newValue[w] \in recent[k]
    BY <1>5, <1>7 DEF WriterUses, WritesAreRecent
  <2>2. CASE k \in S
    BY <1>1, <1>4, <1>6, <2>1, <2>2 DEF LastFollows
  <2>3. CASE k \notin S /\ Enabled(LastLevel, k)
    <3>1. k \in EnabledKeys(m, batch[w])
      BY <2>1, <2>3 DEF Enabled, EnabledKeys
    <3>2. QED
      BY <1>1, <1>6, <2>3, <3>1 DEF LastFollows
  <2>4. CASE ~Enabled(LastLevel, k)
    <3>1. layer'[LastLevel][k] = NoValue /\ LastLevel \notin ReliableLevels(k)
      BY <1>3, <2>4 DEF DisabledLayersEmpty, ReliableLevels
    <3>2. QED
      BY <1>6, <3>1 DEF LastFollows
  <2>5. QED
    BY <1>6, <2>2, <2>3, <2>4
<1>8. CASE WriterUses(w, k) /\ WriterUses(w, k)'
  BY <1>6, <1>8 DEF LastFollows, WrittenKeys
<1>9. CASE ~WriterUses(w, k)
  <2>1. k \notin S
    BY <1>1, <1>2, <1>9 DEF WriterUses
  <2>2. k \in WrittenKeys' <=> k \in WrittenKeys
    BY <1>5, <1>9 DEF WrittenKeys
  <2>3. LastFollows(k)'
    BY <1>1, <1>4, <2>1, <2>2 DEF LastFollows
  <2>4. QED
    BY <1>6, <2>3
<1>10. QED
  BY <1>7, <1>8, <1>9

LEMMA CrashLast ==
    ASSUME TypeOK, Crash, NEW k \in Keys, LastFollows(k)
    PROVE  WritesAreRecent(k)' /\ LastFollows(k)'
<1>1. \A w \in Writers : ~WriterUses(w, k)'
  BY DEF Crash, WriterUses
<1>2. LastLevel \in Levels
  BY LevelsAssumption DEF LastLevel
<1>3. /\ recent' = recent /\ failed' = failed \cup WrittenKeys
      /\ \/ layer'[LastLevel][k] = layer[LastLevel][k]
         \/ layer'[LastLevel][k] = NoValue /\ LastLevel \notin ReliableLevels(k)
  BY <1>2 DEF Crash, ReliableLevels
<1>4. LastFollows(k)'
  BY <1>3 DEF LastFollows
<1>5. QED
  BY <1>1, <1>4 DEF WritesAreRecent

LEMMA LastLayerStep ==
    ASSUME TypeOK, FillInv, DisabledLayersEmpty', LastLayerInv, [Next]_vars
    PROVE  LastLayerInv'
<1>1. Places'
  BY PlacesStep DEF LastLayerInv
<1>2. SUFFICES ASSUME NEW k \in Keys, WritesAreRecent(k), LastFollows(k)
               PROVE  WritesAreRecent(k)' /\ LastFollows(k)'
  BY <1>1 DEF LastLayerInv
<1>3. ASSUME NEW g \in Getters,
             (\E ids \in Batches : StartGet(g, ids)) \/ Cascade(g) \/ ContextDone(g)
      PROVE  WritesAreRecent(k)' /\ LastFollows(k)'
  <2>1. UNCHANGED <<layer, op, batch, newValue, recent>> /\ failed \subseteq failed'
    BY <1>3 DEF StartGet, Cascade, LayerAnswers, LayerUnavailable, FetchExternal, Return,
                ContextDone, layerVars, writeVars, historyVars
  <2>2. QED
    BY <1>2, <2>1, LastFollowsStays
<1>4. ASSUME NEW g \in Getters, Fill(g)
      PROVE  WritesAreRecent(k)' /\ LastFollows(k)'
  <2>1. UNCHANGED <<op, batch, newValue, recent, failed>>
    BY <1>4 DEF Fill, FillPass, FillRefused, FillCall, FillLand, writeVars, historyVars
  <2>2. layer'[LastLevel][k] = layer[LastLevel][k]
    BY <1>4, FillLandLast DEF Fill, FillPass, FillRefused, FillCall, layerVars
  <2>3. QED
    BY <1>2, <2>1, <2>2, LastFollowsStays
<1>5. ASSUME NEW w \in Writers, NEW ids \in Batches,
             StartEvict(w, ids) \/ \E v \in Values : StartPut(w, ids, v)
      PROVE  WritesAreRecent(k)' /\ LastFollows(k)'
  BY <1>2, <1>5, StartWriteLast DEF LastLayerInv, StartEvict, StartPut
<1>6. ASSUME NEW w \in Writers, Write(w)
      PROVE  WritesAreRecent(k)' /\ LastFollows(k)'
  BY <1>2, <1>6, WriteLayerLast DEF Write, PutLayer, DeleteLayer
<1>7. ASSUME NEW w \in Writers, Expire(w)
      PROVE  WritesAreRecent(k)' /\ LastFollows(k)'
  <2>1. UNCHANGED <<layer, op, batch, newValue, recent, failed>>
    BY <1>7 DEF Expire, layerVars, historyVars
  <2>2. QED
    BY <1>2, <2>1, LastFollowsStays
<1>8. ASSUME NEW l \in Levels, NEW q \in Keys, Lose(l, q)
      PROVE  WritesAreRecent(k)' /\ LastFollows(k)'
  <2>1. layer \in [Levels -> [Keys -> Values \cup {NoValue}]] /\ LastLevel \in Levels
    BY LevelsAssumption DEF TypeOK, LastLevel
  <2>2. \/ layer'[LastLevel][k] = layer[LastLevel][k]
        \/ layer'[LastLevel][k] = NoValue /\ LastLevel \notin ReliableLevels(k)
    BY <1>8, <2>1 DEF Lose, ReliableLevels
  <2>3. UNCHANGED <<op, batch, newValue, recent, failed>>
    BY <1>8 DEF Lose, writeVars, historyVars
  <2>4. QED
    BY <1>2, <2>2, <2>3, LastFollowsStays
<1>9. CASE Crash
  BY <1>2, <1>9, CrashLast
<1>10. CASE UNCHANGED vars
  <2>1. UNCHANGED <<layer, op, batch, newValue, recent, failed>>
    BY <1>10 DEF vars, layerVars, writeVars, historyVars
  <2>2. QED
    BY <1>2, <2>1, LastFollowsStays
<1>11. QED
  BY <1>3, <1>4, <1>5, <1>6, <1>7, <1>8, <1>9, <1>10 DEF Next

\* For any number of layers, requests and writers that overlap as they like: the
\* last layer ends up with what the last write of a key, or one it met in flight,
\* asked for, or without the key when it may forget; late fills never reach it.
THEOREM LastLayerFollows == Spec => []LastLayerFollowsWrites
<1>1. LastLayerInv => LastLayerFollowsWrites
  BY DEF LastLayerInv, LastLayerFollowsWrites, LastFollows, LastLevel
<1>2. TypeOK /\ FillInv /\ DisabledLayersEmpty' /\ LastLayerInv /\ [Next]_vars
        => LastLayerInv'
  BY LastLayerStep
<1>3. QED
  BY <1>1, <1>2, LastLayerInit, TypeCorrect, FillInvariant, DisabledLayersStayEmpty, PTL
     DEF Spec
=============================================================================
