--------------------------- MODULE ExternalProofs ---------------------------
(***************************************************************************)
(* The fan-out to the external APIs for any number of keys, caches and     *)
(* slots: its counters, its merged result, and that it implements          *)
(* ExternalSource.                                                         *)
(***************************************************************************)
EXTENDS ExternalFetch, FiniteSetTheorems, TLAPS

\* Which goroutines exist, and what each of them has found out.
CallState ==
    /\ pc = "idle" => asked = {} /\ \A n \in Names : worker[n] = "none"
    /\ pc = "returned" => \A n \in Names : worker[n] \in {"none", "done"}
    /\ pc = "returned" => todo = {}
    /\ \A n \in Names : n \in todo => worker[n] = "none"
    /\ \A k \in asked : worker[CacheOf[k]] = "none" => CacheOf[k] \in todo
    /\ \A n \in Names : worker[n] \in {"merging", "merged", "freed", "done"} =>
           mine[n] \in {AllSkipped(n), Classify(n)}

\* The merged result is made of the results of the merged groups.
FinalState ==
    /\ final.hits = {k \in asked : CacheOf[k] \in Merged /\ k \in mine[CacheOf[k]].hits}
    /\ final.misses = {k \in asked : CacheOf[k] \in Merged /\ k \in mine[CacheOf[k]].misses}
    /\ final.skipped = {k \in asked : CacheOf[k] \in Merged /\ k \in mine[CacheOf[k]].skipped}

IInv == TypeOK /\ CountsAgree /\ CallState /\ FinalState

LEMMA NamesOfKeys == \A k \in Keys : CacheOf[k] \in Names
BY DEF Names

LEMMA CountsFinite ==
    /\ IsFiniteSet(Holding) /\ Cardinality(Holding) \in Nat
    /\ IsFiniteSet(Running) /\ Cardinality(Running) \in Nat
<1>1. Holding \in SUBSET Names /\ Running \in SUBSET Names
  BY DEF Holding, Running
<1>2. QED
  BY <1>1, NamesAssumption, FS_Subset, FS_CardinalityType

LEMMA InitInv == Init => IInv
<1> SUFFICES ASSUME Init
             PROVE  IInv
  OBVIOUS
<1>1. TypeOK
  <2>1. Empty \in Results
    BY DEF Empty, Results
  <2>2. worker \in [Names -> {"none", "fetching", "merging", "merged", "freed", "done"}]
    BY DEF Init
  <2>3. mine \in [Names -> Results] /\ final \in Results
    BY <2>1 DEF Init
  <2>4. slots \in 0 .. MaxParallel /\ wg \in Nat
    BY ParallelAssumption DEF Init
  <2>5. QED
    BY <2>2, <2>3, <2>4 DEF Init, TypeOK
<1>2. Holding = {} /\ Running = {} /\ Merged = {}
  BY DEF Init, Holding, Running, Merged
<1>3. CountsAgree
  BY <1>2, FS_EmptySet DEF Init, CountsAgree
<1>4. CallState
  BY DEF Init, CallState
<1>5. FinalState
  BY <1>2 DEF Init, FinalState, Empty
<1>6. QED
  BY <1>1, <1>3, <1>4, <1>5 DEF IInv

-----------------------------------------------------------------------------
(* One step *)

LEMMA CallInv == ASSUME IInv, NEW ids \in SUBSET Keys, Call(ids) PROVE IInv'
<1>1. TypeOK'
  BY DEF Call, IInv, TypeOK, Names, workerVars, countVars
<1>2. Holding' = Holding /\ Running' = Running /\ Merged' = {} /\ Merged = {}
  BY DEF Call, IInv, CallState, Holding, Running, Merged, workerVars
<1>3. CountsAgree'
  BY <1>2 DEF Call, IInv, CountsAgree, countVars
<1>4. CallState'
  BY NamesOfKeys DEF Call, IInv, CallState, workerVars
<1>5. FinalState'
  BY <1>2 DEF Call, IInv, FinalState, workerVars
<1>6. QED
  BY <1>1, <1>3, <1>4, <1>5 DEF IInv

LEMMA SpawnInv == ASSUME IInv, NEW n \in Names, Spawn(n) PROVE IInv'
<1>1. TypeOK'
  BY ParallelAssumption DEF Spawn, IInv, TypeOK
<1>2. worker[n] = "none"
  BY DEF Spawn, IInv, CallState
<1>3. /\ Holding' = Holding \cup {n} /\ n \notin Holding
      /\ Running' = Running \cup {n} /\ n \notin Running
      /\ Merged' = Merged
  BY <1>2 DEF Spawn, IInv, TypeOK, Holding, Running, Merged
<1>4. CountsAgree'
  BY <1>3, CountsFinite, FS_AddElement DEF Spawn, IInv, CountsAgree
<1>5. CallState'
  BY <1>2, NamesOfKeys DEF Spawn, IInv, TypeOK, CallState, AllSkipped, Classify, Group
<1>6. FinalState'
  BY <1>3 DEF Spawn, IInv, FinalState
<1>7. QED
  BY <1>1, <1>4, <1>5, <1>6 DEF IInv

LEMMA FetchedInv ==
    ASSUME IInv, NEW n \in Names, worker[n] = "fetching",
           NEW r \in {AllSkipped(n), Classify(n)}, Fetched(n, r)
    PROVE  IInv'
<1> USE DEF callVars, countVars
<1>1. pc = "looping"
  BY DEF IInv, TypeOK, CallState
<1>2. r \in Results
  BY DEF IInv, TypeOK, Results, AllSkipped, Classify, Group
<1>3. TypeOK'
  BY <1>2 DEF Fetched, IInv, TypeOK
<1>4. Holding' = Holding /\ Running' = Running /\ Merged' = Merged /\ n \notin Merged
  BY DEF Fetched, IInv, TypeOK, Holding, Running, Merged
<1>5. CountsAgree'
  BY <1>4 DEF Fetched, IInv, CountsAgree
<1>6. CallState'
  BY <1>1, NamesOfKeys DEF Fetched, IInv, TypeOK, CallState, AllSkipped, Classify, Group
<1>7. \A k \in asked : CacheOf[k] \in Merged => mine'[CacheOf[k]] = mine[CacheOf[k]]
  BY <1>4 DEF Fetched, IInv, TypeOK, Merged
<1>8. FinalState'
  BY <1>4, <1>7 DEF Fetched, IInv, FinalState
<1>9. QED
  BY <1>3, <1>5, <1>6, <1>8 DEF IInv

LEMMA MergeInv == ASSUME IInv, NEW n \in Names, Merge(n) PROVE IInv'
<1> USE DEF callVars, countVars
<1>1. pc = "looping"
  BY DEF Merge, IInv, TypeOK, CallState
<1>2. TypeOK'
  BY DEF Merge, IInv, TypeOK, Results
<1>3. Holding' = Holding /\ Running' = Running /\ Merged' = Merged \cup {n}
  BY DEF Merge, IInv, TypeOK, Holding, Running, Merged
<1>4. CountsAgree'
  BY <1>3 DEF Merge, IInv, CountsAgree
<1>5. CallState'
  BY <1>1, NamesOfKeys DEF Merge, IInv, TypeOK, CallState, AllSkipped, Classify, Group
<1>6. /\ mine[n].hits \subseteq Group(n) /\ mine[n].misses \subseteq Group(n)
      /\ mine[n].skipped \subseteq Group(n)
  BY DEF Merge, IInv, CallState, AllSkipped, Classify
<1>7. \A k \in Group(n) : k \in asked /\ CacheOf[k] = n
  BY DEF Group
<1>8. FinalState'
  BY <1>3, <1>6, <1>7 DEF Merge, IInv, FinalState
<1>9. QED
  BY <1>2, <1>4, <1>5, <1>8 DEF IInv

LEMMA FreeInv == ASSUME IInv, NEW n \in Names, Free(n) PROVE IInv'
<1> USE DEF callVars, countVars
<1>1. pc = "looping"
  BY DEF Free, IInv, TypeOK, CallState
<1>2. /\ Holding' = Holding \ {n} /\ n \in Holding
      /\ Running' = Running /\ Merged' = Merged
  BY DEF Free, IInv, TypeOK, Holding, Running, Merged
<1>3. CountsAgree'
  BY <1>2, CountsFinite, FS_RemoveElement DEF Free, IInv, CountsAgree
<1>4. slots' \in Nat
  <2>1. Cardinality(Holding') \in Nat
    BY <1>2, CountsFinite, FS_RemoveElement, FS_CardinalityType
  <2>2. QED
    BY <1>3, <2>1 DEF CountsAgree
<1>5. TypeOK'
  BY <1>4, ParallelAssumption DEF Free, IInv, TypeOK
<1>6. CallState'
  BY <1>1, NamesOfKeys DEF Free, IInv, TypeOK, CallState, AllSkipped, Classify, Group
<1>7. FinalState'
  BY <1>2 DEF Free, IInv, FinalState
<1>8. QED
  BY <1>3, <1>5, <1>6, <1>7 DEF IInv

LEMMA DoneInv == ASSUME IInv, NEW n \in Names, Done(n) PROVE IInv'
<1> USE DEF callVars, countVars
<1>1. pc = "looping"
  BY DEF Done, IInv, TypeOK, CallState
<1>2. /\ Running' = Running \ {n} /\ n \in Running
      /\ Holding' = Holding /\ Merged' = Merged
  BY DEF Done, IInv, TypeOK, Holding, Running, Merged
<1>3. CountsAgree'
  BY <1>2, CountsFinite, FS_RemoveElement DEF Done, IInv, CountsAgree
<1>4. wg' \in Nat
  <2>1. Cardinality(Running') \in Nat
    BY <1>2, CountsFinite, FS_RemoveElement, FS_CardinalityType
  <2>2. QED
    BY <1>3, <2>1 DEF CountsAgree
<1>5. TypeOK'
  BY <1>4 DEF Done, IInv, TypeOK
<1>6. CallState'
  BY <1>1, NamesOfKeys DEF Done, IInv, TypeOK, CallState, AllSkipped, Classify, Group
<1>7. FinalState'
  BY <1>2 DEF Done, IInv, FinalState
<1>8. QED
  BY <1>3, <1>5, <1>6, <1>7 DEF IInv

\* When the wait is over, every goroutine has gone.
LEMMA AllGone ==
    ASSUME IInv, Return
    PROVE  \A n \in Names : worker[n] \in {"none", "done"}
<1>1. Cardinality(Running) = 0
  BY DEF Return, IInv, CountsAgree
<1>2. Running = {}
  BY <1>1, CountsFinite, FS_EmptySet
<1>3. QED
  BY <1>2 DEF Running

LEMMA ReturnInv == ASSUME IInv, Return PROVE IInv'
<1> USE DEF workerVars, countVars
<1>1. TypeOK'
  BY DEF Return, IInv, TypeOK
<1>2. Holding' = Holding /\ Running' = Running /\ Merged' = Merged
  BY DEF Return, Holding, Running, Merged
<1>3. CountsAgree'
  BY <1>2 DEF Return, IInv, CountsAgree
<1>4. CallState'
  BY AllGone DEF Return, IInv, CallState, AllSkipped, Classify, Group
<1>5. FinalState'
  BY <1>2 DEF Return, IInv, FinalState
<1>6. QED
  BY <1>1, <1>3, <1>4, <1>5 DEF IInv

LEMMA TakeInv == ASSUME IInv, Take PROVE IInv'
<1>1. TypeOK'
  BY DEF Take, IInv, TypeOK, Empty, Results, countVars
<1>2. Holding' = {} /\ Running' = {} /\ Merged' = {}
  BY DEF Take, Holding, Running, Merged
<1>3. Holding = {} /\ Running = {}
  BY DEF Take, IInv, CallState, Holding, Running
<1>4. CountsAgree'
  BY <1>2, <1>3 DEF Take, IInv, CountsAgree, countVars
<1>5. CallState'
  BY DEF Take, IInv, CallState
<1>6. FinalState'
  BY <1>2 DEF Take, FinalState, Empty
<1>7. QED
  BY <1>1, <1>4, <1>5, <1>6 DEF IInv

LEMMA CancelInv == ASSUME IInv, Cancel \/ UNCHANGED vars PROVE IInv'
<1> USE DEF Cancel, vars, callVars, workerVars, countVars
<1>1. TypeOK'
  BY DEF IInv, TypeOK
<1>2. Holding' = Holding /\ Running' = Running /\ Merged' = Merged
  BY DEF Holding, Running, Merged
<1>3. CountsAgree'
  BY <1>2 DEF IInv, CountsAgree
<1>4. CallState'
  BY DEF IInv, CallState, AllSkipped, Classify, Group
<1>5. FinalState'
  BY <1>2 DEF IInv, FinalState
<1>6. QED
  BY <1>1, <1>3, <1>4, <1>5 DEF IInv

LEMMA NextInv == IInv /\ [Next]_vars => IInv'
<1> SUFFICES ASSUME IInv, [Next]_vars
             PROVE  IInv'
  OBVIOUS
<1>1. ASSUME NEW n \in Names, GroupFails(n) \/ GroupAnswers(n)
      PROVE  IInv'
  BY <1>1, FetchedInv DEF GroupFails, GroupAnswers
<1>2. QED
  BY <1>1, CallInv, SpawnInv, MergeInv, FreeInv, DoneInv, ReturnInv, TakeInv,
     CancelInv DEF Next, Work

LEMMA SpecInv == Spec => []IInv
<1>1. QED
  BY InitInv, NextInv, PTL DEF Spec

-----------------------------------------------------------------------------
(* What follows *)

LEMMA OnceFromInv == IInv => EveryIdOnce
<1> SUFFICES ASSUME IInv
             PROVE  EveryIdOnce
  OBVIOUS
<1>1. ASSUME NEW k \in asked, CacheOf[k] \in Merged
      PROVE  mine[CacheOf[k]] \in {AllSkipped(CacheOf[k]), Classify(CacheOf[k])}
  BY <1>1 DEF IInv, CallState, Merged
<1>2. ASSUME NEW k \in asked, CacheOf[k] \in Merged
      PROVE  LET r == mine[CacheOf[k]]
             IN  /\ k \in Ids(r) /\ ~(k \in r.hits /\ k \in r.misses)
                 /\ ~(k \in r.skipped /\ k \in r.hits \cup r.misses)
  <2>1. CASE mine[CacheOf[k]] = AllSkipped(CacheOf[k])
    BY <2>1 DEF AllSkipped, Group, Ids
  <2>2. CASE mine[CacheOf[k]] = Classify(CacheOf[k])
    BY <2>2 DEF Classify, Group, Ids
  <2>3. QED
    BY <1>1, <1>2, <2>1, <2>2
<1>3. Ids(final) = {k \in asked : CacheOf[k] \in Merged}
  BY <1>2 DEF IInv, FinalState, Ids
<1>4. /\ final.hits \cap final.misses = {}
      /\ final.skipped \cap (final.hits \cup final.misses) = {}
  BY <1>2 DEF IInv, FinalState
<1>5. ASSUME pc = "returned", NEW k \in asked
      PROVE  CacheOf[k] \in Merged
  BY <1>5, NamesOfKeys DEF IInv, TypeOK, CallState, Merged
<1>6. QED
  BY <1>3, <1>4, <1>5 DEF EveryIdOnce

\* The result that Return delivers is an answer of ExternalSource.
LEMMA ReturnAnswers ==
    ASSUME IInv, Return
    PROVE  \E failing \in SUBSET {CacheOf[k] : k \in asked} :
               final = Answers!Answer(asked, failing)
<1> DEFINE failing == {n \in {CacheOf[k] : k \in asked} : mine[n] = AllSkipped(n)}
<1>1. \A k \in asked : CacheOf[k] \in Merged
  BY AllGone, NamesOfKeys DEF Return, IInv, TypeOK, CallState, Merged
<1>2. ASSUME NEW k \in asked, CacheOf[k] \in failing
      PROVE  LET r == mine[CacheOf[k]]
             IN  k \notin r.hits /\ k \notin r.misses /\ k \in r.skipped
  BY <1>2 DEF AllSkipped, Group
<1>3. ASSUME NEW k \in asked, CacheOf[k] \notin failing
      PROVE  LET r == mine[CacheOf[k]]
             IN  /\ k \in r.hits <=> k \in Source
                 /\ k \in r.misses <=> k \notin Source
                 /\ k \notin r.skipped
  <2>1. mine[CacheOf[k]] = Classify(CacheOf[k])
    BY <1>1, <1>3 DEF IInv, CallState, Merged
  <2>2. QED
    BY <2>1 DEF Classify, Group
<1> HIDE DEF failing
<1>4. /\ final.hits = {k \in asked : CacheOf[k] \notin failing} \cap Source
      /\ final.misses = {k \in asked : CacheOf[k] \notin failing} \ Source
      /\ final.skipped = asked \ {k \in asked : CacheOf[k] \notin failing}
  BY <1>1, <1>2, <1>3 DEF IInv, FinalState
<1>5. final = Answers!Answer(asked, failing)
  BY <1>4 DEF IInv, TypeOK, Results, Answers!Answer
<1>6. QED
  BY <1>5 DEF failing

LEMMA NextAnswers == IInv /\ [Next]_vars => [Answers!Next]_(Answers!vars)
<1> SUFFICES ASSUME IInv, [Next]_vars
             PROVE  [Answers!Next]_(Answers!vars)
  OBVIOUS
<1> USE DEF Answers!vars, callVars
<1>1. ASSUME NEW ids \in SUBSET Keys, Call(ids)
      PROVE  [Answers!Next]_(Answers!vars)
  <2>1. asked = {} /\ asked' = ids /\ pc = "idle" /\ pc' = "looping"
    BY <1>1 DEF Call, IInv, CallState
  <2>2. CASE ids = {}
    BY <2>1, <2>2
  <2>3. CASE ids # {}
    BY <2>1, <2>3 DEF Answers!Next, Answers!Ask
  <2>4. QED
    BY <2>2, <2>3
<1>2. ASSUME NEW n \in Names, Spawn(n) \/ Work(n)
      PROVE  [Answers!Next]_(Answers!vars)
  <2>1. pc = "looping"
    BY <1>2 DEF Spawn, Work, GroupFails, GroupAnswers, Merge, Free, Done, IInv,
                TypeOK, CallState
  <2>2. pc' = pc /\ asked' = asked
    BY <1>2 DEF Spawn, Work, GroupFails, GroupAnswers, Fetched, Merge, Free, Done
  <2>3. QED
    BY <2>1, <2>2
<1>3. CASE Return
  <2>1. PICK failing \in SUBSET {CacheOf[k] : k \in asked} :
            final = Answers!Answer(asked, failing)
    BY <1>3, ReturnAnswers
  <2>2. /\ pc = "looping" /\ pc' = "returned"
        /\ UNCHANGED <<asked, final>>
    BY <1>3 DEF Return
  <2>3. CASE asked = {}
    <3>1. final = Empty
      BY <2>1, <2>3 DEF Answers!Answer, Empty
    <3>2. QED
      BY <2>2, <2>3, <3>1
  <2>4. CASE asked # {}
    BY <2>1, <2>2, <2>4 DEF Answers!Next, Answers!Reply, Answers!NoAnswer, Empty
  <2>5. QED
    BY <2>3, <2>4
<1>4. CASE Take
  <2>1. /\ pc = "returned" /\ pc' = "idle" /\ asked' = {} /\ final' = Empty
    BY <1>4 DEF Take
  <2>2. CASE final = Empty
    <3>1. asked = {}
      BY <2>1, <2>2, OnceFromInv DEF EveryIdOnce, Ids, Empty
    <3>2. QED
      BY <2>1, <2>2, <3>1
  <2>3. CASE final # Empty
    BY <2>1, <2>3 DEF Answers!Next, Answers!Take, Answers!NoAnswer, Empty
  <2>4. QED
    BY <2>2, <2>3
<1>5. CASE Cancel
  BY <1>5 DEF Cancel
<1>6. CASE UNCHANGED vars
  BY <1>6 DEF vars
<1>7. QED
  BY <1>1, <1>2, <1>3, <1>4, <1>5, <1>6 DEF Next

-----------------------------------------------------------------------------
\* The type invariant, with at most MaxParallel slots taken, for any requests.
THEOREM FetchTypeCorrect == Spec => []TypeOK
<1>1. IInv => TypeOK
  BY DEF IInv
<1>2. QED
  BY <1>1, SpecInv, PTL

\* The limiter and the wait group count the goroutines, however groups end.
THEOREM CountsAlwaysAgree == Spec => []CountsAgree
<1>1. IInv => CountsAgree
  BY DEF IInv
<1>2. QED
  BY <1>1, SpecInv, PTL

\* Concurrent merges neither lose an id nor report it twice.
THEOREM EveryIdOnceForAll == Spec => []EveryIdOnce
BY SpecInv, OnceFromInv, PTL

\* The fan-out implements the one-step answer of ExternalSource.
THEOREM FetchIsExternalSource == Spec => IsExternalSource
<1>1. Init => Answers!Init
  BY DEF Init, Answers!Init, Answers!NoAnswer, Empty
<1>2. QED
  BY <1>1, SpecInv, NextAnswers, PTL DEF Spec, IsExternalSource, Answers!Spec
=============================================================================
