---------------------------- MODULE ExternalFetch ---------------------------
(***************************************************************************)
(* The integration with the external APIs (internal/integration): GetAll   *)
(* groups the ids of a request by cache and fetches each group in a        *)
(* goroutine of its own, at most MaxParallel at a time; their results are  *)
(* merged under a mutex and a wait group tells when the last is in.  All   *)
(* state is local to the call, so one call at a time stands for any number.*)
(***************************************************************************)
EXTENDS Naturals, FiniteSets

CONSTANTS
    Keys,           \* external keys, each of one cache
    CacheOf,        \* key |-> name of its cache
    Caches,         \* names of the configured caches
    KeyType,        \* cache |-> "string", "number", or something else
    WithUrl,        \* caches whose API has a URL
    Numbers,        \* keys that ParseFloat and JSON take for a number
    Source,         \* keys the external APIs have a value for
    FailingApis,    \* caches whose API may fail: refused, late, not 2xx, not JSON
    Hasty,          \* the context of the request may end before the answers
    MaxParallel     \* capacity of the limiter

ASSUME ParallelAssumption == MaxParallel \in Nat \ {0}

Names == {CacheOf[k] : k \in Keys}

ASSUME NamesAssumption == IsFiniteSet(Names)

VARIABLES
    pc,         \* "idle", "looping" over the groups and waiting, "returned"
    asked,      \* the ids of the request
    todo,       \* groups whose goroutine has not been started
    cancelled,  \* the request's context is done
    worker,     \* worker[n]: what the goroutine of group n does next
    mine,       \* mine[n]: the result it has to merge
    final,      \* what has been merged
    slots,      \* number of slots of the limiter that are taken
    wg          \* the counter of the wait group

callVars   == <<pc, asked, todo>>
workerVars == <<worker, mine>>
countVars  == <<slots, wg>>
vars == <<callVars, cancelled, workerVars, final, countVars>>

Empty == [hits |-> {}, misses |-> {}, skipped |-> {}]

Group(n) == {k \in asked : CacheOf[k] = n}

\* The ids of result r.
Ids(r) == r.hits \cup r.misses \cup r.skipped

-----------------------------------------------------------------------------
(* handleGroup *)

\* The body of the request cannot be made: prepareBody fails for the group.
BodyFails(n) ==
    CASE KeyType[n] = "number" -> ~(Group(n) \subseteq Numbers)
      [] KeyType[n] = "string" -> FALSE
      [] OTHER                 -> TRUE

\* No request is sent: the cache is unknown, or its API cannot be asked.
CannotAsk(n) == n \in Caches => BodyFails(n) \/ n \notin WithUrl

Classify(n) == [hits |-> Group(n) \cap Source, misses |-> Group(n) \ Source,
                skipped |-> {}]

AllSkipped(n) == [hits |-> {}, misses |-> {}, skipped |-> Group(n)]

-----------------------------------------------------------------------------
Init ==
    /\ pc = "idle" /\ asked = {} /\ todo = {} /\ cancelled = FALSE
    /\ worker = [n \in Names |-> "none"]
    /\ mine = [n \in Names |-> Empty]
    /\ final = Empty
    /\ slots = 0 /\ wg = 0

\* group: the ids by cache; an empty request has no group.
Call(ids) ==
    /\ pc = "idle"
    /\ pc' = "looping"
    /\ asked' = ids
    /\ todo' = {CacheOf[k] : k \in ids}
    /\ UNCHANGED <<cancelled, workerVars, final, countVars>>

\* Mutant: the slot is taken by the goroutine, the loop waits for none.
SpawnUnlimited(n) ==
    /\ pc = "looping" /\ n \in todo
    /\ wg' = wg + 1 /\ slots' = slots + 1
    /\ todo' = todo \ {n}
    /\ worker' = [worker EXCEPT ![n] = "fetching"]
    /\ UNCHANGED <<pc, asked, cancelled, mine, final>>

\* wg.Add, a slot of the limiter, and go; the map is ranged over in any order.
Spawn(n) ==
    /\ pc = "looping" /\ n \in todo
    /\ slots < MaxParallel
    /\ wg' = wg + 1 /\ slots' = slots + 1
    /\ todo' = todo \ {n}
    /\ worker' = [worker EXCEPT ![n] = "fetching"]
    /\ UNCHANGED <<pc, asked, cancelled, mine, final>>

\* The goroutine of group n has result r.
Fetched(n, r) ==
    /\ worker' = [worker EXCEPT ![n] = "merging"]
    /\ mine' = [mine EXCEPT ![n] = r]
    /\ UNCHANGED <<callVars, cancelled, final, countVars>>

\* Mutants: the ids of a failed group count as missed; the fetch is tried again.
GroupFailsAsMissed(n) ==
    /\ worker[n] = "fetching"
    /\ CannotAsk(n) \/ n \in FailingApis \/ cancelled
    /\ Fetched(n, [hits |-> {}, misses |-> Group(n), skipped |-> {}])
GroupFailsRetries(n) ==
    /\ worker[n] = "fetching"
    /\ CannotAsk(n) \/ n \in FailingApis \/ cancelled
    /\ UNCHANGED vars

\* handleGroup without an answer: its whole group is skipped.
GroupFails(n) ==
    /\ worker[n] = "fetching"
    /\ CannotAsk(n) \/ n \in FailingApis \/ cancelled
    /\ Fetched(n, AllSkipped(n))

\* The API answers with the values it has.
GroupAnswers(n) ==
    /\ worker[n] = "fetching"
    /\ ~CannotAsk(n) /\ ~cancelled
    /\ Fetched(n, Classify(n))

\* Mutant: the last result to come in replaces the others.
MergeReplaces(n) ==
    /\ worker[n] = "merging"
    /\ final' = mine[n]
    /\ worker' = [worker EXCEPT ![n] = "merged"]
    /\ UNCHANGED <<callVars, cancelled, mine, countVars>>

\* final.Merge under the mutex.
Merge(n) ==
    /\ worker[n] = "merging"
    /\ final' = [hits    |-> final.hits \cup mine[n].hits,
                 misses  |-> final.misses \cup mine[n].misses,
                 skipped |-> final.skipped \cup mine[n].skipped]
    /\ worker' = [worker EXCEPT ![n] = "merged"]
    /\ UNCHANGED <<callVars, cancelled, mine, countVars>>

\* Mutant: the slot is not given back.
FreeLeaks(n) ==
    /\ worker[n] = "merged"
    /\ worker' = [worker EXCEPT ![n] = "freed"]
    /\ UNCHANGED <<callVars, cancelled, mine, final, countVars>>

\* The deferred functions, last one first: the slot, then wg.Done.
Free(n) ==
    /\ worker[n] = "merged"
    /\ slots' = slots - 1
    /\ worker' = [worker EXCEPT ![n] = "freed"]
    /\ UNCHANGED <<callVars, cancelled, mine, final, wg>>

Done(n) ==
    /\ worker[n] = "freed"
    /\ wg' = wg - 1
    /\ worker' = [worker EXCEPT ![n] = "done"]
    /\ UNCHANGED <<callVars, cancelled, mine, final, slots>>

\* wg.Wait, after the loop.
Return ==
    /\ pc = "looping" /\ todo = {} /\ wg = 0
    /\ pc' = "returned"
    /\ UNCHANGED <<asked, todo, cancelled, workerVars, final, countVars>>

\* The manager takes the result.
Take ==
    /\ pc = "returned"
    /\ pc' = "idle" /\ asked' = {} /\ cancelled' = FALSE
    /\ worker' = [n \in Names |-> "none"]
    /\ mine' = [n \in Names |-> Empty]
    /\ final' = Empty
    /\ UNCHANGED <<todo, countVars>>

\* The client of the GET has gone.
Cancel ==
    /\ Hasty /\ pc = "looping" /\ ~cancelled
    /\ cancelled' = TRUE
    /\ UNCHANGED <<callVars, workerVars, final, countVars>>

Work(n) == GroupFails(n) \/ GroupAnswers(n) \/ Merge(n) \/ Free(n) \/ Done(n)

Next ==
    \/ \E ids \in SUBSET Keys : Call(ids)
    \/ \E n \in Names : Spawn(n) \/ Work(n)
    \/ Return
    \/ Take
    \/ Cancel

Spec == Init /\ [][Next]_vars

\* Goroutines run on, and each HTTP request ends, by its timeout if need be.
Fairness ==
    /\ WF_vars((\E n \in Names : Spawn(n)) \/ Return)
    /\ \A n \in Names : WF_vars(Work(n))

FairSpec == Spec /\ Fairness

-----------------------------------------------------------------------------
(* Properties *)

Results == [hits : SUBSET Keys, misses : SUBSET Keys, skipped : SUBSET Keys]

\* The call, its goroutines and its counters are in states the code can reach;
\* no more slots are taken than the limiter has.
TypeOK ==
    /\ pc \in {"idle", "looping", "returned"}
    /\ asked \subseteq Keys /\ todo \subseteq Names
    /\ cancelled \in BOOLEAN
    /\ worker \in [Names -> {"none", "fetching", "merging", "merged", "freed", "done"}]
    /\ mine \in [Names -> Results]
    /\ final \in Results
    /\ slots \in 0 .. MaxParallel
    /\ wg \in Nat

\* Goroutines that hold a slot; goroutines the call has to wait for.
Holding == {n \in Names : worker[n] \in {"fetching", "merging", "merged"}}
Running == {n \in Names : worker[n] \notin {"none", "done"}}

\* The limiter and the wait group count the goroutines: no slot and no Done is
\* lost or given twice, whatever way a group ends.
CountsAgree == slots = Cardinality(Holding) /\ wg = Cardinality(Running)

Merged == {n \in Names : worker[n] \in {"merged", "freed", "done"}}

\* However the goroutines interleave, fail or are cancelled, the merged result
\* holds exactly the ids of the groups that came in, each once; the answer
\* holds all.
EveryIdOnce ==
    /\ Ids(final) = {k \in asked : CacheOf[k] \in Merged}
    /\ final.hits \cap final.misses = {}
    /\ final.skipped \cap (final.hits \cup final.misses) = {}
    /\ pc = "returned" => Ids(final) = asked

Answers == INSTANCE ExternalSource WITH
              answer <- IF pc = "returned" THEN final ELSE Empty

\* The call answers in one step as ExternalSource says: caches fail alone and
\* whole, and what is answered is what the source has.
IsExternalSource == Answers!Spec

\* A call returns, whatever fails and also with more groups than slots.
CallReturns == pc = "looping" ~> pc = "returned"
=============================================================================
