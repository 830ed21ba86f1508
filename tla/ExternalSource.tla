--------------------------- MODULE ExternalSource ---------------------------
(***************************************************************************)
(* What the integration with the external APIs promises a GET: one answer  *)
(* per request, in which the ids of a cache are skipped together or all    *)
(* answered from the source.  LayeredCache takes such an answer as a step. *)
(***************************************************************************)
CONSTANTS
    Keys,       \* external keys, each of one cache
    CacheOf,    \* key |-> name of its cache
    Source      \* the keys the external APIs have a value for

VARIABLES
    asked,      \* the ids of the request, {} when there is none
    answer      \* the answer: hits, misses and skipped ids

vars == <<asked, answer>>

NoAnswer == [hits |-> {}, misses |-> {}, skipped |-> {}]

\* The ids of the caches `failing` are skipped, the others answered.
Answer(S, failing) ==
    LET answered == {k \in S : CacheOf[k] \notin failing}
    IN  [hits |-> answered \cap Source, misses |-> answered \ Source,
         skipped |-> S \ answered]

Init == asked = {} /\ answer = NoAnswer

Ask(S) ==
    /\ asked = {} /\ S # {}
    /\ asked' = S
    /\ UNCHANGED answer

Reply ==
    /\ asked # {} /\ answer = NoAnswer
    /\ \E failing \in SUBSET {CacheOf[k] : k \in asked} :
          answer' = Answer(asked, failing)
    /\ UNCHANGED asked

\* The caller has taken the answer.
Take ==
    /\ answer # NoAnswer
    /\ asked' = {} /\ answer' = NoAnswer

Next == (\E S \in SUBSET Keys : Ask(S)) \/ Reply \/ Take

Spec == Init /\ [][Next]_vars
=============================================================================
