--------------------------- MODULE MCLayeredCache ---------------------------
(* Instances of LayeredCache for TLC. *)
EXTENDS LayeredCache, TLC

CONSTANTS
    k1, k2, k3,     \* keys
    v1, v2,         \* values clients put
    fresh,          \* a value only the external source knows
    users, orders, legacy   \* caches

\* All keys belong to one cache that uses every layer.
OneCache    == [k \in Keys |-> users]
AllLevels   == [c \in Caches |-> Levels]

\* The external source knows no key.
NothingOutside == [k \in Keys |-> NoValue]

\* Two caches: orders uses the first layer only; the source knows k2.
TwoCaches   == k1 :> users @@ k2 :> orders
MixedLevels == users :> Levels @@ orders :> {0}
SomeOutside == k1 :> fresh @@ k2 :> NoValue

\* The same, with a third key whose cache is not configured.
AndUnknown     == TwoCaches @@ k3 :> legacy
NothingForLegacy == SomeOutside @@ k3 :> NoValue

\* What happens: the history variables are read by no guard and are left out.
NoHistory == <<layerVars, getVars, fillVars, writeVars>>

ValueSymmetry == Permutations({v1, v2})
=============================================================================
