------------------------------ MODULE MCStartup -----------------------------
(* Startup for TLC: one sound file with three layers and two caches, and    *)
(* the files that differ from it in one part.                               *)
EXTENDS Startup, TLC

r  == [name |-> "r", type |-> "ristretto", numCounters |-> 10, bufferItems |-> 64,
       maxCost |-> 8, defaultTTL |-> 0]
d  == [name |-> "d", type |-> "redis", host |-> "localhost", port |-> 6379,
       poolSize |-> 1, timeout |-> 1]
k  == [name |-> "k", type |-> "rocksdb", path |-> "data", pathIs |-> "db", maxOpenFiles |-> 10,
       createIfMissing |-> FALSE, blockSize |-> 4, blockCache |-> 4, writeBufferSize |-> 4]
k2 == [k EXCEPT !.name = "k2", !.createIfMissing = TRUE,
                !.blockSize = NoSize, !.blockCache = NoSize]

\* Providers that validation refuses.
Refused ==
    {[r EXCEPT !.name = ""], [r EXCEPT !.name = "d"], [r EXCEPT !.bufferItems = 0],
     [r EXCEPT !.maxCost = NotASize], [r EXCEPT !.type = "left out"],
     [d EXCEPT !.port = 65536], [k EXCEPT !.path = "notes", !.pathIs = "file"],
     [k EXCEPT !.path = "new", !.pathIs = "nothing"], [k EXCEPT !.blockCache = NoSize],
     [k2 EXCEPT !.blockSize = NotASize]}

\* Databases that pass validation: one to create, and two that never open.
OtherDatabases ==
    {[k EXCEPT !.path = "new", !.pathIs = "nothing", !.createIfMissing = TRUE],
     [k EXCEPT !.path = "notes", !.pathIs = "file", !.createIfMissing = TRUE],
     [k EXCEPT !.path = "empty", !.pathIs = "dir"]}

MCProviders == {r, d, k, k2} \cup Refused \cup OtherDatabases

L(n, m) == [name |-> n, mode |-> m]
MCLayers == {L(n, m) : n \in {"r", "d", "k", "k2", "none"},
                       m \in {"enabled", "disabled", "left out", "off"}}

On == [enabled |-> TRUE, ttl |-> 0]
C(n, p, ls) == [name |-> n, prefix |-> p, layers |-> ls,
                api |-> [enabled |-> TRUE, prop |-> "id", keyType |-> "string",
                         url |-> "http", timeout |-> 1]]
user  == C("user", "u", <<On, On, On>>)
order == C("order", "o", <<On, [enabled |-> FALSE, ttl |-> -1], On>>)
BadCaches ==
    {C("user", "o", user.layers), C("order", "u", order.layers), C("order", "", order.layers),
     C("order", "o", <<On, On>>), C("order", "o", <<On, [enabled |-> TRUE, ttl |-> -1], On>>),
     [order EXCEPT !.api.url = "no scheme"]}
MCCaches == {user, order} \cup BadCaches

F(ps, ls, cs) == [providers |-> ps, layers |-> ls, caches |-> cs]
Ps == <<r, d, k, k2>>
Ls == <<L("r", "enabled"), L("d", "disabled"), L("k", "left out")>>
Cs == <<user, order>>

MCFiles ==
    {F(Ps, Ls, Cs)}
    \cup {F(<<p, d, k, k2>>, Ls, Cs) : p \in {q \in Refused : q.name # "k" /\ q.name # "k2"}}
    \cup {F(<<r, d, p>>, Ls, Cs) : p \in {q \in Refused : q.name \in {"k", "k2"}} \cup OtherDatabases}
    \cup {F(Ps, ls, Cs) : ls \in {<<L("r", "enabled"), L("d", "enabled"), L("k", "enabled")>>,
                                  <<L("k2", "enabled"), L("d", "disabled"), L("k", "enabled")>>,
                                  <<L("r", "enabled"), L("d", "enabled"), L("r", "enabled")>>,
                                  <<L("none", "enabled"), L("d", "enabled"), L("r", "enabled")>>,
                                  <<L("r", "off"), L("d", "enabled"), L("k", "enabled")>>}}
    \cup {F(Ps, Ls, <<user, c>>) : c \in BadCaches}
    \cup {F(Ps, <<L("d", "enabled"), L("k", "left out")>>, <<C("order", "u", <<On, On>>)>>)}
MCCachesAll == MCCaches \cup {C("order", "u", <<On, On>>)}
=============================================================================
