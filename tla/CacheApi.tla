------------------------------ MODULE CacheApi ------------------------------
(***************************************************************************)
(* The way of a batch from a client of the HTTP API to the cache manager   *)
(* and back: the middleware and the handlers of internal/httpserver, the   *)
(* storage keys of api/dto/mapper.go, the goroutines of the asynchronous   *)
(* adapter (the pool of WriterPool) and the join of the hits with the ids  *)
(* that were asked.  The manager is one store here, read and written in    *)
(* one step: its layers and the steps of a batch are those of              *)
(* LayeredCache.                                                           *)
(***************************************************************************)
EXTENDS Naturals, Sequences, FiniteSets

CONSTANTS
    Handlers,  \* write requests in flight at a time: handler, then goroutine
    Cap,       \* goroutines that run at a time, 64 in the code
    Caches,    \* the configured caches
    Prefix,    \* the prefix of each cache, a sequence of characters
    Chars,     \* the characters prefixes and keys are made of
    Sep,       \* StorageKeySeparator, ":" in the code
    Ids,       \* [c |-> name of a cache, configured or not, k |-> key]
    NoId,      \* an entry whose embedded *CacheId is nil after decoding
    Values,    \* JSON values other than null
    ValuesOf,  \* the values clients put under each id
    Null,      \* the JSON value null
    Empty,     \* the empty string, which is no JSON
    NoValue,   \* no pair under a storage key
    GetBatches, PutBatches, DeleteBatches,  \* the bodies clients send
    Clients    \* who sends the put_all: "rest" as documented, "cli"

\* validateCaches refuses a repeated prefix; a prefix may hold the separator.
ASSUME PrefixAssumption ==
    /\ Prefix \in [Caches -> Seq(Chars)]
    /\ \A c, d \in Caches : Prefix[c] = Prefix[d] => c = d
    /\ Sep \in Chars
ASSUME IdsAssumption ==
    /\ \A i \in Ids : i = [c |-> i.c, k |-> i.k] /\ i.k \in Seq(Chars)
    /\ NoId \notin Ids
    /\ ValuesOf \in [Ids -> SUBSET Values]
ASSUME ValuesAssumption ==
    /\ Values \cap {Null, Empty, NoValue} = {}
    /\ Null # NoValue /\ Empty # NoValue
ASSUME BatchesAssumption ==
    /\ GetBatches \cup DeleteBatches \subseteq Seq(Ids)
    /\ \A b \in PutBatches :
          /\ b \in Seq([id : Ids \cup {NoId}, v : Values \cup {Null}])
          /\ \A n \in 1 .. Len(b) :
                b[n].id # NoId => b[n].v \in ValuesOf[b[n].id] \cup {Null}

VARIABLES
    waiting,    \* the requests whose handler waits for a token
    active,     \* the requests that were answered and whose goroutine runs
    body,       \* what the goroutine of each request writes, entry by entry
    store,      \* what the manager holds under each storage key
    reply,      \* the last answer
    outcomes    \* history: what the last write of each id, and those that were in
                \* flight for it when it was asked, would leave

vars == <<waiting, active, body, store, reply, outcomes>>

Pool == INSTANCE WriterPool WITH Requests <- Handlers

Known == {i \in Ids : i.c \in Caches}

\* Mutant: the prefix and the key are joined without a separator.
StorageKeyNoSeparator(i) == Prefix[i.c] \o i.k

StorageKey(i) == Prefix[i.c] \o <<Sep>> \o i.k

StorageKeys == {StorageKey(i) : i \in Known}

\* Mutant: a null is stored as it is.
MarshalAsIs(v) == v

\* marshalRawJSON: a null, which decodes to a nil pointer, becomes "".
Marshal(v) == IF v = Null THEN Empty ELSE v

Last(S) == CHOOSE n \in S : \A m \in S : m <= n

-----------------------------------------------------------------------------
(* The answers *)

\* status: that of the first WriteHeader, 200 without any (net/http, and
\* bufferResponseWriter when the answer may be compressed).
Reply(status, ids, results) == [status |-> status, ids |-> ids, results |-> results]

\* What keeps a request from being served: a body that is not the gzip it says
\* it is, that cannot be decoded, is over maxBodySize or holds no requests; or a
\* Content-Type that is not JSON.
Refuse ==
    /\ \E status \in {400, 415} : reply' = Reply(status, <<>>, <<>>)
    /\ UNCHANGED <<waiting, active, body, store, outcomes>>

-----------------------------------------------------------------------------
(* GET *)

\* keyToRequest: the request that stands for all those with its storage key.
Namesake(ids, i) ==
    ids[Last({n \in 1 .. Len(ids) :
                 ids[n] \in Known /\ StorageKey(ids[n]) = StorageKey(i)})]

\* What the manager finds: MapAllResolvedCacheId drops the unknown caches.
Hits(ids) ==
    {[id |-> Namesake(ids, ids[n]), v |-> store[StorageKey(ids[n])]] :
        n \in {m \in 1 .. Len(ids) :
                  ids[m] \in Known /\ store[StorageKey(ids[m])] # NoValue}}

\* Mutant: the hits are looked up by the key without the cache.
ResultByKey(hits, i) ==
    IF \E h \in hits : h.id.k = i.k
    THEN [id |-> i, found |-> TRUE, v |-> (CHOOSE h \in hits : h.id.k = i.k).v]
    ELSE [id |-> i, found |-> FALSE, v |-> Null]

\* resMap: the hit with the cache and the key of i, or a miss.
Result(hits, i) ==
    IF \E h \in hits : h.id = i
    THEN [id |-> i, found |-> TRUE, v |-> (CHOOSE h \in hits : h.id = i).v]
    ELSE [id |-> i, found |-> FALSE, v |-> Null]

\* One result per id asked, in the order of the ids.  The encoder fails on
\* the empty string: 200 goes out with nothing behind it.
HandleBatchGet(ids) ==
    LET hits    == Hits(ids)
        results == [n \in 1 .. Len(ids) |-> Result(hits, ids[n])]
    IN  /\ reply' = Reply(200, ids,
                          IF \E h \in hits : h.v = Empty THEN <<>> ELSE results)
        /\ UNCHANGED <<waiting, active, body, store, outcomes>>

-----------------------------------------------------------------------------
(* PUT and EVICT *)

\* cmdPutAll: ",inline" on a field that is not embedded means nothing to
\* encoding/json, so the id goes out under a name the server does not know.
Sent(client, b) ==
    IF client = "rest" THEN b ELSE [n \in 1 .. Len(b) |-> [b[n] EXCEPT !.id = NoId]]

Malformed(b) == \E n \in 1 .. Len(b) : b[n].id = NoId

\* An eviction as a batch whose entries leave nothing.
Removals(ids) == [n \in 1 .. Len(ids) |-> [id |-> ids[n], v |-> NoValue]]

\* The places of id i in the batch b, and the ids b writes: none when it panics.
PlacesOf(b, i) == {n \in 1 .. Len(b) : b[n].id = i}
Writes(b)      == IF Malformed(b) THEN {} ELSE {i \in Known : PlacesOf(b, i) # {}}

\* What is held under id i after the batch b, which writes it.
Outcome(b, i) == Marshal(b[Last(PlacesOf(b, i))].v)

\* The ids that a request not yet run to its end will write.
Pending == UNION {Writes(body[h]) : h \in waiting \cup active}

\* What the writes in flight for id i would leave.
InFlight(i) ==
    {Outcome(body[h], i) : h \in {g \in waiting \cup active : i \in Writes(body[g])}}

\* The handler of h has decoded the batch asked, which reached it as sent,
\* and calls the adapter, which waits for a token.
Ask(h, asked, sent) ==
    /\ Pool!Ask(h)
    /\ body' = [body EXCEPT ![h] = sent]
    /\ outcomes' = [i \in Known |-> IF i \in Writes(asked)
                                     THEN InFlight(i) \cup {Outcome(asked, i)}
                                     ELSE outcomes[i]]
    /\ UNCHANGED <<store, reply>>

HandleBatchPut(h) ==
    \E client \in Clients, b \in PutBatches : Ask(h, b, Sent(client, b))

HandleBatchDelete(h) ==
    \E ids \in DeleteBatches : Ask(h, Removals(ids), Removals(ids))

\* runAsync has a token: the goroutine starts and the handler answers.
Spawn(h) ==
    /\ Pool!Admit(h)
    /\ reply' = Reply(200, <<>>, <<>>)
    /\ UNCHANGED <<body, store, outcomes>>

\* The places of the entries with storage key k whose cache is known.
PlacesAt(b, k) ==
    {n \in 1 .. Len(b) : b[n].id \in Known /\ StorageKey(b[n].id) = k}

\* Mutant: the first of two entries with one storage key is kept.
WrittenFirst(b, k) ==
    IF PlacesAt(b, k) = {} THEN store[k]
    ELSE Marshal(b[CHOOSE n \in PlacesAt(b, k) : \A m \in PlacesAt(b, k) : n <= m].v)

\* ServiceImpl.PutAll fills a map: of two entries with one key the last stays.
Written(b, k) ==
    IF PlacesAt(b, k) = {} THEN store[k] ELSE Marshal(b[Last(PlacesAt(b, k))].v)

\* Mutant: an entry without an id is skipped and the others are written.
RunAlways(h) ==
    /\ Pool!Leave(h)
    /\ store' = [k \in StorageKeys |-> Written(body[h], k)]
    /\ body' = [body EXCEPT ![h] = <<>>]
    /\ UNCHANGED <<reply, outcomes>>

\* The goroutine: f(ctx) writes the batch, or panics in the mapper, which is
\* recovered and leaves the whole batch unwritten.
Run(h) ==
    /\ Pool!Leave(h)
    /\ IF Malformed(body[h])
       THEN UNCHANGED store
       ELSE store' = [k \in StorageKeys |-> Written(body[h], k)]
    /\ body' = [body EXCEPT ![h] = <<>>]
    /\ UNCHANGED <<reply, outcomes>>

-----------------------------------------------------------------------------

Init ==
    /\ Pool!Init
    /\ body = [h \in Handlers |-> <<>>]
    /\ store = [k \in StorageKeys |-> NoValue]
    /\ reply = Reply(200, <<>>, <<>>)
    /\ outcomes = [i \in Known |-> {NoValue}]

Next ==
    \/ Refuse
    \/ \E ids \in GetBatches : HandleBatchGet(ids)
    \/ \E h \in Handlers :
          HandleBatchPut(h) \/ HandleBatchDelete(h) \/ Spawn(h) \/ Run(h)

Spec == Init /\ [][Next]_vars

-----------------------------------------------------------------------------
(* Properties *)

Held == Values \cup {Empty, NoValue}

TypeOK ==
    /\ waiting \subseteq Handlers /\ active \subseteq Handlers
    /\ body \in [Handlers -> Seq([id : Ids \cup {NoId},
                                  v : Values \cup {Null, NoValue}])]
    /\ store \in [StorageKeys -> Held]
    /\ outcomes \in [Known -> SUBSET Held]
    /\ reply.status \in {200, 400, 415}
    /\ reply.ids \in Seq(Ids)
    /\ reply.results \in Seq([id : Ids, found : BOOLEAN, v : Values \cup {Null}])

\* Prefix q with the separator begins prefix p: what follows it in p, with a
\* separator and a key, is also a key of the cache with prefix q.
Extends(p, q) ==
    Len(q) < Len(p) /\ p[Len(q) + 1] = Sep /\ \A n \in 1 .. Len(q) : p[n] = q[n]

\* The ids of caches whose prefix no other one extends or is extended by: all of
\* them unless the configuration has such prefixes, which validation lets pass.
Apart == {i \in Known : \A c \in Caches : /\ ~Extends(Prefix[c], Prefix[i.c])
                                          /\ ~Extends(Prefix[i.c], Prefix[c])}

\* An answer that holds results has one for each id asked, in the order asked
\* and with duplicates, an id of an unknown cache is not found, and each value
\* found was put under that very id: the storage keys, the requests that share
\* one and the join by cache and key mix up no two ids, whatever separators the
\* prefixes and keys hold, unless one prefix goes on where another one and a
\* separator end (mapper.go:71, service.go:193, router.go:106).
AnswersArePuts ==
    reply.results # <<>> =>
        /\ Len(reply.results) = Len(reply.ids)
        /\ \A n \in 1 .. Len(reply.ids) :
              LET r == reply.results[n]
              IN  /\ r.id = reply.ids[n]
                  /\ r.found => /\ r.id \in Known
                                /\ r.id \in Apart => r.v \in ValuesOf[r.id]

\* The ids nothing is in flight for.
Settled == Apart \ Pending

\* However the goroutines of a batch of requests overtake each other, a settled
\* id holds what its last write asked for or what one of those that were in
\* flight with it did, never anything older; whatever other batches waited for
\* a token, panicked or were refused in between, and with one id twice in a
\* batch.  A blocked PUT counts as well: its client may have given up, it is
\* written nevertheless (async_adapter.go:85-103).
LastWriteHolds == \A i \in Settled : store[StorageKey(i)] \in outcomes[i]

\* And a GET answers with it: found with such a value, or not found when one of
\* these writes was an eviction, unless the answer is lost altogether.
GetsSeeLastWrite ==
    [][reply'.results # <<>> /\ reply' # reply =>
          \A n \in 1 .. Len(reply'.ids) :
             reply'.ids[n] \in Settled =>
                LET r == reply'.results[n]
                IN  (IF r.found THEN r.v ELSE NoValue) \in outcomes[r.id]]_vars

\* A GET of ids that are settled, or of unknown caches, is answered in full
\* unless the last write of one of them, or one in flight with it, put a null: a
\* null that was overwritten or evicted, one of another id or one in a batch
\* that panicked spoils no answer (router.go:135).
GetsAreAnswered ==
    [][(/\ reply' # reply
        /\ \A n \in 1 .. Len(reply'.ids) :
              reply'.ids[n] \in Known =>
                 reply'.ids[n] \in Settled /\ Empty \notin outcomes[reply'.ids[n]])
       => Len(reply'.results) = Len(reply'.ids)]_vars

\* cli/README.md:22: "сохранить несколько значений ./cli -cache user put-all".
\* Whatever is put lands, in the run where the CLI is the client.
PutsAreStored ==
    waiting \cup active = {} =>
        \A i \in Settled : NoValue \notin outcomes[i] => store[StorageKey(i)] \in outcomes[i]

=============================================================================
