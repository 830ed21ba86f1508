---------------------------- MODULE RedisProofs ----------------------------
(***************************************************************************)
(* The Redis provider for batches of any size, any bounds of the chunks    *)
(* and any number of callers: no chunk is too large, no request is wasted, *)
(* and the provider implements LayerStore.                                 *)
(***************************************************************************)
EXTENDS RedisLayer, FiniteSetTheorems, TLAPS

-----------------------------------------------------------------------------
(* Chunks *)

\* n \div d lies between n / d - 1 and n / d.
LEMMA DivBounds ==
    ASSUME NEW n \in Nat, NEW d \in Nat \ {0}
    PROVE  /\ n \div d \in Nat
           /\ d * (n \div d) <= n
           /\ n < d * (n \div d) + d
OBVIOUS

\* Ceil(n, d) is the least number of parts of at most d that make up n.
LEMMA CeilBounds ==
    ASSUME NEW n \in Nat, NEW d \in Nat \ {0}
    PROVE  /\ Ceil(n, d) \in Nat
           /\ n <= d * Ceil(n, d)
           /\ d * Ceil(n, d) < n + d
<1>1. n + d - 1 \in Nat
  OBVIOUS
<1>2. QED
  BY <1>1, DivBounds DEF Ceil

\* The bounds of CeilBounds determine the number.
LEMMA CeilUnique ==
    ASSUME NEW n \in Nat, NEW d \in Nat \ {0}, NEW c \in Nat,
           n <= d * c, d * c < n + d
    PROVE  Ceil(n, d) = c
<1> DEFINE b == Ceil(n, d)
<1>1. b \in Nat /\ n <= d * b /\ d * b < n + d
  BY CeilBounds
<1> HIDE DEF b
<1>2. d * b < d * c + d /\ d * c < d * b + d
  BY <1>1
<1>3. b < c + 1
  <2>1. d * b < d * (c + 1)
    BY <1>1, <1>2
  <2>2. QED
    BY <1>1, <2>1
<1>4. c < b + 1
  <2>1. d * c < d * (b + 1)
    BY <1>1, <1>2
  <2>2. QED
    BY <1>1, <2>1
<1>5. QED
  BY <1>1, <1>3, <1>4 DEF b

\* Chunks are never larger than MaxChunk, and as many as Ceil(n, MaxChunk) of
\* them hold a batch of n keys.
LEMMA SizeBounds ==
    ASSUME NEW n \in Nat
    PROVE  LET size == CalcChunkSize(n)
           IN  /\ size \in 0 .. MaxChunk
               /\ n > 0 => size > 0
               /\ n <= size * Ceil(n, MaxChunk)
<1> USE ChunksAssumption
<1>1. CASE n <= MaxChunk
  <2>1. CalcChunkSize(n) = n
    BY <1>1 DEF CalcChunkSize
  <2>2. CASE n = 0
    BY <2>1, <2>2, CeilBounds
  <2>3. CASE n > 0
    <3>1. Ceil(n, MaxChunk) = 1
      BY <1>1, <2>3, CeilUnique
    <3>2. QED
      BY <1>1, <2>1, <2>3, <3>1
  <2>4. QED
    BY <2>2, <2>3
<1>2. CASE n > MaxChunk
  <2> DEFINE c == Ceil(n, MaxChunk)
             s == Ceil(n, c)
  <2>1. c \in Nat /\ n <= MaxChunk * c
    BY CeilBounds
  <2>2. c \in Nat \ {0}
    BY <2>1, <1>2
  <2>3. s \in Nat /\ n <= c * s
    <3>1. \A d \in Nat \ {0} : Ceil(n, d) \in Nat /\ n <= d * Ceil(n, d)
      BY CeilBounds
    <3> HIDE DEF c
    <3>2. QED
      BY <2>2, <3>1
  <2>4. CalcChunkSize(n) = CASE s < MinChunk -> MinChunk
                             [] s > MaxChunk -> MaxChunk
                             [] OTHER        -> s
    BY <1>2 DEF CalcChunkSize
  <2> HIDE DEF c, s
  <2>5. s > 0
    BY <1>2, <2>1, <2>3
  <2>6. CASE s < MinChunk
    <3>1. CalcChunkSize(n) = MinChunk
      BY <2>3, <2>4, <2>6
    <3>2. n <= MinChunk * c
      BY <2>1, <2>3, <2>6
    <3>3. QED
      BY <2>5, <2>6, <2>3, <3>1, <3>2 DEF c
  <2>7. CASE ~(s < MinChunk) /\ s > MaxChunk
    BY <2>1, <2>3, <2>4, <2>7 DEF c
  <2>8. CASE ~(s < MinChunk) /\ ~(s > MaxChunk)
    BY <2>1, <2>3, <2>4, <2>5, <2>8 DEF c
  <2>9. QED
    BY <2>6, <2>7, <2>8
<1>3. QED
  BY <1>1, <1>2

\* After a chunk has been taken from r keys, one request less is needed.
LEMMA OneLess ==
    ASSUME NEW r \in Nat \ {0}, NEW size \in Nat \ {0}, size <= MaxChunk,
           r <= size * Ceil(r, MaxChunk),
           NEW q \in Nat, q = IF r <= size THEN 0 ELSE r - size
    PROVE  /\ Ceil(q, MaxChunk) + 1 = Ceil(r, MaxChunk)
           /\ q <= size * Ceil(q, MaxChunk)
<1> USE ChunksAssumption
<1> DEFINE b == Ceil(r, MaxChunk)
<1>1. b \in Nat /\ r <= MaxChunk * b /\ MaxChunk * b < r + MaxChunk
  BY CeilBounds
<1>2. CASE r <= size
  <2>1. Ceil(r, MaxChunk) = 1
    BY <1>2, CeilUnique
  <2>2. q = 0 /\ Ceil(0, MaxChunk) = 0
    BY <1>2, CeilUnique
  <2>3. QED
    BY <2>1, <2>2
<1>3. CASE r > size
  <2>1. r <= size * b
    OBVIOUS
  <2> HIDE DEF b
  <2>2. b \in Nat \ {0}
    BY <1>1
  <2>3. PICK a \in Nat : b = a + 1
    BY <2>2
  <2>4. size * b = size * a + size /\ MaxChunk * b = MaxChunk * a + MaxChunk
    BY <2>3
  <2>5. size * a <= MaxChunk * a
    BY <2>3
  <2>6. q = r - size
    BY <1>3
  <2>7. q <= size * a
    BY <2>1, <2>3, <2>4, <2>6
  <2>8. q <= MaxChunk * a /\ MaxChunk * a < q + MaxChunk
    BY <1>1, <2>3, <2>4, <2>5, <2>6, <2>7
  <2>9. Ceil(q, MaxChunk) = a
    BY <2>3, <2>8, CeilUnique
  <2>10. QED
    BY <2>3, <2>7, <2>9 DEF b
<1>4. QED
  BY <1>2, <1>3

-----------------------------------------------------------------------------
(* The inductive invariant, call by call *)

Active(c) == c.op # "none" /\ c.outcome = "none"

\* What TypeOK says of a call.
Typed(c) ==
    /\ c \in Calls
    /\ c.sent \subseteq c.chunk /\ c.chunk \subseteq c.rest
    /\ Cardinality(c.chunk) <= MaxChunk

\* Keys that are not left have been applied, those that are left fit the size.
Accounted(c) ==
    /\ c.op = "none" => c = NoCall
    /\ Active(c) =>
          /\ c.size = CalcChunkSize(Cardinality(c.keys))
          /\ c.rest \subseteq c.keys /\ c.applied \subseteq c.keys
          /\ c.keys \ c.rest \subseteq c.applied
          /\ c.chunk \ c.sent \subseteq c.applied
          /\ c.chunk # {} => c.chunk \in ChunksOf(c.rest, c.size)

\* What FewestRequests says of a call, and that the size is large enough for it.
Counted(c) ==
    /\ c.outcome # "error" =>
          c.requests + Ceil(Cardinality(c.rest), MaxChunk)
              = Ceil(Cardinality(c.keys), MaxChunk)
    /\ Active(c) =>
          Cardinality(c.rest) <= c.size * Ceil(Cardinality(c.rest), MaxChunk)

Good(c) == Typed(c) /\ Accounted(c) /\ Counted(c)

StoreOK ==
    /\ db \in [Keys -> Values \cup {NoValue}]
    /\ wire \subseteq [key : Keys, value : Values \cup {NoValue}]

IInv ==
    /\ StoreOK
    /\ call \in [Callers -> Calls]
    /\ \A t \in Callers : Good(call[t])

LEMMA FiniteParts ==
    ASSUME NEW S \in SUBSET Keys
    PROVE  IsFiniteSet(S) /\ Cardinality(S) \in Nat
BY KeysAssumption, FS_Subset, FS_CardinalityType

LEMMA NoCallGood == Good(NoCall)
<1>1. NothingRead \in [Keys -> Values \cup {NoValue}]
  BY DEF NothingRead
<1>2. Cardinality({}) = 0
  BY FS_EmptySet
<1>3. Typed(NoCall)
  BY <1>1, <1>2, ChunksAssumption, AttemptsAssumption DEF Typed, NoCall, Calls
<1>4. Accounted(NoCall)
  BY DEF Accounted, Active, NoCall
<1>5. Counted(NoCall)
  <2>1. Ceil(0, MaxChunk) \in Nat
    BY CeilBounds, ChunksAssumption
  <2>2. QED
    BY <1>2, <2>1 DEF Counted, Active, NoCall
<1>6. QED
  BY <1>3, <1>4, <1>5 DEF Good

\* A step that changes the call of t only.
LEMMA OneCall ==
    ASSUME IInv, NEW t \in Callers, NEW c, Good(c), call' = [call EXCEPT ![t] = c], StoreOK'
    PROVE  IInv'
<1>1. c \in Calls
  BY DEF Good, Typed
<1>2. call' \in [Callers -> Calls]
  BY <1>1 DEF IInv
<1>3. \A u \in Callers : call'[u] = IF u = t THEN c ELSE call[u]
  BY DEF IInv
<1>4. QED
  BY <1>2, <1>3 DEF IInv

LEMMA BeginGood ==
    ASSUME NEW op \in {"get", "put", "delete"}, NEW S \in SUBSET Keys,
           NEW v \in Values \cup {NoValue}
    PROVE  Good([NoCall EXCEPT !.op = op, !.keys = S, !.value = v, !.rest = S,
                               !.size = CalcChunkSize(Cardinality(S))])
<1> DEFINE n == Cardinality(S)
           c == [NoCall EXCEPT !.op = op, !.keys = S, !.value = v, !.rest = S,
                               !.size = CalcChunkSize(n)]
<1>1. n \in Nat
  BY FiniteParts
<1>2. CalcChunkSize(n) \in Nat /\ n <= CalcChunkSize(n) * Ceil(n, MaxChunk)
  BY <1>1, SizeBounds, ChunksAssumption
<1>3. NothingRead \in [Keys -> Values \cup {NoValue}] /\ Cardinality({}) = 0
  BY FS_EmptySet DEF NothingRead
<1>4. Ceil(n, MaxChunk) \in Nat
  BY <1>1, CeilBounds, ChunksAssumption
<1> HIDE DEF n
<1>5. /\ c.op = op /\ c.keys = S /\ c.value = v /\ c.rest = S
      /\ c.size = CalcChunkSize(n) /\ c.chunk = {} /\ c.sent = {} /\ c.applied = {}
      /\ c.read = NothingRead /\ c.attempt = 0 /\ c.requests = 0 /\ c.outcome = "none"
  BY DEF NoCall
<1>6. Typed(c)
  <2>1. 0 \in 0 .. MaxAttempts
    BY AttemptsAssumption
  <2>2. c \in Calls
    BY <1>2, <1>3, <2>1 DEF NoCall, Calls
  <2>3. QED
    BY <1>3, <1>5, <2>2, ChunksAssumption DEF Typed
<1> HIDE DEF c
<1>7. Accounted(c)
  BY <1>5 DEF Accounted, Active, n
<1>8. Counted(c)
  BY <1>2, <1>4, <1>5 DEF Counted, Active, n
<1>9. QED
  BY <1>6, <1>7, <1>8 DEF Good, c, n

LEMMA SendGood ==
    ASSUME NEW c, Good(c), Active(c), c.rest # {}, c.chunk = {},
           NEW S \in ChunksOf(c.rest, c.size)
    PROVE  Good([c EXCEPT !.chunk = S, !.sent = S, !.attempt = 1])
<1> DEFINE d == [c EXCEPT !.chunk = S, !.sent = S, !.attempt = 1]
<1>1. c \in Calls
  BY DEF Good, Typed
<1>2. /\ d.op = c.op /\ d.keys = c.keys /\ d.value = c.value /\ d.rest = c.rest
      /\ d.size = c.size /\ d.chunk = S /\ d.sent = S /\ d.applied = c.applied
      /\ d.read = c.read /\ d.attempt = 1 /\ d.requests = c.requests
      /\ d.outcome = c.outcome
  BY <1>1 DEF Calls
<1>3. S \subseteq c.rest /\ c.rest \subseteq Keys
  BY <1>1 DEF ChunksOf, Calls
<1>4. Cardinality(S) <= MaxChunk
  <2>1. c.size <= MaxChunk
    BY <1>1, FiniteParts, SizeBounds, ChunksAssumption DEF Good, Accounted, Calls
  <2>2. Cardinality(S) <= c.size
    BY <1>1, <1>3, FiniteParts DEF ChunksOf, Calls
  <2>3. QED
    BY <1>1, <1>3, <2>1, <2>2, FiniteParts, ChunksAssumption DEF Calls
<1>5. d \in Calls
  <2>1. 1 \in 0 .. MaxAttempts /\ S \in SUBSET Keys
    BY <1>3, AttemptsAssumption
  <2>2. QED
    BY <1>1, <2>1 DEF Calls
<1> HIDE DEF d
<1>6. Typed(d)
  BY <1>2, <1>3, <1>4, <1>5 DEF Typed
<1>7. Accounted(d)
  BY <1>2 DEF Accounted, Active, Good
<1>8. Counted(d)
  BY <1>2 DEF Counted, Active, Good
<1>9. QED
  BY <1>6, <1>7, <1>8 DEF Good, d

LEMMA ExecuteGood ==
    ASSUME NEW c, Good(c), Active(c), NEW S \in SUBSET c.sent,
           NEW r \in [Keys -> Values \cup {NoValue}]
    PROVE  Good([c EXCEPT !.sent = c.sent \ S, !.applied = c.applied \cup S, !.read = r])
<1> DEFINE d == [c EXCEPT !.sent = c.sent \ S, !.applied = c.applied \cup S, !.read = r]
<1>1. c \in Calls
  BY DEF Good, Typed
<1>2. /\ d.op = c.op /\ d.keys = c.keys /\ d.rest = c.rest /\ d.size = c.size
      /\ d.chunk = c.chunk /\ d.sent = c.sent \ S /\ d.applied = c.applied \cup S
      /\ d.requests = c.requests /\ d.outcome = c.outcome
  BY <1>1 DEF Calls
<1>3. S \subseteq c.rest /\ c.rest \subseteq Keys
  BY <1>1 DEF Good, Typed, Calls
<1>4. d \in Calls
  <2>1. c.sent \ S \in SUBSET Keys /\ c.applied \cup S \in SUBSET Keys
    BY <1>1, <1>3 DEF Calls
  <2>2. QED
    BY <1>1, <2>1 DEF Calls
<1> HIDE DEF d
<1>5. Typed(d)
  BY <1>2, <1>4 DEF Typed, Good
<1>6. Accounted(d)
  BY <1>2, <1>3 DEF Accounted, Active, Good
<1>7. Counted(d)
  BY <1>2 DEF Counted, Active, Good
<1>8. QED
  BY <1>5, <1>6, <1>7 DEF Good, d

LEMMA ReplyGood ==
    ASSUME NEW c, Good(c), Active(c), c.chunk # {}, c.sent = {}
    PROVE  Good([c EXCEPT !.rest = c.rest \ c.chunk, !.chunk = {}, !.attempt = 0,
                          !.requests = c.requests + 1])
<1> DEFINE d == [c EXCEPT !.rest = c.rest \ c.chunk, !.chunk = {}, !.attempt = 0,
                          !.requests = c.requests + 1]
           n == Cardinality(c.rest)
           q == Cardinality(c.rest \ c.chunk)
<1>1. c \in Calls
  BY DEF Good, Typed
<1>2. /\ d.op = c.op /\ d.keys = c.keys /\ d.rest = c.rest \ c.chunk /\ d.size = c.size
      /\ d.chunk = {} /\ d.sent = {} /\ d.applied = c.applied
      /\ d.requests = c.requests + 1 /\ d.outcome = c.outcome
  BY <1>1 DEF Calls
<1>3. c.chunk \subseteq c.rest /\ c.rest \subseteq c.keys /\ c.keys \subseteq Keys
  BY <1>1 DEF Good, Typed, Accounted, Calls
<1>4. c.requests \in Nat /\ c.size \in Nat
  BY <1>1 DEF Calls
<1>5. d \in Calls
  <2>1. /\ 0 \in 0 .. MaxAttempts /\ c.requests + 1 \in Nat
        /\ c.rest \ c.chunk \in SUBSET Keys /\ {} \in SUBSET Keys
    BY <1>3, <1>4, AttemptsAssumption
  <2>2. QED
    BY <1>1, <2>1 DEF Calls
<1>6. Typed(d)
  BY <1>2, <1>5, FS_EmptySet, ChunksAssumption DEF Typed
<1>7. Accounted(d)
  BY <1>2, <1>3 DEF Accounted, Active, Good
<1>8. Counted(d)
  <2>1. /\ IsFiniteSet(c.rest) /\ n \in Nat /\ q \in Nat /\ n # 0
        /\ q = n - Cardinality(c.chunk)
    <3>1. /\ IsFiniteSet(c.rest) /\ n \in Nat /\ q \in Nat /\ IsFiniteSet(c.chunk)
          /\ c.rest # {} /\ c.rest \cap c.chunk = c.chunk
      BY <1>3, FiniteParts
    <3>2. n # 0 /\ q = n - Cardinality(c.rest \cap c.chunk)
      BY <3>1, FS_EmptySet, FS_Difference
    <3>3. QED
      BY <3>1, <3>2
  <2>2. q = IF n <= c.size THEN 0 ELSE n - c.size
    BY <2>1, <1>3, FS_EmptySet DEF Good, Accounted, ChunksOf
  <2>3. c.size \in Nat \ {0} /\ c.size <= MaxChunk
    <3>1. Cardinality(c.keys) \in Nat /\ Cardinality(c.keys) # 0
      BY <1>3, FiniteParts, FS_EmptySet
    <3>2. QED
      BY <3>1, SizeBounds, ChunksAssumption DEF Good, Accounted
  <2>4. n <= c.size * Ceil(n, MaxChunk)
    BY DEF Good, Counted
  <2>5. c.requests + Ceil(n, MaxChunk) = Ceil(Cardinality(c.keys), MaxChunk)
    BY DEF Good, Counted, Active
  <2>6. Ceil(n, MaxChunk) \in Nat /\ Ceil(q, MaxChunk) \in Nat
    BY <2>1, CeilBounds, ChunksAssumption
  <2>7. Cardinality(d.rest) = q
    BY <1>2
  <2> HIDE DEF d, n, q
  <2>8. Ceil(q, MaxChunk) + 1 = Ceil(n, MaxChunk) /\ q <= c.size * Ceil(q, MaxChunk)
    BY <2>1, <2>2, <2>3, <2>4, OneLess
  <2>9. QED
    BY <1>2, <1>4, <2>5, <2>6, <2>7, <2>8 DEF Counted
<1>9. QED
  BY <1>6, <1>7, <1>8 DEF Good

LEMMA RetryGood ==
    ASSUME NEW c, Good(c), Active(c), c.attempt < MaxAttempts
    PROVE  Good([c EXCEPT !.sent = c.chunk, !.attempt = c.attempt + 1])
<1> DEFINE d == [c EXCEPT !.sent = c.chunk, !.attempt = c.attempt + 1]
<1>1. c \in Calls
  BY DEF Good, Typed
<1>2. /\ d.op = c.op /\ d.keys = c.keys /\ d.rest = c.rest /\ d.size = c.size
      /\ d.chunk = c.chunk /\ d.sent = c.chunk /\ d.applied = c.applied
      /\ d.requests = c.requests /\ d.outcome = c.outcome
  BY <1>1 DEF Calls
<1>3. d \in Calls
  <2>1. c.attempt + 1 \in 0 .. MaxAttempts /\ c.chunk \in SUBSET Keys
    BY <1>1, AttemptsAssumption DEF Calls
  <2>2. QED
    BY <1>1, <2>1 DEF Calls
<1> HIDE DEF d
<1>4. Typed(d)
  BY <1>2, <1>3 DEF Typed, Good
<1>5. Accounted(d)
  BY <1>2 DEF Accounted, Active, Good
<1>6. Counted(d)
  BY <1>2 DEF Counted, Active, Good
<1>7. QED
  BY <1>4, <1>5, <1>6 DEF Good, d

LEMMA FailGood ==
    ASSUME NEW c, Good(c), Active(c)
    PROVE  Good([c EXCEPT !.outcome = "error", !.read = NothingRead, !.rest = {},
                          !.chunk = {}, !.sent = {}])
<1> DEFINE d == [c EXCEPT !.outcome = "error", !.read = NothingRead, !.rest = {},
                          !.chunk = {}, !.sent = {}]
<1>1. c \in Calls
  BY DEF Good, Typed
<1>2. d.outcome = "error" /\ d.op = c.op /\ d.chunk = {} /\ d.sent = {} /\ d.rest = {}
  BY <1>1 DEF Calls
<1>3. NothingRead \in [Keys -> Values \cup {NoValue}]
  BY DEF NothingRead
<1>4. d \in Calls
  BY <1>1, <1>3 DEF Calls
<1> HIDE DEF d
<1>5. Typed(d)
  BY <1>2, <1>4, FS_EmptySet, ChunksAssumption DEF Typed
<1>6. QED
  BY <1>2, <1>5 DEF Good, Accounted, Counted, Active, d

LEMMA SucceedGood ==
    ASSUME NEW c, Good(c), Active(c)
    PROVE  Good([c EXCEPT !.outcome = "ok"])
<1> DEFINE d == [c EXCEPT !.outcome = "ok"]
<1>1. c \in Calls
  BY DEF Good, Typed
<1>2. /\ d.op = c.op /\ d.keys = c.keys /\ d.rest = c.rest /\ d.chunk = c.chunk
      /\ d.sent = c.sent /\ d.requests = c.requests /\ d.outcome = "ok"
  BY <1>1 DEF Calls
<1>3. d \in Calls
  BY <1>1 DEF Calls
<1> HIDE DEF d
<1>4. Typed(d)
  BY <1>2, <1>3 DEF Typed, Good
<1>5. QED
  BY <1>2, <1>4 DEF Good, Accounted, Counted, Active, d

-----------------------------------------------------------------------------
(* One step *)

LEMMA InitInv == Init => IInv
<1> SUFFICES ASSUME Init
             PROVE  IInv
  OBVIOUS
<1>1. NoCall \in Calls
  BY NoCallGood DEF Good, Typed
<1>2. QED
  BY <1>1, NoCallGood DEF Init, IInv, StoreOK

LEMMA BeginInv ==
    ASSUME IInv, NEW t \in Callers, NEW op \in {"get", "put", "delete"},
           NEW S \in SUBSET Keys, NEW v \in Values \cup {NoValue}, Begin(t, op, S, v)
    PROVE  IInv'
<1> DEFINE c == [NoCall EXCEPT !.op = op, !.keys = S, !.value = v, !.rest = S,
                               !.size = CalcChunkSize(Cardinality(S))]
<1>1. Good(c)
  BY BeginGood
<1>2. call' = [call EXCEPT ![t] = c]
  BY DEF Begin, IInv
<1>3. StoreOK'
  BY DEF Begin, IInv, StoreOK
<1> HIDE DEF c
<1>4. QED
  BY <1>1, <1>2, <1>3, OneCall

LEMMA SendInv == ASSUME IInv, NEW t \in Callers, Send(t) PROVE IInv'
<1>1. PICK S \in ChunksOf(call[t].rest, call[t].size) :
          call' = [call EXCEPT ![t].chunk = S, ![t].sent = S, ![t].attempt = 1]
  BY DEF Send
<1> DEFINE c == [call[t] EXCEPT !.chunk = S, !.sent = S, !.attempt = 1]
<1>2. Good(c)
  BY SendGood DEF Send, Running, Active, IInv
<1>3. call' = [call EXCEPT ![t] = c]
  BY <1>1 DEF IInv
<1>4. StoreOK'
  BY DEF Send, IInv, StoreOK
<1> HIDE DEF c
<1>5. QED
  BY <1>2, <1>3, <1>4, OneCall

LEMMA ReplyInv == ASSUME IInv, NEW t \in Callers, Reply(t) PROVE IInv'
<1> DEFINE c == [call[t] EXCEPT !.rest = call[t].rest \ call[t].chunk, !.chunk = {},
                                !.attempt = 0, !.requests = call[t].requests + 1]
<1>1. Good(c)
  BY ReplyGood DEF Reply, Running, Active, IInv
<1>2. call' = [call EXCEPT ![t] = c]
  BY DEF Reply, IInv
<1>3. StoreOK'
  BY DEF Reply, IInv, StoreOK
<1> HIDE DEF c
<1>4. QED
  BY <1>1, <1>2, <1>3, OneCall

LEMMA ExecuteInv == ASSUME IInv, NEW t \in Callers, Execute(t) PROVE IInv'
<1>1. PICK S \in CommandsOf(t) :
          /\ db' = IF call[t].op = "get" THEN db
                   ELSE [k \in Keys |-> IF k \in S THEN call[t].value ELSE db[k]]
          /\ call' = [call EXCEPT
                ![t].sent = call[t].sent \ S,
                ![t].applied = call[t].applied \cup S,
                ![t].read = IF call[t].op # "get" THEN call[t].read
                            ELSE [k \in Keys |-> IF k \in S THEN db[k] ELSE call[t].read[k]]]
  BY DEF Execute
<1> DEFINE r == IF call[t].op # "get" THEN call[t].read
                ELSE [k \in Keys |-> IF k \in S THEN db[k] ELSE call[t].read[k]]
           c == [call[t] EXCEPT !.sent = call[t].sent \ S,
                                !.applied = call[t].applied \cup S, !.read = r]
<1>2. S \in SUBSET call[t].sent
  BY DEF CommandsOf
<1>3. call[t] \in Calls
  BY DEF IInv
<1>4. r \in [Keys -> Values \cup {NoValue}]
  BY <1>3 DEF IInv, StoreOK, Calls
<1>5. Good(c)
  <2> HIDE DEF r
  <2>1. QED
    BY <1>2, <1>4, ExecuteGood DEF Execute, Running, Active, IInv
<1>6. call' = [call EXCEPT ![t] = c]
  BY <1>1 DEF IInv
<1>7. StoreOK'
  BY <1>1, <1>3 DEF Execute, IInv, StoreOK, Calls
<1> HIDE DEF c
<1>8. QED
  BY <1>5, <1>6, <1>7, OneCall

\* What an ended attempt leaves behind are commands.
LEMMA LeaveBehindOK == ASSUME IInv, NEW t \in Callers, LeaveBehind(t), db' = db PROVE StoreOK'
<1>1. call[t] \in Calls
  BY DEF IInv
<1>2. PICK S \in SUBSET call[t].sent : wire' = wire \cup [key : S, value : {call[t].value}]
  BY DEF LeaveBehind
<1>3. S \subseteq Keys /\ call[t].value \in Values \cup {NoValue}
  BY <1>1 DEF Calls
<1>4. [key : S, value : {call[t].value}] \subseteq [key : Keys, value : Values \cup {NoValue}]
  BY <1>3
<1>5. QED
  BY <1>2, <1>4 DEF IInv, StoreOK

LEMMA RetryInv == ASSUME IInv, NEW t \in Callers, Retry(t) PROVE IInv'
<1> DEFINE c == [call[t] EXCEPT !.sent = call[t].chunk, !.attempt = call[t].attempt + 1]
<1>1. Good(c)
  BY RetryGood DEF Retry, Running, Active, IInv
<1>2. call' = [call EXCEPT ![t] = c]
  BY DEF Retry, IInv
<1>3. StoreOK'
  BY LeaveBehindOK DEF Retry
<1> HIDE DEF c
<1>4. QED
  BY <1>1, <1>2, <1>3, OneCall

LEMMA FailInv == ASSUME IInv, NEW t \in Callers, Fail(t) PROVE IInv'
<1> DEFINE c == [call[t] EXCEPT !.outcome = "error", !.read = NothingRead, !.rest = {},
                                !.chunk = {}, !.sent = {}]
<1>1. Good(c)
  BY FailGood DEF Fail, Running, Active, IInv
<1>2. call' = [call EXCEPT ![t] = c]
  BY DEF Fail, IInv
<1>3. StoreOK'
  BY LeaveBehindOK DEF Fail
<1> HIDE DEF c
<1>4. QED
  BY <1>1, <1>2, <1>3, OneCall

LEMMA SucceedInv == ASSUME IInv, NEW t \in Callers, Succeed(t) PROVE IInv'
<1> DEFINE c == [call[t] EXCEPT !.outcome = "ok"]
<1>1. Good(c)
  BY SucceedGood DEF Succeed, Running, Active, IInv
<1>2. call' = [call EXCEPT ![t] = c]
  BY DEF Succeed, IInv
<1>3. StoreOK'
  BY DEF Succeed, IInv, StoreOK
<1> HIDE DEF c
<1>4. QED
  BY <1>1, <1>2, <1>3, OneCall

LEMMA TakeInv == ASSUME IInv, NEW t \in Callers, Take(t) PROVE IInv'
<1>1. StoreOK'
  BY DEF Take, IInv, StoreOK
<1>2. QED
  BY <1>1, NoCallGood, OneCall DEF Take

\* Steps of the server.
LEMMA ServerInv ==
    ASSUME IInv, Late \/ (\E k \in Keys : Expire(k)) \/ UNCHANGED vars
    PROVE  IInv'
<1>1. StoreOK' /\ call' = call
  BY DEF Late, Expire, vars, IInv, StoreOK
<1>2. QED
  BY <1>1 DEF IInv

LEMMA NextInv == IInv /\ [Next]_vars => IInv'
<1> SUFFICES ASSUME IInv, [Next]_vars
             PROVE  IInv'
  OBVIOUS
<1>1. ASSUME NEW t \in Callers, BatchGet(t) \/ BatchPut(t) \/ BatchDelete(t)
      PROVE  IInv'
  BY <1>1, BeginInv, BatchesAssumption DEF BatchGet, BatchPut, BatchDelete
<1>2. ASSUME NEW t \in Callers, Progress(t) \/ Take(t)
      PROVE  IInv'
  BY <1>2, SendInv, ExecuteInv, ReplyInv, RetryInv, FailInv, SucceedInv, TakeInv DEF Progress
<1>3. QED
  BY <1>1, <1>2, ServerInv DEF Next

LEMMA SpecInv == Spec => []IInv
BY InitInv, NextInv, PTL DEF Spec

-----------------------------------------------------------------------------
(* LayerStore *)

LEMMA InitStore == Init => Store!Init
BY DEF Init, Store!Init, NoCall, Store!NoCall, NothingRead, Store!NothingRead, Visible,
       Store!Call

\* A step of the call of t, as LayerStore sees it.
LEMMA VisibleStep ==
    ASSUME IInv, NEW t \in Callers, NEW c, call' = [call EXCEPT ![t] = c]
    PROVE  [u \in Callers |-> Visible(call[u])]'
             = [[u \in Callers |-> Visible(call[u])] EXCEPT ![t] = Visible(c)]
BY DEF IInv

LEMMA BeginStore ==
    ASSUME IInv, NEW t \in Callers, NEW op, NEW S \in SUBSET Keys,
           NEW v \in Values \cup {NoValue}, Begin(t, op, S, v)
    PROVE  Store!Begin(t, op, S, v)
<1> DEFINE c == [NoCall EXCEPT !.op = op, !.keys = S, !.value = v, !.rest = S,
                               !.size = CalcChunkSize(Cardinality(S))]
<1>1. call' = [call EXCEPT ![t] = c]
  BY DEF Begin, IInv
<1>2. /\ c.op = op /\ c.value = v /\ c.keys = S /\ c.applied = {}
      /\ c.read = NothingRead /\ c.outcome = "none"
  BY DEF NoCall
<1> HIDE DEF c
<1>3. /\ Visible(c) = Store!Call(op, v, S, {}, Store!NothingRead, "none")
      /\ Visible(call[t]) = Store!NoCall
  BY <1>2 DEF Begin, NoCall, Visible, Store!NoCall, Store!Call, NothingRead, Store!NothingRead
<1>4. [u \in Callers |-> Visible(call[u])]'
        = [[u \in Callers |-> Visible(call[u])] EXCEPT
             ![t] = Store!Call(op, v, S, {}, Store!NothingRead, "none")]
  BY <1>1, <1>3, VisibleStep
<1>5. QED
  BY <1>3, <1>4 DEF Begin, Store!Begin

LEMMA ExecuteStore ==
    ASSUME IInv, NEW t \in Callers, Execute(t)
    PROVE  \E S \in SUBSET Keys : Store!Apply(t, S)
<1>1. PICK S \in CommandsOf(t) :
          /\ db' = IF call[t].op = "get" THEN db
                   ELSE [k \in Keys |-> IF k \in S THEN call[t].value ELSE db[k]]
          /\ call' = [call EXCEPT
                ![t].sent = call[t].sent \ S,
                ![t].applied = call[t].applied \cup S,
                ![t].read = IF call[t].op # "get" THEN call[t].read
                            ELSE [k \in Keys |-> IF k \in S THEN db[k] ELSE call[t].read[k]]]
  BY DEF Execute
<1> DEFINE r == IF call[t].op # "get" THEN call[t].read
                ELSE [k \in Keys |-> IF k \in S THEN db[k] ELSE call[t].read[k]]
           c == [call[t] EXCEPT !.sent = call[t].sent \ S,
                                !.applied = call[t].applied \cup S, !.read = r]
<1>2. call' = [call EXCEPT ![t] = c]
  BY <1>1 DEF IInv
<1>3. S # {} /\ S \in SUBSET call[t].sent
  BY DEF CommandsOf, Execute
<1>4. Good(call[t]) /\ Active(call[t])
  BY DEF IInv, Execute, Running, Active
<1>5. call[t].sent \subseteq call[t].keys /\ call[t].keys \subseteq Keys
  BY <1>4 DEF Good, Typed, Accounted, Calls
<1>6. /\ c.op = call[t].op /\ c.value = call[t].value /\ c.keys = call[t].keys
      /\ c.applied = call[t].applied \cup S /\ c.read = r
      /\ c.outcome = call[t].outcome
  BY DEF IInv, Calls
<1>7. Visible(c) = Store!Call(call[t].op, call[t].value, call[t].keys,
                              call[t].applied \cup S, r, "none")
  <2> HIDE DEF c, r
  <2>1. QED
    BY <1>4, <1>6 DEF Active, Visible, Store!Call
<1>8. [u \in Callers |-> Visible(call[u])]'
        = [[u \in Callers |-> Visible(call[u])] EXCEPT ![t] = Visible(c)]
  <2> HIDE DEF c
  <2>1. QED
    BY <1>2, VisibleStep
<1>9. Store!Goes(t, call[t].applied \cup S, r, "none")
  <2> HIDE DEF c, r
  <2>1. QED
    BY <1>7, <1>8 DEF Store!Goes, Visible
<1>10. Store!Apply(t, S)
  BY <1>1, <1>3, <1>4, <1>5, <1>9 DEF Store!Apply, Store!Running, Active, Execute, Visible
<1>11. QED
  BY <1>3, <1>5, <1>10

\* LayerStore does not see a step that changes none of its fields.
LEMMA HiddenStep ==
    ASSUME IInv, NEW t \in Callers, NEW c, call' = [call EXCEPT ![t] = c],
           Visible(c) = Visible(call[t])
    PROVE  [u \in Callers |-> Visible(call[u])]' = [u \in Callers |-> Visible(call[u])]
BY DEF IInv

LEMMA SendStore ==
    ASSUME IInv, NEW t \in Callers, Send(t)
    PROVE  UNCHANGED Store!vars
<1>1. PICK S \in ChunksOf(call[t].rest, call[t].size) :
          call' = [call EXCEPT ![t].chunk = S, ![t].sent = S, ![t].attempt = 1]
  BY DEF Send
<1> DEFINE c == [call[t] EXCEPT !.chunk = S, !.sent = S, !.attempt = 1]
<1>2. call' = [call EXCEPT ![t] = c]
  BY <1>1 DEF IInv
<1>3. Visible(c) = Visible(call[t])
  BY DEF IInv, Visible, Calls
<1> HIDE DEF c
<1>4. QED
  BY <1>2, <1>3, HiddenStep DEF Store!vars, Send

LEMMA ReplyStore ==
    ASSUME IInv, NEW t \in Callers, Reply(t)
    PROVE  UNCHANGED Store!vars
<1> DEFINE c == [call[t] EXCEPT !.rest = call[t].rest \ call[t].chunk, !.chunk = {},
                                !.attempt = 0, !.requests = call[t].requests + 1]
<1>1. call' = [call EXCEPT ![t] = c]
  BY DEF Reply, IInv
<1>2. Visible(c) = Visible(call[t])
  BY DEF IInv, Visible, Calls
<1> HIDE DEF c
<1>3. QED
  BY <1>1, <1>2, HiddenStep DEF Store!vars, Reply

LEMMA RetryStore ==
    ASSUME IInv, NEW t \in Callers, Retry(t)
    PROVE  \E S \in SUBSET Keys : Store!LeaveBehind(t, S)
<1>1. PICK S \in SUBSET call[t].sent :
          /\ call[t].op = "get" => S = {}
          /\ wire' = wire \cup [key : S, value : {call[t].value}]
  BY DEF Retry, LeaveBehind
<1>2. Good(call[t]) /\ Active(call[t])
  BY DEF IInv, Retry, Running, Active
<1>3. S \subseteq call[t].keys /\ call[t].keys \subseteq Keys
  BY <1>2 DEF Good, Typed, Accounted, Calls
<1> DEFINE c == [call[t] EXCEPT !.sent = call[t].chunk, !.attempt = call[t].attempt + 1]
<1>4. call' = [call EXCEPT ![t] = c] /\ Visible(c) = Visible(call[t])
  BY DEF Retry, IInv, Visible, Calls
<1> HIDE DEF c
<1>5. [u \in Callers |-> Visible(call[u])]' = [u \in Callers |-> Visible(call[u])]
  BY <1>4, HiddenStep
<1>6. Store!LeaveBehind(t, S)
  BY <1>1, <1>2, <1>3, <1>5 DEF Store!LeaveBehind, Store!Running, Active, Visible, Retry
<1>7. QED
  BY <1>3, <1>6

LEMMA FailStore ==
    ASSUME IInv, NEW t \in Callers, Fail(t)
    PROVE  \E S \in SUBSET Keys : Store!LeaveBehind(t, S)
<1> DEFINE c == [call[t] EXCEPT !.outcome = "error", !.read = NothingRead, !.rest = {},
                                !.chunk = {}, !.sent = {}]
<1>1. PICK S \in SUBSET call[t].sent :
          /\ call[t].op = "get" => S = {}
          /\ wire' = wire \cup [key : S, value : {call[t].value}]
  BY DEF Fail, LeaveBehind
<1>2. Good(call[t]) /\ Active(call[t])
  BY DEF IInv, Fail, Running, Active
<1>3. S \subseteq call[t].keys /\ call[t].keys \subseteq Keys
  BY <1>2 DEF Good, Typed, Accounted, Calls
<1>4. call' = [call EXCEPT ![t] = c]
  BY DEF Fail, IInv
<1>5. /\ c.op = call[t].op /\ c.value = call[t].value /\ c.keys = call[t].keys
      /\ c.applied = call[t].applied /\ c.read = NothingRead /\ c.outcome = "error"
  BY DEF IInv, Calls
<1> HIDE DEF c
<1>6. Visible(c) = Store!Call(call[t].op, call[t].value, call[t].keys,
                              call[t].applied, Store!NothingRead, "error")
  BY <1>5 DEF Visible, Store!Call, NothingRead, Store!NothingRead
<1>7. Store!Goes(t, call[t].applied, Store!NothingRead, "error")
  <2>1. [u \in Callers |-> Visible(call[u])]'
          = [[u \in Callers |-> Visible(call[u])] EXCEPT ![t] = Visible(c)]
    BY <1>4, VisibleStep
  <2>2. QED
    BY <1>6, <2>1 DEF Store!Goes, Visible
<1>8. Store!LeaveBehind(t, S)
  BY <1>1, <1>2, <1>3, <1>7 DEF Store!LeaveBehind, Store!Running, Active, Visible, Fail
<1>9. QED
  BY <1>3, <1>8

LEMMA SucceedStore ==
    ASSUME IInv, NEW t \in Callers, Succeed(t)
    PROVE  Store!Succeed(t)
<1> DEFINE c == [call[t] EXCEPT !.outcome = "ok"]
<1>1. Good(call[t]) /\ Active(call[t])
  BY DEF IInv, Succeed, Running, Active
<1>2. call[t].applied = call[t].keys
  BY <1>1 DEF Succeed, Good, Accounted
<1>3. call' = [call EXCEPT ![t] = c]
  BY DEF Succeed, IInv
<1>4. /\ c.op = call[t].op /\ c.value = call[t].value /\ c.keys = call[t].keys
      /\ c.applied = call[t].applied /\ c.read = call[t].read /\ c.outcome = "ok"
  BY DEF IInv, Calls
<1> HIDE DEF c
<1>5. Visible(c) = Store!Call(call[t].op, call[t].value, call[t].keys,
                              call[t].applied, call[t].read, "ok")
  BY <1>4 DEF Visible, Store!Call
<1>6. Store!Goes(t, call[t].applied, call[t].read, "ok")
  <2>1. [u \in Callers |-> Visible(call[u])]'
          = [[u \in Callers |-> Visible(call[u])] EXCEPT ![t] = Visible(c)]
    BY <1>3, VisibleStep
  <2>2. QED
    BY <1>5, <2>1 DEF Store!Goes, Visible
<1>7. QED
  BY <1>1, <1>2, <1>6 DEF Store!Succeed, Store!Running, Active, Visible, Succeed

LEMMA TakeStore ==
    ASSUME IInv, NEW t \in Callers, Take(t)
    PROVE  Store!Take(t)
<1>1. Visible(NoCall) = Store!NoCall
  BY DEF Visible, NoCall, Store!NoCall, Store!Call, NothingRead, Store!NothingRead
<1>2. [u \in Callers |-> Visible(call[u])]'
        = [[u \in Callers |-> Visible(call[u])] EXCEPT ![t] = Store!NoCall]
  BY <1>1, VisibleStep DEF Take
<1>3. QED
  BY <1>2 DEF Take, Store!Take, Visible

LEMMA NextStore == IInv /\ [Next]_vars => [Store!Next]_(Store!vars)
<1> SUFFICES ASSUME IInv, [Next]_vars
             PROVE  [Store!Next]_(Store!vars)
  OBVIOUS
<1>1. ASSUME NEW t \in Callers, BatchGet(t) \/ BatchPut(t) \/ BatchDelete(t)
      PROVE  Store!Next
  <2>1. CASE BatchGet(t)
    BY <1>1, <2>1, BeginStore, BatchesAssumption DEF BatchGet, Store!Next
  <2>2. CASE BatchPut(t)
    BY <1>1, <2>2, BeginStore, BatchesAssumption DEF BatchPut, Store!Next
  <2>3. CASE BatchDelete(t)
    BY <1>1, <2>3, BeginStore, BatchesAssumption DEF BatchDelete, Store!Next
  <2>4. QED
    BY <1>1, <2>1, <2>2, <2>3
<1>2. ASSUME NEW t \in Callers, Send(t) \/ Reply(t)
      PROVE  UNCHANGED Store!vars
  BY <1>2, SendStore, ReplyStore
<1>3. ASSUME NEW t \in Callers, Execute(t)
      PROVE  Store!Next
  BY <1>3, ExecuteStore DEF Store!Next
<1>4. ASSUME NEW t \in Callers, Retry(t) \/ Fail(t)
      PROVE  Store!Next
  BY <1>4, RetryStore, FailStore DEF Store!Next
<1>5. ASSUME NEW t \in Callers, Succeed(t) \/ Take(t)
      PROVE  Store!Next
  BY <1>5, SucceedStore, TakeStore DEF Store!Next
<1>6. CASE Late
  BY <1>6 DEF Late, Store!Next, Store!Late
<1>7. ASSUME NEW k \in Keys, Expire(k)
      PROVE  Store!Next
  BY <1>7 DEF Expire, Store!Next, Store!Expire
<1>8. CASE UNCHANGED vars
  BY <1>8 DEF vars, Store!vars
<1>9. QED
  BY <1>1, <1>2, <1>3, <1>4, <1>5, <1>6, <1>7, <1>8 DEF Next, Progress

-----------------------------------------------------------------------------
\* The type invariant, with no chunk above MaxChunk, for batches of any size.
THEOREM RedisTypeCorrect == Spec => []TypeOK
<1>1. IInv => TypeOK
  BY DEF IInv, StoreOK, Good, Typed, TypeOK
<1>2. QED
  BY <1>1, SpecInv, PTL

\* A batch takes as few requests as MaxChunk allows, whatever its size.
THEOREM FewestRequestsForAll == Spec => []FewestRequests
<1>1. IInv => FewestRequests
  BY DEF IInv, Good, Counted, FewestRequests
<1>2. QED
  BY <1>1, SpecInv, PTL

\* The provider with its chunks, retries and errors implements LayerStore.
THEOREM RedisIsLayerStore == Spec => IsLayerStore
BY SpecInv, InitStore, NextStore, PTL DEF Spec, IsLayerStore, Store!Spec
=============================================================================
