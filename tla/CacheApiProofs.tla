--------------------------- MODULE CacheApiProofs ---------------------------
(***************************************************************************)
(* The HTTP API for any caches, prefixes, keys, values, batches and number *)
(* of requests in flight: ids of caches whose prefixes are apart share no   *)
(* storage key, each value found was put under the id asked, and a settled *)
(* id holds its last write or one that was in flight with it.              *)
(***************************************************************************)
EXTENDS CacheApi, SequenceTheorems, FiniteSetTheorems, WellFoundedInduction, TLAPS

Entries == [id : Ids \cup {NoId}, v : Values \cup {Null, NoValue}]

(* Storage keys *)

\* An id whose prefix is apart from the others shares its storage key with no
\* configured id, though prefixes and keys may hold the separator (mapper.go:71).
THEOREM StorageKeysInjective ==
    \A i \in Apart, j \in Known : StorageKey(i) = StorageKey(j) => i = j
<1> SUFFICES ASSUME NEW i \in Apart, NEW j \in Known, StorageKey(i) = StorageKey(j)
             PROVE  i = j
  OBVIOUS
<1> DEFINE C == Chars
           p == Prefix[i.c]
           q == Prefix[j.c]
           s == StorageKey(i)
<1>1. /\ i \in Known /\ i.c \in Caches /\ j.c \in Caches
      /\ ~Extends(p, q) /\ ~Extends(q, p)
  BY DEF Apart, Known
<1>2. p \in Seq(C) /\ q \in Seq(C) /\ <<Sep>> \in Seq(C) /\ i.k \in Seq(C) /\ j.k \in Seq(C)
  BY <1>1, PrefixAssumption, IdsAssumption DEF Known
<1> DEFINE Joins(t, r, k) ==
             /\ Len(t) = Len(r) + 1 + Len(k)
             /\ \A n \in 1 .. Len(r) : t[n] = r[n]
             /\ t[Len(r) + 1] = Sep
             /\ \A n \in 1 .. Len(k) : t[Len(r) + 1 + n] = k[n]
<1>3. ASSUME NEW r \in Seq(C), NEW k \in Seq(C)
      PROVE  Joins(r \o <<Sep>> \o k, r, k)
  <2>1. /\ r \o <<Sep>> \in Seq(C) /\ Len(r \o <<Sep>>) = Len(r) + 1
        /\ \A n \in 1 .. Len(r) : (r \o <<Sep>>)[n] = r[n]
        /\ (r \o <<Sep>>)[Len(r) + 1] = Sep
    BY <1>2, ConcatProperties, LenProperties
  <2> DEFINE u == r \o <<Sep>>
  <2>2. /\ Len(u \o k) = Len(u) + Len(k)
        /\ \A n \in 1 .. Len(u) + Len(k) :
              (u \o k)[n] = IF n <= Len(u) THEN u[n] ELSE k[n - Len(u)]
    BY <2>1, ConcatProperties
  <2>3. Len(r) \in Nat /\ Len(k) \in Nat
    BY LenProperties
  <2> HIDE DEF u
  <2>4. /\ Len(u) = Len(r) + 1
        /\ \A n \in 1 .. Len(r) : u[n] = r[n]
        /\ u[Len(r) + 1] = Sep
    BY <2>1 DEF u
  <2>5. \A n \in 1 .. Len(k) : (u \o k)[Len(r) + 1 + n] = k[n]
    BY <2>2, <2>3, <2>4
  <2>6. (u \o k)[Len(r) + 1] = Sep /\ \A n \in 1 .. Len(r) : (u \o k)[n] = r[n]
    BY <2>2, <2>3, <2>4
  <2>7. QED
    BY <2>2, <2>3, <2>4, <2>5, <2>6 DEF u
<1>4. Joins(s, p, i.k) /\ Joins(s, q, j.k)
  <2>1. s = p \o <<Sep>> \o i.k /\ s = q \o <<Sep>> \o j.k
    BY DEF StorageKey
  <2> HIDE DEF Joins, C, p, q, s
  <2>2. QED
    BY <1>2, <1>3, <2>1
<1>5. Len(p) \in Nat /\ Len(q) \in Nat /\ Len(i.k) \in Nat /\ Len(j.k) \in Nat
  BY <1>2, LenProperties
<1> HIDE DEF p, q, s, C
<1>6. Len(p) = Len(q)
  <2>1. ASSUME NEW t, NEW r, Len(t) \in Nat, Len(r) \in Nat, Len(r) < Len(t),
               \A n \in 1 .. Len(t) : s[n] = t[n],
               \A n \in 1 .. Len(r) : s[n] = r[n], s[Len(r) + 1] = Sep
        PROVE  Extends(t, r)
    <3> DEFINE m == Len(t)
               l == Len(r)
    <3>1. /\ m \in Nat /\ l \in Nat /\ l < m /\ s[l + 1] = Sep
          /\ \A n \in 1 .. m : s[n] = t[n]
          /\ \A n \in 1 .. l : s[n] = r[n]
      BY <2>1
    <3> HIDE DEF m, l
    <3>2. t[l + 1] = Sep /\ \A n \in 1 .. l : t[n] = r[n]
      BY <3>1
    <3>3. QED
      BY <3>1, <3>2 DEF Extends, m, l
  <2>2. ~(Len(q) < Len(p))
    BY <1>1, <1>4, <1>5, <2>1
  <2>3. ~(Len(p) < Len(q))
    BY <1>1, <1>4, <1>5, <2>1
  <2> DEFINE m == Len(p)
             n == Len(q)
  <2>4. m \in Nat /\ n \in Nat /\ ~(n < m) /\ ~(m < n)
    BY <1>5, <2>2, <2>3
  <2> HIDE DEF m, n
  <2>5. m = n
    BY <2>4
  <2>6. QED
    BY <2>5 DEF m, n
<1>7. p = q
  BY <1>2, <1>4, <1>6, SeqEqual
<1>8. i.c = j.c
  BY <1>1, <1>7, PrefixAssumption DEF p, q
<1>9. Len(i.k) = Len(j.k) /\ \A n \in 1 .. Len(i.k) : (i.k)[n] = (j.k)[n]
  <2>1. Len(i.k) = Len(j.k)
    <3> DEFINE l == Len(p)
               m == Len(i.k)
               n == Len(j.k)
    <3>1. l + 1 + m = l + 1 + n /\ l \in Nat /\ m \in Nat /\ n \in Nat
      BY <1>4, <1>5, <1>6
    <3> HIDE DEF l, m, n
    <3>2. m = n
      BY <3>1
    <3>3. QED
      BY <3>2 DEF m, n
  <2>2. \A n \in 1 .. Len(i.k) : s[Len(p) + 1 + n] = (i.k)[n]
    BY <1>4
  <2>3. \A n \in 1 .. Len(i.k) : s[Len(p) + 1 + n] = (j.k)[n]
    BY <1>4, <1>6, <2>1
  <2>4. QED
    BY <2>1, <2>2, <2>3
<1>10. i.k = j.k
  BY <1>2, <1>9, SeqEqual
<1>11. QED
  BY <1>1, <1>8, <1>10, IdsAssumption DEF Known

(* Batches *)

\* A non-empty set of places has a greatest one.
LEMMA LastIsThere ==
    ASSUME NEW n \in Nat, NEW S \in SUBSET (1 .. n), S # {}
    PROVE  Last(S) \in S
<1> DEFINE Up(x) == {m \in S : x <= m}
           U == 1 .. n
           T == {Up(x) : x \in S}
<1>1. IsWellFoundedOn(StrictSubsetOrdering(U), SUBSET U)
  <2>1. IsFiniteSet(U)
    BY FS_Interval
  <2> HIDE DEF U
  <2>2. FiniteSubsetsOf(U) = SUBSET U
    BY <2>1, FS_FiniteSubsetsOfFinite
  <2>3. IsWellFoundedOn(StrictSubsetOrdering(U), FiniteSubsetsOf(U))
    BY FS_StrictSubsetOrderingWellFounded
  <2>4. QED
    BY <2>2, <2>3
<1>2. T \subseteq SUBSET U /\ T # {}
  OBVIOUS
<1>3. PICK y \in T : \A z \in T : <<z, y>> \notin StrictSubsetOrdering(U)
  <2> HIDE DEF T, U
  <2>1. QED
    BY <1>1, <1>2, WFMin
<1>4. PICK x \in S : y = Up(x)
  OBVIOUS
<1>5. \A z \in S : z <= x
  <2> SUFFICES ASSUME NEW z \in S, ~(z <= x)
               PROVE  FALSE
    OBVIOUS
  <2>1. \A m \in S : m \in Int
    OBVIOUS
  <2>2. Up(z) \subseteq Up(x) /\ x \in Up(x) /\ x \notin Up(z)
    <3>1. x \in Int /\ z \in Int /\ x < z
      BY <2>1
    <3>2. \A m \in S : z <= m => x <= m
      BY <2>1, <3>1
    <3>3. x <= x /\ ~(z <= x)
      BY <3>1
    <3>4. QED
      BY <3>2, <3>3
  <2>3. Up(z) \in T /\ Up(z) \in SUBSET U /\ Up(x) \in SUBSET U
    OBVIOUS
  <2>4. <<Up(z), Up(x)>> \in StrictSubsetOrdering(U)
    <3> HIDE DEF Up, U
    <3>1. QED
      BY <2>2, <2>3 DEF StrictSubsetOrdering
  <2>5. QED
    BY <1>3, <1>4, <2>3, <2>4
<1>6. QED
  BY <1>5 DEF Last

\* What a batch may hold: nothing but what clients put under each id.
GoodBatch(b) ==
    /\ b \in Seq(Entries)
    /\ \A n \in 1 .. Len(b) :
          b[n].id # NoId => b[n].v \in ValuesOf[b[n].id] \cup {Null, NoValue}

LEMMA PutsAreGood ==
    ASSUME NEW b \in PutBatches, NEW client
    PROVE  GoodBatch(b) /\ GoodBatch(Sent(client, b))
<1>1. /\ b \in Seq([id : Ids \cup {NoId}, v : Values \cup {Null}])
      /\ \A n \in 1 .. Len(b) : b[n].id # NoId => b[n].v \in ValuesOf[b[n].id] \cup {Null}
  BY BatchesAssumption
<1>2. b \in Seq(Entries)
  <2>1. [id : Ids \cup {NoId}, v : Values \cup {Null}] \subseteq Entries
    BY DEF Entries
  <2>2. QED
    BY <1>1, <2>1, SeqMonotonic
<1>3. GoodBatch(b)
  BY <1>1, <1>2 DEF GoodBatch
<1>4. CASE client = "rest"
  BY <1>3, <1>4 DEF Sent
<1>5. CASE client # "rest"
  <2> DEFINE t == [n \in 1 .. Len(b) |-> [b[n] EXCEPT !.id = NoId]]
  <2>1. \A n \in 1 .. Len(b) : t[n] \in Entries /\ t[n].id = NoId
    <3> SUFFICES ASSUME NEW n \in 1 .. Len(b)
                 PROVE  [b[n] EXCEPT !.id = NoId] \in Entries
                        /\ [b[n] EXCEPT !.id = NoId].id = NoId
      OBVIOUS
    <3>1. b[n] \in Entries
      BY <1>2, ElementOfSeq
    <3>2. QED
      BY <3>1 DEF Entries
  <2>2. t \in Seq(Entries) /\ Len(t) = Len(b)
    <3>1. Len(b) \in Nat
      BY <1>2, LenProperties
    <3>2. t \in [1 .. Len(b) -> Entries]
      BY <2>1
    <3> HIDE DEF t
    <3>3. QED
      BY <3>1, <3>2
  <2>3. QED
    BY <1>3, <1>5, <2>1, <2>2 DEF Sent, GoodBatch
<1>6. QED
  BY <1>4, <1>5

LEMMA RemovalsAreGood ==
    ASSUME NEW ids \in DeleteBatches
    PROVE  GoodBatch(Removals(ids))
<1>1. ids \in Seq(Ids) /\ Len(ids) \in Nat
  BY BatchesAssumption, LenProperties
<1> DEFINE t == [n \in 1 .. Len(ids) |-> [id |-> ids[n], v |-> NoValue]]
<1>2. \A n \in 1 .. Len(ids) : t[n] \in Entries /\ t[n].v = NoValue
  BY <1>1, ElementOfSeq DEF Entries
<1>3. t \in [1 .. Len(ids) -> Entries]
  BY <1>2
<1>4. t = Removals(ids)
  BY DEF Removals
<1> HIDE DEF t
<1>5. t \in Seq(Entries) /\ Len(t) = Len(ids)
  BY <1>1, <1>3
<1>6. QED
  BY <1>2, <1>4, <1>5 DEF GoodBatch

\* What may be held under id i.
HeldUnder(i) == ValuesOf[i] \cup {Empty, NoValue}

LEMMA HeldUnderIsHeld == \A i \in Known : HeldUnder(i) \subseteq Held
BY IdsAssumption DEF HeldUnder, Held, Known

\* The places of an id that is apart are those of its storage key.
LEMMA PlacesAgree ==
    ASSUME NEW b, GoodBatch(b), NEW i \in Apart
    PROVE  PlacesAt(b, StorageKey(i)) = PlacesOf(b, i)
<1>1. \A n \in 1 .. Len(b) :
         b[n].id = i <=> b[n].id \in Known /\ StorageKey(b[n].id) = StorageKey(i)
  BY StorageKeysInjective DEF Apart
<1>2. QED
  BY <1>1 DEF PlacesAt, PlacesOf

\* A batch leaves under an id it writes a value that was put under it.
LEMMA OutcomeIsPut ==
    ASSUME NEW b, GoodBatch(b), NEW i \in Known, PlacesOf(b, i) # {}
    PROVE  Outcome(b, i) \in HeldUnder(i)
<1> DEFINE n == Last(PlacesOf(b, i))
<1>1. Len(b) \in Nat
  BY LenProperties DEF GoodBatch
<1>2. PlacesOf(b, i) \in SUBSET (1 .. Len(b))
  BY DEF PlacesOf
<1>3. n \in PlacesOf(b, i)
  BY <1>1, <1>2, LastIsThere
<1>4. n \in 1 .. Len(b) /\ b[n].id = i
  BY <1>3 DEF PlacesOf
<1>5. i # NoId
  BY IdsAssumption DEF Known
<1>6. b[n].v \in ValuesOf[i] \cup {Null, NoValue}
  BY <1>4, <1>5 DEF GoodBatch
<1>7. QED
  BY <1>6 DEF Outcome, HeldUnder, Marshal

\* What the goroutine of a batch leaves under an id, and under any storage key.
LEMMA WrittenIs ==
    ASSUME NEW b, GoodBatch(b), NEW i \in Apart
    PROVE  Written(b, StorageKey(i)) = IF PlacesOf(b, i) = {} THEN store[StorageKey(i)]
                                       ELSE Outcome(b, i)
BY PlacesAgree DEF Written, Outcome

LEMMA WrittenIsHeld ==
    ASSUME NEW b, GoodBatch(b), NEW k, store[k] \in Held
    PROVE  Written(b, k) \in Held
<1> DEFINE n == Last(PlacesAt(b, k))
<1>1. CASE PlacesAt(b, k) = {}
  BY <1>1 DEF Written
<1>2. CASE PlacesAt(b, k) # {}
  <2>1. Len(b) \in Nat /\ PlacesAt(b, k) \in SUBSET (1 .. Len(b))
    BY LenProperties DEF GoodBatch, PlacesAt
  <2>2. n \in 1 .. Len(b)
    BY <1>2, <2>1, LastIsThere
  <2> HIDE DEF n
  <2>3. b[n].v \in Values \cup {Null, NoValue}
    <3>1. b[n] \in Entries
      BY <2>2, ElementOfSeq DEF GoodBatch
    <3>2. QED
      BY <3>1 DEF Entries
  <2>4. Marshal(b[n].v) \in Held
    BY <2>3 DEF Marshal, Held
  <2>5. QED
    BY <1>2, <2>4 DEF Written, n
<1>3. QED
  BY <1>1, <1>2

-----------------------------------------------------------------------------
(* The invariant *)

PoolOK == waiting \subseteq Handlers /\ active \subseteq Handlers /\ waiting \cap active = {}

BodiesOK == body \in [Handlers -> Seq(Entries)] /\ \A h \in Handlers : GoodBatch(body[h])

StoreOK ==
    /\ store \in [StorageKeys -> Held]
    /\ \A i \in Apart : store[StorageKey(i)] \in HeldUnder(i)

OutcomesOK == outcomes \in [Known -> SUBSET Held]

ReplyOK ==
    /\ reply.status \in {200, 400, 415}
    /\ reply.ids \in Seq(Ids)
    /\ reply.results \in Seq([id : Ids, found : BOOLEAN, v : Values \cup {Null}])

\* What a request in flight writes is one of the outcomes its ids may have.
WritersOK ==
    \A h \in waiting \cup active : \A i \in Writes(body[h]) :
        Outcome(body[h], i) \in outcomes[i]

IInv ==
    /\ PoolOK /\ BodiesOK /\ StoreOK /\ OutcomesOK /\ ReplyOK
    /\ AnswersArePuts
    /\ (Clients \subseteq {"rest"} => WritersOK /\ LastWriteHolds)

LEMMA InitInv == Init => IInv
<1> SUFFICES ASSUME Init
             PROVE  IInv
  OBVIOUS
<1>1. waiting = {} /\ active = {}
  BY DEF Init, Pool!Init
<1>2. PoolOK
  BY <1>1 DEF PoolOK
<1>3. BodiesOK
  BY DEF Init, BodiesOK, GoodBatch
<1>4. StoreOK
  BY DEF Init, StoreOK, StorageKeys, Held, HeldUnder, Apart
<1>5. OutcomesOK
  BY DEF Init, OutcomesOK, Held
<1>6. ReplyOK /\ AnswersArePuts
  BY DEF Init, Reply, ReplyOK, AnswersArePuts
<1>7. WritersOK
  BY <1>1 DEF WritersOK
<1>8. LastWriteHolds
  BY DEF Init, LastWriteHolds, Settled, StorageKeys, Apart
<1>9. QED
  BY <1>2, <1>3, <1>4, <1>5, <1>6, <1>7, <1>8 DEF IInv

LEMMA RefuseInv == IInv /\ Refuse => IInv'
<1> SUFFICES ASSUME IInv, Refuse
             PROVE  IInv'
  OBVIOUS
<1>1. PICK status \in {400, 415} : reply' = Reply(status, <<>>, <<>>)
  BY DEF Refuse
<1>2. ReplyOK' /\ AnswersArePuts'
  BY <1>1 DEF Reply, ReplyOK, AnswersArePuts
<1>3. UNCHANGED <<waiting, active, body, store, outcomes>>
  BY DEF Refuse
<1>4. QED
  BY <1>2, <1>3 DEF IInv, PoolOK, BodiesOK, StoreOK, OutcomesOK, WritersOK,
                    LastWriteHolds, Settled, Pending

LEMMA SpawnInv == ASSUME IInv, NEW h \in Handlers, Spawn(h) PROVE IInv'
<1>1. /\ h \in waiting
      /\ waiting' = waiting \ {h} /\ active' = active \cup {h}
      /\ reply' = Reply(200, <<>>, <<>>)
      /\ UNCHANGED <<body, store, outcomes>>
  BY DEF Spawn, Pool!Admit
<1>2. PoolOK' /\ (waiting \cup active)' = waiting \cup active
  BY <1>1 DEF IInv, PoolOK
<1>3. ReplyOK' /\ AnswersArePuts'
  BY <1>1 DEF Reply, ReplyOK, AnswersArePuts
<1>4. QED
  BY <1>1, <1>2, <1>3 DEF IInv, BodiesOK, StoreOK, OutcomesOK, WritersOK,
                          LastWriteHolds, Settled, Pending

LEMMA AskInv ==
    ASSUME IInv, NEW h \in Handlers, NEW asked, NEW sent, GoodBatch(asked), GoodBatch(sent),
           Clients \subseteq {"rest"} => sent = asked, Ask(h, asked, sent)
    PROVE  IInv'
<1>1. /\ h \notin waiting \cup active
      /\ waiting' = waiting \cup {h} /\ active' = active
      /\ body' = [body EXCEPT ![h] = sent]
      /\ outcomes' = [i \in Known |-> IF i \in Writes(asked)
                                       THEN InFlight(i) \cup {Outcome(asked, i)}
                                       ELSE outcomes[i]]
      /\ UNCHANGED <<store, reply>>
  BY DEF Ask, Pool!Ask
<1>2. PoolOK' /\ BodiesOK'
  BY <1>1 DEF IInv, PoolOK, BodiesOK, GoodBatch
<1>3. \A b, i : GoodBatch(b) /\ i \in Writes(b) => i \in Known /\ Outcome(b, i) \in Held
  BY OutcomeIsPut, HeldUnderIsHeld DEF Writes
<1>4. OutcomesOK'
  <2>1. \A i \in Known : InFlight(i) \subseteq Held
    BY <1>3 DEF InFlight, IInv, BodiesOK, PoolOK
  <2>2. \A i \in Known : outcomes'[i] \subseteq Held
    BY <1>1, <1>3, <2>1 DEF IInv, OutcomesOK
  <2>3. QED
    BY <1>1, <2>2 DEF OutcomesOK
<1>5. StoreOK' /\ ReplyOK' /\ AnswersArePuts'
  BY <1>1 DEF IInv, StoreOK, ReplyOK, AnswersArePuts, HeldUnder
<1>6. ASSUME Clients \subseteq {"rest"}
      PROVE  WritersOK' /\ LastWriteHolds'
  <2>1. /\ body'[h] = asked
        /\ \A g \in waiting \cup active : g # h /\ body'[g] = body[g]
    BY <1>1, <1>6 DEF IInv, BodiesOK, PoolOK
  <2>2. PICK after : after = body'
    OBVIOUS
  <2>3. \A g \in waiting \cup active : \A i \in Writes(body[g]) :
           Outcome(body[g], i) \in outcomes[i] /\ Outcome(body[g], i) \in InFlight(i)
    BY <1>6 DEF IInv, WritersOK, InFlight
  <2>4. \A i \in Known : outcomes'[i] = IF i \in Writes(asked)
                                         THEN InFlight(i) \cup {Outcome(asked, i)}
                                         ELSE outcomes[i]
    BY <1>1
  <2>5. ASSUME NEW g \in waiting \cup active \cup {h}, NEW i \in Writes(after[g])
        PROVE  Outcome(after[g], i) \in outcomes'[i]
    <3>1. i \in Known
      BY <2>5 DEF Writes
    <3>2. CASE g = h
      BY <2>1, <2>2, <2>4, <2>5, <3>1, <3>2
    <3>3. CASE g # h
      BY <2>1, <2>2, <2>3, <2>4, <2>5, <3>1, <3>3
    <3>4. QED
      BY <3>2, <3>3
  <2>6. WritersOK'
    BY <1>1, <2>2, <2>5 DEF WritersOK
  <2>7. LastWriteHolds'
    <3> SUFFICES ASSUME NEW i \in Apart, i \notin Pending'
                 PROVE  store'[StorageKey(i)] \in outcomes'[i]
      BY DEF LastWriteHolds, Settled
    <3>1. \A g \in waiting' \cup active' : i \notin Writes(body'[g])
      BY DEF Pending, Writes, PlacesOf, Malformed
    <3>2. i \notin Writes(asked) /\ i \in Known
      BY <1>1, <2>1, <3>1 DEF Apart
    <3>3. i \notin Pending
      BY <1>1, <2>1, <3>1 DEF Pending
    <3>4. QED
      BY <1>1, <1>6, <2>4, <3>2, <3>3 DEF IInv, LastWriteHolds, Settled
  <2>8. QED
    BY <2>6, <2>7
<1>7. QED
  BY <1>2, <1>4, <1>5, <1>6 DEF IInv

LEMMA RunInv == ASSUME IInv, NEW h \in Handlers, Run(h) PROVE IInv'
<1>1. /\ h \in active /\ waiting' = waiting /\ active' = active \ {h}
      /\ body' = [body EXCEPT ![h] = <<>>]
      /\ UNCHANGED <<reply, outcomes>>
  BY DEF Run, Pool!Leave
<1>2. GoodBatch(body[h])
  BY DEF IInv, BodiesOK
<1>3. PoolOK' /\ BodiesOK'
  BY <1>1 DEF IInv, PoolOK, BodiesOK, GoodBatch
<1>4. \A i \in Apart : store'[StorageKey(i)] = IF i \in Writes(body[h]) THEN Outcome(body[h], i)
                                               ELSE store[StorageKey(i)]
  <2>1. CASE Malformed(body[h])
    BY <2>1 DEF Run, Writes
  <2>2. CASE ~Malformed(body[h])
    <3>1. store' = [k \in StorageKeys |-> Written(body[h], k)]
      BY <2>2 DEF Run
    <3>2. \A i \in Apart : StorageKey(i) \in StorageKeys
      BY DEF StorageKeys, Apart
    <3>3. \A i \in Apart : i \in Writes(body[h]) <=> PlacesOf(body[h], i) # {}
      BY <2>2 DEF Writes, Apart
    <3> HIDE DEF StorageKeys
    <3>4. QED
      BY <1>2, <3>1, <3>2, <3>3, WrittenIs
  <2>3. QED
    BY <2>1, <2>2
<1>5. StoreOK'
  <2>1. \A i \in Apart : store'[StorageKey(i)] \in HeldUnder(i)
    BY <1>2, <1>4, OutcomeIsPut DEF IInv, StoreOK, Writes, Apart
  <2>2. store' = store \/ store' = [k \in StorageKeys |-> Written(body[h], k)]
    BY DEF Run
  <2>3. store' \in [StorageKeys -> Held]
    <3>1. \A k \in StorageKeys : Written(body[h], k) \in Held
      BY <1>2, WrittenIsHeld DEF IInv, StoreOK
    <3>2. QED
      BY <2>2, <3>1 DEF IInv, StoreOK
  <2>4. QED
    BY <2>1, <2>3 DEF StoreOK, HeldUnder
<1>6. OutcomesOK' /\ ReplyOK' /\ AnswersArePuts'
  BY <1>1 DEF IInv, OutcomesOK, ReplyOK, AnswersArePuts
<1>7. ASSUME Clients \subseteq {"rest"}
      PROVE  WritersOK' /\ LastWriteHolds'
  <2>1. \A g \in (waiting \cup active)' : g \in waiting \cup active /\ g # h /\ body'[g] = body[g]
    BY <1>1 DEF IInv, BodiesOK, PoolOK
  <2>2. WritersOK'
    BY <1>1, <1>7, <2>1 DEF IInv, WritersOK
  <2>3. LastWriteHolds'
    <3> SUFFICES ASSUME NEW i \in Apart, i \notin Pending'
                 PROVE  store'[StorageKey(i)] \in outcomes[i]
      BY <1>1 DEF LastWriteHolds, Settled
    <3>1. \A g \in waiting \cup active : g # h => i \notin Writes(body[g])
      BY <1>1, <2>1 DEF Pending, IInv, PoolOK
    <3>2. CASE i \in Writes(body[h])
      BY <1>1, <1>4, <1>7, <3>2 DEF IInv, WritersOK
    <3>3. CASE i \notin Writes(body[h])
      <4>1. i \notin Pending
        BY <3>1, <3>3 DEF Pending
      <4>2. QED
        BY <1>4, <1>7, <3>3, <4>1 DEF IInv, LastWriteHolds, Settled
    <3>4. QED
      BY <3>2, <3>3
  <2>4. QED
    BY <2>2, <2>3
<1>8. QED
  BY <1>3, <1>5, <1>6, <1>7 DEF IInv

\* The hits of a batch: each is one of an id asked, with what is held under it,
\* and an id that is apart and held has one.
LEMMA HitsAreHeld ==
    ASSUME NEW ids \in Seq(Ids)
    PROVE  /\ \A h \in Hits(ids) :
                 /\ h.id \in Known /\ h.v = store[StorageKey(h.id)] /\ h.v # NoValue
                 /\ \E n \in 1 .. Len(ids) : h.id = ids[n]
           /\ \A n \in 1 .. Len(ids) :
                 ids[n] \in Apart /\ store[StorageKey(ids[n])] # NoValue =>
                    [id |-> ids[n], v |-> store[StorageKey(ids[n])]] \in Hits(ids)
<1>1. ASSUME NEW n \in 1 .. Len(ids), ids[n] \in Known
      PROVE  LET m == Namesake(ids, ids[n])
             IN  /\ m \in Known /\ StorageKey(m) = StorageKey(ids[n])
                 /\ \E j \in 1 .. Len(ids) : m = ids[j]
  <2> DEFINE S == {m \in 1 .. Len(ids) :
                      ids[m] \in Known /\ StorageKey(ids[m]) = StorageKey(ids[n])}
  <2>1. Len(ids) \in Nat /\ S \in SUBSET (1 .. Len(ids)) /\ S # {}
    BY <1>1, LenProperties
  <2>2. Last(S) \in S
    <3> HIDE DEF S
    <3>1. QED
      BY <2>1, LastIsThere
  <2>3. /\ ids[Last(S)] \in Known /\ StorageKey(ids[Last(S)]) = StorageKey(ids[n])
        /\ Last(S) \in 1 .. Len(ids)
    BY <2>2
  <2>4. QED
    BY <2>3 DEF Namesake
<1>2. \A h \in Hits(ids) :
         \E n \in 1 .. Len(ids) :
            /\ ids[n] \in Known /\ store[StorageKey(ids[n])] # NoValue
            /\ h = [id |-> Namesake(ids, ids[n]), v |-> store[StorageKey(ids[n])]]
  BY DEF Hits
<1>3. ASSUME NEW h \in Hits(ids)
      PROVE  /\ h.id \in Known /\ h.v = store[StorageKey(h.id)] /\ h.v # NoValue
             /\ \E n \in 1 .. Len(ids) : h.id = ids[n]
  <2>1. PICK n \in 1 .. Len(ids) :
            /\ ids[n] \in Known /\ store[StorageKey(ids[n])] # NoValue
            /\ h = [id |-> Namesake(ids, ids[n]), v |-> store[StorageKey(ids[n])]]
    BY <1>2
  <2>2. h.id = Namesake(ids, ids[n]) /\ h.v = store[StorageKey(ids[n])]
    BY <2>1
  <2>3. /\ h.id \in Known /\ StorageKey(h.id) = StorageKey(ids[n])
        /\ \E j \in 1 .. Len(ids) : h.id = ids[j]
    BY <1>1, <2>1, <2>2
  <2>4. QED
    BY <2>1, <2>2, <2>3
<1>4. ASSUME NEW n \in 1 .. Len(ids), ids[n] \in Apart, store[StorageKey(ids[n])] # NoValue
      PROVE  [id |-> ids[n], v |-> store[StorageKey(ids[n])]] \in Hits(ids)
  <2>1. ids[n] \in Known
    BY <1>4 DEF Apart
  <2>2. Namesake(ids, ids[n]) = ids[n]
    <3>1. /\ Namesake(ids, ids[n]) \in Known
          /\ StorageKey(ids[n]) = StorageKey(Namesake(ids, ids[n]))
      BY <1>1, <2>1
    <3>2. QED
      BY <1>4, <3>1, StorageKeysInjective
  <2>3. n \in {m \in 1 .. Len(ids) :
                  ids[m] \in Known /\ store[StorageKey(ids[m])] # NoValue}
    BY <1>4, <2>1
  <2>4. [id |-> Namesake(ids, ids[n]), v |-> store[StorageKey(ids[n])]] \in Hits(ids)
    BY <2>3 DEF Hits
  <2>5. QED
    BY <2>2, <2>4
<1>5. QED
  BY <1>3, <1>4

\* The result for an id: what is held under it, or a miss; for one that is apart
\* a miss only when nothing is.
LEMMA ResultIs ==
    ASSUME NEW ids \in Seq(Ids), NEW n \in 1 .. Len(ids)
    PROVE  \/ /\ Result(Hits(ids), ids[n]) =
                    [id |-> ids[n], found |-> TRUE, v |-> store[StorageKey(ids[n])]]
              /\ ids[n] \in Known /\ store[StorageKey(ids[n])] # NoValue
              /\ \E h \in Hits(ids) : h.v = store[StorageKey(ids[n])]
           \/ /\ Result(Hits(ids), ids[n]) = [id |-> ids[n], found |-> FALSE, v |-> Null]
              /\ ids[n] \in Apart => store[StorageKey(ids[n])] = NoValue
<1> DEFINE i == ids[n]
           H == Hits(ids)
<1>1. \A h \in H : h.id = i =>
          i \in Known /\ h.v = store[StorageKey(i)] /\ h.v # NoValue
  BY HitsAreHeld
<1>2. i \in Apart /\ store[StorageKey(i)] # NoValue => \E h \in H : h.id = i
  <2>1. i \in Apart /\ store[StorageKey(i)] # NoValue =>
            [id |-> i, v |-> store[StorageKey(i)]] \in H
    BY HitsAreHeld
  <2>2. QED
    BY <2>1
<1> HIDE DEF i, H
<1>3. CASE \E h \in H : h.id = i
  <2>1. PICK g \in H : g.id = i
    BY <1>3
  <2>2. (CHOOSE h \in H : h.id = i) \in H /\ (CHOOSE h \in H : h.id = i).id = i
    BY <2>1
  <2>3. Result(H, i) = [id |-> i, found |-> TRUE, v |-> store[StorageKey(i)]]
    BY <1>1, <1>3, <2>2 DEF Result
  <2>4. QED
    BY <1>1, <2>1, <2>3 DEF i, H
<1>4. CASE ~ \E h \in H : h.id = i
  <2>1. Result(H, i) = [id |-> i, found |-> FALSE, v |-> Null]
    BY <1>4 DEF Result
  <2>2. QED
    BY <1>2, <1>4, <2>1 DEF i, H
<1>5. QED
  BY <1>3, <1>4

\* The results of a batch whose answer can be encoded.
LEMMA AnswerIs ==
    ASSUME NEW ids \in GetBatches, HandleBatchGet(ids)
    PROVE  /\ ids \in Seq(Ids) /\ reply'.ids = ids /\ reply'.status = 200
           /\ \/ reply'.results = <<>>
              \/ /\ reply'.results = [n \in 1 .. Len(ids) |-> Result(Hits(ids), ids[n])]
                 /\ \A h \in Hits(ids) : h.v # Empty
<1>1. ids \in Seq(Ids)
  BY BatchesAssumption
<1>2. reply' = Reply(200, ids,
                     IF \E h \in Hits(ids) : h.v = Empty THEN <<>>
                     ELSE [n \in 1 .. Len(ids) |-> Result(Hits(ids), ids[n])])
  BY DEF HandleBatchGet
<1>3. QED
  BY <1>1, <1>2 DEF Reply

LEMMA GetInv == ASSUME IInv, NEW ids \in GetBatches, HandleBatchGet(ids) PROVE IInv'
<1>1. UNCHANGED <<waiting, active, body, store, outcomes>>
  BY DEF HandleBatchGet
<1> DEFINE rs == [n \in 1 .. Len(ids) |-> Result(Hits(ids), ids[n])]
<1>2. /\ ids \in Seq(Ids) /\ reply'.ids = ids /\ reply'.status = 200
      /\ \/ reply'.results = <<>>
         \/ reply'.results = rs /\ \A h \in Hits(ids) : h.v # Empty
  BY AnswerIs
<1>3. ASSUME \A h \in Hits(ids) : h.v # Empty, NEW n \in 1 .. Len(ids)
      PROVE  /\ rs[n] \in [id : Ids, found : BOOLEAN, v : Values \cup {Null}]
             /\ rs[n].id = ids[n]
             /\ rs[n].found => /\ ids[n] \in Known
                               /\ ids[n] \in Apart => rs[n].v \in ValuesOf[ids[n]]
  <2>1. ids[n] \in Ids
    BY <1>2, ElementOfSeq
  <2>2. rs[n] = Result(Hits(ids), ids[n])
    OBVIOUS
  <2> HIDE DEF rs
  <2>3. CASE rs[n] = [id |-> ids[n], found |-> FALSE, v |-> Null]
    BY <2>1, <2>3
  <2>4. CASE /\ rs[n] = [id |-> ids[n], found |-> TRUE, v |-> store[StorageKey(ids[n])]]
             /\ ids[n] \in Known /\ store[StorageKey(ids[n])] # NoValue
             /\ \E h \in Hits(ids) : h.v = store[StorageKey(ids[n])]
    <3> DEFINE v == store[StorageKey(ids[n])]
    <3>1. v # Empty /\ v # NoValue
      BY <1>3, <2>4
    <3>2. v \in Values
      <4>1. v \in Held
        BY <2>4 DEF IInv, StoreOK, StorageKeys
      <4>2. QED
        BY <3>1, <4>1 DEF Held
    <3>3. ids[n] \in Apart => v \in ValuesOf[ids[n]]
      BY <3>1 DEF IInv, StoreOK, HeldUnder
    <3> HIDE DEF v
    <3>4. rs[n] = [id |-> ids[n], found |-> TRUE, v |-> v]
      BY <2>4 DEF v
    <3>5. QED
      BY <2>1, <2>4, <3>2, <3>3, <3>4
  <2>5. QED
    BY <1>2, <2>2, <2>3, <2>4, ResultIs
<1>4. ReplyOK' /\ AnswersArePuts'
  <2>1. CASE reply'.results = <<>>
    BY <1>2, <2>1 DEF ReplyOK, AnswersArePuts
  <2>2. CASE reply'.results # <<>>
    <3>1. /\ reply'.results = rs
          /\ \A n \in 1 .. Len(ids) :
                /\ rs[n] \in [id : Ids, found : BOOLEAN, v : Values \cup {Null}]
                /\ rs[n].id = ids[n]
                /\ rs[n].found => /\ ids[n] \in Known
                                  /\ ids[n] \in Apart => rs[n].v \in ValuesOf[ids[n]]
      BY <1>2, <1>3, <2>2
    <3>2. Len(ids) \in Nat
      BY <1>2, LenProperties
    <3> DEFINE R == [id : Ids, found : BOOLEAN, v : Values \cup {Null}]
    <3>3. rs \in [1 .. Len(ids) -> R]
      BY <3>1
    <3>4. rs \in Seq(R) /\ Len(rs) = Len(ids)
      <4> HIDE DEF rs, R
      <4>1. QED
        BY <3>2, <3>3
    <3> HIDE DEF rs
    <3>5. QED
      BY <1>2, <3>1, <3>4 DEF ReplyOK, AnswersArePuts
  <2>3. QED
    BY <2>1, <2>2
<1>5. QED
  BY <1>1, <1>4 DEF IInv, PoolOK, BodiesOK, StoreOK, OutcomesOK, WritersOK,
                    LastWriteHolds, Settled, Pending

LEMMA NextInv == IInv /\ [Next]_vars => IInv'
<1> SUFFICES ASSUME IInv, [Next]_vars
             PROVE  IInv'
  OBVIOUS
<1>1. CASE Refuse
  BY <1>1, RefuseInv
<1>2. ASSUME NEW ids \in GetBatches, HandleBatchGet(ids)
      PROVE  IInv'
  BY <1>2, GetInv
<1>3. ASSUME NEW h \in Handlers, HandleBatchPut(h)
      PROVE  IInv'
  <2>1. PICK client \in Clients, b \in PutBatches : Ask(h, b, Sent(client, b))
    BY <1>3 DEF HandleBatchPut
  <2>2. Clients \subseteq {"rest"} => Sent(client, b) = b
    BY DEF Sent
  <2>3. QED
    BY <2>1, <2>2, PutsAreGood, AskInv
<1>4. ASSUME NEW h \in Handlers, HandleBatchDelete(h)
      PROVE  IInv'
  BY <1>4, RemovalsAreGood, AskInv DEF HandleBatchDelete
<1>5. ASSUME NEW h \in Handlers, Spawn(h)
      PROVE  IInv'
  BY <1>5, SpawnInv
<1>6. ASSUME NEW h \in Handlers, Run(h)
      PROVE  IInv'
  BY <1>6, RunInv
<1>7. CASE UNCHANGED vars
  BY <1>7 DEF vars, IInv, PoolOK, BodiesOK, StoreOK, OutcomesOK, ReplyOK, AnswersArePuts,
              WritersOK, LastWriteHolds, Settled, Pending
<1>8. QED
  BY <1>1, <1>2, <1>3, <1>4, <1>5, <1>6, <1>7 DEF Next

LEMMA Invariant == Spec => []IInv
<1>1. QED
  BY InitInv, NextInv, PTL DEF Spec

LEMMA InvImpliesTypeOK == IInv => TypeOK
BY DEF IInv, PoolOK, BodiesOK, StoreOK, OutcomesOK, ReplyOK, TypeOK, Entries

-----------------------------------------------------------------------------
(* The theorems *)

\* Requests, goroutines, the store and the answers stay within their types.
THEOREM TypeCorrect == Spec => []TypeOK
BY Invariant, InvImpliesTypeOK, PTL

\* No value crosses from one id to another on the way in or out: storage keys,
\* entries with one key in a batch, the join of hits and ids (router.go:106).
THEOREM NoValueCrosses == Spec => []AnswersArePuts
<1>1. IInv => AnswersArePuts
  BY DEF IInv
<1>2. QED
  BY <1>1, Invariant, PTL

\* A settled id holds what its last write asked for, or what one in flight with it
\* did, for any number of goroutines and batches, when the clients are those of
\* the REST API.
THEOREM LastWriteIsHeld ==
    ASSUME Clients \subseteq {"rest"}
    PROVE  Spec => []LastWriteHolds
<1>1. IInv => LastWriteHolds
  BY DEF IInv
<1>2. QED
  BY <1>1, Invariant, PTL

\* Whatever the documented bodies put lands once nothing is in flight: that a
\* put may be lost is the doing of the command line client alone (cli/main.go:23).
THEOREM RestPutsAreStored ==
    ASSUME Clients \subseteq {"rest"}
    PROVE  Spec => []PutsAreStored
<1>1. LastWriteHolds => PutsAreStored
  BY DEF LastWriteHolds, PutsAreStored
<1>2. QED
  BY <1>1, LastWriteIsHeld, PTL

\* A GET that is answered with results tells the last write of each settled id,
\* or one that was in flight with it.
THEOREM GetsTellLastWrite ==
    ASSUME Clients \subseteq {"rest"}
    PROVE  Spec => GetsSeeLastWrite
<1> DEFINE Tells ==
        reply'.results # <<>> /\ reply' # reply =>
           \A n \in 1 .. Len(reply'.ids) :
              reply'.ids[n] \in Settled =>
                 LET r == reply'.results[n]
                 IN  (IF r.found THEN r.v ELSE NoValue) \in outcomes[r.id]
<1>1. ASSUME IInv, NEW ids \in GetBatches, HandleBatchGet(ids)
      PROVE  Tells
  <2> SUFFICES ASSUME reply'.results # <<>>, NEW n \in 1 .. Len(ids), ids[n] \in Settled
               PROVE  LET r == reply'.results[n]
                      IN  (IF r.found THEN r.v ELSE NoValue) \in outcomes[r.id]
    <3>1. reply'.ids = ids
      BY <1>1, AnswerIs
    <3>2. QED
      BY <3>1
  <2>1. /\ ids \in Seq(Ids) /\ ids[n] \in Apart
        /\ store[StorageKey(ids[n])] \in outcomes[ids[n]]
    BY <1>1, AnswerIs DEF IInv, LastWriteHolds, Settled
  <2>2. reply'.results[n] = Result(Hits(ids), ids[n])
    <3>1. reply'.results = [m \in 1 .. Len(ids) |-> Result(Hits(ids), ids[m])]
      BY <1>1, AnswerIs
    <3>2. QED
      BY <3>1
  <2>3. \/ Result(Hits(ids), ids[n]) =
             [id |-> ids[n], found |-> TRUE, v |-> store[StorageKey(ids[n])]]
        \/ /\ Result(Hits(ids), ids[n]) = [id |-> ids[n], found |-> FALSE, v |-> Null]
           /\ store[StorageKey(ids[n])] = NoValue
    BY <2>1, ResultIs
  <2>4. QED
    BY <2>1, <2>2, <2>3
<1>2. ASSUME IInv, [Next]_vars
      PROVE  [Tells]_vars
  <2>1. CASE Refuse
    BY <2>1 DEF Refuse, Reply
  <2>2. ASSUME NEW h \in Handlers,
               HandleBatchPut(h) \/ HandleBatchDelete(h) \/ Spawn(h) \/ Run(h)
        PROVE  Tells
    BY <2>2 DEF HandleBatchPut, HandleBatchDelete, Ask, Spawn, Run, Reply
  <2>3. QED
    BY <1>1, <1>2, <2>1, <2>2 DEF Next
<1>3. QED
  BY <1>2, Invariant, PTL DEF Spec, GetsSeeLastWrite

\* A GET loses its answer to a null that the last write of one of its ids, or one
\* in flight with it, put, and to nothing else that is settled (router.go:135).
THEOREM GetsFindAnAnswer ==
    ASSUME Clients \subseteq {"rest"}
    PROVE  Spec => GetsAreAnswered
<1> DEFINE Healthy ==
        \A n \in 1 .. Len(reply'.ids) :
           reply'.ids[n] \in Known =>
              reply'.ids[n] \in Settled /\ Empty \notin outcomes[reply'.ids[n]]
<1>1. ASSUME IInv, NEW ids \in GetBatches, HandleBatchGet(ids), Healthy
      PROVE  Len(reply'.results) = Len(reply'.ids)
  <2>1. ids \in Seq(Ids) /\ reply'.ids = ids /\ Len(ids) \in Nat
    <3>1. ids \in Seq(Ids) /\ reply'.ids = ids
      BY <1>1, AnswerIs
    <3>2. QED
      BY <3>1, LenProperties
  <2>2. reply'.results = IF \E h \in Hits(ids) : h.v = Empty THEN <<>>
                         ELSE [n \in 1 .. Len(ids) |-> Result(Hits(ids), ids[n])]
    BY <1>1 DEF HandleBatchGet, Reply
  <2>3. ASSUME NEW h \in Hits(ids)
        PROVE  h.v # Empty
    <3>1. PICK n \in 1 .. Len(ids) : ids[n] \in Known /\ h.v = store[StorageKey(ids[n])]
      BY <2>1, HitsAreHeld
    <3>2. ids[n] \in Settled /\ Empty \notin outcomes[ids[n]]
      BY <1>1, <2>1, <3>1
    <3>3. QED
      BY <1>1, <3>1, <3>2 DEF IInv, LastWriteHolds
  <2>4. reply'.results = [n \in 1 .. Len(ids) |-> Result(Hits(ids), ids[n])]
    BY <2>2, <2>3
  <2> DEFINE rs == [n \in 1 .. Len(ids) |-> Result(Hits(ids), ids[n])]
  <2>5. rs \in Seq({Result(Hits(ids), ids[n]) : n \in 1 .. Len(ids)}) /\ Len(rs) = Len(ids)
    <3> DEFINE R == {Result(Hits(ids), ids[n]) : n \in 1 .. Len(ids)}
    <3>1. rs \in [1 .. Len(ids) -> R]
      OBVIOUS
    <3> HIDE DEF rs, R
    <3>2. rs \in Seq(R) /\ Len(rs) = Len(ids)
      BY <2>1, <3>1
    <3>3. QED
      BY <3>2 DEF R
  <2>6. QED
    BY <2>1, <2>4, <2>5
<1>2. ASSUME IInv, [Next]_vars
      PROVE  [reply' # reply /\ Healthy => Len(reply'.results) = Len(reply'.ids)]_vars
  <2>1. CASE Refuse
    BY <2>1 DEF Refuse, Reply
  <2>2. ASSUME NEW h \in Handlers,
               HandleBatchPut(h) \/ HandleBatchDelete(h) \/ Spawn(h) \/ Run(h)
        PROVE  reply' # reply => Len(reply'.results) = Len(reply'.ids)
    BY <2>2 DEF HandleBatchPut, HandleBatchDelete, Ask, Spawn, Run, Reply
  <2>3. QED
    BY <1>1, <1>2, <2>1, <2>2 DEF Next
<1>3. QED
  BY <1>2, Invariant, PTL DEF Spec, GetsAreAnswered
=============================================================================
