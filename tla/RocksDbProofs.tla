--------------------------- MODULE RocksDbProofs ----------------------------
(* What holds of the RocksDB provider for any keys, callers and bounds. *)
EXTENDS RocksDbCF, TLAPS

\* A put carries a value, and a get that is at a key names it.
Complete(c) ==
    /\ c.op = "put" => c.val \in Values
    /\ c.pc \in {"load", "refill", "read"} => c.key \in Keys

CallsComplete == \A t \in Callers : Complete(call[t])

FamiliesInv == TypeOK /\ CallsComplete /\ FamiliesAgree

\* The call of an idle caller, and what one step makes of a call, is a call.
LEMMA NoCallType == NoCall \in Calls /\ NoCall.op = "none" /\ Complete(NoCall)
BY DEF NoCall, NoAnswer, Calls, Timestamps, Complete

LEMMA JudgedType ==
    ASSUME NEW c \in Calls, NEW k \in Keys, NEW ts \in Timestamps
    PROVE  /\ Judged(c, k, ts) \in Calls
           /\ Complete(c) => Complete(Judged(c, k, ts))
BY DEF Judged, Calls, Timestamps, Complete

LEMMA DeletedType ==
    ASSUME NEW c \in Calls
    PROVE  /\ Deleted(c) \in Calls
           /\ Complete(Deleted(c))
<1>1. CASE c.op = "get"
  BY <1>1 DEF Deleted, Calls, Timestamps, Complete
<1>2. CASE c.op # "get"
  BY <1>2, NoCallType DEF Deleted
<1> QED
  BY <1>1, <1>2

\* TypeOK and CallsComplete hold in the first state.
LEMMA InitFamilies == Init => FamiliesInv
<1> SUFFICES ASSUME Init PROVE FamiliesInv
  OBVIOUS
<1>1. TypeOK
  BY NoCallType, BoundsAssumption DEF Init, TypeOK, Timestamps, NoAnswer
<1>2. CallsComplete
  BY NoCallType DEF Init, CallsComplete
<1>3. FamiliesAgree
  BY DEF Init, FamiliesAgree
<1> QED
  BY <1>1, <1>2, <1>3 DEF FamiliesInv

-----------------------------------------------------------------------------
(* One step *)

\* A call replaced by another one keeps the type of all calls.
LEMMA CallStep ==
    ASSUME TypeOK, CallsComplete, NEW t \in Callers, NEW c \in Calls,
           Complete(c),
           call' = [call EXCEPT ![t] = c]
    PROVE  call' \in [Callers -> Calls] /\ CallsComplete'
BY DEF TypeOK, CallsComplete

\* A step of BatchGet, BatchPut or BatchDelete that ends or restarts the call.
LEMMA CallEnds ==
    ASSUME TypeOK, CallsComplete, NEW t \in Callers,
           call' = [call EXCEPT ![t] = NoCall]
    PROVE  call' \in [Callers -> Calls] /\ CallsComplete'
BY CallStep, NoCallType

LEMMA BeginStep ==
    ASSUME FamiliesInv, NEW t \in Callers, NEW op \in {"get", "put", "delete"},
           NEW pc \in {"ttl", "set", "forget"}, NEW S \in SUBSET Keys,
           NEW v \in Values \cup {NoValue}, NEW todo \in SUBSET Keys,
           op = "put" => v \in Values, Begin(t, op, pc, S, v, todo)
    PROVE  FamiliesInv'
<1> DEFINE c == [op |-> op, pc |-> pc, keys |-> S, val |-> v, at |-> now,
                  todo |-> todo, key |-> NoValue, ts |-> Never, gone |-> {},
                  found |-> NoAnswer]
<1>1. c \in Calls /\ Complete(c)
  BY BoundsAssumption DEF FamiliesInv, TypeOK, NoAnswer, Calls, Timestamps, Complete
<1>2. call' \in [Callers -> Calls] /\ CallsComplete'
  <2> HIDE DEF c
  <2>1. call' = [call EXCEPT ![t] = c]
    BY DEF Begin, c
  <2>2. QED
    BY <1>1, <2>1, CallStep DEF FamiliesInv
<1>3. TypeOK'
  BY <1>2 DEF FamiliesInv, TypeOK, Begin, NoAnswer, dbVars, collectorVars, clockVars
<1>4. FamiliesAgree'
  BY DEF FamiliesInv, FamiliesAgree, Begin, dbVars
<1> QED
  BY <1>2, <1>3, <1>4 DEF FamiliesInv

\* What a write batch of deletes leaves.
LEMMA DeleteBatchStep ==
    ASSUME TypeOK, FamiliesAgree, NEW S,
           DeleteBatch(S) \/ UNCHANGED dbVars
    PROVE  /\ val' \in [Keys -> Values \cup {NoValue}]
           /\ exp' \in [Keys -> Timestamps]
           /\ FamiliesAgree'
BY DEF TypeOK, FamiliesAgree, DeleteBatch, dbVars, Timestamps

\* What the write batch of a put leaves: values and timestamps together.
LEMMA PutBatchStep ==
    ASSUME TypeOK, FamiliesAgree, NEW c \in Calls, c.val \in Values, PutBatch(c)
    PROVE  /\ val' \in [Keys -> Values \cup {NoValue}]
           /\ exp' \in [Keys -> Timestamps]
           /\ FamiliesAgree'
<1>1. /\ val' \in [Keys -> Values \cup {NoValue}]
      /\ exp' \in [Keys -> Timestamps]
  BY TtlAssumption DEF TypeOK, PutBatch, Calls, Timestamps
<1>2. ASSUME NEW k \in Keys
      PROVE  exp'[k] # Never <=> val'[k] # NoValue /\ Ttl[k] > 0
  <2>1. c.at + Ttl[k] # Never
    BY TtlAssumption, NeverAssumption DEF Calls
  <2>2. exp[k] # Never <=> val[k] # NoValue /\ Ttl[k] > 0
    BY DEF FamiliesAgree
  <2>3. QED
    BY <2>1, <2>2, NoValueAssumption DEF PutBatch
<1> QED
  BY <1>1, <1>2 DEF FamiliesAgree

\* A step of a call that leaves the database alone.
LEMMA LocalStep ==
    ASSUME FamiliesInv, NEW t \in Callers, NEW c \in Calls,
           Complete(c),
           call' = [call EXCEPT ![t] = c],
           ttlCache' \in [Keys -> Timestamps],
           answer' \in [Callers -> [Keys -> Values \cup {NoValue}]],
           doubtful' \in SUBSET Keys,
           UNCHANGED <<dbVars, collectorVars, clockVars>>
    PROVE  FamiliesInv'
<1>1. call' \in [Callers -> Calls] /\ CallsComplete'
  BY CallStep DEF FamiliesInv
<1>2. TypeOK'
  BY <1>1 DEF FamiliesInv, TypeOK, dbVars, collectorVars, clockVars
<1>3. FamiliesAgree'
  BY DEF FamiliesInv, FamiliesAgree, dbVars
<1> QED
  BY <1>1, <1>2, <1>3 DEF FamiliesInv

\* A step of a call that writes a batch.
LEMMA WriteStep ==
    ASSUME FamiliesInv, NEW t \in Callers, NEW c \in Calls, Complete(c),
           call' = [call EXCEPT ![t] = c],
           val' \in [Keys -> Values \cup {NoValue}],
           exp' \in [Keys -> Timestamps],
           FamiliesAgree',
           doubtful' \in SUBSET Keys,
           UNCHANGED <<ttlCache, answer, collectorVars, clockVars>>
    PROVE  FamiliesInv'
<1>1. call' \in [Callers -> Calls] /\ CallsComplete'
  BY CallStep DEF FamiliesInv
<1>2. TypeOK'
  BY <1>1 DEF FamiliesInv, TypeOK, collectorVars, clockVars
<1> QED
  BY <1>1, <1>2 DEF FamiliesInv

LEMMA BatchGetStep ==
    ASSUME FamiliesInv, NEW t \in Callers, BatchGet(t)
    PROVE  FamiliesInv'
<1> DEFINE c == call[t]
<1>1. /\ c \in Calls /\ Complete(c) /\ NoCall \in Calls /\ Complete(NoCall)
      /\ doubtful \in SUBSET Keys /\ ttlCache \in [Keys -> Timestamps] /\ val \in [Keys -> Values \cup {NoValue}]
      /\ exp \in [Keys -> Timestamps]
      /\ answer \in [Callers -> [Keys -> Values \cup {NoValue}]]
      /\ call \in [Callers -> Calls]
  BY NoCallType DEF FamiliesInv, TypeOK, CallsComplete
<1>2. CASE LookUp(t)
  <2> PICK k \in c.todo :
        call' = [call EXCEPT ![t] = IF ttlCache[k] # Never THEN Judged(c, k, ttlCache[k])
                                    ELSE [c EXCEPT !.pc = "load", !.key = k]]
    BY <1>2 DEF LookUp
  <2>1. k \in Keys /\ ttlCache[k] \in Timestamps
    BY <1>1 DEF Calls
  <2>2. Judged(c, k, ttlCache[k]) \in Calls /\ Complete(Judged(c, k, ttlCache[k]))
    BY <1>1, <2>1, JudgedType
  <2>3. /\ [c EXCEPT !.pc = "load", !.key = k] \in Calls
        /\ Complete([c EXCEPT !.pc = "load", !.key = k])
    BY <1>1, <2>1 DEF Calls, Timestamps, Complete
  <2>4. CASE ttlCache[k] # Never
    BY <1>1, <1>2, <2>2, <2>4, LocalStep DEF LookUp
  <2>5. CASE ttlCache[k] = Never
    BY <1>1, <1>2, <2>3, <2>5, LocalStep DEF LookUp
  <2>6. QED
    BY <2>4, <2>5
<1>3. CASE Load(t)
  <2> PICK ts \in {exp[c.key]} \cup (IF MayFail THEN {Never} ELSE {}) :
        call' = [call EXCEPT ![t].pc = IF ts = Never THEN "read" ELSE "refill",
                             ![t].ts = ts]
    BY <1>3 DEF Load
  <2> DEFINE d == [c EXCEPT !.pc = IF ts = Never THEN "read" ELSE "refill", !.ts = ts]
  <2>1. c.key \in Keys /\ ts \in Timestamps
    BY <1>1, <1>3 DEF Load, At, Complete, Timestamps
  <2>2. d \in Calls /\ Complete(d)
    BY ZenonT(60), <1>1, <2>1 DEF Calls, Timestamps, Complete
  <2>3. call' = [call EXCEPT ![t] = d]
    BY <1>1
  <2>4. QED
    <3>1. UNCHANGED <<dbVars, ttlCache, answer, collectorVars, clockVars, doubtful>>
      BY <1>3 DEF Load
    <3>2. /\ doubtful' \in SUBSET Keys /\ ttlCache' \in [Keys -> Timestamps]
          /\ answer' \in [Callers -> [Keys -> Values \cup {NoValue}]]
      BY <1>1, <3>1
    <3> HIDE DEF d
    <3>3. QED
      BY <2>2, <2>3, <3>1, <3>2, LocalStep
<1>4. CASE Refill(t)
  <2>1. c.key \in Keys /\ c.ts \in Timestamps
    BY <1>1, <1>4 DEF Refill, At, Complete, Calls
  <2>2. Judged(c, c.key, c.ts) \in Calls /\ Complete(Judged(c, c.key, c.ts))
    BY <1>1, <2>1, JudgedType
  <2>3. ttlCache' \in [Keys -> Timestamps]
    BY <1>1, <1>4, <2>1 DEF Refill
  <2>4. QED
    BY <1>1, <1>4, <2>2, <2>3, LocalStep DEF Refill
<1>5. CASE Read(t)
  <2> DEFINE k == c.key
             f == [c.found EXCEPT ![k] = val[k]]
             d == [c EXCEPT !.pc = "ttl", !.key = NoValue, !.todo = c.todo \ {k},
                            !.found = f]
  <2>1. k \in Keys
    BY <1>1, <1>5 DEF Read, At, Complete
  <2>2. f \in [Keys -> Values \cup {NoValue}]
    BY <1>1, <2>1 DEF Calls
  <2>3. d \in Calls /\ Complete(d)
    <3> HIDE DEF f
    <3>1. QED
      BY ZenonT(60), <1>1, <2>2 DEF Calls, Timestamps, Complete
  <2>4. call' = [call EXCEPT ![t] = d]
    BY <1>1, <1>5 DEF Read
  <2>5. QED
    <3>1. UNCHANGED <<dbVars, ttlCache, answer, collectorVars, clockVars, doubtful>>
      BY <1>5 DEF Read
    <3>2. /\ doubtful' \in SUBSET Keys /\ ttlCache' \in [Keys -> Timestamps]
          /\ answer' \in [Callers -> [Keys -> Values \cup {NoValue}]]
      BY <1>1, <3>1
    <3> HIDE DEF d
    <3>3. QED
      BY <2>3, <2>4, <3>1, <3>2, LocalStep
<1>6. CASE ReadFails(t)
  BY <1>1, <1>6, LocalStep DEF ReadFails
<1>7. CASE CleanUp(t)
  <2> DEFINE d == [c EXCEPT !.pc = "forget", !.todo = c.gone]
  <2>1. d \in Calls /\ Complete(d)
    BY ZenonT(60), <1>1 DEF Calls, Timestamps, Complete
  <2>2. call' = [call EXCEPT ![t] = d]
    BY <1>1, <1>7 DEF CleanUp
  <2>3. QED
    <3>1. UNCHANGED <<dbVars, ttlCache, answer, collectorVars, clockVars, doubtful>>
      BY <1>7 DEF CleanUp
    <3>2. /\ doubtful' \in SUBSET Keys /\ ttlCache' \in [Keys -> Timestamps]
          /\ answer' \in [Callers -> [Keys -> Values \cup {NoValue}]]
      BY <1>1, <3>1
    <3> HIDE DEF d
    <3>3. QED
      BY <2>1, <2>2, <3>1, <3>2, LocalStep
<1>8. CASE Return(t)
  <2>1. answer' \in [Callers -> [Keys -> Values \cup {NoValue}]]
    BY <1>1, <1>8 DEF Return, Calls
  <2>2. QED
    BY <1>1, <1>8, <2>1, LocalStep DEF Return
<1>9. QED
  BY <1>2, <1>3, <1>4, <1>5, <1>6, <1>7, <1>8 DEF BatchGet

LEMMA BatchPutStep ==
    ASSUME FamiliesInv, NEW t \in Callers, BatchPut(t)
    PROVE  FamiliesInv'
<1> DEFINE c == call[t]
<1>1. /\ c \in Calls /\ Complete(c) /\ NoCall \in Calls /\ Complete(NoCall)
      /\ doubtful \in SUBSET Keys /\ ttlCache \in [Keys -> Timestamps] /\ call \in [Callers -> Calls]
      /\ answer \in [Callers -> [Keys -> Values \cup {NoValue}]]
  BY NoCallType DEF FamiliesInv, TypeOK, CallsComplete
<1>2. CASE SetTtl(t)
  <2> PICK k \in c.todo : /\ ttlCache' = [ttlCache EXCEPT ![k] = c.at + Ttl[k]]
                          /\ call' = [call EXCEPT ![t].todo = @ \ {k}]
    BY <1>2 DEF SetTtl
  <2> DEFINE d == [c EXCEPT !.todo = @ \ {k}]
  <2>1. d \in Calls /\ Complete(d)
    BY ZenonT(60), <1>1 DEF Calls, Timestamps, Complete
  <2>2. call' = [call EXCEPT ![t] = d]
    BY <1>1
  <2>3. ttlCache' \in [Keys -> Timestamps]
    BY <1>1, TtlAssumption DEF Calls, Timestamps
  <2>4. QED
    <3> HIDE DEF d
    <3>1. QED
      BY <1>1, <1>2, <2>1, <2>2, <2>3, LocalStep DEF SetTtl
<1>3. CASE WritePut(t)
  <2>1. c.val \in Values
    BY <1>1, <1>3 DEF WritePut, At, Complete
  <2>2. CASE PutBatch(c) /\ UNCHANGED doubtful
    BY <1>1, <1>3, <2>1, <2>2, PutBatchStep, WriteStep DEF WritePut, FamiliesInv
  <2>3. CASE UNCHANGED dbVars /\ doubtful' = doubtful \cup c.keys
    <3>1. doubtful' \in SUBSET Keys
      BY <1>1, <2>3 DEF Calls
    <3>2. QED
      BY <1>1, <1>3, <2>3, <3>1, LocalStep DEF WritePut
  <2>4. QED
    BY <1>3, <2>2, <2>3 DEF WritePut
<1>4. QED
  BY <1>2, <1>3 DEF BatchPut

LEMMA BatchDeleteStep ==
    ASSUME FamiliesInv, NEW t \in Callers, BatchDelete(t)
    PROVE  FamiliesInv'
<1> DEFINE c == call[t]
<1>1. /\ c \in Calls /\ Complete(c) /\ call \in [Callers -> Calls]
      /\ doubtful \in SUBSET Keys /\ ttlCache \in [Keys -> Timestamps]
      /\ answer \in [Callers -> [Keys -> Values \cup {NoValue}]]
  BY DEF FamiliesInv, TypeOK, CallsComplete
<1>2. CASE Forget(t)
  <2> PICK k \in c.todo : /\ ttlCache' = [ttlCache EXCEPT ![k] = Never]
                          /\ call' = [call EXCEPT ![t].todo = @ \ {k}]
    BY <1>2 DEF Forget
  <2> DEFINE d == [c EXCEPT !.todo = @ \ {k}]
  <2>1. d \in Calls /\ Complete(d)
    BY <1>1 DEF Calls, Timestamps, Complete
  <2>2. call' = [call EXCEPT ![t] = d]
    BY <1>1
  <2>3. ttlCache' \in [Keys -> Timestamps]
    BY <1>1 DEF Timestamps
  <2>4. QED
    <3> HIDE DEF d
    <3>1. QED
      BY <1>1, <1>2, <2>1, <2>2, <2>3, LocalStep DEF Forget
<1>3. CASE WriteDelete(t)
  <2>1. Deleted(c) \in Calls /\ Complete(Deleted(c))
    BY <1>1, DeletedType
  <2>2. DeleteBatch(Targets(c)) \/ UNCHANGED dbVars
    BY <1>3 DEF WriteDelete
  <2>3. QED
    BY <1>1, <1>3, <2>1, <2>2, DeleteBatchStep, WriteStep DEF WriteDelete, FamiliesInv
<1>4. QED
  BY <1>2, <1>3 DEF BatchDelete

LEMMA CollectStep ==
    ASSUME FamiliesInv, Collect
    PROVE  FamiliesInv'
<1>1. CASE CollectStart
  BY <1>1 DEF CollectStart, FamiliesInv, TypeOK, CallsComplete, FamiliesAgree,
              dbVars, clockVars
<1>2. CASE CollectKey
  BY <1>2 DEF CollectKey, FamiliesInv, TypeOK, CallsComplete, FamiliesAgree,
              dbVars, clockVars, Timestamps
<1>3. CASE CollectWrite
  <2>1. DeleteBatch(victims) \/ UNCHANGED dbVars
    BY <1>3 DEF CollectWrite
  <2>2. /\ val' \in [Keys -> Values \cup {NoValue}]
        /\ exp' \in [Keys -> Timestamps]
        /\ FamiliesAgree'
    BY <2>1, DeleteBatchStep DEF FamiliesInv
  <2>3. QED
    BY <1>3, <2>2 DEF CollectWrite, FamiliesInv, TypeOK, CallsComplete, clockVars
<1>4. QED
  BY <1>1, <1>2, <1>3 DEF Collect

LEMMA NextFamilies == FamiliesInv /\ [Next]_vars => FamiliesInv'
<1> SUFFICES ASSUME FamiliesInv, [Next]_vars
             PROVE  FamiliesInv'
  OBVIOUS
<1>1. ASSUME NEW t \in Callers, NEW S \in Batches, BeginGet(t, S) \/ BeginDelete(t, S)
      PROVE  FamiliesInv'
  BY <1>1, BeginStep DEF BeginGet, BeginDelete, Batches
<1>2. ASSUME NEW t \in Callers, NEW S \in Batches, NEW v \in Values, BeginPut(t, S, v)
      PROVE  FamiliesInv'
  <2>1. {k \in S : Ttl[k] > 0} \in SUBSET Keys
    BY DEF Batches
  <2>2. QED
    BY <1>2, <2>1, BeginStep DEF BeginPut, Batches
<1>3. ASSUME NEW t \in Callers, Run(t)
      PROVE  FamiliesInv'
  BY <1>3, BatchGetStep, BatchPutStep, BatchDeleteStep DEF Run
<1>4. ASSUME NEW t \in Callers, Abort(t)
      PROVE  FamiliesInv'
  <2> DEFINE c == IF call[t].pc = "forget" THEN Deleted(call[t]) ELSE NoCall
  <2>1. c \in Calls /\ Complete(c)
    BY NoCallType, DeletedType DEF FamiliesInv, TypeOK
  <2>2. call' = [call EXCEPT ![t] = c]
    BY <1>4 DEF Abort
  <2>3. doubtful' \in SUBSET Keys
    BY <1>4 DEF Abort, FamiliesInv, TypeOK, Calls
  <2>4. QED
    <3> HIDE DEF c
    <3>1. QED
      BY <1>4, <2>1, <2>2, <2>3, LocalStep DEF Abort, FamiliesInv, TypeOK
<1>5. CASE Collect
  BY <1>5, CollectStep
<1>6. CASE Tick
  BY <1>6, BoundsAssumption DEF Tick, FamiliesInv, TypeOK, CallsComplete,
                                FamiliesAgree, dbVars, collectorVars
<1>7. CASE Restart
  <2>1. call' \in [Callers -> Calls] /\ CallsComplete'
    BY <1>7, NoCallType DEF Restart, CallsComplete
  <2>2. QED
    BY <1>7, <2>1, BoundsAssumption DEF Restart, FamiliesInv, TypeOK, FamiliesAgree,
                                        dbVars, NoAnswer, Timestamps
<1>8. CASE UNCHANGED vars
  BY <1>8 DEF vars, FamiliesInv, TypeOK, CallsComplete, FamiliesAgree, dbVars,
              collectorVars, clockVars
<1>9. QED
  BY <1>1, <1>2, <1>3, <1>4, <1>5, <1>6, <1>7, <1>8 DEF Next

\* The provider's families, map, calls and collector always hold what the code
\* can hold, for any keys, callers, bounds and failures.
THEOREM ProviderTypeCorrect == Spec => []TypeOK
<1>1. FamiliesInv => TypeOK
  BY DEF FamiliesInv
<1>2. QED
  BY <1>1, InitFamilies, NextFamilies, PTL DEF Spec

\* However calls of the provider run into each other, fail or are cut off, a
\* value has a timestamp exactly when its TTL demands one.
THEOREM FamiliesAlwaysAgree == Spec => []FamiliesAgree
<1>1. FamiliesInv => FamiliesAgree
  BY DEF FamiliesInv
<1>2. QED
  BY <1>1, InitFamilies, NextFamilies, PTL DEF Spec

-----------------------------------------------------------------------------
(* The map in memory and the timestamps of the database *)

Puts(t, k) == call[t].op = "put" /\ k \in call[t].keys

\* No timestamp of k is later than b: in the database, in the map, or read by a
\* get that has yet to store it into the map.
Within(k, b) ==
    /\ exp[k] # Never => exp[k] <= b
    /\ ttlCache[k] # Never => ttlCache[k] <= b
    /\ \A t \in Callers : call[t].pc = "refill" /\ call[t].key = k
                             => call[t].ts # Never /\ call[t].ts <= b

\* A put sets timestamps of its own keys only, counted from a time that was.
PutsInOrder ==
    \A t \in Callers :
        /\ call[t].op = "put" => call[t].pc = "set" /\ call[t].todo \subseteq call[t].keys
        /\ call[t].at <= now

\* While the last put of a key runs undisturbed, none is later than its own.
PutIsLatest(k) ==
    \A t \in Callers : Puts(t, k) => /\ \A u \in Callers : Puts(u, k) => u = t
                                     /\ Within(k, call[t].at + Ttl[k])

\* When it is over, none is later than the stored one.
StoredIsLatest(k) == (\A t \in Callers : ~Puts(t, k)) /\ exp[k] # Never => Within(k, exp[k])

\* In any case none is later than the one of a put that would begin now.
MapKey(k) ==
    /\ Within(k, now + Ttl[k])
    /\ k \notin doubtful => PutIsLatest(k) /\ StoredIsLatest(k)

MapInv == PutsInOrder /\ \A k \in Keys : MapKey(k)

LEMMA WithinLater ==
    ASSUME TypeOK, NEW k \in Keys, NEW b \in Nat, NEW c \in Nat, b <= c, Within(k, b)
    PROVE  Within(k, c)
BY DEF TypeOK, Within, Timestamps, Calls

\* A step that sets no timestamp of k and begins and ends no put of it.
LEMMA CalmKey ==
    ASSUME TypeOK, TypeOK', NEW k \in Keys, MapKey(k),
           exp'[k] \in {exp[k], Never},
           \A b \in Nat : Within(k, b) => Within(k, b)',
           now <= now',
           k \notin doubtful' =>
               /\ k \notin doubtful
               /\ \A t \in Callers : /\ Puts(t, k)' <=> Puts(t, k)
                                     /\ Puts(t, k) => call'[t].at = call[t].at
    PROVE  MapKey(k)'
<1>1. /\ now \in Nat /\ now' \in Nat /\ Ttl[k] \in Nat /\ exp[k] \in Nat \cup {Never}
      /\ \A t \in Callers : call[t].at \in Nat
  BY TtlAssumption, BoundsAssumption DEF TypeOK, Timestamps, Calls
<1>2. Within(k, now + Ttl[k])'
  <2>1. /\ now + Ttl[k] \in Nat /\ now' + Ttl[k] \in Nat
        /\ now + Ttl[k] <= now' + Ttl[k]
    BY <1>1
  <2>2. Within(k, now' + Ttl[k])
    BY <2>1, WithinLater DEF MapKey
  <2>3. QED
    BY <2>1, <2>2 DEF Within
<1>3. ASSUME k \notin doubtful', NEW t \in Callers, Puts(t, k)'
      PROVE  (\A u \in Callers : Puts(u, k)' => u = t) /\ Within(k, call[t].at + Ttl[k])'
  <2>1. Puts(t, k) /\ PutIsLatest(k) /\ call'[t].at = call[t].at
    BY <1>3 DEF MapKey
  <2>2. PICK b \in Nat : b = call[t].at + Ttl[k]
    BY <1>1
  <2>3. Within(k, b)'
    BY <2>1, <2>2 DEF PutIsLatest
  <2>4. Within(k, call[t].at + Ttl[k])'
    BY <2>1, <2>2, <2>3 DEF Within
  <2>5. QED
    BY <1>3, <2>1, <2>4 DEF PutIsLatest
<1>4. ASSUME k \notin doubtful'
      PROVE  StoredIsLatest(k)'
  BY <1>1, <1>4 DEF MapKey, StoredIsLatest, Within
<1>5. QED
  BY <1>2, <1>3, <1>4 DEF MapKey, PutIsLatest

\* The same when the step replaces one call, and what it stores into the map is
\* what that call has read.
LEMMA CallKey ==
    ASSUME TypeOK, TypeOK', NEW k \in Keys, MapKey(k),
           NEW t \in Callers, NEW c \in Calls,
           call' = [call EXCEPT ![t] = c],
           exp'[k] \in {exp[k], Never},
           \/ ttlCache'[k] \in {ttlCache[k], Never}
           \/ call[t].pc = "refill" /\ call[t].key = k /\ ttlCache'[k] = call[t].ts,
           c.pc = "refill" /\ c.key = k => exp[k] # Never /\ c.ts = exp[k],
           now' = now,
           k \notin doubtful' =>
               /\ k \notin doubtful
               /\ c.op = "put" /\ k \in c.keys <=> Puts(t, k)
               /\ Puts(t, k) => c.at = call[t].at
    PROVE  MapKey(k)'
<1>1. call \in [Callers -> Calls] /\ now \in Nat
  BY BoundsAssumption DEF TypeOK
<1>2. ASSUME NEW b \in Nat, Within(k, b)
      PROVE  Within(k, b)'
  BY <1>1, <1>2 DEF Within
<1>3. ASSUME k \notin doubtful', NEW u \in Callers
      PROVE  /\ Puts(u, k)' <=> Puts(u, k)
             /\ Puts(u, k) => call'[u].at = call[u].at
  BY <1>1, <1>3 DEF Puts
<1> QED
  BY <1>1, <1>2, <1>3, CalmKey

\* A step of one call that begins no put, ends none whose keys are not in doubt,
\* and sets no timestamp.
LEMMA QuietStep ==
    ASSUME TypeOK, TypeOK', MapInv,
           NEW t \in Callers, NEW c \in Calls,
           call' = [call EXCEPT ![t] = c],
           \/ /\ c.op \in {"get", "delete", "none"}
              /\ call[t].op = "put" => call[t].keys \subseteq doubtful'
           \/ c.op = "put" /\ call[t].op = "put" /\ c.pc = "set"
              /\ c.keys = call[t].keys /\ c.todo \subseteq c.keys /\ c.at = call[t].at,
           c.at <= now,
           \A k \in Keys : k \in doubtful => k \in doubtful',
           \A k \in Keys :
               /\ exp'[k] \in {exp[k], Never}
               /\ \/ ttlCache'[k] \in {ttlCache[k], Never}
                  \/ call[t].pc = "refill" /\ call[t].key = k /\ ttlCache'[k] = call[t].ts,
           c.pc = "refill" => exp[c.key] # Never /\ c.ts = exp[c.key],
           now' = now
    PROVE  MapInv'
<1>1. call \in [Callers -> Calls]
  BY DEF TypeOK
<1>2. PutsInOrder'
  BY <1>1 DEF MapInv, PutsInOrder
<1>3. ASSUME NEW k \in Keys PROVE MapKey(k)'
  <2>1. MapKey(k)
    BY DEF MapInv
  <2>2. k \notin doubtful' => /\ k \notin doubtful
                              /\ c.op = "put" /\ k \in c.keys <=> Puts(t, k)
                              /\ Puts(t, k) => c.at = call[t].at
    BY DEF Puts
  <2>3. QED
    BY <2>1, <2>2, CallKey
<1> QED
  BY <1>2, <1>3 DEF MapInv

\* A get stores into the map what it has read, and a delete empties entries.
LEMMA ReadsAndDeletesMap ==
    ASSUME TypeOK, TypeOK', CallsComplete, MapInv, NEW t \in Callers,
           BatchGet(t) \/ BatchDelete(t)
    PROVE  MapInv'
<1> DEFINE c == call[t]
<1>1. /\ c \in Calls /\ call \in [Callers -> Calls] /\ call' \in [Callers -> Calls]
      /\ ttlCache \in [Keys -> Timestamps] /\ now \in Nat
      /\ exp \in [Keys -> Timestamps]
  BY BoundsAssumption DEF TypeOK
<1>2. /\ c.at <= now
      /\ c.op = "put" => c.pc = "set" /\ c.todo \subseteq c.keys
      /\ c.op \in {"none", "get", "put", "delete"}
  BY <1>1 DEF MapInv, PutsInOrder, Calls
<1>3. NoCall \in Calls /\ NoCall.op = "none" /\ NoCall.at <= now /\ NoCall.pc = "idle"
  BY <1>1, NoCallType DEF NoCall
<1>4. CASE LookUp(t)
  <2> PICK k \in c.todo :
        call' = [call EXCEPT ![t] = IF ttlCache[k] # Never THEN Judged(c, k, ttlCache[k])
                                    ELSE [c EXCEPT !.pc = "load", !.key = k]]
    BY <1>4 DEF LookUp
  <2> DEFINE d == IF ttlCache[k] # Never THEN Judged(c, k, ttlCache[k])
                  ELSE [c EXCEPT !.pc = "load", !.key = k]
  <2>1. d = call'[t]
    BY <1>1
  <2>2. d \in Calls /\ d.op = "get" /\ c.op = "get" /\ d.at = c.at /\ d.pc # "refill"
    BY <1>1, <1>4, <2>1 DEF Calls, Judged, LookUp, At
  <2>3. call' = [call EXCEPT ![t] = d]
    OBVIOUS
  <2> HIDE DEF d
  <2>4. QED
    BY <1>2, <1>4, <2>2, <2>3, QuietStep DEF LookUp, dbVars, clockVars
<1>5. CASE Load(t)
  <2> PICK ts \in {exp[c.key]} \cup (IF MayFail THEN {Never} ELSE {}) :
        call' = [call EXCEPT ![t].pc = IF ts = Never THEN "read" ELSE "refill",
                             ![t].ts = ts]
    BY <1>5 DEF Load
  <2> DEFINE d == [c EXCEPT !.pc = IF ts = Never THEN "read" ELSE "refill", !.ts = ts]
  <2>1. call' = [call EXCEPT ![t] = d] /\ d = call'[t]
    BY <1>1
  <2>2. d \in Calls /\ d.op = "get" /\ c.op = "get" /\ d.at = c.at /\ d.key = c.key
    BY <1>1, <1>5, <2>1 DEF Calls, Load, At
  <2>3. d.pc = "refill" => exp[d.key] # Never /\ d.ts = exp[d.key]
    BY <1>1 DEF Calls
  <2>4. UNCHANGED <<dbVars, ttlCache, clockVars, doubtful>>
    BY <1>5 DEF Load
  <2> HIDE DEF d
  <2>5. QED
    BY <1>2, <2>1, <2>2, <2>3, <2>4, QuietStep DEF dbVars, clockVars
<1>6. CASE Refill(t)
  <2> DEFINE d == Judged(c, c.key, c.ts)
  <2>1. call' = [call EXCEPT ![t] = d] /\ d = call'[t]
    BY <1>1, <1>6 DEF Refill
  <2>2. d \in Calls /\ d.op = "get" /\ c.op = "get" /\ d.at = c.at /\ d.pc # "refill"
    BY <1>1, <1>6, <2>1 DEF Calls, Judged, Refill, At
  <2>3. \A k \in Keys : \/ ttlCache'[k] = ttlCache[k]
                        \/ c.pc = "refill" /\ c.key = k /\ ttlCache'[k] = c.ts
    BY <1>1, <1>6 DEF Refill, At
  <2> HIDE DEF d
  <2>4. /\ now' = now /\ doubtful' = doubtful
        /\ \A k \in Keys : /\ exp'[k] \in {exp[k], Never}
                           /\ \/ ttlCache'[k] \in {ttlCache[k], Never}
                              \/ c.pc = "refill" /\ c.key = k /\ ttlCache'[k] = c.ts
    BY <1>6, <2>2, <2>3 DEF Refill, dbVars, clockVars
  <2>5. QED
    BY <1>2, <2>1, <2>2, <2>4, QuietStep
<1>7. CASE Read(t)
  <2> DEFINE f == [c.found EXCEPT ![c.key] = val[c.key]]
             d == [c EXCEPT !.pc = "ttl", !.key = NoValue, !.todo = c.todo \ {c.key},
                            !.found = f]
  <2>1. call' = [call EXCEPT ![t] = d] /\ d = call'[t]
    BY <1>1, <1>7 DEF Read
  <2>2. d \in Calls /\ d.op = "get" /\ c.op = "get" /\ d.at = c.at /\ d.pc # "refill"
    <3>1. d \in Calls
      BY <1>1, <2>1
    <3>2. QED
      BY <1>1, <1>7, <3>1 DEF Calls, Read, At
  <2> HIDE DEF d
  <2>3. QED
    BY <1>2, <1>7, <2>1, <2>2, QuietStep DEF Read, dbVars, clockVars
<1>8. CASE ReadFails(t) \/ Return(t)
  <2>1. call' = [call EXCEPT ![t] = NoCall] /\ c.op = "get"
        /\ UNCHANGED <<dbVars, ttlCache, clockVars, doubtful>>
    BY <1>8 DEF ReadFails, Return, At
  <2>2. QED
    BY <1>3, <2>1, QuietStep DEF dbVars, clockVars
<1>9. CASE CleanUp(t)
  <2> DEFINE d == [c EXCEPT !.pc = "forget", !.todo = c.gone]
  <2>1. call' = [call EXCEPT ![t] = d] /\ d = call'[t]
    BY <1>1, <1>9 DEF CleanUp
  <2>2. d \in Calls /\ d.op = "get" /\ c.op = "get" /\ d.at = c.at /\ d.pc # "refill"
    BY <1>1, <1>9, <2>1 DEF Calls, CleanUp, At
  <2> HIDE DEF d
  <2>3. QED
    BY <1>2, <1>9, <2>1, <2>2, QuietStep DEF CleanUp, dbVars, clockVars
<1>10. CASE Forget(t)
  <2> PICK k \in c.todo : /\ ttlCache' = [ttlCache EXCEPT ![k] = Never]
                          /\ call' = [call EXCEPT ![t].todo = @ \ {k}]
    BY <1>10 DEF Forget
  <2> DEFINE d == [c EXCEPT !.todo = @ \ {k}]
  <2>1. call' = [call EXCEPT ![t] = d] /\ d = call'[t]
    BY <1>1
  <2>2. d \in Calls /\ d.op = c.op /\ d.at = c.at /\ d.pc = "forget" /\ c.op # "put"
    BY <1>1, <1>2, <1>10, <2>1 DEF Calls, Forget
  <2>3. \A j \in Keys : ttlCache'[j] \in {ttlCache[j], Never}
    BY <1>1
  <2>4. d.op \in {"get", "delete", "none"} /\ d.at <= now
    BY <1>2, <2>2
  <2>5. UNCHANGED <<exp, now, doubtful>>
    BY <1>10 DEF Forget, dbVars, clockVars
  <2> HIDE DEF d
  <2>6. QED
    BY <2>1, <2>2, <2>3, <2>4, <2>5, QuietStep
<1>11. CASE WriteDelete(t)
  <2> DEFINE d == Deleted(c)
  <2>1. call' = [call EXCEPT ![t] = d] /\ d = call'[t]
    BY <1>1, <1>11 DEF WriteDelete
  <2>2. /\ d \in Calls /\ d.op \in {"get", "none"} /\ d.at <= now /\ d.pc # "refill"
        /\ c.op # "put"
    <3>1. c.pc = "forget" /\ c.op # "put"
      BY <1>2, <1>11 DEF WriteDelete
    <3>2. CASE c.op = "get"
      BY <1>1, <1>2, <3>1, <3>2 DEF Deleted, Calls
    <3>3. CASE c.op # "get"
      BY <1>3, <3>1, <3>3 DEF Deleted
    <3>4. QED
      BY <3>2, <3>3
  <2>3. \A j \in Keys : exp'[j] \in {exp[j], Never}
    BY <1>1, <1>11 DEF WriteDelete, DeleteBatch, dbVars
  <2> HIDE DEF d
  <2>4. UNCHANGED <<ttlCache, now, doubtful>>
    BY <1>11 DEF WriteDelete, clockVars
  <2>5. \A j \in Keys :
          /\ exp'[j] \in {exp[j], Never}
          /\ \/ ttlCache'[j] \in {ttlCache[j], Never}
             \/ c.pc = "refill" /\ c.key = j /\ ttlCache'[j] = c.ts
    BY <2>3, <2>4
  <2>6. d.op \in {"get", "delete", "none"}
    BY <2>2
  <2>7. QED
    BY <2>1, <2>2, <2>4, <2>5, <2>6, QuietStep
<1>12. QED
  BY <1>4, <1>5, <1>6, <1>7, <1>8, <1>9, <1>10, <1>11 DEF BatchGet, BatchDelete

LEMMA SetTtlMap ==
    ASSUME TypeOK, TypeOK', MapInv, NEW t \in Callers, SetTtl(t)
    PROVE  MapInv'
<1> DEFINE c == call[t]
<1>1. /\ c \in Calls /\ call \in [Callers -> Calls]
      /\ ttlCache \in [Keys -> Timestamps] /\ now \in Nat
  BY BoundsAssumption DEF TypeOK
<1>2. PICK k0 \in c.todo : /\ ttlCache' = [ttlCache EXCEPT ![k0] = c.at + Ttl[k0]]
                           /\ call' = [call EXCEPT ![t].todo = @ \ {k0}]
  BY DEF SetTtl
<1> DEFINE d == [c EXCEPT !.todo = @ \ {k0}]
<1>3. call' = [call EXCEPT ![t] = d] /\ d = call'[t]
  BY <1>1, <1>2
<1>4. /\ d \in Calls /\ d.op = "put" /\ c.op = "put" /\ d.at = c.at /\ d.keys = c.keys
      /\ d.pc = "set" /\ d.todo \subseteq d.keys /\ c.at <= now /\ k0 \in Keys
      /\ k0 \in c.keys
  BY <1>1, <1>3 DEF Calls, SetTtl, At, MapInv, PutsInOrder
<1>5. UNCHANGED <<exp, now, doubtful>>
  BY DEF SetTtl, dbVars, clockVars
<1> HIDE DEF d
<1>6. PutsInOrder'
  BY <1>1, <1>3, <1>4, <1>5 DEF MapInv, PutsInOrder
<1>7. ASSUME NEW k \in Keys, k # k0
      PROVE  MapKey(k)'
  <2>1. MapKey(k) /\ ttlCache'[k] = ttlCache[k]
    BY <1>1, <1>2, <1>7 DEF MapInv
  <2>2. QED
    BY <1>3, <1>4, <1>5, <2>1, CallKey DEF Puts
<1>8. MapKey(k0)'
  <2>1. /\ c.at \in Nat /\ Ttl[k0] \in Nat /\ ttlCache'[k0] = c.at + Ttl[k0]
    BY <1>1, <1>2, <1>4, TtlAssumption DEF Calls
  <2>2. MapKey(k0) /\ Puts(t, k0)
    BY <1>4 DEF MapInv, Puts
  <2>3. ASSUME NEW b \in Nat, c.at + Ttl[k0] <= b, Within(k0, b)
        PROVE  Within(k0, b)'
    BY <1>1, <1>3, <1>4, <1>5, <2>1, <2>3 DEF Within
  <2>4. Within(k0, now + Ttl[k0])'
    <3>1. PICK b \in Nat : b = now + Ttl[k0]
      BY <1>1, <2>1
    <3>2. Within(k0, b)'
      BY <1>1, <1>4, <2>1, <2>2, <2>3, <3>1 DEF MapKey
    <3>3. QED
      BY <1>5, <3>1, <3>2 DEF Within
  <2>5. \A u \in Callers : Puts(u, k0)' <=> Puts(u, k0)
    BY <1>1, <1>3, <1>4 DEF Puts
  <2>6. StoredIsLatest(k0)'
    BY <2>2, <2>5 DEF StoredIsLatest
  <2>7. ASSUME k0 \notin doubtful', NEW u \in Callers, Puts(u, k0)'
        PROVE  (\A w \in Callers : Puts(w, k0)' => w = u) /\ Within(k0, call[u].at + Ttl[k0])'
    <3>1. PutIsLatest(k0) /\ Puts(u, k0)
      BY <1>5, <2>2, <2>5, <2>7 DEF MapKey
    <3>2. u = t
      BY <2>2, <3>1 DEF PutIsLatest
    <3>3. PICK b \in Nat : b = c.at + Ttl[k0]
      BY <2>1
    <3>4. Within(k0, b)'
      BY <2>3, <3>1, <3>2, <3>3 DEF PutIsLatest
    <3>5. call'[u].at = c.at
      BY <1>3, <1>4, <3>2
    <3>6. Within(k0, call[u].at + Ttl[k0])'
      BY <3>3, <3>4, <3>5 DEF Within
    <3>7. QED
      BY <2>5, <3>1, <3>6 DEF PutIsLatest
  <2>8. QED
    BY <2>4, <2>6, <2>7 DEF MapKey, PutIsLatest
<1> QED
  BY <1>6, <1>7, <1>8 DEF MapInv

\* What a put writes is not earlier than what its key has, unless in doubt.
LEMMA WritePutMap ==
    ASSUME TypeOK, TypeOK', MapInv, FamiliesAgree', NEW t \in Callers, WritePut(t)
    PROVE  MapInv'
<1> DEFINE c == call[t]
<1>1. /\ c \in Calls /\ call \in [Callers -> Calls] /\ now \in Nat
      /\ c.op = "put" /\ c.at <= now /\ c.at \in Nat
      /\ call' = [call EXCEPT ![t] = NoCall]
      /\ UNCHANGED <<ttlCache, now>>
  BY BoundsAssumption DEF TypeOK, WritePut, At, MapInv, PutsInOrder, clockVars, Calls
<1>2. NoCall \in Calls /\ NoCall.op = "none" /\ NoCall.pc = "idle" /\ NoCall.at = 0
  BY NoCallType DEF NoCall
<1>3. CASE UNCHANGED dbVars /\ doubtful' = doubtful \cup c.keys
  <2>1. /\ c.keys \subseteq doubtful' /\ \A k \in Keys : k \in doubtful => k \in doubtful'
        /\ exp' = exp
    BY <1>3 DEF dbVars
  <2>2. NoCall.at <= now
    BY <1>1, <1>2
  <2>3. QED
    BY <1>1, <1>2, <2>1, <2>2, QuietStep
<1>4. CASE PutBatch(c) /\ UNCHANGED doubtful
  <2>1. PutsInOrder'
    BY <1>1, <1>2 DEF MapInv, PutsInOrder
  <2>2. ASSUME NEW k \in Keys, k \notin c.keys
        PROVE  MapKey(k)'
    <3>1. MapKey(k) /\ exp'[k] = exp[k] /\ ~Puts(t, k)
      BY <1>4, <2>2 DEF MapInv, PutBatch, Puts
    <3>2. QED
      BY <1>1, <1>2, <1>4, <3>1, CallKey
  <2>3. ASSUME NEW k \in Keys, k \in c.keys
        PROVE  MapKey(k)'
    <3>1. /\ MapKey(k) /\ Puts(t, k) /\ Ttl[k] \in Nat
          /\ exp'[k] = IF Ttl[k] > 0 THEN c.at + Ttl[k] ELSE exp[k]
      BY <1>1, <1>4, <2>3, TtlAssumption DEF MapInv, PutBatch, Puts
    <3>2. exp'[k] \in {Never, c.at + Ttl[k]}
      BY <3>1 DEF FamiliesAgree
    <3>3. ASSUME NEW b \in Nat, c.at + Ttl[k] <= b, Within(k, b)
          PROVE  Within(k, b)'
      BY <1>1, <1>2, <3>2, <3>3 DEF Within
    <3>4. Within(k, now + Ttl[k])'
      <4>1. PICK b \in Nat : b = now + Ttl[k]
        BY <1>1, <3>1
      <4>2. Within(k, b)'
        BY <1>1, <3>1, <3>3, <4>1 DEF MapKey
      <4>3. QED
        BY <1>1, <4>1, <4>2 DEF Within
    <3>5. ASSUME k \notin doubtful' PROVE PutIsLatest(k)'
      <4>1. PutIsLatest(k)
        BY <1>4, <3>1, <3>5 DEF MapKey
      <4>2. \A u \in Callers : ~Puts(u, k)'
        BY <1>1, <1>2, <3>1, <4>1 DEF PutIsLatest, Puts
      <4>3. QED
        BY <4>2 DEF PutIsLatest
    <3>6. ASSUME k \notin doubtful', exp'[k] # Never
          PROVE  Within(k, exp[k])'
      <4>1. PICK b \in Nat : b = c.at + Ttl[k]
        BY <1>1, <3>1
      <4>2. Within(k, b)
        BY <1>4, <3>1, <3>6, <4>1 DEF MapKey, PutIsLatest
      <4>3. Within(k, b)' /\ exp'[k] = b
        BY <3>2, <3>3, <3>6, <4>1, <4>2
      <4>4. QED
        BY <4>3 DEF Within
    <3>7. QED
      BY <3>4, <3>5, <3>6 DEF MapKey, StoredIsLatest
  <2>4. QED
    BY <2>1, <2>2, <2>3 DEF MapInv
<1>5. QED
  BY <1>3, <1>4 DEF WritePut

LEMMA BeginMap ==
    ASSUME TypeOK, TypeOK', MapInv, NEW t \in Callers, NEW S \in Batches,
           BeginGet(t, S) \/ BeginDelete(t, S)
    PROVE  MapInv'
<1> DEFINE d == call'[t]
<1>1. /\ call \in [Callers -> Calls] /\ d \in Calls /\ now \in Nat
      /\ call[t] = NoCall /\ call' = [call EXCEPT ![t] = d]
      /\ UNCHANGED <<exp, ttlCache, now, doubtful>>
      /\ d.op \in {"get", "delete"} /\ d.pc \in {"ttl", "forget"} /\ d.at = now
  BY BoundsAssumption
  DEF TypeOK, BeginGet, BeginDelete, Begin, dbVars, clockVars
<1>2. call[t].op # "put"
  BY <1>1, NoCallType
<1>3. d.op \in {"get", "delete", "none"} /\ d.at <= now /\ d.pc # "refill"
  BY <1>1
<1>4. PICK c \in Calls : c = d
  BY <1>1
<1>5. QED
  BY <1>1, <1>2, <1>3, <1>4, QuietStep

\* A put that begins is the latest of its keys, unless another one is under way.
LEMMA BeginPutMap ==
    ASSUME TypeOK, TypeOK', MapInv, NEW t \in Callers, NEW S \in Batches,
           NEW v \in Values, BeginPut(t, S, v)
    PROVE  MapInv'
<1>1. PICK c \in Calls :
        /\ call' = [call EXCEPT ![t] = c] /\ c.op = "put" /\ c.pc = "set"
        /\ c.keys = S /\ c.todo = {k \in S : Ttl[k] > 0} /\ c.at = now
  <2>1. call'[t] \in Calls
    BY DEF TypeOK
  <2>2. QED
    BY <2>1 DEF TypeOK, BeginPut, Begin
<1>2. /\ call \in [Callers -> Calls] /\ now \in Nat /\ call[t].op # "put"
      /\ UNCHANGED <<exp, ttlCache, now>>
      /\ doubtful' = (doubtful \ S) \cup {k \in S : PutInFlight(k)}
  BY BoundsAssumption, NoCallType DEF TypeOK, BeginPut, Begin, dbVars, clockVars
<1>3. PutsInOrder'
  BY <1>1, <1>2 DEF MapInv, PutsInOrder
<1>4. ASSUME NEW k \in Keys, k \notin S
      PROVE  MapKey(k)'
  <2>1. MapKey(k) /\ ~Puts(t, k) /\ (k \notin doubtful' => k \notin doubtful)
    BY <1>2, <1>4 DEF MapInv, Puts
  <2>2. QED
    BY <1>1, <1>2, <1>4, <2>1, CallKey
<1>5. ASSUME NEW k \in Keys, k \in S
      PROVE  MapKey(k)'
  <2>1. Within(k, now + Ttl[k])
    BY DEF MapInv, MapKey
  <2>2. PICK b : b = now + Ttl[k]
    OBVIOUS
  <2>3. Within(k, b)'
    BY <1>1, <1>2, <2>1, <2>2 DEF Within
  <2>4. Within(k, now + Ttl[k])' /\ Within(k, call[t].at + Ttl[k])'
    BY <1>1, <1>2, <2>2, <2>3 DEF Within
  <2>5. Puts(t, k)'
    BY <1>1, <1>2, <1>5 DEF Puts
  <2>6. ASSUME k \notin doubtful', NEW u \in Callers, Puts(u, k)'
        PROVE  u = t
    <3>1. ~PutInFlight(k)
      BY <1>2, <1>5, <2>6
    <3>2. QED
      BY <1>1, <1>2, <2>6, <3>1 DEF Puts, PutInFlight
  <2>7. k \notin doubtful' => PutIsLatest(k)'
    BY <2>4, <2>6 DEF PutIsLatest
  <2>8. QED
    BY <2>4, <2>5, <2>7 DEF MapKey, StoredIsLatest
<1>6. QED
  BY <1>3, <1>4, <1>5 DEF MapInv

LEMMA AbortMap ==
    ASSUME TypeOK, TypeOK', MapInv, NEW t \in Callers, Abort(t)
    PROVE  MapInv'
<1> DEFINE c == call[t]
           d == call'[t]
<1>1. /\ call \in [Callers -> Calls] /\ c \in Calls /\ d \in Calls /\ now \in Nat
      /\ call' = [call EXCEPT ![t] = d]
      /\ UNCHANGED <<exp, ttlCache, now>>
      /\ d = IF c.pc = "forget" THEN Deleted(c) ELSE NoCall
      /\ doubtful' = IF c.op = "put" THEN doubtful \cup c.keys ELSE doubtful
  BY BoundsAssumption DEF TypeOK, Abort, dbVars, clockVars
<1>2. /\ NoCall.op = "none" /\ NoCall.pc = "idle" /\ NoCall.at <= now
      /\ c.at <= now
  BY <1>1 DEF NoCall, MapInv, PutsInOrder
<1>3. d.op \in {"get", "delete", "none"} /\ d.pc # "refill" /\ d.at <= now
  BY <1>1, <1>2 DEF Deleted, Calls
<1>4. /\ \A k \in Keys : k \in doubtful => k \in doubtful'
      /\ c.op = "put" => c.keys \subseteq doubtful'
  BY <1>1
<1>5. PICK e \in Calls : e = d
  BY <1>1
<1>6. QED
  BY <1>1, <1>3, <1>4, <1>5, QuietStep

\* The collector, the clock and a restart set no timestamp and begin no put.
LEMMA OthersMap ==
    ASSUME TypeOK, TypeOK', MapInv, Collect \/ Tick
    PROVE  MapInv'
<1>1. /\ call' = call /\ doubtful' = doubtful /\ now \in Nat /\ now' \in Nat /\ now <= now'
      /\ call \in [Callers -> Calls] /\ ttlCache \in [Keys -> Timestamps]
      /\ exp \in [Keys -> Timestamps]
  BY BoundsAssumption DEF TypeOK, Collect, CollectStart, CollectKey, CollectWrite, Tick,
                          clockVars
<1>2. \A k \in Keys : exp'[k] \in {exp[k], Never} /\ ttlCache'[k] \in {ttlCache[k], Never}
  <2>1. CASE CollectWrite
    BY <1>1, <2>1 DEF CollectWrite, DeleteBatch, dbVars
  <2>2. CASE CollectKey
    BY <1>1, <2>2 DEF CollectKey, dbVars
  <2>3. CASE CollectStart \/ Tick
    BY <2>3 DEF CollectStart, Tick, dbVars
  <2>4. QED
    BY <2>1, <2>2, <2>3 DEF Collect
<1>3. PutsInOrder'
  BY <1>1 DEF MapInv, PutsInOrder, Calls
<1>4. ASSUME NEW k \in Keys PROVE MapKey(k)'
  <2>1. \A b \in Nat : Within(k, b) => Within(k, b)'
    BY <1>1, <1>2 DEF Within
  <2>2. \A t \in Callers : (Puts(t, k)' <=> Puts(t, k)) /\ call'[t].at = call[t].at
    BY <1>1 DEF Puts
  <2>3. QED
    BY <1>1, <1>2, <2>1, <2>2, CalmKey DEF MapInv
<1>5. QED
  BY <1>3, <1>4 DEF MapInv

LEMMA RestartMap ==
    ASSUME TypeOK, MapInv, Restart
    PROVE  MapInv'
<1>1. /\ call' = [t \in Callers |-> NoCall] /\ ttlCache' = [k \in Keys |-> Never]
      /\ exp' = exp /\ now' = now /\ now \in Nat /\ exp \in [Keys -> Timestamps]
  BY BoundsAssumption DEF TypeOK, Restart, dbVars
<1>2. NoCall.op = "none" /\ NoCall.pc = "idle" /\ NoCall.at = 0
  BY DEF NoCall
<1>3. PutsInOrder'
  BY <1>1, <1>2 DEF PutsInOrder
<1>4. ASSUME NEW k \in Keys PROVE MapKey(k)'
  <2>1. \A t \in Callers : ~Puts(t, k)'
    BY <1>1, <1>2 DEF Puts
  <2>2. Within(k, now + Ttl[k])'
    <3>1. Within(k, now + Ttl[k])
      BY DEF MapInv, MapKey
    <3>2. QED
      BY <1>1, <1>2, <3>1 DEF Within
  <2>3. exp'[k] # Never => Within(k, exp[k])'
    BY <1>1, <1>2 DEF Within, Timestamps
  <2>4. QED
    BY <2>1, <2>2, <2>3 DEF MapKey, PutIsLatest, StoredIsLatest
<1>5. QED
  BY <1>3, <1>4 DEF MapInv

LEMMA InitMap == Init => MapInv
<1> SUFFICES ASSUME Init PROVE MapInv
  OBVIOUS
<1>1. NoCall.op = "none" /\ NoCall.pc = "idle" /\ NoCall.at = 0
  BY DEF NoCall
<1>2. QED
  BY <1>1, BoundsAssumption
  DEF Init, MapInv, PutsInOrder, MapKey, Within, PutIsLatest, StoredIsLatest, Puts

LEMMA NextMap == FamiliesInv /\ MapInv /\ [Next]_vars => MapInv'
<1> SUFFICES ASSUME FamiliesInv, MapInv, [Next]_vars
             PROVE  MapInv'
  OBVIOUS
<1>1. FamiliesInv'
  BY NextFamilies
<1>2. TypeOK /\ TypeOK' /\ CallsComplete /\ FamiliesAgree'
  BY <1>1 DEF FamiliesInv
<1>3. ASSUME NEW t \in Callers, NEW S \in Batches, BeginGet(t, S) \/ BeginDelete(t, S)
      PROVE  MapInv'
  BY <1>2, <1>3, BeginMap
<1>4. ASSUME NEW t \in Callers, NEW S \in Batches, NEW v \in Values, BeginPut(t, S, v)
      PROVE  MapInv'
  BY <1>2, <1>4, BeginPutMap
<1>5. ASSUME NEW t \in Callers, Run(t)
      PROVE  MapInv'
  BY <1>2, <1>5, ReadsAndDeletesMap, SetTtlMap, WritePutMap DEF Run, BatchPut
<1>6. ASSUME NEW t \in Callers, Abort(t)
      PROVE  MapInv'
  BY <1>2, <1>6, AbortMap
<1>7. CASE Collect \/ Tick
  BY <1>2, <1>7, OthersMap
<1>8. CASE Restart
  BY <1>2, <1>8, RestartMap
<1>9. CASE UNCHANGED vars
  BY <1>9 DEF vars, dbVars, clockVars, MapInv, PutsInOrder, MapKey, Within, PutIsLatest,
              StoredIsLatest, Puts
<1>10. QED
  BY <1>3, <1>4, <1>5, <1>6, <1>7, <1>8, <1>9 DEF Next

\* Whatever gets refill and deletes clean up, in whatever order, an entry of the
\* map is later than the stored timestamp only after a put of that key failed,
\* was abandoned or overlapped another: for any keys, callers and times to live.
THEOREM MapNeverProlongsALife == Spec => []MapNeverProlongs
<1>1. FamiliesInv /\ MapInv => MapNeverProlongs
  BY DEF MapInv, MapKey, StoredIsLatest, Within, MapNeverProlongs, PutInFlight, Puts
<1>2. QED
  BY <1>1, InitFamilies, NextFamilies, InitMap, NextMap, PTL DEF Spec

-----------------------------------------------------------------------------
(* One caller at a time: the provider is a TtlStore *)

\* Calls follow one another, no put is abandoned, and nothing fails or collects.
Alone == /\ \A s, t \in Callers : s = t
         /\ ~MayFail /\ Abortable \subseteq {"get", "delete"} /\ ~CollectorRuns

\* The keys a get has not come to.
Ahead(c) == IF c.pc = "forget" THEN {} ELSE c.todo

\* A get has found nothing of the keys ahead, and of the others what a get of that
\* moment must answer; the keys it will delete have expired.
Answered(c) ==
    /\ \A k \in Keys :
          c.found[k] = IF k \in c.keys \ Ahead(c) /\ ~Expired(exp[k], c.at)
                       THEN val[k] ELSE NoValue
    /\ \A k \in c.gone : Expired(exp[k], c.at)

GetOK(c) ==
    /\ Answered(c)
    /\ c.gone \subseteq c.keys \ Ahead(c)
    /\ Ahead(c) \subseteq c.keys
    /\ c.pc \in {"ttl", "load", "refill", "read", "forget"}
    /\ c.pc \in {"load", "refill", "read"} => c.key \in c.todo
    /\ c.pc = "refill" => c.ts = exp[c.key]
    /\ c.pc = "read" => ~Expired(exp[c.key], c.at)

\* The map says of a key nothing or what the database says, unless a put is
\* about to write what it has put into the map.
MapOK(c) ==
    \A k \in Keys :
        \/ ttlCache[k] \in {Never, exp[k]}
        \/ c.op = "put" /\ k \in c.keys /\ Ttl[k] > 0

CallOK(c) ==
    /\ MapOK(c)
    /\ c.op = "none" => c = NoCall
    /\ c.op = "get" => GetOK(c)
    /\ c.op = "put" =>
          /\ \A k \in c.todo : Ttl[k] > 0
          /\ \A k \in c.keys \ c.todo : Ttl[k] > 0 => ttlCache[k] = c.at + Ttl[k]
    /\ c.op = "delete" => c.pc = "forget"
    /\ c.pc = "forget" => \A k \in Targets(c) \ c.todo : ttlCache[k] = Never

AloneInv == victims = {} /\ \A t \in Callers : CallOK(call[t])

LEMMA InitAlone == Init => AloneInv
<1> SUFFICES ASSUME Init, NEW t \in Callers PROVE victims = {} /\ CallOK(call[t])
  BY DEF AloneInv, Init
<1>1. call[t] = NoCall /\ victims = {} /\ \A k \in Keys : ttlCache[k] = Never
  BY DEF Init
<1>2. NoCall.op = "none" /\ NoCall.pc = "idle"
  BY DEF NoCall
<1>3. QED
  BY <1>1, <1>2 DEF CallOK, MapOK

\* A step of the only call there is.
LEMMA OnlyCall ==
    ASSUME Alone, TypeOK, AloneInv, NEW t \in Callers, NEW d \in Calls,
           call' = [call EXCEPT ![t] = d], victims' = victims, CallOK(d)'
    PROVE  AloneInv'
<1>1. \A s \in Callers : call'[s] = d
  BY DEF Alone, TypeOK
<1>2. victims' = {}
  BY DEF AloneInv
<1>3. ASSUME NEW s \in Callers PROVE CallOK(call[s])'
  <2>1. call'[s] = d
    BY <1>1
  <2>2. QED
    BY Zenon, <2>1 DEF CallOK, MapOK, GetOK, Answered, Ahead, Targets
<1>4. QED
  BY <1>2, <1>3 DEF AloneInv

\* TtlStore sees of a call its operation, keys, value and time.
LEMMA HiddenCall ==
    ASSUME TypeOK, NEW t \in Callers, NEW d \in Calls,
           call' = [call EXCEPT ![t] = d],
           d.op = call[t].op, d.keys = call[t].keys, d.val = call[t].val, d.at = call[t].at,
           UNCHANGED <<dbVars, now, answer>>
    PROVE  UNCHANGED Store!vars
<1>1. ASSUME NEW s \in Callers
      PROVE  /\ call'[s].op = call[s].op /\ call'[s].keys = call[s].keys
             /\ call'[s].val = call[s].val /\ call'[s].at = call[s].at
  BY DEF TypeOK
<1>2. QED
  BY <1>1 DEF Store!vars, dbVars

\* A get that goes on, as long as the database stays.
LEMMA GetGoesOn ==
    ASSUME NEW d \in Calls, d.op = "get", GetOK(d), UNCHANGED dbVars,
           \A k \in Keys : ttlCache'[k] \in {Never, exp[k]},
           d.pc = "forget" => \A k \in d.gone \ d.todo : ttlCache'[k] = Never
    PROVE  CallOK(d)'
<1>1. GetOK(d)'
  BY DEF GetOK, Answered, Ahead, dbVars
<1>2. MapOK(d)'
  BY DEF MapOK, dbVars
<1>3. QED
  BY <1>1, <1>2 DEF CallOK, Targets

\* The judgement on the next key, by the timestamp the database has.
LEMMA JudgedOK ==
    ASSUME NEW c \in Calls, c.op = "get", GetOK(c), NEW k \in c.todo,
           c.pc \in {"ttl", "refill"}
    PROVE  GetOK(Judged(c, k, exp[k]))
<1> DEFINE d == Judged(c, k, exp[k])
<1>1. /\ d.keys = c.keys /\ d.at = c.at /\ d.found = c.found
      /\ IF Expired(exp[k], c.at)
         THEN d.pc = "ttl" /\ d.todo = c.todo \ {k} /\ d.gone = c.gone \cup {k}
         ELSE d.pc = "read" /\ d.todo = c.todo /\ d.gone = c.gone /\ d.key = k
  BY DEF Judged, Calls
<1> HIDE DEF d
<1>2. /\ Ahead(c) = c.todo /\ Ahead(d) = d.todo /\ k \in c.keys \ c.gone
      /\ c.keys \subseteq Keys
  BY <1>1 DEF GetOK, Ahead, Calls
<1>3. c.found[k] = NoValue
  BY <1>2 DEF GetOK, Answered
<1>4. Answered(d)
  <2>0. \A j \in d.gone : Expired(exp[j], d.at)
    BY <1>1 DEF GetOK, Answered
  <2> SUFFICES ASSUME NEW j \in Keys
               PROVE  d.found[j] = IF j \in d.keys \ d.todo /\ ~Expired(exp[j], d.at)
                                   THEN val[j] ELSE NoValue
    BY <1>2, <2>0 DEF Answered
  <2>1. c.found[j] = IF j \in c.keys \ c.todo /\ ~Expired(exp[j], c.at)
                     THEN val[j] ELSE NoValue
    BY <1>2 DEF GetOK, Answered
  <2>2. CASE j = k
    BY <1>1, <1>2, <1>3, <2>2
  <2>3. CASE j # k
    BY <1>1, <1>2, <2>1, <2>3
  <2>4. QED
    BY <2>2, <2>3
<1>5. d.gone \subseteq d.keys \ Ahead(d) /\ Ahead(d) \subseteq d.keys
  BY <1>1, <1>2 DEF GetOK
<1>6. d.pc \in {"ttl", "read"}
  BY <1>1
<1>7. d.pc = "read" => d.key \in d.todo /\ ~Expired(exp[d.key], d.at)
  BY <1>1
<1>8. GetOK(d)
  BY <1>4, <1>5, <1>6, <1>7 DEF GetOK
<1>9. QED
  BY <1>8 DEF d

\* A step of a get that stays a get: TtlStore does not see it.
LEMMA HiddenGet ==
    ASSUME Alone, TypeOK, AloneInv, NEW t \in Callers, NEW d \in Calls,
           call' = [call EXCEPT ![t] = d],
           call[t].op = "get", d.op = "get", d.keys = call[t].keys, d.val = call[t].val,
           d.at = call[t].at, GetOK(d),
           UNCHANGED <<dbVars, now, answer, victims>>,
           \A k \in Keys : ttlCache'[k] \in {Never, exp[k]},
           d.pc = "forget" => \A k \in d.gone \ d.todo : ttlCache'[k] = Never
    PROVE  AloneInv' /\ UNCHANGED Store!vars
<1>1. CallOK(d)'
  BY GetGoesOn
<1>2. AloneInv'
  BY <1>1, OnlyCall
<1>3. UNCHANGED Store!vars
  BY HiddenCall
<1>4. QED
  BY <1>2, <1>3

\* What a get knows, and what the map may say, while a get runs.
LEMMA GetRuns ==
    ASSUME TypeOK, AloneInv, NEW t \in Callers, call[t].op = "get"
    PROVE  /\ call[t] \in Calls /\ GetOK(call[t])
           /\ \A k \in Keys : ttlCache[k] \in {Never, exp[k]}
           /\ call[t].todo \subseteq Keys /\ call[t].keys \subseteq Keys
BY DEF TypeOK, AloneInv, CallOK, MapOK, Calls

LEMMA LookUpAlone ==
    ASSUME Alone, TypeOK, TypeOK', AloneInv, NEW t \in Callers, LookUp(t)
    PROVE  AloneInv' /\ UNCHANGED Store!vars
<1> DEFINE c == call[t]
<1>1. c.op = "get" /\ c.pc = "ttl"
  BY DEF LookUp, At
<1>2. /\ c \in Calls /\ GetOK(c) /\ c.todo \subseteq Keys
      /\ \A k \in Keys : ttlCache[k] \in {Never, exp[k]}
  BY <1>1, GetRuns
<1>3. PICK k \in c.todo :
        call' = [call EXCEPT ![t] = IF ttlCache[k] # Never THEN Judged(c, k, ttlCache[k])
                                    ELSE [c EXCEPT !.pc = "load", !.key = k]]
  BY DEF LookUp
<1>4. PICK d \in Calls : d = call'[t]
  BY DEF TypeOK
<1>5. d = IF ttlCache[k] # Never THEN Judged(c, k, exp[k])
          ELSE [c EXCEPT !.pc = "load", !.key = k]
  BY <1>2, <1>3, <1>4 DEF TypeOK
<1>6. /\ d.op = "get" /\ d.keys = c.keys /\ d.val = c.val /\ d.at = c.at
      /\ d.pc # "forget"
  BY <1>1, <1>2, <1>5 DEF Judged, Calls
<1>7. GetOK(d)
  <2>1. CASE ttlCache[k] # Never
    BY <1>1, <1>2, <1>5, <2>1, JudgedOK
  <2>2. CASE ttlCache[k] = Never
    <3>1. /\ d.pc = "load" /\ d.key = k /\ d.todo = c.todo /\ d.gone = c.gone
          /\ d.found = c.found /\ d.keys = c.keys /\ d.at = c.at
      BY <1>2, <1>5, <2>2 DEF Calls
    <3>2. QED
      BY <1>1, <1>2, <3>1 DEF GetOK, Answered, Ahead
  <2>3. QED
    BY <2>1, <2>2
<1>8. /\ UNCHANGED <<dbVars, now, answer, victims, ttlCache>>
      /\ call' = [call EXCEPT ![t] = d]
  BY <1>3, <1>4 DEF LookUp, clockVars, collectorVars, TypeOK
<1>9. QED
  BY <1>1, <1>2, <1>6, <1>7, <1>8, HiddenGet

LEMMA LoadAlone ==
    ASSUME Alone, TypeOK, TypeOK', AloneInv, NEW t \in Callers, Load(t)
    PROVE  AloneInv' /\ UNCHANGED Store!vars
<1> DEFINE c == call[t]
<1>1. c.op = "get" /\ c.pc = "load"
  BY DEF Load, At
<1>2. /\ c \in Calls /\ GetOK(c) /\ c.todo \subseteq Keys /\ c.key \in c.todo
      /\ \A k \in Keys : ttlCache[k] \in {Never, exp[k]}
  <2>1. c \in Calls /\ GetOK(c) /\ c.todo \subseteq Keys
        /\ \A k \in Keys : ttlCache[k] \in {Never, exp[k]}
    BY <1>1, GetRuns
  <2>2. c.key \in c.todo
    BY <1>1, <2>1 DEF GetOK
  <2>3. QED
    BY <2>1, <2>2
<1>3. call' = [call EXCEPT ![t].pc = IF exp[c.key] = Never THEN "read" ELSE "refill",
                           ![t].ts = exp[c.key]]
  BY DEF Load, Alone
<1>4. PICK d \in Calls : d = call'[t]
  BY DEF TypeOK
<1>5. /\ d.op = "get" /\ d.keys = c.keys /\ d.val = c.val /\ d.at = c.at /\ d.key = c.key
      /\ d.todo = c.todo /\ d.gone = c.gone /\ d.found = c.found /\ d.ts = exp[c.key]
      /\ IF exp[c.key] = Never THEN d.pc = "read" ELSE d.pc = "refill"
  BY <1>1, <1>2, <1>3, <1>4 DEF Calls, TypeOK
<1>6. GetOK(d)
  BY <1>1, <1>2, <1>5 DEF GetOK, Answered, Ahead, Expired
<1>7. UNCHANGED <<dbVars, now, answer, victims, ttlCache>>
  BY DEF Load, clockVars, collectorVars
<1>8. call' = [call EXCEPT ![t] = d]
  BY <1>3, <1>4 DEF TypeOK
<1>9. QED
  BY <1>1, <1>2, <1>5, <1>6, <1>7, <1>8, HiddenGet

LEMMA RefillAlone ==
    ASSUME Alone, TypeOK, TypeOK', AloneInv, NEW t \in Callers, Refill(t)
    PROVE  AloneInv' /\ UNCHANGED Store!vars
<1> DEFINE c == call[t]
<1>1. c.op = "get" /\ c.pc = "refill"
  BY DEF Refill, At
<1>2. /\ c \in Calls /\ GetOK(c) /\ c.todo \subseteq Keys
      /\ c.key \in c.todo /\ c.ts = exp[c.key]
      /\ \A k \in Keys : ttlCache[k] \in {Never, exp[k]}
  <2>1. c \in Calls /\ GetOK(c) /\ c.todo \subseteq Keys
        /\ \A k \in Keys : ttlCache[k] \in {Never, exp[k]}
    BY <1>1, GetRuns
  <2>2. c.key \in c.todo /\ c.ts = exp[c.key]
    BY <1>1, <2>1 DEF GetOK
  <2>3. QED
    BY <2>1, <2>2
<1>3. PICK d \in Calls : d = call'[t]
  BY DEF TypeOK
<1>4. d = Judged(c, c.key, exp[c.key]) /\ call' = [call EXCEPT ![t] = d]
  BY <1>2, <1>3 DEF Refill, TypeOK
<1>5. /\ d.op = "get" /\ d.keys = c.keys /\ d.val = c.val /\ d.at = c.at
      /\ d.pc # "forget"
  BY <1>1, <1>2, <1>4 DEF Judged, Calls
<1>6. GetOK(d)
  BY <1>1, <1>2, <1>4, JudgedOK
<1>7. \A k \in Keys : ttlCache'[k] \in {Never, exp[k]}
  BY <1>2 DEF Refill, TypeOK
<1>8. UNCHANGED <<dbVars, now, answer, victims>>
  BY DEF Refill, clockVars, collectorVars
<1>9. QED
  BY <1>1, <1>4, <1>5, <1>6, <1>7, <1>8, HiddenGet

LEMMA ReadAlone ==
    ASSUME Alone, TypeOK, TypeOK', AloneInv, NEW t \in Callers, Read(t)
    PROVE  AloneInv' /\ UNCHANGED Store!vars
<1> DEFINE c == call[t]
<1>1. c.op = "get" /\ c.pc = "read"
  BY DEF Read, At
<1>2. /\ c \in Calls /\ GetOK(c) /\ c.todo \subseteq Keys
      /\ c.key \in c.todo /\ ~Expired(exp[c.key], c.at)
      /\ \A k \in Keys : ttlCache[k] \in {Never, exp[k]}
  <2>1. c \in Calls /\ GetOK(c) /\ c.todo \subseteq Keys
        /\ \A k \in Keys : ttlCache[k] \in {Never, exp[k]}
    BY <1>1, GetRuns
  <2>2. c.key \in c.todo /\ ~Expired(exp[c.key], c.at)
    BY <1>1, <2>1 DEF GetOK
  <2>3. QED
    BY <2>1, <2>2
<1>3. PICK d \in Calls : d = call'[t]
  BY DEF TypeOK
<1>4. /\ d.op = "get" /\ d.keys = c.keys /\ d.val = c.val /\ d.at = c.at
      /\ d.pc = "ttl" /\ d.todo = c.todo \ {c.key} /\ d.gone = c.gone
      /\ d.found = [c.found EXCEPT ![c.key] = val[c.key]]
      /\ call' = [call EXCEPT ![t] = d]
  <2> DEFINE f == [c.found EXCEPT ![c.key] = val[c.key]]
             rest == c.todo \ {c.key}
  <2> HIDE DEF f, rest
  <2>1. call' = [call EXCEPT ![t].pc = "ttl", ![t].key = NoValue, ![t].todo = rest,
                             ![t].found = f]
    BY DEF Read, f, rest
  <2>2. d = [c EXCEPT !.pc = "ttl", !.key = NoValue, !.todo = rest, !.found = f]
    BY <1>3, <2>1 DEF TypeOK
  <2>3. call' = [call EXCEPT ![t] = d]
    BY <1>3, <2>1 DEF TypeOK
  <2>4. /\ d.op = "get" /\ d.keys = c.keys /\ d.val = c.val /\ d.at = c.at
        /\ d.pc = "ttl" /\ d.todo = rest /\ d.gone = c.gone /\ d.found = f
    BY <1>1, <1>2, <2>2 DEF Calls
  <2>5. QED
    BY <2>3, <2>4 DEF f, rest
<1>5. /\ Ahead(c) = c.todo /\ Ahead(d) = d.todo /\ c.found \in [Keys -> Values \cup {NoValue}]
      /\ c.gone \subseteq c.keys \ c.todo /\ c.todo \subseteq c.keys
  BY <1>1, <1>2, <1>4 DEF Ahead, Calls, GetOK
<1>6. Answered(d)
  <2>0. \A j \in d.gone : Expired(exp[j], d.at)
    BY <1>2, <1>4 DEF GetOK, Answered
  <2> SUFFICES ASSUME NEW j \in Keys
               PROVE  d.found[j] = IF j \in d.keys \ d.todo /\ ~Expired(exp[j], d.at)
                                   THEN val[j] ELSE NoValue
    BY <1>5, <2>0 DEF Answered
  <2>1. c.found[j] = IF j \in c.keys \ c.todo /\ ~Expired(exp[j], c.at)
                     THEN val[j] ELSE NoValue
    BY <1>2, <1>5 DEF GetOK, Answered
  <2>2. CASE j = c.key
    BY <1>2, <1>4, <1>5, <2>2
  <2>3. CASE j # c.key
    BY <1>2, <1>4, <1>5, <2>1, <2>3
  <2>4. QED
    BY <2>2, <2>3
<1>7. GetOK(d)
  BY <1>4, <1>5, <1>6 DEF GetOK
<1>8. UNCHANGED <<dbVars, now, answer, victims, ttlCache>>
  BY DEF Read, clockVars, collectorVars
<1>9. QED
  BY <1>1, <1>2, <1>4, <1>7, <1>8, HiddenGet

LEMMA CleanUpAlone ==
    ASSUME Alone, TypeOK, TypeOK', AloneInv, NEW t \in Callers, CleanUp(t)
    PROVE  AloneInv' /\ UNCHANGED Store!vars
<1> DEFINE c == call[t]
<1>1. c.op = "get" /\ c.pc = "ttl" /\ c.todo = {}
  BY DEF CleanUp, At
<1>2. /\ c \in Calls /\ GetOK(c) /\ \A k \in Keys : ttlCache[k] \in {Never, exp[k]}
  BY <1>1, GetRuns
<1>3. PICK d \in Calls : d = call'[t]
  BY DEF TypeOK
<1>4. /\ d.op = "get" /\ d.keys = c.keys /\ d.val = c.val /\ d.at = c.at
      /\ d.pc = "forget" /\ d.todo = c.gone /\ d.gone = c.gone /\ d.found = c.found
      /\ call' = [call EXCEPT ![t] = d]
  BY <1>1, <1>2, <1>3 DEF CleanUp, TypeOK, Calls
<1>5. GetOK(d)
  BY <1>1, <1>2, <1>4 DEF GetOK, Answered, Ahead
<1>6. UNCHANGED <<dbVars, now, answer, victims, ttlCache>>
  BY DEF CleanUp, clockVars, collectorVars
<1>7. QED
  BY <1>1, <1>2, <1>4, <1>5, <1>6, HiddenGet

\* A call is over.
LEMMA EndAlone ==
    ASSUME Alone, TypeOK, AloneInv, NEW t \in Callers,
           call' = [call EXCEPT ![t] = NoCall], victims' = victims,
           \A k \in Keys : ttlCache'[k] \in {Never, exp'[k]}
    PROVE  AloneInv' /\ Store!End(t)
<1>1. NoCall \in Calls /\ NoCall.op = "none" /\ NoCall.pc = "idle"
  BY NoCallType DEF NoCall
<1>2. CallOK(NoCall)'
  BY <1>1 DEF CallOK, MapOK
<1>3. AloneInv'
  BY <1>1, <1>2, OnlyCall
<1>4. Store!End(t)
  <2>1. \A s \in Callers : call'[s] = IF s = t THEN NoCall ELSE call[s]
    BY DEF TypeOK
  <2> DEFINE View(c) == [op |-> c.op, keys |-> c.keys, val |-> c.val, at |-> c.at]
  <2>2. View(NoCall) = Store!NoCall
    BY DEF NoCall, Store!NoCall
  <2> HIDE DEF View
  <2>3. \A s \in Callers : View(call'[s]) = IF s = t THEN Store!NoCall ELSE View(call[s])
    BY <2>1, <2>2
  <2>4. [s \in Callers |-> View(call'[s])]
          = [[s \in Callers |-> View(call[s])] EXCEPT ![t] = Store!NoCall]
    BY <2>3
  <2>5. QED
    BY <2>4 DEF Store!End, View
<1>5. QED
  BY <1>3, <1>4

LEMMA ReturnAlone ==
    ASSUME Alone, TypeOK, AloneInv, NEW t \in Callers, Return(t)
    PROVE  AloneInv' /\ Store!Get(t)
<1> DEFINE c == call[t]
<1>1. c.op = "get" /\ c.pc = "ttl" /\ c.todo = {} /\ c.gone = {}
  BY DEF Return, At
<1>2. /\ c \in Calls /\ GetOK(c) /\ \A k \in Keys : ttlCache[k] \in {Never, exp[k]}
  BY <1>1, GetRuns
<1>3. UNCHANGED <<val, exp, now, victims, ttlCache>>
  BY DEF Return, dbVars, clockVars, collectorVars
<1>4. AloneInv' /\ Store!End(t)
  BY <1>2, <1>3, EndAlone DEF Return
<1>5. c.found = [k \in Keys |-> IF k \in c.keys /\ ~Expired(exp[k], c.at)
                                THEN val[k] ELSE NoValue]
  <2>1. \A k \in Keys : c.found[k] = IF k \in c.keys /\ ~Expired(exp[k], c.at)
                                     THEN val[k] ELSE NoValue
    BY <1>1, <1>2 DEF GetOK, Answered, Ahead
  <2>2. c.found \in [Keys -> Values \cup {NoValue}]
    BY <1>2 DEF Calls
  <2>3. QED
    BY <2>1, <2>2
<1>6. answer' = [answer EXCEPT ![t] = c.found]
  BY DEF Return
<1>7. QED
  BY <1>1, <1>3, <1>4, <1>5, <1>6 DEF Store!Get, Store!Expired, Expired

\* deleteTTL of one key, for an expired key or a delete call.
LEMMA ForgetAlone ==
    ASSUME Alone, TypeOK, TypeOK', AloneInv, PutsInOrder, NEW t \in Callers, Forget(t)
    PROVE  AloneInv' /\ UNCHANGED Store!vars
<1> DEFINE c == call[t]
<1>1. c \in Calls /\ CallOK(c) /\ c.pc = "forget" /\ c.op # "put"
  BY DEF TypeOK, AloneInv, Forget, PutsInOrder
<1>2. PICK k \in c.todo : /\ ttlCache' = [ttlCache EXCEPT ![k] = Never]
                          /\ call' = [call EXCEPT ![t].todo = @ \ {k}]
  BY DEF Forget
<1>3. PICK d \in Calls : d = call'[t]
  BY DEF TypeOK
<1>4. /\ call' = [call EXCEPT ![t] = d] /\ d = [c EXCEPT !.todo = c.todo \ {k}]
  BY <1>2, <1>3 DEF TypeOK
<1>5. /\ d.op = c.op /\ d.keys = c.keys /\ d.val = c.val /\ d.at = c.at /\ d.pc = "forget"
      /\ d.todo = c.todo \ {k} /\ d.gone = c.gone /\ d.found = c.found
  BY <1>1, <1>4 DEF Calls
<1>6. /\ \A j \in Keys : ttlCache[j] \in {Never, exp[j]}
      /\ \A j \in Targets(c) \ c.todo : ttlCache[j] = Never
  BY <1>1 DEF CallOK, MapOK
<1>7. \A j \in Keys : ttlCache'[j] = IF j = k THEN Never ELSE ttlCache[j]
  BY <1>2 DEF TypeOK
<1>8. Targets(c) \subseteq Keys /\ Targets(d) = Targets(c)
  BY <1>1, <1>5 DEF Targets, Calls
<1>9. /\ \A j \in Keys : ttlCache'[j] \in {Never, exp[j]}
      /\ \A j \in Targets(d) \ d.todo : ttlCache'[j] = Never
  BY <1>5, <1>6, <1>7, <1>8
<1>10. UNCHANGED <<dbVars, now, answer, victims>>
  BY DEF Forget, clockVars, collectorVars
<1>11. CASE c.op = "get"
  <2>1. GetOK(d)
    BY <1>1, <1>5, <1>11 DEF CallOK, GetOK, Answered, Ahead
  <2>2. Targets(d) = d.gone
    BY <1>5, <1>11 DEF Targets
  <2>3. QED
    BY <1>4, <1>5, <1>9, <1>10, <1>11, <2>1, <2>2, HiddenGet
<1>12. CASE c.op # "get"
  <2>1. d.op \notin {"get", "put", "none"}
    BY <1>1, <1>5, <1>12 DEF CallOK, NoCall
  <2>2. CallOK(d)'
    BY <1>5, <1>9, <1>10, <2>1 DEF CallOK, MapOK, Targets, dbVars
  <2>3. AloneInv'
    BY <1>4, <1>10, <2>2, OnlyCall
  <2>4. UNCHANGED Store!vars
    BY <1>4, <1>5, <1>10, HiddenCall
  <2>5. QED
    BY <2>3, <2>4
<1>13. QED
  BY <1>11, <1>12

\* The batch of deletes: a cleanup purges expired keys, a delete removes its keys.
LEMMA WriteDeleteAlone ==
    ASSUME Alone, TypeOK, TypeOK', AloneInv, PutsInOrder, NEW t \in Callers, WriteDelete(t)
    PROVE  AloneInv' /\ (Store!Delete(t) \/ \E S \in SUBSET Keys : Store!Purge(S))
<1> DEFINE c == call[t]
<1>1. /\ c \in Calls /\ CallOK(c) /\ c.pc = "forget" /\ c.op # "put" /\ c.todo = {}
      /\ c.at <= now /\ c.at \in Nat /\ now \in Nat
  BY BoundsAssumption DEF TypeOK, AloneInv, WriteDelete, PutsInOrder, Calls
<1>2. /\ DeleteBatch(Targets(c)) /\ call' = [call EXCEPT ![t] = Deleted(c)]
      /\ UNCHANGED <<ttlCache, answer, now, victims>>
  BY DEF WriteDelete, Alone, clockVars, collectorVars
<1>3. /\ \A j \in Keys : ttlCache[j] \in {Never, exp[j]}
      /\ \A j \in Targets(c) : ttlCache[j] = Never
  BY <1>1 DEF CallOK, MapOK
<1>4. \A j \in Keys : ttlCache'[j] \in {Never, exp'[j]}
  BY <1>2, <1>3 DEF DeleteBatch
<1>5. Store!Erase(Targets(c))
  BY <1>2 DEF DeleteBatch, Store!Erase
<1>6. CASE c.op = "get"
  <2>1. PICK d \in Calls : d = Deleted(c)
    BY <1>1, DeletedType
  <2>2. /\ d.op = "get" /\ d.keys = c.keys /\ d.val = c.val /\ d.at = c.at /\ d.pc = "ttl"
        /\ d.todo = {} /\ d.gone = {} /\ d.found = c.found
    BY <1>1, <1>6, <2>1 DEF Deleted, Calls
  <2>3. GetOK(c) /\ c.gone \subseteq c.keys /\ c.keys \subseteq Keys
    BY <1>1, <1>6 DEF CallOK, GetOK, Calls
  <2>4. /\ \A j \in c.gone : Expired(exp[j], c.at)
        /\ \A j \in Keys : c.found[j] = IF j \in c.keys /\ ~Expired(exp[j], c.at)
                                        THEN val[j] ELSE NoValue
    BY <1>1, <2>3 DEF GetOK, Answered, Ahead
  <2>5. \A j \in Keys : /\ val'[j] = IF j \in c.gone THEN NoValue ELSE val[j]
                        /\ exp'[j] = IF j \in c.gone THEN Never ELSE exp[j]
    BY <1>2, <1>6 DEF DeleteBatch, Targets
  <2>6. Answered(d)'
    BY <2>2, <2>4, <2>5 DEF Answered, Ahead, Expired
  <2>7. CallOK(d)'
    BY <1>4, <2>2, <2>6 DEF CallOK, MapOK, GetOK, Ahead
  <2>8. AloneInv'
    BY <1>2, <2>1, <2>7, OnlyCall
  <2>9. \A j \in c.gone : Store!Expired(exp[j], now)
    BY <1>1, <2>3, <2>4 DEF Store!Expired, Expired, TypeOK, Timestamps
  <2>10. \A s \in Callers : /\ call'[s].op = call[s].op /\ call'[s].keys = call[s].keys
                            /\ call'[s].val = call[s].val /\ call'[s].at = call[s].at
    BY <1>2, <1>6, <2>1, <2>2 DEF TypeOK
  <2>11. Store!Purge(c.gone)
    BY <1>2, <1>5, <1>6, <2>9, <2>10 DEF Store!Purge, Targets
  <2>12. c.gone \in SUBSET Keys
    BY <2>3
  <2>13. QED
    BY <2>8, <2>11, <2>12
<1>7. CASE c.op # "get"
  <2>1. c.op = "delete"
    BY <1>1, <1>7 DEF CallOK, NoCall, Calls
  <2>2. AloneInv' /\ Store!End(t)
    BY <1>2, <1>4, <1>7, EndAlone DEF Deleted
  <2>3. Store!Delete(t)
    BY <1>2, <1>5, <2>1, <2>2 DEF Store!Delete, Targets
  <2>4. QED
    BY <2>2, <2>3
<1>8. QED
  BY <1>6, <1>7

LEMMA SetTtlAlone ==
    ASSUME Alone, TypeOK, TypeOK', AloneInv, PutsInOrder, NEW t \in Callers, SetTtl(t)
    PROVE  AloneInv' /\ UNCHANGED Store!vars
<1> DEFINE c == call[t]
<1>1. /\ c \in Calls /\ CallOK(c) /\ c.op = "put" /\ c.pc = "set"
      /\ c.todo \subseteq c.keys /\ c.keys \subseteq Keys
  BY DEF TypeOK, AloneInv, SetTtl, At, PutsInOrder, Calls
<1>2. PICK k \in c.todo : /\ ttlCache' = [ttlCache EXCEPT ![k] = c.at + Ttl[k]]
                          /\ call' = [call EXCEPT ![t].todo = @ \ {k}]
  BY DEF SetTtl
<1>3. PICK d \in Calls : d = call'[t]
  BY DEF TypeOK
<1>4. /\ call' = [call EXCEPT ![t] = d] /\ d = [c EXCEPT !.todo = c.todo \ {k}]
  BY <1>2, <1>3 DEF TypeOK
<1>5. /\ d.op = c.op /\ d.keys = c.keys /\ d.val = c.val /\ d.at = c.at /\ d.pc = "set"
      /\ d.todo = c.todo \ {k}
  BY <1>1, <1>4 DEF Calls
<1>6. \A j \in Keys : ttlCache'[j] = IF j = k THEN c.at + Ttl[k] ELSE ttlCache[j]
  BY <1>1, <1>2 DEF TypeOK
<1>7. UNCHANGED <<dbVars, now, answer, victims>>
  BY DEF SetTtl, clockVars, collectorVars
<1>8. /\ \A j \in c.todo : Ttl[j] > 0
      /\ \A j \in c.keys \ c.todo : Ttl[j] > 0 => ttlCache[j] = c.at + Ttl[j]
  BY <1>1 DEF CallOK
<1>9. MapOK(d)'
  BY <1>1, <1>5, <1>6, <1>7, <1>8 DEF CallOK, MapOK, dbVars
<1>10. \A j \in d.keys \ d.todo : Ttl[j] > 0 => ttlCache'[j] = d.at + Ttl[j]
  BY <1>1, <1>5, <1>6, <1>8
<1>11. CallOK(d)'
  BY <1>1, <1>5, <1>8, <1>9, <1>10 DEF CallOK
<1>12. AloneInv'
  BY <1>4, <1>7, <1>11, OnlyCall
<1>13. UNCHANGED Store!vars
  BY <1>4, <1>5, <1>7, HiddenCall
<1>14. QED
  BY <1>12, <1>13

\* The batch of a put: a key without a TTL had no timestamp to keep.
LEMMA WritePutAlone ==
    ASSUME Alone, TypeOK, FamiliesAgree', AloneInv, NEW t \in Callers, WritePut(t)
    PROVE  AloneInv' /\ Store!Put(t)
<1> DEFINE c == call[t]
<1>1. /\ c \in Calls /\ CallOK(c) /\ c.op = "put" /\ c.todo = {} /\ c.keys \subseteq Keys
  BY DEF TypeOK, AloneInv, WritePut, At, Calls
<1>2. /\ PutBatch(c) /\ call' = [call EXCEPT ![t] = NoCall]
      /\ UNCHANGED <<ttlCache, answer, now, victims>>
  BY DEF WritePut, Alone, clockVars, collectorVars
<1>3. ASSUME NEW k \in Keys PROVE ttlCache'[k] \in {Never, exp'[k]}
  <2>1. CASE k \in c.keys /\ Ttl[k] > 0
    BY <1>1, <1>2, <2>1 DEF PutBatch, CallOK
  <2>2. CASE ~(k \in c.keys /\ Ttl[k] > 0)
    BY <1>1, <1>2, <2>2 DEF PutBatch, CallOK, MapOK
  <2>3. QED
    BY <2>1, <2>2
<1>4. AloneInv' /\ Store!End(t)
  BY <1>2, <1>3, EndAlone
<1>5. ASSUME NEW k \in Keys
      PROVE  exp'[k] = IF k \notin c.keys THEN exp[k]
                       ELSE IF Ttl[k] > 0 THEN c.at + Ttl[k] ELSE Never
  BY <1>2 DEF PutBatch, FamiliesAgree
<1>6. exp' = [k \in Keys |-> exp'[k]]
  BY <1>2 DEF PutBatch
<1>7. exp' = [k \in Keys |-> IF k \notin c.keys THEN exp[k]
                             ELSE IF Ttl[k] > 0 THEN c.at + Ttl[k] ELSE Never]
  BY <1>5, <1>6
<1>8. val' = [k \in Keys |-> IF k \in c.keys THEN c.val ELSE val[k]]
  BY <1>2 DEF PutBatch
<1>9. Store!Put(t)
  BY <1>1, <1>2, <1>4, <1>7, <1>8 DEF Store!Put
<1>10. QED
  BY <1>4, <1>9

LEMMA BeginAlone ==
    ASSUME Alone, TypeOK, TypeOK', AloneInv, NEW t \in Callers, NEW S \in Batches,
           NEW op \in {"get", "put", "delete"}, NEW v,
           \/ op = "get" /\ v = NoValue /\ BeginGet(t, S)
           \/ op = "delete" /\ v = NoValue /\ BeginDelete(t, S)
           \/ op = "put" /\ BeginPut(t, S, v)
    PROVE  AloneInv' /\ Store!Begin(t, op, S, v)
<1>1. PICK d \in Calls : d = call'[t]
  BY DEF TypeOK
<1>2. /\ call[t] = NoCall /\ call' = [call EXCEPT ![t] = d]
      /\ answer' = [answer EXCEPT ![t] = NoAnswer]
      /\ UNCHANGED <<val, exp, now, victims, ttlCache>>
      /\ d.op = op /\ d.keys = S /\ d.val = v /\ d.at = now
      /\ d.gone = {} /\ d.found = NoAnswer
      /\ op = "get" => d.pc = "ttl" /\ d.todo = S
      /\ op = "delete" => d.pc = "forget" /\ d.todo = S
      /\ op = "put" => d.pc = "set" /\ d.todo = {k \in S : Ttl[k] > 0}
  BY <1>1 DEF BeginGet, BeginDelete, BeginPut, Begin, TypeOK, dbVars, clockVars, collectorVars
<1>3. \A k \in Keys : ttlCache'[k] \in {Never, exp'[k]}
  <2>1. NoCall.op = "none"
    BY DEF NoCall
  <2>2. QED
    BY <1>2, <2>1 DEF AloneInv, CallOK, MapOK
<1>4. MapOK(d)'
  BY <1>3 DEF MapOK
<1>5. CallOK(d)'
  <2>1. CASE op = "get"
    <3>1. GetOK(d)'
      BY <1>2, <2>1 DEF GetOK, Answered, Ahead, NoAnswer
    <3>2. QED
      BY <1>2, <1>4, <2>1, <3>1 DEF CallOK
  <2>2. CASE op = "put"
    BY <1>2, <1>4, <2>2 DEF CallOK
  <2>3. CASE op = "delete"
    BY <1>2, <1>4, <2>3 DEF CallOK, Targets
  <2>4. QED
    BY <2>1, <2>2, <2>3
<1>6. AloneInv'
  BY <1>2, <1>5, OnlyCall
<1>7. Store!Begin(t, op, S, v)
  <2> DEFINE View(c) == [op |-> c.op, keys |-> c.keys, val |-> c.val, at |-> c.at]
  <2>1. \A s \in Callers : call'[s] = IF s = t THEN d ELSE call[s]
    BY <1>2 DEF TypeOK
  <2>2. /\ View(d) = [op |-> op, keys |-> S, val |-> v, at |-> now]
        /\ View(call[t]) = Store!NoCall
    BY <1>2 DEF NoCall, Store!NoCall
  <2> HIDE DEF View
  <2>3. [s \in Callers |-> View(call'[s])]
          = [[s \in Callers |-> View(call[s])] EXCEPT
               ![t] = [op |-> op, keys |-> S, val |-> v, at |-> now]]
    BY <2>1, <2>2
  <2>4. [s \in Callers |-> View(call[s])][t] = Store!NoCall
    BY <2>2
  <2>5. QED
    BY <1>2, <2>3, <2>4 DEF Store!Begin, View, NoAnswer, Store!NoAnswer
<1>8. QED
  BY <1>6, <1>7

\* An abandoned get or delete has no effect; a get whose cleanup is abandoned
\* still has its answer.
LEMMA AbortAlone ==
    ASSUME Alone, TypeOK, AloneInv, NEW t \in Callers, Abort(t)
    PROVE  AloneInv' /\ (Store!GiveUp(t) \/ UNCHANGED Store!vars)
<1> DEFINE c == call[t]
<1>1. /\ c \in Calls /\ CallOK(c) /\ c.op \in {"get", "delete"}
      /\ c.pc \in {"ttl", "set", "forget"}
      /\ \A k \in Keys : ttlCache[k] \in {Never, exp[k]}
  BY DEF Alone, TypeOK, AloneInv, Abort, CallOK, MapOK
<1>2. UNCHANGED <<dbVars, val, exp, now, answer, victims, ttlCache>>
  BY DEF Abort, dbVars, clockVars, collectorVars
<1>3. CASE c.op = "get" /\ c.pc = "forget"
  <2>1. PICK d \in Calls : d = Deleted(c)
    BY <1>1, DeletedType
  <2>2. /\ d.op = "get" /\ d.keys = c.keys /\ d.val = c.val /\ d.at = c.at /\ d.pc = "ttl"
        /\ d.todo = {} /\ d.gone = {} /\ d.found = c.found
    BY <1>1, <1>3, <2>1 DEF Deleted, Calls
  <2>3. call' = [call EXCEPT ![t] = d]
    BY <1>3, <2>1 DEF Abort
  <2>4. GetOK(d)
    BY <1>1, <1>3, <2>2 DEF CallOK, GetOK, Answered, Ahead
  <2>5. QED
    BY <1>1, <1>2, <1>3, <2>2, <2>3, <2>4, HiddenGet
<1>4. CASE ~(c.op = "get" /\ c.pc = "forget")
  <2>1. call' = [call EXCEPT ![t] = NoCall]
    BY <1>1, <1>4 DEF Abort, Deleted
  <2>2. AloneInv' /\ Store!End(t)
    BY <1>1, <1>2, <2>1, EndAlone
  <2>3. c.op # Store!NoCall.op
    BY <1>1 DEF Store!NoCall
  <2>4. Store!GiveUp(t)
    BY <1>2, <2>2, <2>3 DEF Store!GiveUp
  <2>5. QED
    BY <2>2, <2>4
<1>5. QED
  BY <1>3, <1>4

\* What neither begins, runs nor ends a call.
LEMMA OthersAlone ==
    ASSUME Alone, TypeOK, AloneInv, Collect \/ Tick \/ Restart
    PROVE  AloneInv' /\ (Store!Tick \/ Store!Restart)
<1>1. ~Collect
  BY DEF Alone, TypeOK, AloneInv, Collect, CollectStart, CollectKey, CollectWrite
<1>2. CASE Tick
  <2>1. AloneInv'
    BY <1>2 DEF Tick, AloneInv, CallOK, MapOK, GetOK, Answered, Ahead, Targets, dbVars,
                collectorVars
  <2>2. Store!Tick
    BY <1>2 DEF Tick, Store!Tick, dbVars
  <2>3. QED
    BY <2>1, <2>2
<1>3. CASE Restart
  <2>1. AloneInv'
    <3>1. /\ \A t \in Callers : call'[t] = NoCall
          /\ \A k \in Keys : ttlCache'[k] = Never
          /\ victims' = {}
      BY <1>3 DEF Restart
    <3>2. NoCall.op = "none" /\ NoCall.pc = "idle"
      BY DEF NoCall
    <3>3. QED
      BY <3>1, <3>2 DEF AloneInv, CallOK, MapOK
  <2>2. Store!Restart
    BY <1>3 DEF Restart, Store!Restart, dbVars, NoCall, Store!NoCall, NoAnswer, Store!NoAnswer
  <2>3. QED
    BY <2>1, <2>2
<1>4. QED
  BY <1>1, <1>2, <1>3

LEMMA NextAlone ==
    Alone /\ FamiliesInv /\ MapInv /\ AloneInv /\ [Next]_vars
        => AloneInv' /\ [Store!Next]_(Store!vars)
<1> SUFFICES ASSUME Alone, FamiliesInv, MapInv, AloneInv, [Next]_vars
             PROVE  AloneInv' /\ [Store!Next]_(Store!vars)
  OBVIOUS
<1>1. TypeOK /\ TypeOK' /\ FamiliesAgree' /\ PutsInOrder
  BY NextFamilies DEF FamiliesInv, MapInv
<1>2. ASSUME NEW t \in Callers, NEW S \in Batches, BeginGet(t, S)
      PROVE  AloneInv' /\ Store!Next
  <2>1. AloneInv' /\ Store!Begin(t, "get", S, NoValue)
    BY <1>1, <1>2, BeginAlone
  <2>2. QED
    BY <2>1 DEF Store!Next, Batches
<1>3. ASSUME NEW t \in Callers, NEW S \in Batches, BeginDelete(t, S)
      PROVE  AloneInv' /\ Store!Next
  <2>1. AloneInv' /\ Store!Begin(t, "delete", S, NoValue)
    BY <1>1, <1>3, BeginAlone
  <2>2. QED
    BY <2>1 DEF Store!Next, Batches
<1>4. ASSUME NEW t \in Callers, NEW S \in Batches, NEW v \in Values, BeginPut(t, S, v)
      PROVE  AloneInv' /\ Store!Next
  <2>1. AloneInv' /\ Store!Begin(t, "put", S, v)
    BY <1>1, <1>4, BeginAlone
  <2>2. QED
    BY <2>1 DEF Store!Next, Batches
<1>5. ASSUME NEW t \in Callers, BatchGet(t)
      PROVE  AloneInv' /\ [Store!Next]_(Store!vars)
  <2>1. CASE LookUp(t) \/ Load(t) \/ Refill(t) \/ Read(t) \/ CleanUp(t)
    BY <1>1, <2>1, LookUpAlone, LoadAlone, RefillAlone, ReadAlone, CleanUpAlone
  <2>2. CASE Return(t)
    BY <1>1, <2>2, ReturnAlone DEF Store!Next
  <2>3. ~ReadFails(t)
    BY DEF Alone, ReadFails
  <2>4. QED
    BY <1>5, <2>1, <2>2, <2>3 DEF BatchGet
<1>6. ASSUME NEW t \in Callers, BatchPut(t) \/ BatchDelete(t)
      PROVE  AloneInv' /\ [Store!Next]_(Store!vars)
  <2>1. CASE SetTtl(t) \/ Forget(t)
    BY <1>1, <2>1, SetTtlAlone, ForgetAlone
  <2>2. CASE WritePut(t)
    BY <1>1, <2>2, WritePutAlone DEF Store!Next
  <2>3. CASE WriteDelete(t)
    BY <1>1, <2>3, WriteDeleteAlone DEF Store!Next
  <2>4. QED
    BY <1>6, <2>1, <2>2, <2>3 DEF BatchPut, BatchDelete
<1>7. ASSUME NEW t \in Callers, Abort(t)
      PROVE  AloneInv' /\ [Store!Next]_(Store!vars)
  BY <1>1, <1>7, AbortAlone DEF Store!Next
<1>8. CASE Collect \/ Tick \/ Restart
  BY <1>1, <1>8, OthersAlone DEF Store!Next
<1>9. CASE UNCHANGED vars
  <2>1. AloneInv'
    BY <1>9 DEF vars, dbVars, collectorVars, AloneInv, CallOK, MapOK, GetOK, Answered, Ahead,
                Targets
  <2>2. UNCHANGED Store!vars
    BY <1>9 DEF vars, dbVars, clockVars, Store!vars
  <2>3. QED
    BY <2>1, <2>2
<1>10. QED
  BY <1>2, <1>3, <1>4, <1>5, <1>6, <1>7, <1>8, <1>9 DEF Next, Run

LEMMA InitTtlStore == Init => Store!Init
BY DEF Init, Store!Init, NoCall, Store!NoCall, NoAnswer, Store!NoAnswer

\* As long as calls follow one another, none fails and no put is abandoned, the
\* provider is a store whose keys expire: across lookups, refills, cleanups of
\* expired keys, gets, cleanups and deletes abandoned half way, and restarts, for
\* any keys, batches, values and times to live.
THEOREM ProviderIsTtlStore == ASSUME Alone PROVE Spec => IsTtlStore
<1>1. Init => FamiliesInv /\ MapInv /\ AloneInv /\ Store!Init
  BY InitFamilies, InitMap, InitAlone, InitTtlStore
<1>2. FamiliesInv /\ MapInv /\ AloneInv /\ [Next]_vars
        => (FamiliesInv /\ MapInv /\ AloneInv)' /\ [Store!Next]_(Store!vars)
  BY NextFamilies, NextMap, NextAlone
<1>3. QED
  BY <1>1, <1>2, PTL DEF Spec, IsTtlStore, Store!Spec
=============================================================================
