------------------------- MODULE AsyncRunnerProofs --------------------------
(***************************************************************************)
(* The token accounting of AsyncRunner, for any number of requests and any *)
(* capacity, and that the runner implements WriterPool.                    *)
(***************************************************************************)
EXTENDS AsyncRunner, FiniteSetTheorems, SequenceTheorems, TLAPS

IInv == TypeOK /\ TokensAreHeld /\ NobodyWaitsInVain

LEMMA HoldersFinite == IsFiniteSet(Holders) /\ Cardinality(Holders) \in Nat
<1>1. Holders \in SUBSET Requests
  BY DEF Holders
<1>2. QED
  BY <1>1, RequestsAssumption, FS_Subset, FS_CardinalityType

LEMMA HoldersFinitePrime == IsFiniteSet(Holders') /\ Cardinality(Holders') \in Nat
<1>1. Holders' \in SUBSET Requests
  BY DEF Holders
<1>2. QED
  BY <1>1, RequestsAssumption, FS_Subset, FS_CardinalityType

LEMMA InitInv == Init => IInv
<1> SUFFICES ASSUME Init
             PROVE  IInv
  OBVIOUS
<1>1. TypeOK
  BY CapAssumption DEF Init, TypeOK
<1>2. Holders = {}
  BY DEF Init, Holders
<1>3. TokensAreHeld
  BY <1>2, FS_EmptySet DEF Init, TokensAreHeld
<1>4. NobodyWaitsInVain
  BY DEF Init, NobodyWaitsInVain
<1>5. QED
  BY <1>1, <1>3, <1>4 DEF IInv

LEMMA AcquireInv == ASSUME IInv, NEW r \in Requests, Acquire(r) PROVE IInv'
<1> USE CapAssumption
<1>1. TypeOK'
  BY DEF Acquire, IInv, TypeOK
<1>2. Holders' = Holders \cup {r} /\ r \notin Holders
  BY DEF Acquire, IInv, TypeOK, Holders
<1>3. TokensAreHeld'
  BY <1>2, HoldersFinite, FS_AddElement DEF Acquire, IInv, TokensAreHeld
<1>4. sendq = <<>> /\ sendq' = <<>>
  BY DEF Acquire, IInv, TypeOK, NobodyWaitsInVain
<1>5. NobodyWaitsInVain'
  BY <1>4 DEF Acquire, IInv, TypeOK, NobodyWaitsInVain
<1>6. QED
  BY <1>1, <1>3, <1>5 DEF IInv

LEMMA BlockInv == ASSUME IInv, NEW r \in Requests, Block(r) PROVE IInv'
<1> USE CapAssumption
<1> DEFINE n == Len(sendq)
<1>1. /\ sendq' \in Seq(Requests) /\ Len(sendq') = n + 1 /\ n \in Nat
      /\ \A i \in 1 .. n : sendq'[i] = sendq[i]
      /\ sendq'[n + 1] = r
  BY AppendProperties, LenProperties DEF Block, IInv, TypeOK
<1>2. TypeOK'
  BY <1>1 DEF Block, IInv, TypeOK
<1>3. Holders' = Holders
  BY DEF Block, IInv, TypeOK, Holders
<1>4. TokensAreHeld'
  BY <1>3 DEF Block, IInv, TokensAreHeld
<1>5. tokens' = Cap
  BY DEF Block, IInv, TypeOK
<1>6. \A i \in 1 .. n : sendq[i] # r /\ caller[sendq[i]] = "blocked"
  BY <1>1, ElementOfSeq DEF Block, IInv, TypeOK, NobodyWaitsInVain
<1>7. caller' = [caller EXCEPT ![r] = "blocked"] /\ task' = task /\ task[r] = "none"
  BY DEF Block
<1> HIDE DEF n
<1>8. \A q \in Requests :
         caller'[q] = "blocked" <=> \E i \in 1 .. n + 1 : sendq'[i] = q
  <2> TAKE q \in Requests
  <2>1. CASE q = r
    BY <1>1, <1>7, <2>1 DEF IInv, TypeOK
  <2>2. CASE q # r
    <3>1. caller'[q] = "blocked" <=> \E i \in 1 .. n : sendq[i] = q
      BY <1>7, <2>2 DEF IInv, TypeOK, NobodyWaitsInVain, n
    <3>2. QED
      BY <1>1, <2>2, <3>1
  <2>3. QED
    BY <2>1, <2>2
<1>9. \A i, j \in 1 .. n + 1 : sendq'[i] = sendq'[j] => i = j
  <2>1. \A i, j \in 1 .. n : sendq[i] = sendq[j] => i = j
    BY DEF IInv, NobodyWaitsInVain, n
  <2>2. QED
    BY <1>1, <1>6, <2>1
<1>10. \A q \in Requests : caller'[q] # "idle" => task'[q] = "none"
  BY <1>7 DEF IInv, TypeOK, NobodyWaitsInVain
<1>11. NobodyWaitsInVain'
  BY <1>1, <1>5, <1>8, <1>9, <1>10 DEF NobodyWaitsInVain
<1>12. QED
  BY <1>2, <1>4, <1>11 DEF IInv

\* Steps that move a request on while it keeps its token.
LEMMA KeepsTokenInv ==
    ASSUME IInv, NEW r \in Requests, Spawn(r) \/ Finish(r) \/ Panic(r) \/ Recover(r)
    PROVE  IInv'
<1>1. TypeOK'
  BY DEF Spawn, Finish, Panic, Recover, IInv, TypeOK
<1>2. Holders' = Holders
  BY DEF Spawn, Finish, Panic, Recover, IInv, TypeOK, Holders
<1>3. TokensAreHeld'
  BY <1>2 DEF Spawn, Finish, Panic, Recover, IInv, TokensAreHeld
<1>4. NobodyWaitsInVain'
  <2>1. sendq' = sendq /\ tokens' = tokens
    BY DEF Spawn, Finish, Panic, Recover
  <2>2. \A q \in Requests : caller'[q] = "blocked" <=> caller[q] = "blocked"
    BY DEF Spawn, Finish, Panic, Recover, IInv, TypeOK
  <2>3. \A q \in Requests : caller'[q] # "idle" => task'[q] = "none"
    BY DEF Spawn, Finish, Panic, Recover, IInv, TypeOK, NobodyWaitsInVain
  <2>4. QED
    BY <2>1, <2>2, <2>3 DEF IInv, NobodyWaitsInVain
<1>5. QED
  BY <1>1, <1>3, <1>4 DEF IInv

\* Release with nobody waiting: the token leaves the channel.
LEMMA ReleaseAloneInv ==
    ASSUME IInv, NEW r \in Requests, Release(r), sendq = <<>>
    PROVE  IInv'
<1> USE CapAssumption
<1>1. tokens' = tokens - 1 /\ task' = [task EXCEPT ![r] = "none"]
      /\ sendq' = sendq /\ caller' = caller /\ task[r] = "leaving"
  BY DEF Release, Receive
<1>2. caller[r] = "idle"
  BY <1>1 DEF IInv, NobodyWaitsInVain
<1>3. Holders' = Holders \ {r} /\ r \in Holders
  BY <1>1, <1>2 DEF IInv, TypeOK, Holders
<1>4. Cardinality(Holders') = tokens - 1
  BY <1>3, HoldersFinite, FS_RemoveElement DEF IInv, TokensAreHeld
<1>5. tokens - 1 \in Nat
  BY <1>4, HoldersFinitePrime
<1>6. TypeOK'
  BY <1>1, <1>5 DEF IInv, TypeOK
<1>7. TokensAreHeld'
  BY <1>1, <1>4 DEF TokensAreHeld
<1>8. NobodyWaitsInVain'
  BY <1>1 DEF IInv, TypeOK, NobodyWaitsInVain
<1>9. QED
  BY <1>6, <1>7, <1>8 DEF IInv

\* Release with a queue: the token passes to the first handler in it.
LEMMA ReleaseHandsOverInv ==
    ASSUME IInv, NEW r \in Requests, Release(r), sendq # <<>>
    PROVE  IInv'
<1> USE CapAssumption
<1> DEFINE n == Len(sendq)
           h == Head(sendq)
<1>1. /\ n \in Nat /\ n >= 1 /\ h \in Requests /\ h = sendq[1]
      /\ Tail(sendq) \in Seq(Requests) /\ Len(Tail(sendq)) = n - 1
      /\ \A i \in 1 .. n - 1 : Tail(sendq)[i] = sendq[i + 1]
  BY HeadTailProperties, LenProperties, EmptySeq DEF IInv, TypeOK
<1>2. /\ tokens' = tokens /\ task' = [task EXCEPT ![r] = "none"]
      /\ sendq' = Tail(sendq) /\ caller' = [caller EXCEPT ![h] = "admitted"]
      /\ task[r] = "leaving"
  BY DEF Release, Receive
<1>3. /\ \A q \in Requests : caller[q] = "blocked" <=> \E i \in 1 .. n : sendq[i] = q
      /\ \A i, j \in 1 .. n : sendq[i] = sendq[j] => i = j
      /\ \A q \in Requests : caller[q] # "idle" => task[q] = "none"
      /\ tokens = Cap
  BY DEF IInv, NobodyWaitsInVain
<1>4. /\ tokens \in 0 .. Cap
      /\ caller \in [Requests -> {"idle", "blocked", "admitted"}]
      /\ task \in [Requests -> {"none", "running", "panicking", "leaving"}]
  BY DEF IInv, TypeOK
<1> HIDE DEF n, h
<1>5. caller[h] = "blocked" /\ task[h] = "none" /\ h # r /\ caller[r] = "idle"
  BY <1>1, <1>2, <1>3
<1>6. TypeOK'
  BY <1>1, <1>2, <1>4 DEF TypeOK
<1>7. /\ Holders' = (Holders \ {r}) \cup {h}
      /\ r \in Holders /\ h \notin Holders
  BY <1>1, <1>2, <1>4, <1>5 DEF Holders
<1>8. TokensAreHeld'
  <2>1. IsFiniteSet(Holders \ {r}) /\ Cardinality(Holders \ {r}) = Cardinality(Holders) - 1
    BY <1>7, HoldersFinite, FS_RemoveElement
  <2>2. Cardinality(Holders') = Cardinality(Holders) - 1 + 1
    BY <1>7, <2>1, FS_AddElement
  <2>3. QED
    BY <1>2, <2>2, HoldersFinite DEF IInv, TokensAreHeld
<1>9. \A q \in Requests :
         caller'[q] = "blocked" <=> \E i \in 1 .. n - 1 : sendq'[i] = q
  <2> TAKE q \in Requests
  <2>1. CASE q = h
    <3>1. caller'[q] # "blocked"
      BY <1>2, <1>4, <2>1
    <3>2. \A i \in 1 .. n - 1 : sendq'[i] # q
      BY <1>1, <1>2, <1>3, <2>1
    <3>3. QED
      BY <3>1, <3>2
  <2>2. CASE q # h
    <3>1. caller'[q] = caller[q]
      BY <1>2, <1>4, <2>2
    <3>2. ASSUME NEW i \in 1 .. n, sendq[i] = q
          PROVE  \E j \in 1 .. n - 1 : sendq'[j] = q
      <4>1. i # 1 /\ i - 1 \in 1 .. n - 1 /\ (i - 1) + 1 = i
        BY <1>1, <2>2, <3>2
      <4>2. sendq'[i - 1] = sendq[i]
        BY <1>1, <1>2, <4>1
      <4>3. QED
        BY <3>2, <4>1, <4>2
    <3>3. ASSUME NEW j \in 1 .. n - 1, sendq'[j] = q
          PROVE  \E i \in 1 .. n : sendq[i] = q
      BY <1>1, <1>2, <3>3
    <3>4. QED
      BY <1>3, <3>1, <3>2, <3>3
  <2>3. QED
    BY <2>1, <2>2
<1>10. \A i, j \in 1 .. n - 1 : sendq'[i] = sendq'[j] => i = j
  BY <1>1, <1>2, <1>3
<1>11. \A q \in Requests : caller'[q] # "idle" => task'[q] = "none"
  BY <1>2, <1>3, <1>4, <1>5
<1>12. NobodyWaitsInVain'
  BY <1>1, <1>2, <1>3, <1>9, <1>10, <1>11 DEF NobodyWaitsInVain
<1>13. QED
  BY <1>6, <1>8, <1>12 DEF IInv

LEMMA InvStep == IInv /\ [Next]_vars => IInv'
<1> SUFFICES ASSUME IInv, [Next]_vars
             PROVE  IInv'
  OBVIOUS
<1>1. CASE UNCHANGED vars
  BY <1>1 DEF IInv, TypeOK, TokensAreHeld, Holders, NobodyWaitsInVain, vars
<1>2. CASE Next
  BY <1>2, AcquireInv, BlockInv, KeepsTokenInv, ReleaseAloneInv, ReleaseHandsOverInv
     DEF Next, Run
<1>3. QED
  BY <1>1, <1>2

LEMMA Invariant == Spec => []IInv
BY InitInv, InvStep, PTL DEF Spec

\* Callers, goroutines, tokens and the queue of the channel hold what the runner
\* can make of them, for any capacity and any finite set of requests.
THEOREM RunnerTypeCorrect == Spec => []TypeOK
<1>1. IInv => TypeOK
  BY DEF IInv
<1>2. QED
  BY <1>1, Invariant, PTL

\* For any capacity, every token belongs to exactly one request: a panic leaks
\* none, and at most Cap requests hold one.
THEOREM TokensAreAlwaysHeld == Spec => []TokensAreHeld
<1>1. IInv => TokensAreHeld
  BY DEF IInv
<1>2. QED
  BY <1>1, Invariant, PTL

\* Handlers wait only while all tokens are out, each once in the queue.
THEOREM NobodyEverWaitsInVain == Spec => []NobodyWaitsInVain
<1>1. IInv => NobodyWaitsInVain
  BY DEF IInv
<1>2. QED
  BY <1>1, Invariant, PTL

-----------------------------------------------------------------------------
(* The runner implements WriterPool *)

PoolWaiting == {r \in Requests : caller[r] # "idle"}
PoolActive  == {r \in Requests : task[r] # "none"}

\* A request admitted but not yet spawned leaves room for its goroutine.
LEMMA RoomForAdmitted ==
    ASSUME IInv, NEW r \in Requests, caller[r] = "admitted"
    PROVE  Cardinality(PoolActive) < Cap
<1>1. r \in Holders /\ PoolActive \subseteq Holders \ {r}
  BY DEF IInv, NobodyWaitsInVain, Holders, PoolActive
<1>2. IsFiniteSet(Holders \ {r}) /\ Cardinality(Holders \ {r}) = tokens - 1
  BY <1>1, HoldersFinite, FS_RemoveElement DEF IInv, TokensAreHeld
<1>3. Cardinality(PoolActive) <= tokens - 1 /\ Cardinality(PoolActive) \in Nat
  BY <1>1, <1>2, FS_Subset, FS_CardinalityType
<1>4. QED
  BY <1>3, CapAssumption DEF IInv, TypeOK

\* WriterPool counts with the same operator.
LEMMA SameCardinality == \A S : Pool!Cardinality(S) = Cardinality(S)
BY DEF Pool!Cardinality, Cardinality

LEMMA PoolStep == IInv /\ [Next]_vars => [Pool!Next]_(Pool!vars)
<1> SUFFICES ASSUME IInv, [Next]_vars
             PROVE  \/ \E r \in Requests : Pool!Ask(r) \/ Pool!Admit(r) \/ Pool!Leave(r)
                    \/ PoolWaiting' = PoolWaiting /\ PoolActive' = PoolActive
  BY DEF Pool!Next, Pool!vars, PoolWaiting, PoolActive
<1>1. ASSUME NEW r \in Requests, Acquire(r) \/ Block(r)
      PROVE  Pool!Ask(r)
  BY <1>1 DEF Acquire, Block, IInv, TypeOK, Pool!Ask
<1>2. ASSUME NEW r \in Requests, Spawn(r)
      PROVE  Pool!Admit(r)
  <2>1. Cardinality(PoolActive) < Cap
    BY <1>2, RoomForAdmitted DEF Spawn
  <2>2. QED
    BY <1>2, <2>1, SameCardinality DEF Spawn, IInv, TypeOK, Pool!Admit, PoolActive
<1>3. ASSUME NEW r \in Requests, Finish(r) \/ Panic(r) \/ Recover(r)
      PROVE  PoolWaiting' = PoolWaiting /\ PoolActive' = PoolActive
  BY <1>3 DEF Finish, Panic, Recover, IInv, TypeOK, PoolWaiting, PoolActive
<1>4. ASSUME NEW r \in Requests, Release(r)
      PROVE  Pool!Leave(r)
  <2>1. \A q \in Requests : caller'[q] # "idle" <=> caller[q] # "idle"
    <3>1. CASE sendq = <<>>
      BY <1>4, <3>1 DEF Release, Receive
    <3>2. CASE sendq # <<>>
      <4>1. Head(sendq) \in Requests /\ Head(sendq) = sendq[1] /\ 1 \in 1 .. Len(sendq)
        BY <3>2, HeadTailProperties, LenProperties, EmptySeq DEF IInv, TypeOK
      <4>2. caller[Head(sendq)] = "blocked"
        BY <4>1 DEF IInv, NobodyWaitsInVain
      <4>3. QED
        BY <1>4, <3>2, <4>1, <4>2 DEF Release, Receive, IInv, TypeOK
    <3>3. QED
      BY <3>1, <3>2
  <2>2. task' = [task EXCEPT ![r] = "none"] /\ task[r] = "leaving"
    BY <1>4 DEF Release
  <2>3. QED
    BY <2>1, <2>2 DEF IInv, TypeOK, Pool!Leave
<1>5. CASE UNCHANGED vars
  BY <1>5 DEF vars, PoolWaiting, PoolActive
<1>6. QED
  BY <1>1, <1>2, <1>3, <1>4, <1>5 DEF Next, Run

\* At most Cap PutAll and EvictAll goroutines run at a time, each request waits,
\* runs and leaves, for any capacity and any number of requests.
THEOREM RunnerIsWriterPool == Spec => IsWriterPool
<1>1. Init => Pool!Init
  BY DEF Init, Pool!Init
<1>2. IInv /\ [Next]_vars => [Pool!Next]_(Pool!vars)
  BY PoolStep
<1>3. QED
  BY <1>1, <1>2, Invariant, PTL DEF Spec, IsWriterPool, Pool!Spec
=============================================================================
