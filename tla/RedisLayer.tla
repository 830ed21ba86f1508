----------------------------- MODULE RedisLayer -----------------------------
(***************************************************************************)
(* The Redis provider (providers/redis.go) with the split of batches into  *)
(* chunks (providers/base.go).  A batch is sent chunk by chunk, MGET and   *)
(* UNLINK as one command of the server, SETs in a pipeline as one command  *)
(* each.  A request may time out on either side of its execution; the      *)
(* client library then tries again or gives the error up, and the commands *)
(* that were on their way may still be executed.                           *)
(***************************************************************************)
EXTENDS Naturals, FiniteSets

CONSTANTS
    Keys, Values, NoValue, Callers,
    Mortal,         \* keys with a TTL > 0
    MinChunk, MaxChunk,     \* bounds of the size of a chunk
    MaxAttempts,    \* attempts of the library for one request
    BatchesOf,      \* caller |-> the sets of keys it asks for
    MaxWire         \* bound: abandoned commands at a time

ASSUME ChunksAssumption ==
    MinChunk \in Nat /\ MaxChunk \in Nat \ {0} /\ MinChunk <= MaxChunk

ASSUME AttemptsAssumption == MaxAttempts \in Nat \ {0} /\ MaxWire \in Nat

ASSUME BatchesAssumption == \A t \in Callers : BatchesOf[t] \subseteq SUBSET Keys

ASSUME KeysAssumption == IsFiniteSet(Keys)

ASSUME NoValueAssumption == NoValue \notin Values

VARIABLES
    db,         \* what the server holds
    call,       \* call[t]: the call of goroutine t
    wire        \* commands of ended attempts that the server may still execute

vars == <<db, call, wire>>

-----------------------------------------------------------------------------
(* Chunks *)

Ceil(n, d) == (n + d - 1) \div d

\* Mutant: the chunks of a batch are rounded down.
CalcChunkSizeRoundsDown(n) ==
    IF n <= MaxChunk THEN n
    ELSE LET size == n \div Ceil(n, MaxChunk)
         IN  CASE size < MinChunk -> MinChunk
               [] size > MaxChunk -> MaxChunk
               [] OTHER           -> size

\* Mutant: the size is not limited when the number of chunks is too small.
CalcChunkSizeUnlimited(n) ==
    IF n <= MaxChunk THEN n
    ELSE LET size == Ceil(n, n \div MaxChunk)
         IN  IF size < MinChunk THEN MinChunk ELSE size

CalcChunkSize(n) ==
    IF n <= MaxChunk THEN n
    ELSE LET size == Ceil(n, Ceil(n, MaxChunk))
         IN  CASE size < MinChunk -> MinChunk
               [] size > MaxChunk -> MaxChunk
               [] OTHER           -> size

\* The first chunk of what is left: any keys, as maps and clients have no order.
ChunksOf(rest, size) ==
    IF Cardinality(rest) <= size THEN {rest}
    ELSE {c \in SUBSET rest : Cardinality(c) = size}

-----------------------------------------------------------------------------
NothingRead == [k \in Keys |-> NoValue]

NoCall == [op |-> "none", value |-> NoValue, keys |-> {}, rest |-> {}, size |-> 0,
           chunk |-> {}, sent |-> {}, applied |-> {}, read |-> NothingRead,
           attempt |-> 0, requests |-> 0, outcome |-> "none"]

Running(t) == call[t].op # "none" /\ call[t].outcome = "none"

Init ==
    /\ db = [k \in Keys |-> NoValue]
    /\ call = [t \in Callers |-> NoCall]
    /\ wire = {}

Begin(t, op, S, v) ==
    /\ call[t] = NoCall
    /\ call' = [call EXCEPT ![t].op = op, ![t].keys = S, ![t].value = v,
                            ![t].rest = S, ![t].size = CalcChunkSize(Cardinality(S))]
    /\ UNCHANGED <<db, wire>>

BatchGet(t)    == \E S \in BatchesOf[t] : Begin(t, "get", S, NoValue)
BatchPut(t)    == \E S \in BatchesOf[t], v \in Values : Begin(t, "put", S, v)
BatchDelete(t) == \E S \in BatchesOf[t] : Begin(t, "delete", S, NoValue)

\* The request of the next chunk.
Send(t) ==
    /\ Running(t) /\ call[t].chunk = {} /\ call[t].rest # {}
    /\ \E c \in ChunksOf(call[t].rest, call[t].size) :
          call' = [call EXCEPT ![t].chunk = c, ![t].sent = c, ![t].attempt = 1]
    /\ UNCHANGED <<db, wire>>

\* Keys that one command of the outstanding request of t touches.
CommandsOf(t) ==
    IF call[t].op = "put" THEN {{k} : k \in call[t].sent} ELSE {call[t].sent}

\* The server executes a command.
Execute(t) ==
    /\ Running(t) /\ call[t].sent # {}
    /\ \E S \in CommandsOf(t) :
          /\ db' = IF call[t].op = "get" THEN db
                   ELSE [k \in Keys |-> IF k \in S THEN call[t].value ELSE db[k]]
          /\ call' = [call EXCEPT
                ![t].sent = call[t].sent \ S,
                ![t].applied = call[t].applied \cup S,
                ![t].read = IF call[t].op # "get" THEN call[t].read
                            ELSE [k \in Keys |-> IF k \in S THEN db[k] ELSE call[t].read[k]]]
    /\ UNCHANGED wire

\* The reply to the whole request is in.
Reply(t) ==
    /\ Running(t) /\ call[t].chunk # {} /\ call[t].sent = {}
    /\ call' = [call EXCEPT ![t].rest = call[t].rest \ call[t].chunk, ![t].chunk = {},
                            ![t].attempt = 0, ![t].requests = call[t].requests + 1]
    /\ UNCHANGED <<db, wire>>

\* An attempt of t ends: its changes are lost, or on their way all the same.
LeaveBehind(t) ==
    \E S \in SUBSET call[t].sent :
        /\ call[t].op = "get" => S = {}
        /\ wire' = wire \cup [key : S, value : {call[t].value}]
        /\ Cardinality(wire') <= MaxWire

\* No reply in time, or no connection: the library sends the request again.
Retry(t) ==
    /\ Running(t) /\ call[t].chunk # {} /\ call[t].attempt < MaxAttempts
    /\ LeaveBehind(t)
    /\ call' = [call EXCEPT ![t].sent = call[t].chunk, ![t].attempt = call[t].attempt + 1]
    /\ UNCHANGED db

\* The request has failed for good, or the context is done: the error goes up and
\* the chunks that follow are not sent.
Fail(t) ==
    /\ Running(t) /\ call[t].chunk # {}
    /\ LeaveBehind(t)
    /\ call' = [call EXCEPT ![t].outcome = "error", ![t].read = NothingRead,
                            ![t].rest = {}, ![t].chunk = {}, ![t].sent = {}]
    /\ UNCHANGED db

\* Mutant: the last chunk is left out when it is not full.
SucceedSkipsRest(t) ==
    /\ Running(t) /\ call[t].chunk = {} /\ Cardinality(call[t].rest) < call[t].size
    /\ call' = [call EXCEPT ![t].outcome = "ok"]
    /\ UNCHANGED <<db, wire>>

Succeed(t) ==
    /\ Running(t) /\ call[t].chunk = {} /\ call[t].rest = {}
    /\ call' = [call EXCEPT ![t].outcome = "ok"]
    /\ UNCHANGED <<db, wire>>

\* The caller has the outcome.
Take(t) ==
    /\ call[t].outcome # "none"
    /\ call' = [call EXCEPT ![t] = NoCall]
    /\ UNCHANGED <<db, wire>>

\* The server comes to a command of an attempt that has ended.
Late ==
    \E c \in wire :
        /\ db' = [db EXCEPT ![c.key] = c.value]
        /\ wire' = wire \ {c}
        /\ UNCHANGED call

\* The TTL of a stored key is over.
Expire(k) ==
    /\ k \in Mortal /\ db[k] # NoValue
    /\ db' = [db EXCEPT ![k] = NoValue]
    /\ UNCHANGED <<call, wire>>

Progress(t) == Send(t) \/ Execute(t) \/ Reply(t) \/ Retry(t) \/ Fail(t) \/ Succeed(t)

Next ==
    \/ \E t \in Callers :
          BatchGet(t) \/ BatchPut(t) \/ BatchDelete(t) \/ Progress(t) \/ Take(t)
    \/ Late
    \/ \E k \in Keys : Expire(k)

Spec == Init /\ [][Next]_vars

-----------------------------------------------------------------------------
(* Properties *)

Calls == [op : {"none", "get", "put", "delete"}, value : Values \cup {NoValue},
          keys : SUBSET Keys, rest : SUBSET Keys, size : Nat, chunk : SUBSET Keys,
          sent : SUBSET Keys, applied : SUBSET Keys,
          read : [Keys -> Values \cup {NoValue}], attempt : 0 .. MaxAttempts,
          requests : Nat, outcome : {"none", "ok", "error"}]

\* Each call, the server and the wire are in states the code can reach; a chunk
\* is what is left of its batch in part, and never larger than MaxChunk.
TypeOK ==
    /\ db \in [Keys -> Values \cup {NoValue}]
    /\ call \in [Callers -> Calls]
    /\ wire \subseteq [key : Keys, value : Values \cup {NoValue}]
    /\ \A t \in Callers : /\ call[t].sent \subseteq call[t].chunk
                         /\ call[t].chunk \subseteq call[t].rest
                         /\ Cardinality(call[t].chunk) <= MaxChunk

\* Sizes that are evened out or raised to MinChunk cost no request more: a batch
\* takes as few requests as chunks of at most MaxChunk allow, and never repeats one.
FewestRequests ==
    \A t \in Callers : call[t].outcome # "error" =>
        call[t].requests + Ceil(Cardinality(call[t].rest), MaxChunk)
            = Ceil(Cardinality(call[t].keys), MaxChunk)

\* What a caller of LayerStore sees of a call.
Visible(c) == [op |-> c.op, value |-> c.value, keys |-> c.keys, applied |-> c.applied,
               read |-> c.read, outcome |-> c.outcome]

Store == INSTANCE LayerStore WITH
            owed <- wire, call <- [t \in Callers |-> Visible(call[t])]

\* Chunks, retries and errors keep LayerStore's promise: success means that every
\* key was read or changed while the call ran.
IsLayerStore == Store!Spec
=============================================================================
