---------------------------- MODULE AsyncRunner -----------------------------
(***************************************************************************)
(* The bounded asynchronous runner of internal/manager/async_adapter.go:   *)
(* an HTTP handler that serves put_all or evict_all takes a token from a   *)
(* channel of capacity Cap, spawns the goroutine that writes and returns;  *)
(* the goroutine gives the token back through a deferred receive, also     *)
(* when the write panics.                                                  *)
(***************************************************************************)
EXTENDS Naturals, FiniteSets, Sequences

CONSTANTS Requests,  \* put_all and evict_all requests, each served again and again
          Cap        \* capacity of tokens, 64 in the code

ASSUME CapAssumption == Cap \in Nat \ {0}
ASSUME RequestsAssumption == IsFiniteSet(Requests)

VARIABLES
    tokens,  \* how many tokens the channel holds
    sendq,   \* the handlers blocked on the channel, in order
    caller,  \* a handler: "idle", "blocked" on a token, "admitted" with one
    task     \* its goroutine: "none", "running", "panicking", "leaving"

vars == <<tokens, sendq, caller, task>>

Init ==
    /\ tokens = 0
    /\ sendq = <<>>
    /\ caller = [r \in Requests |-> "idle"]
    /\ task = [r \in Requests |-> "none"]

\* Mutant: the channel takes one token more.
AcquireOneMore(r) ==
    /\ caller[r] = "idle" /\ task[r] = "none"
    /\ tokens <= Cap
    /\ tokens' = tokens + 1
    /\ caller' = [caller EXCEPT ![r] = "admitted"]
    /\ UNCHANGED <<sendq, task>>

\* tokens <- struct{}{} with room in the channel.
Acquire(r) ==
    /\ caller[r] = "idle" /\ task[r] = "none"
    /\ tokens < Cap
    /\ tokens' = tokens + 1
    /\ caller' = [caller EXCEPT ![r] = "admitted"]
    /\ UNCHANGED <<sendq, task>>

\* Mutant: a send that does not block (a select with a default).
BlockDoesNotWait(r) ==
    /\ caller[r] = "idle" /\ task[r] = "none"
    /\ tokens >= Cap
    /\ caller' = [caller EXCEPT ![r] = "admitted"]
    /\ UNCHANGED <<tokens, sendq, task>>

\* The same send with the channel full: the handler blocks.
Block(r) ==
    /\ caller[r] = "idle" /\ task[r] = "none"
    /\ tokens >= Cap
    /\ sendq' = Append(sendq, r)
    /\ caller' = [caller EXCEPT ![r] = "blocked"]
    /\ UNCHANGED <<tokens, task>>

\* The goroutine is started and the handler answers 200.
Spawn(r) ==
    /\ caller[r] = "admitted"
    /\ caller' = [caller EXCEPT ![r] = "idle"]
    /\ task' = [task EXCEPT ![r] = "running"]
    /\ UNCHANGED <<tokens, sendq>>

\* f(ctx) returns: all layers were written, or their errors logged.
Finish(r) ==
    /\ task[r] = "running"
    /\ task' = [task EXCEPT ![r] = "leaving"]
    /\ UNCHANGED <<tokens, sendq, caller>>

\* f(ctx) panics, as the mapper does on an entry without cache and key.
Panic(r) ==
    /\ task[r] = "running"
    /\ task' = [task EXCEPT ![r] = "panicking"]
    /\ UNCHANGED <<tokens, sendq, caller>>

\* Mutant: the token is given back by a statement after f, not by a defer.
RecoverLeaks(r) ==
    /\ task[r] = "panicking"
    /\ task' = [task EXCEPT ![r] = "none"]
    /\ UNCHANGED <<tokens, sendq, caller>>

\* The innermost deferred function recovers, the outer ones still run.
Recover(r) ==
    /\ task[r] = "panicking"
    /\ task' = [task EXCEPT ![r] = "leaving"]
    /\ UNCHANGED <<tokens, sendq, caller>>

\* Mutant: the place is freed but nobody in the queue is woken.
ReceiveWakesNobody ==
    /\ tokens' = tokens - 1
    /\ UNCHANGED <<sendq, caller>>

\* A receive takes a token out, or hands its place to the first blocked sender.
Receive ==
    IF sendq = <<>>
    THEN /\ tokens' = tokens - 1
         /\ UNCHANGED <<sendq, caller>>
    ELSE /\ sendq' = Tail(sendq)
         /\ caller' = [caller EXCEPT ![Head(sendq)] = "admitted"]
         /\ UNCHANGED tokens

\* The outermost deferred function, <-tokens; the goroutine ends.
Release(r) ==
    /\ task[r] = "leaving"
    /\ task' = [task EXCEPT ![r] = "none"]
    /\ Receive

Run(r) == Spawn(r) \/ Finish(r) \/ Panic(r) \/ Recover(r) \/ Release(r)

Next == \E r \in Requests : Acquire(r) \/ Block(r) \/ Run(r)

Spec == Init /\ [][Next]_vars

\* Go schedules every runnable goroutine, and f ends because the providers
\* give up when the context of makeCtx is done.  No request has to arrive.
Fairness == \A r \in Requests : WF_vars(Run(r))

FairSpec == Spec /\ Fairness

-----------------------------------------------------------------------------
(* Properties *)

TypeOK ==
    /\ tokens \in 0 .. Cap
    /\ sendq \in Seq(Requests)
    /\ caller \in [Requests -> {"idle", "blocked", "admitted"}]
    /\ task \in [Requests -> {"none", "running", "panicking", "leaving"}]

\* The requests that own a token.
Holders == {r \in Requests : caller[r] = "admitted" \/ task[r] # "none"}

\* Every token in the channel belongs to one handler or goroutine that will
\* give it back: none is leaked by a panic, none is given back twice.
TokensAreHeld == Cardinality(Holders) = tokens

\* A handler waits only while all Cap tokens are taken; each one that waits is
\* in the queue, once, and has no goroutine yet.
NobodyWaitsInVain ==
    /\ sendq # <<>> => tokens = Cap
    /\ \A r \in Requests :
          caller[r] = "blocked" <=> \E i \in 1 .. Len(sendq) : sendq[i] = r
    /\ \A i, j \in 1 .. Len(sendq) : sendq[i] = sendq[j] => i = j
    /\ \A r \in Requests : caller[r] # "idle" => task[r] = "none"

Pool == INSTANCE WriterPool WITH
            waiting <- {r \in Requests : caller[r] # "idle"},
            active  <- {r \in Requests : task[r] # "none"}

\* The runner is a pool that admits at most Cap writers at a time.
IsWriterPool == Pool!Spec

\* A handler that waits for a token gets one and answers, however the
\* goroutines before it ended.
BlockedIsAnswered ==
    \A r \in Requests : caller[r] = "blocked" ~> caller[r] = "idle"
=============================================================================
