--------------------------- MODULE ConnectionPool ---------------------------
(***************************************************************************)
(* The connections of the server to its database, and the requests that     *)
(* compete for them (internal/db/store.go, internal/db/token_hash.go,       *)
(* requireUser in internal/api/router.go).                                  *)
(*                                                                          *)
(* A lookup of a key or a token reads its row from an open result, which    *)
(* holds a connection, and before it closes the result it writes            *)
(* last_used_at, upgrades an old hash or begins a transaction: each of them *)
(* takes a second connection.  A request waits for a connection until it    *)
(* gets one or its client is gone; nothing else ends the wait.              *)
(***************************************************************************)
EXTENDS Integers, Sequences, FiniteSetsExt

CONSTANTS
    Requests, \* requests that reach the server
    MaxConns  \* size of the pool: 16 by default

ASSUME PoolAssumption == IsFiniteSet(Requests) /\ MaxConns \in Nat \ {0}

VARIABLE request \* how far each request is and the connections it holds

\* A use of the pool: the statements that are sent while its result is open.
Statement == 0

\* verifyTokenHash and the update of last_used_at.
LookupIn(upgrade) == IF upgrade THEN 2 ELSE 1

\* verifyTokenHash of a code or refresh token, and the transaction of a new pair.
PairInsertion(upgrade) == IF upgrade THEN 2 ELSE 1

\* What a request of each kind does, the queries of its handler included.
SessionUses == {<<Statement, Statement>>}
KeyUses == {<<LookupIn(upgrade), Statement>> : upgrade \in BOOLEAN}

\* An OAuth token is looked for among the API keys first.
AccessTokenUses == {<<Statement, LookupIn(upgrade), Statement>> : upgrade \in BOOLEAN}

ShareUses == {<<LookupIn(upgrade), Statement>> : upgrade \in BOOLEAN}

\* The token endpoint verifies the client and reads the user first.
GrantUses == {<<Statement, Statement, PairInsertion(upgrade)>> : upgrade \in BOOLEAN}
RevokeUses == {<<Statement, LookupIn(upgrade)>> : upgrade \in BOOLEAN}

Uses == SessionUses \cup KeyUses \cup AccessTokenUses \cup ShareUses \cup GrantUses \cup RevokeUses

PoolRequest == [at : {"new", "active", "ended"}, uses : Seq(0 .. 2), open : BOOLEAN, within : BOOLEAN, inner : 0 .. 2, held : 0 .. MaxConns]

PoolTypeOK ==
    /\ request \in [Requests -> PoolRequest]
    /\ FoldSet(LAMBDA r, n : n + request[r].held, 0, Requests) <= MaxConns

PoolInit ==
    request = [r \in Requests |-> [at |-> "new", uses |-> <<>>, open |-> FALSE,
                                   within |-> FALSE, inner |-> 0, held |-> 0]]

Active(r) == request[r].at = "active"
Ended(r) == [request[r] EXCEPT !.at = "ended", !.uses = <<>>, !.open = FALSE,
                               !.within = FALSE, !.inner = 0, !.held = 0]

SomeFree == FoldSet(LAMBDA r, n : n + request[r].held, 0, Requests) < MaxConns

Receive(r) ==
    /\ request[r].at = "new"
    /\ \E uses \in Uses : request' = [request EXCEPT ![r].at = "active", ![r].uses = uses]

\* Pool.Query, QueryRow or Exec.
Query(r) ==
    /\ Active(r) /\ ~request[r].open /\ request[r].uses # <<>> /\ SomeFree
    /\ request' = [request EXCEPT ![r].open = TRUE, ![r].held = @ + 1,
                                  ![r].inner = Head(request[r].uses)]

WaitsWithin(r) == Active(r) /\ request[r].open /\ ~request[r].within /\ request[r].inner > 0

\* A second connection while the result is open, and its return.
QueryWithin(r) ==
    /\ WaitsWithin(r) /\ SomeFree
    /\ request' = [request EXCEPT ![r].within = TRUE, ![r].held = @ + 1]

DoneWithin(r) ==
    /\ Active(r) /\ request[r].within
    /\ request' = [request EXCEPT ![r].within = FALSE, ![r].held = @ - 1, ![r].inner = @ - 1]

\* Mutant: a lookup that succeeds leaves its result open.
ClosedByUse(use) == IF use > 0 THEN 0 ELSE 1

ClosedBy(use) == 1

\* rows.Close.
Close(r) ==
    /\ Active(r) /\ request[r].open /\ ~request[r].within /\ request[r].inner = 0
    /\ request' = [request EXCEPT ![r].open = FALSE, ![r].uses = Tail(@),
                                  ![r].held = @ - ClosedBy(Head(request[r].uses))]

Answer(r) ==
    /\ Active(r) /\ request[r].uses = <<>>
    /\ request' = [request EXCEPT ![r].at = "ended"]

\* The client is gone: what the request waits for is refused.  An inner
\* statement that is not needed is skipped, and the next use ends the request.
Hangup(r) ==
    /\ Active(r) /\ request[r].uses # <<>>
    /\ request' = [request EXCEPT ![r] = Ended(r)]

\* Lookups hold every connection, and each of them waits for a second one.
Exhausted == Cardinality({r \in Requests : WaitsWithin(r)}) = MaxConns

\* A client's timeout, as far as it is relied on.
GiveUp(r) == Exhausted /\ WaitsWithin(r) /\ Hangup(r)

Serve(r) == Query(r) \/ QueryWithin(r) \/ DoneWithin(r) \/ Close(r) \/ Answer(r)

PoolNext == \E r \in Requests : Receive(r) \/ Serve(r) \/ Hangup(r)

PoolSpec == PoolInit /\ [][PoolNext]_request

PoolFairSpec ==
    PoolSpec /\ \A r \in Requests : WF_request(Serve(r)) /\ WF_request(GiveUp(r))

\* The only standstill is that of lookups that hold every connection and wait
\* for a second: every request ends although clients give up in no other case.
EveryRequestEnds == \A r \in Requests : []<>~Active(r)
=============================================================================
