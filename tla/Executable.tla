----------------------------- MODULE Executable -----------------------------
(***************************************************************************)
(* The retry loop every transaction and query runs: src/src/Executable.js, *)
(* composed with the pool of nodes it draws from (ManagedNetwork).         *)
(*                                                                         *)
(* JavaScript runs a request from one await to the next without            *)
(* interruption.  The awaits are phases: "setup" (_beforeExecute), "build" *)
(* (_makeRequestAsync), "sent" (the call racing the gRPC deadline),        *)
(* "updating" (client.updateNetwork) and "delay" (delayForAttempt).  A     *)
(* step that continues the loop hands `running' to the request, which then *)
(* takes the loop's top before anything else happens.                      *)
(*                                                                         *)
(* Abstractions.  A request object is executed once.  What a node answers, *)
(* and whether a signer, the cost query or the checks of _beforeExecute    *)
(* succeed, is chosen freely.  The book an update fetches is applied by    *)
(* ManagedNetwork's SetNetwork, at any time.  Unset timeouts are left out: *)
(* the client supplies one for each.  A finished request forgets its clock *)
(* and its node.                                                           *)
(***************************************************************************)
EXTENDS ManagedNetwork, Sequences

CONSTANTS
    Request,
    Transactions,      \* requests that are transactions
    ReceiptQueries,    \* queries for receipts, which are free; the others are paid
    RecordQueries,     \* queries for records
    OnDemand,          \* transactions signed attempt by attempt (signOnDemand)
    Given,             \* node account IDs the application set, or <<>>
    MaxNodes,          \* maxNodesPerTransaction, 0 for no limit
    MaxAttempts, RequestTimeout, GrpcDeadline,
    MinDelay, MaxDelay,  \* the request's _minBackoff and _maxBackoff
    IsLocalNetwork,    \* client.isLocalNetwork
    HasMirror,         \* client.mirrorNetwork.length > 0
    NodesMove,         \* bound: nodes answer INVALID_NODE_ACCOUNT
    NoNode,
    Nobody             \* no request is between two awaits

Answers == {"response", "status error"}
Failures == {"setup failed", "wrong nodes", "no node", "unhealthy", "signer failed",
             "call failed", "timeout", "exhausted"}
Pending == "pending"
Phases == {"new", "setup", "loop", "build", "sent", "updating", "delay", "done"}

\* delayForAttempt
Delay(n) == IF IsLocalNetwork THEN MinDelay ELSE Smaller(MinDelay * 2 ^ n, MaxDelay)

ASSUME RequestAssumption ==
    /\ Transactions \subseteq Request /\ ReceiptQueries \subseteq Request
    /\ RecordQueries \subseteq Request
    /\ Transactions \cap (ReceiptQueries \cup RecordQueries) = {} /\ OnDemand \subseteq Transactions
    /\ Given \in [Request -> Seq(Account)]
    /\ IsLocalNetwork \in BOOLEAN /\ HasMirror \in BOOLEAN /\ NodesMove \in BOOLEAN
    /\ NoNode \notin Node /\ Nobody \notin Request
ASSUME LimitAssumption ==
    /\ MaxNodes \in Nat /\ MaxAttempts \in Nat \ {0}
    /\ RequestTimeout \in Nat /\ GrpcDeadline \in Nat
    /\ \A n \in 1 .. MaxAttempts : Delay(n) \in Nat

VARIABLES
    running,   \* the request between two awaits, or Nobody
    phase,
    list,      \* _nodeAccountIds.list
    index,     \* _nodeAccountIds.index
    valid,     \* transactionNodeIds, as a set; {} when unset
    attempt,
    target,    \* account the request is built for
    held,      \* executionNode
    start,     \* requestStartTime
    wakeAt,    \* when the pending timer (deadline or delay) fires
    outcome,
    calls,     \* history: calls made
    tried      \* history: accounts looked up

nodeList == <<list, index, valid>>
timing == <<start, wakeAt>>
history == <<calls, tried>>
requestVars == <<running, phase, nodeList, attempt, target, held, timing, outcome, history>>
vars == <<netVars, requestVars>>

ExecInit ==
    /\ Init
    /\ running = Nobody
    /\ phase = [r \in Request |-> "new"]
    /\ list = Given
    /\ index = [r \in Request |-> 0]
    /\ valid = [r \in Request |-> {}]
    /\ attempt = [r \in Request |-> 0]
    /\ target = [r \in Request |-> NoKey]
    /\ held = [r \in Request |-> NoNode]
    /\ start = [r \in Request |-> Epoch]
    /\ wakeAt = [r \in Request |-> Epoch]
    /\ outcome = [r \in Request |-> Pending]
    /\ calls = [r \in Request |-> 0]
    /\ tried = [r \in Request |-> {}]

-----------------------------------------------------------------------------
(* Helpers. *)

Current(r) == list[r][index[r] + 1]

\* List.advance
StandStill(r) == index[r]                                          \* mutant
RunPast(r) == index[r] + 1                                         \* mutant
Advanced(r) == IF index[r] + 1 < Len(list[r]) THEN index[r] + 1 ELSE 0

At(r, p) == running = Nobody /\ phase[r] = p
Goto(r, p) == running' = Nobody /\ phase' = [phase EXCEPT ![r] = p]

\* `continue': the next attempt starts at once.
NextAttempt(r) == attempt[r] + 1
Continue(r) ==
    /\ running' = r
    /\ phase' = [phase EXCEPT ![r] = "loop"]
    /\ attempt' = [attempt EXCEPT ![r] = NextAttempt(r)]

Finish(r, how) ==
    /\ Goto(r, "done")
    /\ outcome' = [outcome EXCEPT ![r] = how]
    /\ held' = [held EXCEPT ![r] = NoNode]
    /\ start' = [start EXCEPT ![r] = Epoch]
    /\ wakeAt' = [wakeAt EXCEPT ![r] = Epoch]
    /\ UNCHANGED <<nodeList, attempt, target, history>>

\* A timer that is due after the last instant of a behaviour fires then.
NeverResolved(r) == FALSE                                          \* mutant
Due(r) == wakeAt[r] <= now \/ now = Horizon                        \* bound

SetTimer(r, wait) == wakeAt' = [wakeAt EXCEPT ![r] = now + wait]

-----------------------------------------------------------------------------
(* Before the loop. *)

\* getNodeAccountIdsForExecute: the accounts of the nodes chosen, in any order.
Orders(chosen) == Bijection(1 .. Cardinality(chosen), {account[n] : n \in chosen})
NodesToUse == IF MaxNodes > 0 THEN MaxNodes ELSE Cardinality(nodes)

\* _applyMaxNodesPerTransactionLimit
Trimmed(r) ==
    IF r \in Transactions /\ MaxNodes > 0 /\ Len(list[r]) > MaxNodes
    THEN SubSeq(list[r], 1, MaxNodes) ELSE list[r]

\* The synchronous part of _setupExecution and _beforeExecute: the node list,
\* unless the application gave one, and the accounts of the network.
Execute(r) ==
    /\ At(r, "new")
    /\ Goto(r, "setup")
    /\ valid' = [valid EXCEPT ![r] = IF r \in ReceiptQueries THEN {} ELSE {account[n] : n \in nodes}]
    /\ \/ /\ list[r] # <<>>
          /\ list' = [list EXCEPT ![r] = Trimmed(r)]
          /\ UNCHANGED netVars
       \/ /\ list[r] = <<>>
          /\ \E chosen \in SUBSET Node : \E order \in Orders(chosen) :
                /\ GetNodes(NodesToUse, chosen)
                /\ list' = [list EXCEPT ![r] = order]
    /\ UNCHANGED <<index, attempt, target, held, timing, outcome, history>>

\* A transaction without a single node is not frozen and cannot be signed; a
\* signer, or the cost query, may fail.
SetupFails(r) ==
    /\ At(r, "setup")
    /\ Finish(r, "setup failed")
    /\ UNCHANGED netVars

Signable(r) == r \in Transactions \ OnDemand => list[r] # <<>>

\* _validateTransactionNodeIds
NodesValid(r) == valid[r] = {} \/ \E i \in DOMAIN list[r] : list[r][i] \in valid[r]

Validate(r) ==
    /\ At(r, "setup")
    /\ Signable(r)
    /\ \/ /\ NodesValid(r)
          /\ Continue(r)
          /\ start' = [start EXCEPT ![r] = now]
          /\ UNCHANGED <<nodeList, target, held, wakeAt, outcome, history>>
       \/ /\ ~NodesValid(r)
          /\ Finish(r, "wrong nodes")
    /\ UNCHANGED netVars

-----------------------------------------------------------------------------
(* The top of the loop: only the request that is running takes these. *)

InLoop(r) == running = r /\ phase[r] = "loop"

OneTooMany(r) == attempt[r] > MaxAttempts + 1                      \* mutant
Exhausted(r) == attempt[r] > MaxAttempts
TimedOut(r) == start[r] + RequestTimeout <= now

StopTrying(r) ==
    /\ InLoop(r)
    /\ \/ Exhausted(r) /\ Finish(r, "exhausted")
       \/ ~Exhausted(r) /\ TimedOut(r) /\ Finish(r, "timeout")
    /\ UNCHANGED netVars

Trying(r) == InLoop(r) /\ ~Exhausted(r) /\ ~TimedOut(r)

\* _shouldSkipAttemptForNodeAccountId
Skips(r) == valid[r] # {} /\ Current(r) \notin valid[r]

SkipNode(r) ==
    /\ Trying(r) /\ Skips(r)
    /\ index' = [index EXCEPT ![r] = Advanced(r)]
    /\ Continue(r)
    /\ UNCHANGED <<netVars, list, valid, target, held, timing, outcome, history>>

\* _getExecutionNode, getChannel and the synchronous part of
\* _makeRequestAsync.  A transaction signed on demand takes the node it signs
\* for with List.next, which advances the list.
PickNode(r) ==
    /\ Trying(r) /\ ~Skips(r) /\ list[r] # <<>>
    /\ ReadmitNodes
    /\ UNCHANGED <<now, settings, nodes, network, identity, backoff>>
    /\ \E n \in Candidates(Current(r)) :
          /\ held' = [held EXCEPT ![r] = n]
          /\ openChannels' = openChannels \cup {n}
    /\ target' = [target EXCEPT ![r] = Current(r)]
    /\ tried' = [tried EXCEPT ![r] = @ \cup {Current(r)}]
    /\ index' = [index EXCEPT ![r] = IF r \in OnDemand THEN Advanced(r) ELSE index[r]]
    /\ Goto(r, "build")
    /\ UNCHANGED <<list, valid, attempt, timing, outcome, calls>>

PickNodeFails(r) ==
    /\ Trying(r) /\ ~Skips(r) /\ list[r] # <<>>
    /\ ReadmitNodes
    /\ UNCHANGED <<now, settings, nodes, network, identity, backoff, openChannels>>
    /\ Candidates(Current(r)) = {}
    /\ Finish(r, "no node")

\* Without a list the request takes any healthy node; only a transaction that
\* is signed on demand has not locked its list.
PickAnyNode(r) ==
    /\ Trying(r) /\ ~Skips(r) /\ list[r] = <<>>
    /\ ReadmitNodes
    /\ UNCHANGED <<now, settings, nodes, network, identity, backoff>>
    /\ \/ /\ r \in OnDemand
          /\ \E n \in healthyNodes' :
                /\ held' = [held EXCEPT ![r] = n]
                /\ openChannels' = openChannels \cup {n}
                /\ list' = [list EXCEPT ![r] = <<account[n]>>]
                /\ target' = [target EXCEPT ![r] = account[n]]
                /\ tried' = [tried EXCEPT ![r] = @ \cup {account[n]}]
          /\ index' = [index EXCEPT ![r] = 0]
          /\ Goto(r, "build")
          /\ UNCHANGED <<valid, attempt, timing, outcome, calls>>
       \/ /\ healthyNodes' = {} \/ r \notin OnDemand
          /\ UNCHANGED openChannels
          /\ Finish(r, "no node")

-----------------------------------------------------------------------------
(* After _makeRequestAsync. *)

SignerFails(r) ==
    /\ At(r, "build") /\ r \in OnDemand
    /\ Finish(r, "signer failed")
    /\ UNCHANGED netVars

Send(r) ==
    /\ At(r, "build") /\ IsHealthy(held[r])
    /\ index' = [index EXCEPT ![r] = Advanced(r)]
    /\ calls' = [calls EXCEPT ![r] = @ + 1]
    /\ SetTimer(r, GrpcDeadline)
    /\ Goto(r, "sent")
    /\ UNCHANGED <<netVars, list, valid, attempt, target, held, start, outcome, tried>>

\* _handleUnhealthyNode
WaitsForNode(r) == IsLocalNetwork \/ (r \in ReceiptQueries \cup RecordQueries /\ Len(list[r]) <= 1)
LastButOne(r) == index[r] >= Len(list[r]) - 2                      \* mutant
IsLastNode(r) == index[r] = Len(list[r]) - 1

HandleUnhealthyNode(r) ==
    /\ At(r, "build") /\ ~IsHealthy(held[r])
    /\ \/ /\ WaitsForNode(r)
          /\ SetTimer(r, Delay(attempt[r]))
          /\ Goto(r, "delay")
          /\ UNCHANGED <<nodeList, attempt, target, held, start, outcome, history>>
       \/ /\ ~WaitsForNode(r) /\ IsLastNode(r)
          /\ Finish(r, "unhealthy")
       \/ /\ ~WaitsForNode(r) /\ ~IsLastNode(r)
          /\ index' = [index EXCEPT ![r] = Advanced(r)]
          /\ Continue(r)
          /\ UNCHANGED <<list, valid, target, held, timing, outcome, history>>
    /\ UNCHANGED netVars

-----------------------------------------------------------------------------
(* The call. *)

\* A retryable gRPC error, or the deadline.  Only a node that is healthy now
\* is given a longer wait.
Always(r) == TRUE                                                  \* mutant
BacksOff(r) == IsHealthy(held[r])

CallFails(r) ==
    /\ At(r, "sent")
    /\ IF BacksOff(r) THEN BackOff(held[r]) ELSE UNCHANGED netVars
    /\ Continue(r)
    /\ UNCHANGED <<nodeList, target, held, timing, outcome, history>>

Answered(r) == At(r, "sent") /\ now <= wakeAt[r]

CallRejected(r) ==
    /\ Answered(r)
    /\ Finish(r, "call failed")
    /\ UNCHANGED netVars

AnswerEnds(r) ==
    /\ Answered(r)
    /\ DecreaseBackoff(held[r])
    /\ \E how \in Answers : Finish(r, how)

\* ExecutionState.Retry: BUSY and its like, a receipt not yet there, or an
\* expired transaction that got a new ID.
AnswerRetries(r) ==
    /\ Answered(r)
    /\ DecreaseBackoff(held[r])
    /\ SetTimer(r, Delay(attempt[r]))
    /\ Goto(r, "delay")
    /\ UNCHANGED <<nodeList, attempt, target, held, start, outcome, history>>

\* _handleInvalidNodeAccountId: the decrease, then an increase whether or not
\* the node is healthy, then an update of the address book.
WrongNode(r) ==
    /\ Answered(r) /\ NodesMove /\ r \in Transactions
    /\ LET n == held[r]  wait == Smaller(2 * Recovered(n), nodeMaxBackoff[n])
       IN  /\ currentBackoff' = [currentBackoff EXCEPT ![n] = wait]
           /\ readmitTime' = [readmitTime EXCEPT ![n] = now + wait]
           /\ healthyNodes' = Deselect(n)
    /\ UNCHANGED <<now, settings, earliestReadmitTime, nodes, network, identity,
                   nodeMinBackoff, nodeMaxBackoff, openChannels>>
    /\ \/ HasMirror /\ Goto(r, "updating") /\ UNCHANGED wakeAt
       \/ ~HasMirror /\ Goto(r, "delay") /\ SetTimer(r, Delay(attempt[r]))
    /\ UNCHANGED <<nodeList, attempt, target, held, start, outcome, history>>

\* updateNetwork returns, updated or not: it swallows errors, and it returns
\* at once while another update is under way.
Updated(r) ==
    /\ At(r, "updating")
    /\ SetTimer(r, Delay(attempt[r]))
    /\ Goto(r, "delay")
    /\ UNCHANGED <<netVars, nodeList, attempt, target, held, start, outcome, history>>

Wake(r) ==
    /\ At(r, "delay") /\ Due(r)
    /\ Continue(r)
    /\ UNCHANGED <<netVars, nodeList, target, held, timing, outcome, history>>

-----------------------------------------------------------------------------
Step(r) ==
    \/ SetupFails(r) \/ Validate(r)
    \/ StopTrying(r) \/ SkipNode(r) \/ PickNode(r) \/ PickNodeFails(r) \/ PickAnyNode(r)
    \/ SignerFails(r) \/ Send(r) \/ HandleUnhealthyNode(r)
    \/ CallFails(r) \/ CallRejected(r) \/ AnswerEnds(r) \/ AnswerRetries(r) \/ WrongNode(r)
    \/ Updated(r) \/ Wake(r)

\* Address-book updates, settings, close.
Configure == running = Nobody /\ Reconfigure /\ UNCHANGED requestVars
PassTime == running = Nobody /\ Tick /\ UNCHANGED requestVars

ExecNext == Configure \/ PassTime \/ \E r \in Request : Execute(r) \/ Step(r)

ExecSpec == ExecInit /\ [][ExecNext]_vars

\* The event loop runs every callback that is ready; calls end by their
\* deadline, and an address-book update is assumed to end.
FairExecSpec == ExecSpec /\ WF_vars(PassTime) /\ \A r \in Request : WF_vars(Step(r))

-----------------------------------------------------------------------------
(* Properties. *)

ExecTypeOK ==
    /\ TypeOK
    /\ running \in Request \cup {Nobody}
    /\ phase \in [Request -> Phases]
    /\ list \in [Request -> Seq(Account)]
    /\ \A r \in Request : index[r] \in Nat /\ (list[r] = <<>> \/ index[r] < Len(list[r]))
    /\ valid \in [Request -> SUBSET Account]
    /\ attempt \in [Request -> 0 .. MaxAttempts + 1]
    /\ target \in [Request -> Account \cup {NoKey}]
    /\ held \in [Request -> created \cup {NoNode}]
    /\ start \in [Request -> Nat] /\ wakeAt \in [Request -> Nat]
    /\ outcome \in [Request -> Answers \cup Failures \cup {Pending}]
    /\ calls \in [Request -> Nat] /\ tried \in [Request -> SUBSET Account]

\* Executable.execute keeps its promise: see RetryContract.
Contract == INSTANCE RetryContract WITH calling <- {r \in Request : phase[r] = "sent"}
KeepsContract == Contract!Spec

\* "All nodes are unhealthy" (Executable.js, _handleUnhealthyNode) is reported
\* only after every node of the list that is still in the network had its turn.
GivesUpAfterTryingAll ==
    [][ \A r \in Request : (outcome'[r] = "unhealthy" /\ outcome[r] # "unhealthy") =>
           \A i \in DOMAIN list[r] :
              list[r][i] \in tried[r] \/ (valid[r] # {} /\ list[r][i] \notin valid[r]) ]_vars

\* A retry moves on: it looks up another account than the attempt before,
\* unless it has no other valid one (Executable.js, execute and List.advance).
RetriesMoveOn ==
    [][ \A r \in Request : (PickNode(r) /\ attempt[r] > 1) =>
           \/ target'[r] # target[r]
           \/ WaitsForNode(r)
           \/ \A i \in DOMAIN list[r] : list[r][i] = target[r] \/ (valid[r] # {} /\ list[r][i] \notin valid[r]) ]_vars

\* The wait of a node is extended only when the node was not waiting already:
\* concurrent failures cannot pile up (CHANGELOG.md:113).
WaitsDoNotPileUp ==
    [][ \A n \in created : readmitTime'[n] # readmitTime[n] => IsHealthy(n) ]_vars

\* Every request that was executed ends.
EveryRequestEnds == \A r \in Request : (phase[r] # "new") ~> (phase[r] = "done")
=============================================================================
