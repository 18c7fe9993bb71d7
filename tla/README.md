# TLA+ models of the Hiero JavaScript SDK

The SDK is a client library. An application builds transactions and queries; the library freezes
them, signs them, sends them to one of several consensus nodes, retries and fails over, asks for
receipts, and streams topic messages and address books from mirror nodes. Everything runs on one
JavaScript thread: a piece of code runs undisturbed until it awaits, and between two awaits any
other request, timer or stream callback of the same client may run. The models take the code
between two awaits as one action (or as a chain of actions nothing may interleave with), so the
interleavings TLC explores are the ones the event loop can produce.

Paths below are relative to the repository; `PROJECT.json` maps every definition to its lines.

## 1. The parts of the system

| part | source (under `src/`) | state | operations | what is hard | correct when |
|---|---|---|---|---|---|
| node pool | `client/ManagedNetwork.js`, `client/Network.js`, `ManagedNode.js`, `Node.js` | members, selectable nodes, map from account to nodes, backoff and readmit time of each node, open channels | look up by key or not, report failure or success, replace the members, switch ports, settings, close | three collections of the same node objects kept in step by hand; requests hold nodes that leave; a replacement that throws half-way; time | the collections agree, a failing node rests as long as configured and comes back, whoever leaves is closed |
| mirror pool | `client/MirrorNetwork.js`, `MirrorNode.js` | the same | the same, without failure reports | a second update | nodes that are listed stay |
| request execution | `Executable.js`, `transaction/List.js` | attempt, node list and its index, held node, timers | one retry loop per request | many loops share one pool; node state read before an await and used after it; timeout, backoff, failover | bounded calls, one end, failover visits every node |
| topic subscription | `topic/TopicMessageQuery.js`, `topic/SubscriptionHandle.js` | start time, limit, attempt, partial chunks | stream callbacks, retry, unsubscribe | retry timer against unsubscribe, chunks across a reconnect | no message lost, repeated or reordered; never silently dead |
| client | `client/Client.js` and its Node, Web and Native subclasses | pools, update timer, updating flag, shutdown flag, operator, defaults | updateNetwork, schedule, close | update in flight when the client closes or is rescheduled | one update at a time, one chain of timers, nothing after close |
| address book query | `network/AddressBookQuery.js` | collected addresses, attempt | stream, retry, timers | retry after part of the stream | the book delivered is one that existed |
| transaction | `transaction/Transaction.js`, `transaction/List.js` | IDs, node IDs, signed bodies, signers, locks | freeze, sign, add/remove signature, regenerate ID, serialise | lazily built and invalidated caches, concurrent signing | bodies agree with nodes and ID, what is sent is signed |
| chunked transactions | `file/FileAppendTransaction.js`, `topic/TopicMessageSubmitTransaction.js` | chunk layout, index | execute all chunks | a failure between two chunks | each chunk once, in order |
| response and receipt | `transaction/TransactionResponse.js`, `TransactionReceiptQuery.js`, `TransactionRecordQuery.js` | pinned node, retry count | get receipt, throttle retry | pinned node down, ID after a retry | the receipt is the one of the transaction that ran |
| queries | `query/Query.js`, `query/CostQuery.js` | payment, maximum, payment transactions | cost, payment, answer | paying again on retry, setters while the cost is awaited | paid within the maximum, to the node that answers |
| transaction types | `account/`, `contract/`, `file/`, `node/`, `token/`, `topic/`, `schedule/`, `system/` and others | a field for every setter | set, clear, add, freeze, to bytes and back | each class lists its fields in three places by hand | what is shown is what is signed; nothing is lost on the way through bytes |

How they interact: a request reads the pool (accounts at setup, a node per attempt), reports
failures and successes of the node it holds back to it, and may start an address-book update; the
update replaces the members under every request that is running. The application changes
settings and closes the client at any time. A subscription takes mirror nodes from the mirror
pool and otherwise lives alone. A transaction or a query is an object the application may go on
changing while a request works on it: `execute` freezes, signs and builds it between awaits, takes
bodies and payments by the position of the node the request picked, and a response may change and
execute the transaction again. `PROJECT.json` lists 23 components, also those that are data,
cryptography, generated code or examples, and 40 hazards at their lines.

## 2. Modules

| module | models | kind |
|---|---|---|
| `ManagedNetwork` | the pool with both subclasses | component |
| `RetryContract` | what `Executable.execute` promises | abstract specification |
| `Executable` | the retry loop, EXTENDS `ManagedNetwork` | composition; refines `RetryContract` |
| `TopicFeed` | what a subscription promises its listener | abstract specification |
| `TopicMessageQuery` | a subscription and its streams | component; refines `TopicFeed` |
| `Transaction` | one transaction object under overlapping calls: freeze, sign, bytes, execute, reset | component |
| `TransactionTypes`, `TransactionFields` | what each of 57 transaction classes keeps of itself, and its fields on their way through freezing, signing and bytes | table, component |
| `ChunkedExecution` | chunked and plain transactions from `execute` to the receipt, with the throttle retry | component |
| `ClientUpdate` | update timer, address book query, close | component |
| `QueryPayment` | what a query pays | component |
| `MC...` | small instances; in `MCManagedNetwork` and `MCTopicMessageQuery` also statements of comments and documents that the code breaks (section 5) | model checking |
| `ExecutableProofs` | the theorems about the pool and the requests over it | proofs |
| `TransactionProofs`, `TransactionSignatureProofs` | bodies, keys and IDs; what signatures are on them | proofs |
| `TopicMessageQueryProofs`, `TransactionFieldsProofs`, `ChunkedExecutionProofs`, `ClientUpdateProofs`, `QueryPaymentProofs` | the theorems about the component named | proofs |

Operators with the comment *mutant* next to their original are plausible mistakes in the code; each
breaks the property it is paired with in `PROJECT.json` under `mutants`. They are used nowhere
else.

### ManagedNetwork

`nodes`, `healthyNodes` and `network` are `_nodes`, `_healthyNodes` and `_network`. A node object
is an element of `Node`; `created` are the ones allocated so far, and a node that has left the pool
stays in `created`, because a request may hold it and still call `increaseBackoff`,
`decreaseBackoff` or `getChannel` on it. Two nodes of one address are different objects.

| action | code |
|---|---|
| `GetNode`, `GetNodeFails`, `GetNodes` | `getNode`, its two ways to throw, `getNumberOfMostHealthyNodes`; each starts with `_readmitNodes` |
| `IncreaseBackoff`, `DecreaseBackoff`, `GetChannel` | the reports of a request, and the lazily opened channel |
| `SetNetwork`, `SetNetworkFails` | `_setNetwork` to the end, or thrown while it closes a node whose key has no entry |
| `SetTransportSecurity`, `Close`, the four setters | the same names |
| `Tick` | `Date.now()` |

`_readmitNodes` walks a list in an order that matters (it stops collecting readmit times at the
first unlisted node); the list is shuffled, so `SeenReadmitTimes` is the set of results over all
orders. `_earliestReadmitTime` is an absolute time clamped between two durations, and is modelled
as it is: `Epoch` exceeds every duration (an assumption with a name), so after the first
readmission the clamp yields a past instant, and every lookup readmits.

### Executable

A request has a phase for each await: setup (`_beforeExecute`), build (`_makeRequestAsync`), sent
(the call racing the gRPC deadline), updating (`updateNetwork`), delay (`delayForAttempt`).
`running` names the request that has just said `continue` and is about to take the top of the
loop: until it awaits again no other action is enabled, which is the atomicity of JavaScript.

| action | code in `Executable.execute` |
|---|---|
| `Execute`, `SetupFails`, `Validate` | before the loop: node list, freezing and signing (may fail), `_validateTransactionNodeIds` |
| `StopTrying` | attempts exhausted, request timeout |
| `SkipNode`, `PickNode`, `PickAnyNode`, `PickNodeFails` | `_shouldSkipAttemptForNodeAccountId`, `_getExecutionNode`, with the double advance of a transaction signed on demand |
| `SignerFails`, `HandleUnhealthyNode`, `Send` | after the request is built |
| `CallFails`, `CallRejected` | a gRPC error or deadline, retryable or not |
| `AnswerEnds`, `AnswerRetries`, `WrongNode`, `Updated`, `Wake` | the answer by execution state, `_handleInvalidNodeAccountId`, the waits |

`Configure` runs `Reconfigure` of the pool (updates, also half-done ones, settings, close) between any two
awaits, and the answers of nodes are chosen freely.

### TopicMessageQuery

`subscribe`, `unsubscribe`, `_handleMessage` with its chunks, completion, `_handleError` and the
timer's callback are `Subscribe`, `Unsubscribe`, `HandleMessage`, `Complete`, `HandleError` and
`Retry`. The query object is shared by all streams (start time, limit, attempt); the chunks
collected belong to one stream and are lost with it. The mirror node is external: it serves the
responses of `Topic` in order from the start time asked for.

### Transaction

`tx` is the object: the lists of transaction IDs, node IDs, signed and built bodies with their
locks and indexes (`List.js`), the public keys and their signers side by side, and the set of keys
taken to have signed. A body is its node and its ID, with the number of signatures of each key. A
method that does not await is one action; one that does is a call of a `Caller`, with the row it is
at and whether the rows it signs are still those of the object (`attached`).

| action | code in `transaction/Transaction.js` |
|---|---|
| `SetNodeAccountIds`, `SetTransactionId`, `GetTransactionId`, `Freeze` | the setters, `freeze` and `freezeWith` with the lists it builds, trims and locks |
| `Sign`, `SignsRow`, `SignerRejects` | `signWith`: the key is registered, then one await per body |
| `AddSignature`, `RemoveSignature`, `RemoveAllSignatures` | the same names; `AddSignature` may throw between two bodies |
| `ToBytes`, `ToBytesAsync`, `AsksNextSigner`, `PushesEntry` | `toBytes`, `getSignatures`, `toBytesAsync` with `_buildAllTransactionsAsync` and `_signTransaction` |
| `Execute`, `MakesRequest`, `StartsRequest`, `SendsMade` | `_beforeExecute`, `_makeRequestAsync` |
| `Retries`, `Expires`, `GivesUp`, `Accepted`, `Responds` | `_getStatusAndExecutionState`, `_mapStatusError`, `_mapResponse` |
| `ResetTransaction` | what a response throttled at consensus does to it |

`excused`, `halfAdded`, `removed` and a call's `missing` are history: which keys lost signatures in
a known way (section 5), and what a body sent lacks.

### TransactionTypes and TransactionFields

`Types` gives for each class the fields and how its setters, `freezeWith`, `_makeTransactionData`
and `_fromProtobuf` treat them; the header of the module says what each kind means. The contents of
a field are null, zero, a value, a changed value or the preset. `SetField`, `AmendList`,
`ClearField`, `FreezeWith`, `Sign` and `ReadBack` (`fromBytes(toBytes())`) act on one transaction,
new or read from bytes that this or another SDK wrote. The tables of exceptions in the properties
(`KnownOpen`, `LostWhenSet`, ...) are the list of the fields the code treats otherwise, each looked up in its class.

### ChunkedExecution

A call is a stack of frames, since `_retryTransaction` executes the whole transaction again inside
the call that awaits its receipt.

| action | code |
|---|---|
| `ExecuteAll`, `SetChunkSize` | `executeAll` and `freezeWith` of `FileAppendTransaction` and `TopicMessageSubmitTransaction`, `setChunkSize` |
| `Submit`, `Refused`, `Responds` | one chunk, or a plain transaction, sent: with or without an answer, refused (TRANSACTION_EXPIRED included, when the ID is locked), its response |
| `Expires` | TRANSACTION_EXPIRED with an ID that is not locked, as when signed on demand or in a throttle retry: `_getStatusAndExecutionState` calls `_buildNewTransactionIdList`, and the loop sends a body under the new ID |
| `GetReceipt`, `ReceiptArrives`, `ReceiptFails` | `TransactionResponse.getReceipt`, and the receipts `executeAll` awaits between chunks |
| `StartRetry`, `ThrottledAgain`, `Resume` | `_retryTransaction` |
| `Consensus` | external: the network decides a body, late or at once, and throttles, fails or applies it |

### ClientUpdate

A chain is a timer and what becomes of it; `timer` is the chain of the timer object in `_timer`,
fired or not. A query that finds no mirror node is `failed` when it streams, and `lost` when it
fetches pages: what it throws is outside the `try` of an async function whose promise is discarded, so
`execute` never settles and `_isUpdatingNetwork` stays true (section 5). A bad link to the next page and
a stream's retry without a mirror node lose the query, too.

| action | code |
|---|---|
| `Fire` | the callback of `_scheduleNetworkUpdate` |
| `RequestUpdate`, `SetNetworkUpdatePeriod`, `Close` | `updateNetwork`, `setNetworkUpdatePeriod`, `close` in `client/Client.js` |
| `Receive`, `Ends`, `Breaks`, `Retry` | the stream of `AddressBookQuery`, the pages of `AddressBookQueryWeb` |
| `Fails`, `BadLink` | `execute` without a mirror node to ask; a link to the next page that is no URL |
| `SetMirrorNetwork` | `setMirrorNetwork`, to a list with or without a usable node (`mirrors`) |
| `Publish` | external: a new address book, also in the middle of a stream or between pages |

### QueryPayment

One query object, several executions. The setters are actions; `Execute` and `InBeforeExecute` are
`_beforeExecute` (the cost, the comparison with the maximum, the payments signed one per await);
`StartAttempt`, `Advance`, `Send`, `Paid` and `NotPaid` are an attempt: a fresh payment
transaction for the current node, the answer or a failure, and what the operator is charged.

## 3. Runs

"Distinct states" are TLC's. A run with `expect: violation` states what a comment or document says
and shows the behaviour that contradicts it.

| run | instance | shows | distinct states |
|---|---|---|---|
| `network_core` | 3 node objects, 2 accounts, 2 addresses, 2 books, instants 4 to 7, backoff 1 to 3 | failures, recoveries, lookups, updates (also half-done ones) and close in every order: `MappedAreMembers`, `SelectableAreHealthy`, `LeaversAreClosed` | 312 115 |
| `network_settings` | 2 node objects, transport switches, a new minimum, maximum and readmission period, instants 4 to 6, fair | `BackoffWithinConfigured`; `NoEarlyReadmission` (which lets only a switch end a wait early); `EventuallyReadmitted`: the throttle cannot starve a member | 142 176 |
| `request_concurrent` | a transaction on both accounts and a receipt query pinned to one, 2 attempts, changing books | two requests that fail, recover and are updated at the same nodes: `WaitsDoNotPileUp`, `GivesUpAfterTryingAll`, `RetriesMoveOn` | 1 183 876 |
| `request_ends` | one transaction signed on demand, nodes that move, 2 attempts, fair | `ExecTypeOK`; `KeepsContract` (refines `RetryContract`); `EveryRequestEnds` | 26 482 |
| `topic_feed` | 6 responses of 4 messages, limit 5, 2 retries, fair | `FeedsInOrder` (refines `TopicFeed`), `OnlySplitMessagesLost`, `NeverSilentlyDead`, `EventuallyRead` | 11 745 |
| `transaction_calls` | 2 keys, 2 or 3 nodes, 2 overlapping calls, 2 IDs, 4 calls in all | which signatures, bodies and locks survive: `KeysAligned`, `RegisteredHaveSigned`, `SentIsSigned`, `RowsFollowNodes`, `OneSignature`, `LockedIdStays` | 731 053 |
| `transaction_fields` | 57 classes, up to 2 setters, any number of freezes, signatures and trips through bytes | `FrozenShowsWhatItSigns`, `RebuildingKeepsFields`, `OneOfEach`, `SecondTripIsIdle` | 113 432 |
| `chunks` | contents of length 3, chunk sizes 1 and 2, 2 retries, 2 overlapping callers, 3 calls, 4 bodies, 1 expired ID | what reaches the file, the topic and the ledger, and how often: `FileHoldsContents`, `PartsMakeMessage`, `AppliedOnce`, `RetriesBounded` | 1 465 901 |
| `client_updates` | 2 chains of timers, 3 books, 2 attempts, 2 changes of the period, mirror lists with or without a node, fair | `OneUpdate`, `UpdatesNeverStop`, `AppliedWasServed`, `ClosedStaysEmpty`, `UpdatesGoOn`, `UpdateEnds` (the last two unless a query is lost or the client is closed) | 173 124 |
| `query_payments` | 2 executions, costs 1 and 5, maxima 2 and 3, payment 7, 2 nodes, 2 attempts, fair | `ChargedWithinLimit`, `PaymentsFollowNodes`, `PaysExactlyThis`, `EveryExecutionEnds` | 246 529 |
| `query_large_amounts` | a cost beyond 2^31 (8 in the model) | refutes `ChargedWithinLimit` | violation |
| `update_completes` | one book, no retry, the same fairness | refutes `UpdateCompletes` | violation |

**Bounds.** Two accounts and two addresses are enough to move, drop and add a node and to have a
last and a non-last one; three node objects allow a member, its replacement under the same key and a
member that stays, and a request that holds the one that left. Clocks: `Epoch` exceeds the durations and `Horizon` leaves room for a wait, its
doubling up to the maximum, and the readmission after it. Actions that would set a time after
`Horizon` are disabled, or, for a timer of a request, fire at `Horizon`, so no property holds
because time stopped. Two requests are the fewest that race at one node. Attempts of 2 or 3 exceed
or equal the number of nodes, so the list wraps round. For subscriptions, six responses hold
two interleaved chunked messages, a single one and one that never completes; `MaxAttempts = 2` loses
the stream twice, so a stream can start between any two responses; four streams are one more than
can be opened. The limit 5 ends inside the topic. The request runs leave the backoff setters and
transport security to `network_settings`; `NodesMove = FALSE` in `request_concurrent` keeps
INVALID_NODE_ACCOUNT out, which does pile up waits (section 5). No run sets `IsMirror`: the mirror
pool is covered by the theorems about the pool, which hold for both values.

A transaction needs two keys for alignment (the operator's, and one whose signer is known or not),
two callers for an overlap, two IDs for a regeneration, and a list of three nodes under a maximum of
two for the trim; four calls let a freeze, two signatures and an execution follow each other in any order. Contents of length 3 in
chunks of 1 and 2 give equal chunks, a short last one, and more chunks than `MaxChunks`; four bodies and five frames hold a chunk,
its throttled retry and the retry of the retry; the one ID that expires may do so before or after a body is
taken under it, inside a retry or outside. Two chains are what one mistimed
`setNetworkUpdatePeriod` makes; three books let a stream break, its retry meet another book, and a
third one come before the end. Two executions of a query overlap or follow
each other; the costs lie on both sides of both maxima. Two fields set are what a oneof, a clearing setter or a preset needs; the
classes of fields are exhaustive, so nothing depends on their number.

`MaxNodes = 0` in the request runs means no limit. The exceptions a property names are conditions on history variables or on
lists of named fields, and each is a behaviour of the code described in section 5.

**Symmetry** is on node objects and on callers (interchangeable: the initial state gives all the
same fields, and no definition names one), and only in runs without liveness.

**Deadlock** is checked in the pool and request runs, where time stops at `Horizon` but lookups
and setters go on, and for the client, whose timers go on. It is off for subscriptions, transactions, chunks and
queries, which do stop when the application has made its calls.

**Fairness.** The pool (`FairSpec`): time passes, and an application that keeps issuing requests
looks nodes up. Nothing is assumed of reports, updates or settings. Requests (`FairExecSpec`):
the event loop eventually takes a callback that stays ready; a call ends by its gRPC deadline; a
signer or the cost query answers or fails; an address-book update ends, which
`AddressBookQuery` does not guarantee by itself (`_isUpdatingNetwork`, listed as a hazard). Weak fairness
is per request, so one request cannot starve another. `Execute` and `Configure` are not fair:
nobody has to start a request. Subscriptions: timers fire, the mirror node serves what was asked
for, a cancelled stream reports it. A stream that breaks is never forced. The client: timers fire,
a retry's delay passes, a failure is delivered, and the mirror node goes on serving a stream or a page it was asked for. The
last is an assumption about the mirror node: `NodeMirrorChannel` sets no deadline, and a stream that
hangs leaves `_isUpdatingNetwork` set for good. A query that fails for want of a mirror node settles at
once (`Fails`). One that is lost never settles, whatever is assumed: `UpdateEnds` is stated up to that, and
`update_completes` shows it. Queries: each execution is driven to its end by answers,
signatures and deadlines. For transactions and chunks no liveness is claimed: whether a call
ends is `Executable`'s.

## 4. Proofs

TLAPS proves the following for every value of the constants that satisfies the named assumptions
of the modules (sets of any size, any books, periods, limits and topics, any number of overlapping calls). The assumptions say what
the code takes for granted: durations are natural numbers below `Date.now()`, books map addresses
to finitely many accounts, `MaxAttempts` is positive, a message has at most as many chunks as it says,
and `None` is no body. Every safety invariant and every action property that a run of section 3 checks is
a theorem here; the rows name the inductive invariant of each.

| theorem | property | argument |
|---|---|---|
| `PoolSafe` | `TypeOK`, `MappedAreMembers` | inductive together: the map is filtered by what removes members, and members are existing objects |
| `BackoffSafe` | `BackoffWithinConfigured` | `TypeOK` gives that minimum and maximum of every node are configured values; doubling is capped by one, halving by the other, clones copy. The invariant is a range over all configured values, since the maximum of a clone is the minimum of its original |
| `NoEarlyReadmissionSafe` | `NoEarlyReadmission` | case analysis of what enters `healthyNodes` |
| `SelectableSafe` | `SelectableAreHealthy`, without transport switches | whoever is selectable is past its readmit time, time only grows, and each back off also deselects. The hypothesis is needed: clones of resting nodes are made selectable |
| `LeaversAreClosedSafe` | `LeaversAreClosed` | the four ways out |
| `KeepsContractSafe` | `KeepsContract` | refinement of `RetryContract` with `calling` as the requests in phase sent. `LoopInv` says how far a request is in each phase: `calls < attempt` at the top of the loop, at most equal after a call, and the outcome is pending exactly before the end; without it neither the bound on calls nor the single end follows |
| `ExecTypeSafe` | `ExecTypeOK` | `ExecInv`: `PoolInv`, finitely many node objects, the types, and `InList` and `Standing`, which say by phase that the index is inside the node list and that a node is held. The list is shortened and replaced while a request is set up, so the index needs both |
| `WaitsDoNotPileUpSafe` | `WaitsDoNotPileUp`, without `NodesMove` | only a failed call of a healthy node moves a readmit time. An answer INVALID_NODE_ACCOUNT moves it unconditionally (section 5) |
| `GivesUpSafe` | `GivesUpAfterTryingAll`, `OnDemand = {}` | `TakesTurns`: every account before the index was tried or is no longer valid, and so is the one a request is being built for; at the end of the list that is all of them |
| `RetriesMoveOnSafe` | `RetriesMoveOn`, `OnDemand = {}` and `NamesNoAccountTwice` | `RotationInv`: the list names no account twice, also when it is cut to `MaxNodes`, and the account of the last attempt is the one before the index |
| `FeedsInOrderSafe` | `FeedsInOrder` | refinement of `TopicFeed`, for a query subscribed once |
| `OnlySplitMessagesLostSafe` | `OnlySplitMessagesLost` | same invariant `StreamInv`: one stream or one timer at a time, the live stream reads from the start time and has collected exactly the chunks between a start time it asked for and there, and what was heard was complete before it |
| `NeverSilentlyDeadSafe` | `NeverSilentlyDead` | `Attended`, for any number of subscriptions |
| `SubscriptionTypeOK` | `TypeOK` of `TopicMessageQuery` | for any number of subscriptions: a handle cancels a stream that was opened, the limit is counted down to 0 at most |
| `RowsFollowNodesSafe`, `KeysAlignedSafe`, `RegisteredHaveSignedSafe`, `LockedIdStaysSafe` | the same without `Safe` | one inductive invariant `Inv` of a transaction, below |
| `SentIsSignedSafe`, `OneSignatureSafe` | the same without `Safe` | `SignedInv`: `Inv` with `SentInv` and `OnceInv`, below |
| `FrozenShowsWhatItSignsSafe`, `RebuildingKeepsFieldsSafe`, `OneOfEachSafe`, `SecondTripIsIdleSafe` | the same without `Safe` | `FieldsInv`, for every class of the table, below |
| `AppliedOnceSafe`, `RetriesBoundedSafe` | `AppliedOnce`, `RetriesBounded` | `ChunkInv`, below |
| `PartsMakeMessageSafe` | `PartsMakeMessage` | `MessageInv`, below |
| `FileHoldsContentsSafe` | `FileHoldsContents` | `ContentsInv`, below |
| `UpdateTypeOK` | `TypeOK` of `ClientUpdate` | needed by the others: attempts stay within the maximum, addresses are nodes of some book |
| `OneUpdateSafe`, `UpdatesNeverStopSafe` | `OneUpdate`, `UpdatesNeverStop` | the flag, the query and the chain that owns it change together, and a lost query keeps all three; whatever ends the owner's wait arms the chain again, unless the client is closed |
| `AppliedWasServedSafe` | `AppliedWasServed` | invariant on the cursor: what is collected up to it contains every node that all the books read so far list, although the retry starts from the first node again |
| `ClosedStaysEmptySafe` | `ClosedStaysEmpty` | once closed, only a query that was running can apply a book |
| `PaymentTypeOK` | `TypeOK` of `QueryPayment` | with the index of the node list inside it |
| `PaymentsFollowNodesSafe` | `PaymentsFollowNodes` | one execution at a time extends the payments that `toBytes` takes by position by the row of the next node; an attempt sends a fresh payment for its current node |
| `PaysExactlyThisSafe` | `PaysExactlyThis` | a payment named is overwritten only by a cost that was asked for before it was named |
| `ChargedWithinLimitSafe` | `ChargedWithinLimit` | under `SmallAmounts`: costs with their margin and all maxima are below 2^31, where the comparison of low words is the comparison of amounts |

`OneSubscription` is a real restriction: `subscribe` does not look whether the query is subscribed
already, and two streams of one query share its start time; messages are then heard twice.

The invariant of a transaction, `Inv`, has these conjuncts: `Sound` (the lists, keys and bodies have
their types), `CallsTyped`, `Ahead` (a call that signs has signed exactly the rows behind it, for rows
that are still the object's), `HasNodes`, `AllSigned` and, unless a signature was taken back,
`AlignedIn`. None of the four properties is inductive alone. A body is signed again from the signers at the position of
a key, so that all have signed needs alignment; a call in flight
writes into rows it remembered, so that needs `Ahead`; and that rows
follow nodes needs both lists to be trimmed and replaced together, or locked together.
`SmallAmounts` is a real restriction: without it the property is false (`query_large_amounts`).

**Signatures.** `SentInv` follows a body from the moment a request starts to make it: every registered key has
signed it or has still to be asked (`Reaches`), so nothing is missing when it is sent. `OnceInv` counts: a
key that is not registered has signed nothing, a registered one has at most one call that signs for it, and
no signature on the rows that call has not come to. That at most one call signs for a key is what
`signWith` sees to by registering the key before it awaits, and why it cannot undo that when the signer
rejects (section 5).

**Fields.** `FieldsInv` says besides `FrozenShowsWhatItSigns` that what was not set since is what the
source was read as (`HoldsWhatWasRead`), that bodies read alike (`BodiesReadAlike`) and that oneofs are
respected by values and bodies (`NeverBoth`). What is needed of the table of classes is
one predicate of an entry, `Tabled`, which `ClassesTabled` establishes entry by entry; every other step speaks of
any class with such an entry. A class added to the table is covered as soon as its entry is `Tabled`.

**Chunks.** Three invariants, one per kind of transaction, because each promise is void for another reason.

- `ChunkInv`, a transaction that is not cut: it has one ID, the newest that was generated, and the body it is
  frozen to bears that ID if it is the one to be sent. An ID that may still expire belongs to a body that is built
  when it is sent (`Marked`), so a new ID leaves no old body to be sent; what is excluded is one the
  network has taken already (`replaced`). The network has decided every earlier ID by throttling it; at most one answer or unretried response exists that can
  lead to a retry (`OneAnswer`), and at most one retry runs (`OneRetry`). `Counted` relates the IDs that were
  spent to the rounds of the retry that runs and to the responses already retried. Overlaps and replaced IDs (`excused`) are
  left out because two retries of one response, and an ID that expires after a lost answer, do apply it
  twice (section 5). `RetriesBounded` is
  stated per retried response because a bound for the whole transaction is false: its proof could not be completed, and
  TLC found that four calls exceed it.
- `MessageInv`, a message, with no hypothesis: all numbered bodies the network took are parts of one message
  `m` under one base ID (`Cut`), although the transaction may since have another chunk size, be throttled
  or be executed again; and a body succeeds once (`Effects`).
- `ContentsInv`, a file: `MessageInv`, whose typing it uses, and, while `excused` is empty, `FileInv`. The
  frames of a call are executions and retries in turn, of any depth (`Stacked`); a frame above the first
  exists only if there is a single chunk. The call at the top sends chunk *k* only when chunk *k - 1* has
  succeeded (`Sends`), so the network takes and applies the chunks in order (`InOrder`, `AppliedFile`), and
  a response is handed out when all have succeeded (`GivenToCaller`). Only one call executes; every other asks
  for a receipt that changes nothing (`Idle`). The two exclusions of `FileHoldsContents` (a second execution, a throttle
  among several chunks) are behaviours of section 5. TLC checks `FileInv` as an
  invariant as it stands, which is how it was found before it was proved.

**Type correctness** is proved for the pool (`PoolSafe`), requests (`ExecTypeSafe`, which includes the
pool's), subscriptions, the client and queries. The invariants `Inv`, `FieldsInv` and `MessageInv` carry the
types of transactions, fields and chunks as far as their proofs need them; the `TypeOK` of `Transaction`,
`TransactionFields` and `ChunkedExecution` document the variables, hold in the instances of section 3 and can be
added to those configurations. That of `Transaction` removes a key from a list, and what `Remove` computes is recursive data,
about which these provers have no induction.

**Only model-checked** is liveness: `EventuallyReadmitted`, `EveryRequestEnds`, `EventuallyRead`, `UpdatesGoOn`,
`UpdateEnds` and `EveryExecutionEnds`. They need fairness and ENABLED, which are out of the prover's reach.
The runs also cover what hypotheses of theorems leave out: signing on demand (`request_ends`),
and transport switches (`network_settings`). Facts about the
cardinality of sets and about sequences come from the library's theorems. No module uses a RECURSIVE operator.

## 5. Where code and documents disagree

Runs that end in a violation, each a finding in `PROJECT.json`:

- `query_large_amounts`: maximum and cost are compared as `toInt()` (`query/Query.js:306`), the
  low 32 bits, signed. A cost from 21.5 to 42.9 hbars passes every maximum.
- `update_completes`: `_makeFetchRequest` (`network/AddressBookQueryWeb.js:222`, also 253) throws outside its
  `try` in an async function that `execute` discards with `void` (205). For a web client without mirror nodes, as
  `WebClient.forNetwork({...})` makes it, the first scheduled update never completes, where a comment says that it
  eventually does (`client/Client.js:955`), and `_isUpdatingNetwork` refuses all later ones.

Statements that other comments and documents make and that the code breaks. Each is a definition of the module named and
is refuted when it is added to a configuration of it:

- `KeyedLookupFindsNode` (`MCManagedNetwork`): `_setNetwork` files only the nodes healthy at that
  instant under their key and nothing files them later. After an update while all nodes back off,
  `getNode(key)` throws a TypeError where the comment says the node cannot be undefined.
- `UpdatesComplete` (`MCManagedNetwork`): such a node has no entry when the next update removes it;
  the update throws after closing some nodes and before adding any.
- `ListedNodesStay` (`MCManagedNetwork`, `IsMirror = TRUE`): `Object.values` of a `Map` is empty, so
  every mirror update closes and recreates all nodes.
- `GivesUpAfterTryingAll` (`Executable`, with `OnDemand` not empty): signing on demand advances the node
  list once and the loop again; "All nodes are unhealthy" is reported although every second node was never looked at.
- `NeverResubscribes` (`MCTopicMessageQuery`): a retry timer ignores an `unsubscribe` made during its wait.
- `ExpiredIsNotResent` (`Transaction`): an expired transaction gets a new ID, but the bodies that are
  signed keep the old one and are sent again (`transaction/Transaction.js:2203`;
  `manual/CONFIGURATION.md:232`).
- `ContractUpdateIsMaintained` (`TransactionFields`): `_fromProtobuf` takes the presence of the wrapper of
  declineReward for its value (`contract/ContractUpdateTransaction.js:300`), and never reads the hooks that
  `_makeTransactionData` writes; `test/unit/ContractUpdateTransaction.js:156` says that all properties are maintained.
- `ChunksWithinSize` (`ChunkedExecution`): a topic message signed on demand is sent whole, once per chunk
  (`topic/TopicMessageSubmitTransaction.js:451,357`; its comment at line 91).

Met while modelling, present in the models. Pool, requests and subscriptions:

- A clone made by a transport switch takes its maximum backoff from the minimum of the original
  (`ManagedNode.js:92`; `manual/CONFIGURATION.md:325` speaks of growth up to the maximum), and clones of
  resting nodes become selectable while still unhealthy (`client/Network.js:270`), so requests are
  given nodes they then refuse (`Executable.js:844`).
- The readmission periods do not limit how long a node rests (`manual/CONFIGURATION.md:337,340`):
  they clamp an absolute time (`client/ManagedNetwork.js:176`).
- `setMaxBackoff` raises a node's current backoff to the new maximum instead of capping it.
- INVALID_NODE_ACCOUNT extends a wait that is already running (`Executable.js:705`), unlike gRPC
  failures (`CHANGELOG.md:113`).
- A receipt query pinned to a node is sent to another one when the key map has no entry for it
  (`client/ManagedNetwork.js:421`; `manual/CONFIGURATION.md:262`).
- The request timeout is looked at only at the top of the loop (`Executable.js:804`), so a request may
  outlast it by a call, an update and a delay (`manual/CONFIGURATION.md:289`).
- A topic limit counted down to 0 asks for everything when its stream breaks afterwards
  (`topic/TopicMessageQuery.js:416`).

Transactions (`transaction/Transaction.js`), the exceptions `RegisteredHaveSigned`, `OneSignature` and
others name:

- `signWith` registers the key before it awaits (1059), so when the signer rejects (1080) the key
  counts as signed and no later call asks it again.
- Freezing a second time replaces the bodies without the signatures of the registered keys
  (1648-1758). `toBytesAsync` before freezing locks empty lists (1839).
- Trimming to the maximum of nodes throws when a body list is locked and leaves the node list
  trimmed (1581). Built entries can be stale or double after two overlapping builds (1665, 2110).
- `removeSignature` removes a key where it is but the last signer (1385). `addSignature` may throw
  between two bodies; calling it again signs the first ones twice (1223).

Chunks and responses:

- A throttled chunk of a file executes all chunks again inside the loop that is executing them
  (`file/FileAppendTransaction.js:455`): contents are appended twice, and such retries nest without
  bound. Signed on demand, a retry sends only the first chunk again (`transaction/TransactionResponse.js:328`).
- An ID that is not locked (signed on demand, or in a throttle retry) is generated anew at TRANSACTION_EXPIRED,
  also after an answer that was lost (`transaction/Transaction.js:2203`): the body under the old ID and the one under
  the new ID may both take effect, and such IDs come on top of the ones MAX_RETRIES allows.
- A second `executeAll` after a failed chunk goes on from there with used IDs (`file/FileAppendTransaction.js:455`).
- `freezeWith` of a topic message that needs too many chunks throws after it has frozen
  (`topic/TopicMessageSubmitTransaction.js:311`); the next `execute` sends it whole.
- Two overlapping `getReceipt` calls both retry a throttled transaction (`transaction/TransactionResponse.js:99`), and
  after a retry `transactionId` is an ID that was never submitted (320).
- IDs of chunks add nanoseconds without a carry (`file/FileAppendTransaction.js:386`, left out: IDs are numbers
  here), and the time that remains is computed as the time that has passed (460).

Client and queries:

- `close` does not empty `_healthyNodes`; a retry timer of an address book stream that fires after `close` opens a mirror channel again.
  `setNetworkUpdatePeriod` may start a second chain of timers, and does so on a closed client. The retry timer of
  a stream that finds no mirror node throws where nothing rejects the query (`network/AddressBookQuery.js:247`).
- The cost that was awaited is written over a payment set meanwhile (`query/Query.js:324`; its comment at 128
  promises exactly the amount set). Overlapping executions interleave their payments (332-354). A cost
  found earlier is not compared with a maximum lowered since.
- Every attempt pays with a fresh transaction ID (439): a query whose answer is lost may be paid
  twice. Errors name the payment transaction ID, which is never sent (492-508).

Fields of single types, listed in `TransactionFields` (`KnownOpen`, `KnownBoth` and the tables after
them):

- Setters without `_requireNotFrozen`, for example `Prng.setRange`, the alias and hooks of `AccountCreate`,
  the approvals of `Transfer`, `ContractCreate.setMaxAutomaticTokenAssociations`, four of `TokenCreate`,
  two of `ScheduleCreate`, `Batch.setInnerTransactions`, the endpoints of `NodeCreate`.
- Not read back: the hooks of account and contract transactions, the bytecode of `ContractCreate`,
  two fields of `ScheduleCreate`. Never written: the start and end time of `Freeze`. Zero in an empty
  wrapper, as other SDKs send it, is read as null. Presets are added to a transaction that did not have them.
- Both stakedAccountId and stakedNodeId stay set, and the later field number wins; likewise the file and the contract
  of `SystemDelete`. The clear methods set null, which means no change.
- `freezeWith` of `TopicCreate` and `TokenCreate` uses a guarded setter, so a frozen transaction read
  from bytes without an auto-renew account cannot be frozen again (`topic/TopicCreateTransaction.js:484`).

## 6. Not modelled

- Which status leads to which execution state, for each transaction and query: an answer is chosen
  freely among the states, so every table is covered. The status and response code tables, logging,
  formatting and the error classes influence no order of steps.
- Query classes that name a body and decode an answer, info and record types, identifiers, amounts and
  time: conversions without state. The encoding of contract parameters and results is a codec of several
  thousand lines without state.
- Keys, signatures, mnemonics and word lists (`packages/cryptography`): a signature is the fact that a
  key has signed. The protobuf package is generated. TLS and gRPC are I/O.
- `tck/` and `examples/` use the library and are not part of it.
- The use counters of a node influence nothing. `_removeDeadNodes` never selects a node, because
  `_badGrpcStatusCount` is never incremented.
- `TokenNftsUpdateTransaction` is imported by nobody; `AccountAllowanceAdjustTransaction` is deprecated.
- The flows of contract and token creation, the REST queries (fee estimates, the EVM address of an
  account) and the wallet: sequences of, or thin layers over, the requests that are modelled. Planned.

The map names about 12 400 lines. Of the rest, the largest part is the examples, the test server, word lists, generated or tabular code, comments, and the codecs above; there a
model would restate the code and no property could fail.

## 7. Plan

Done: the pool, the retry loop over it, subscriptions, transactions with their types, chunks and
responses, the client's updates, payments, and the theorems of section 4.

1. An abstract ledger for `ChunkedExecution`, of which `AppliedOnce` and `FileHoldsContents` are
   consequences, and the refinement, from `ChunkInv` and `FileInv`.
2. The composition of `QueryPayment` and `Transaction` with `Executable`, instead of the attempts they
   abstract it to now.
3. The flows, batches of transactions, the REST queries with their retries, and the wallet's signer.
4. The type invariants of `ChunkedExecution` and `TransactionFields` as theorems.

New runs take the place of weaker ones, so that the set stays small enough to run in minutes.
