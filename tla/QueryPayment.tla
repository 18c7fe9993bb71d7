---------------------------- MODULE QueryPayment ----------------------------
(***************************************************************************)
(* What a query pays: src/src/query/Query.js, with the cost query of       *)
(* query/CostQuery.js and the payment transactions of query/QueryBase.js.  *)
(*                                                                         *)
(* One query object, executed by several calls, of which some overlap or   *)
(* follow another; the application may set the payment, the maximum and    *)
(* the nodes meanwhile.  A call gives way where the code awaits: the cost, *)
(* a signature of the operator, an answer.                                 *)
(*                                                                         *)
(* Abstractions.  An amount is a natural number of tinybars; Half stands   *)
(* for 2^31.  The retry loop is Executable's: here an attempt is a         *)
(* payment, perhaps an unhealthy node, and one of the answers a query      *)
(* tells apart; waits take no time.  The cost query is one answer or one   *)
(* failure, since it pays nothing.  Payment transaction IDs are fresh for  *)
(* every attempt (line 432), so each attempt can be charged.               *)
(***************************************************************************)
EXTENDS Integers, Sequences, FiniteSets

CONSTANTS
    Call,         \* bound: executions of the query
    Account,      \* nodes' account IDs
    ClientNodes,  \* client._network.getNodeAccountIdsForExecute()
    GivenNodes,   \* the lists setNodeAccountIds is called with
    Costs,        \* what nodes ask for the query, in tinybars
    Maxima,       \* what setMaxQueryPayment is called with
    Payments,     \* what setQueryPayment is called with
    DefaultMax,   \* client.defaultMaxQueryPayment
    MaxAttempts,  \* client.maxAttempts
    Half,         \* 2^31
    Null

ASSUME QueryAssumption ==
    /\ ClientNodes \in Seq(Account) \ {<<>>} /\ GivenNodes \subseteq Seq(Account) \ {<<>>}
    /\ Costs \subseteq Nat /\ Maxima \subseteq Nat /\ Payments \subseteq Nat
    /\ DefaultMax \in Nat /\ MaxAttempts \in Nat /\ Half \in Nat \ {0}
    /\ Null \notin Nat

VARIABLES
    required,   \* _isPaymentRequired()
    operator,   \* client.operator is set
    payment,    \* _queryPayment
    maximum,    \* _maxQueryPayment
    nodes,      \* list of _nodeAccountIds
    index,      \* its index
    locked,     \* it is locked
    rows,       \* _paymentTransactions
    pc,         \* where each call is
    limit,      \* maxQueryPayment of _beforeExecute
    making,     \* the payment each call makes or has sent
    attempt,    \* attempts of each call
    charged,    \* external: the amounts taken from the operator
    limits,     \* history: the maxima in force when a call started
    explicit,   \* history: what setQueryPayment was called with
    raced,      \* history: setQueryPayment while a call awaited the cost
    overlapped  \* history: two calls were in _beforeExecute at once

query == <<payment, maximum, nodes, index, locked, rows>>
calls == <<pc, limit, making, attempt>>
history == <<limits, explicit, raced, overlapped>>
outside == <<required, operator, charged>>
vars == <<query, calls, outside, history>>

NoPayment == [node |-> Null, amount |-> Null]

Init ==
    /\ required \in BOOLEAN /\ operator \in BOOLEAN
    /\ payment = Null /\ maximum = Null
    /\ nodes = <<>> /\ index = 0 /\ locked = FALSE
    /\ rows = <<>>
    /\ pc = [c \in Call |-> "idle"]
    /\ limit = [c \in Call |-> Null]
    /\ making = [c \in Call |-> NoPayment]
    /\ attempt = [c \in Call |-> 0]
    /\ charged = {}
    /\ limits = {} /\ explicit = {} /\ raced = FALSE /\ overlapped = FALSE

-----------------------------------------------------------------------------
(* Amounts. *)

\* Long.toInt(): the low 32 bits, signed.
ToInt(x) == ((x + Half) % (2 * Half)) - Half

\* getCost: a tenth more, rounded half up (toFixed(0)).
WithMargin(cost) == (11 * cost + 5) \div 10

\* _beforeExecute compares the maximum and the cost as toInt() shows them.
NeverExceeds(cost, max) == FALSE                                   \* mutant
Exceeds(cost, max) == ToInt(max) < ToInt(cost)

-----------------------------------------------------------------------------
(* The application. *)

SetQueryPayment(amount) ==
    /\ payment' = amount
    /\ explicit' = explicit \cup {amount}
    /\ raced' = (raced \/ \E c \in Call : pc[c] = "cost")
    /\ UNCHANGED <<maximum, nodes, index, locked, rows, calls, outside, limits, overlapped>>

SetMaxQueryPayment(amount) ==
    /\ maximum' = amount
    /\ UNCHANGED <<payment, nodes, index, locked, rows, calls, outside, history>>

\* Executable.setNodeAccountIds locks the list it sets.
SetNodeAccountIds(list) ==
    /\ ~locked
    /\ nodes' = list /\ index' = 0 /\ locked' = TRUE
    /\ UNCHANGED <<payment, maximum, rows, calls, outside, history>>

-----------------------------------------------------------------------------
(* _beforeExecute. *)

MaxInForce == IF maximum = Null THEN DefaultMax ELSE maximum

Goto(c, where) == pc' = [pc EXCEPT ![c] = where]

\* Into the retry loop, or out of it: what only the call used is gone.
Loop(c) ==
    /\ Goto(c, "loop")
    /\ making' = [making EXCEPT ![c] = NoPayment]
    /\ limit' = [limit EXCEPT ![c] = Null]
End(c, how) ==
    /\ Goto(c, how)
    /\ making' = [making EXCEPT ![c] = NoPayment]
    /\ limit' = [limit EXCEPT ![c] = Null]
    /\ attempt' = [attempt EXCEPT ![c] = 0]

\* The next turn of the loop that makes one payment per node.
SignsRow(c, i, list, amount) ==
    /\ making' = [making EXCEPT ![c] = [node |-> list[i], amount |-> amount, row |-> i]]
    /\ Goto(c, "rows")

\* What _queryPayment is set to is what every payment is made for.
Decide(c, amount, list) ==
    /\ payment' = amount
    /\ locked' = TRUE
    /\ SignsRow(c, 1, list, amount)

AlwaysAsks == required                                             \* mutant
AsksForCost == payment = Null /\ required

InBeforeExecute(c) == pc[c] \in {"cost", "rows"}

Execute(c) ==
    /\ pc[c] = "idle"
    /\ UNCHANGED <<maximum, rows, explicit, raced, outside>>
    /\ \/ /\ rows # <<>>
          /\ Loop(c)
          /\ UNCHANGED <<payment, nodes, index, locked, attempt, limits, overlapped>>
       \/ /\ rows = <<>>
          /\ nodes' = IF nodes = <<>> THEN ClientNodes ELSE nodes
          /\ index' = IF nodes = <<>> THEN 0 ELSE index
          /\ \/ /\ required /\ ~operator
                /\ End(c, "failed")
                /\ UNCHANGED <<payment, locked, limits, overlapped>>
             \/ /\ required => operator
                /\ limit' = [limit EXCEPT ![c] = MaxInForce]
                /\ limits' = limits \cup {MaxInForce}
                /\ overlapped' = (overlapped \/ \E d \in Call : InBeforeExecute(d))
                /\ UNCHANGED attempt
                /\ \/ /\ AsksForCost
                      /\ Goto(c, "cost")
                      /\ UNCHANGED <<payment, locked, making>>
                   \/ /\ ~AsksForCost
                      /\ Decide(c, IF payment = Null THEN 0 ELSE payment, nodes')

\* The cost query, which pays nothing, has its answer.
Fetched(c) ==
    /\ pc[c] = "cost"
    /\ UNCHANGED <<maximum, nodes, index, rows, outside, history>>
    /\ \/ /\ \E cost \in Costs :
               /\ ~Exceeds(WithMargin(cost), limit[c])
               /\ Decide(c, WithMargin(cost), nodes)
          /\ UNCHANGED <<limit, attempt>>
       \/ /\ \E cost \in Costs : Exceeds(WithMargin(cost), limit[c])
          /\ End(c, "failed")
          /\ UNCHANGED <<payment, locked>>

CostQueryFails(c) ==
    /\ pc[c] = "cost"
    /\ End(c, "failed")
    /\ UNCHANGED <<query, outside, history>>

\* A payment is signed and pushed.
SameRow(c) == making[c].row                                        \* mutant
FollowingRow(c) == making[c].row + 1

PushPayment(c) ==
    /\ pc[c] = "rows"
    /\ rows' = Append(rows, [node |-> making[c].node, amount |-> making[c].amount])
    /\ IF FollowingRow(c) <= Len(nodes)
       THEN SignsRow(c, FollowingRow(c), nodes, payment)
            /\ UNCHANGED limit
       ELSE Loop(c)
    /\ UNCHANGED <<payment, maximum, nodes, index, locked, attempt, outside, history>>

\* operator.transactionSigner rejects, for a row or for an attempt: execute throws.
SignerRejects(c) ==
    /\ pc[c] \in {"rows", "signing"} /\ required
    /\ End(c, "failed")
    /\ UNCHANGED <<query, outside, history>>

-----------------------------------------------------------------------------
(* The attempts. *)

NotCounted(n) == n                                                 \* mutant
Counted(n) == n + 1

\* _makeRequestAsync pays what _queryPayment says now.
StartAttempt(c) ==
    /\ pc[c] = "loop" /\ attempt[c] < MaxAttempts
    /\ attempt' = [attempt EXCEPT ![c] = Counted(@)]
    /\ making' = [making EXCEPT ![c] = [node |-> nodes[index + 1], amount |-> payment, row |-> 0]]
    /\ Goto(c, "signing")
    /\ UNCHANGED <<query, limit, outside, history>>

\* No attempts left, or the request's time is over.
GivesUp(c) ==
    /\ pc[c] = "loop"
    /\ End(c, "failed")
    /\ UNCHANGED <<query, outside, history>>

Advance == index' = (index + 1) % Len(nodes)

\* The node became unhealthy: on to the next one, or no more nodes.
Unhealthy(c) ==
    /\ pc[c] = "signing"
    /\ IF index = Len(nodes) - 1
       THEN End(c, "failed") /\ UNCHANGED index
       ELSE Loop(c) /\ Advance /\ UNCHANGED attempt
    /\ UNCHANGED <<payment, maximum, nodes, locked, rows, outside, history>>

Send(c) ==
    /\ pc[c] = "signing"
    /\ Advance
    /\ Goto(c, "sent")
    /\ UNCHANGED <<payment, maximum, nodes, locked, rows, limit, making, attempt, outside, history>>

\* The node takes the payment, if anybody signed it, and its answer arrives
\* (OK), or is lost or late (the loop goes on, or execute throws).
Paid(c) ==
    /\ pc[c] = "sent"
    /\ charged' = IF required THEN charged \cup {making[c].amount} ELSE charged
    /\ \/ Loop(c) /\ UNCHANGED attempt
       \/ \E how \in {"answered", "failed"} : End(c, how)
    /\ UNCHANGED <<required, operator, query, history>>

\* Nothing was paid: the node is busy, refuses, or was not reached.
NotPaid(c) ==
    /\ pc[c] = "sent"
    /\ (Loop(c) /\ UNCHANGED attempt) \/ End(c, "failed")
    /\ UNCHANGED <<query, outside, history>>

-----------------------------------------------------------------------------

Step(c) ==
    \/ CostQueryFails(c) \/ Fetched(c) \/ PushPayment(c) \/ SignerRejects(c)
    \/ StartAttempt(c) \/ GivesUp(c) \/ Unhealthy(c) \/ Send(c) \/ Paid(c) \/ NotPaid(c)

Next ==
    \/ \E amount \in Payments : SetQueryPayment(amount)
    \/ \E amount \in Maxima : SetMaxQueryPayment(amount)
    \/ \E list \in GivenNodes : SetNodeAccountIds(list)
    \/ \E c \in Call : Execute(c) \/ Step(c)

Spec == Init /\ [][Next]_vars

\* Answers, signatures and deadlines come, and the loop is driven by them.
FairSpec == Spec /\ \A c \in Call : WF_vars(Step(c))

-----------------------------------------------------------------------------
Amount == Nat \cup {Null}

\* Every field has values the code can give it; a query that reached its
\* loop has a node and an amount for its payments.
TypeOK ==
    /\ required \in BOOLEAN /\ operator \in BOOLEAN
    /\ payment \in Amount /\ maximum \in Amount
    /\ nodes \in Seq(Account) /\ index \in Nat /\ locked \in BOOLEAN
    /\ \A i \in DOMAIN rows : rows[i].node \in Account /\ rows[i].amount \in Nat
    /\ \A c \in Call :
         /\ pc[c] \in {"idle", "cost", "rows", "loop", "signing", "sent", "answered", "failed"}
         /\ limit[c] \in Amount /\ attempt[c] \in 0 .. MaxAttempts
         /\ pc[c] \in {"rows", "signing", "sent"} =>
              making[c].node \in Account /\ making[c].amount \in Nat
         /\ pc[c] \in {"loop", "signing", "sent"} =>
              payment \in Nat /\ locked /\ index \in 0 .. Len(nodes) - 1
    /\ charged \subseteq Nat /\ limits \subseteq Nat /\ explicit \subseteq Nat
    /\ raced \in BOOLEAN /\ overlapped \in BOOLEAN

\* The operator is charged an amount the application named, or one within
\* a maximum that was in force when the query was executed ("Set the maximum
\* payment allowable for this query.", Query.js:140).
ChargedWithinLimit ==
    \A amount \in charged : amount \in explicit \/ \E max \in limits : amount <= max

\* Once the application has named a payment every attempt pays an amount it
\* named ("The client will submit exactly this amount", Query.js:129), also
\* when the query is executed again or an earlier execution failed half-way:
\* unless it did so while the cost was awaited, which overwrites it.
PaysExactlyThis ==
    [][ \A c \in Call :
          pc[c] = "loop" /\ pc'[c] = "signing" /\ explicit # {} /\ ~raced
            => making'[c].amount \in explicit ]_vars

\* toBytes takes the payment at the index of the current node, so the
\* payments stand in the order of the nodes, however far a failed signature
\* let them get: unless two executions made them at once.
PaymentsFollowNodes ==
    overlapped \/ \A i \in DOMAIN rows : i <= Len(nodes) /\ rows[i].node = nodes[i]

\* Every execution ends.
EveryExecutionEnds == \A c \in Call : pc[c] # "idle" ~> pc[c] \in {"answered", "failed"}
=============================================================================
