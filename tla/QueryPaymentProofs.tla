------------------------- MODULE QueryPaymentProofs -------------------------
(* Theorems about QueryPayment, for any number of executions, nodes and    *)
(* amounts.  What is charged is bounded only while every amount is below   *)
(* Half: above it Long.toInt wraps, as the run query_large_amounts shows.  *)
EXTENDS QueryPayment, SequenceTheorems, TLAPS

-----------------------------------------------------------------------------
(* The inductive invariant. *)

State == {"idle", "cost", "rows", "loop", "signing", "sent", "answered", "failed"}
Payment == [node : Account, amount : Nat, row : Nat]
Row == [node : Account, amount : Nat]

Typed ==
    /\ required \in BOOLEAN /\ operator \in BOOLEAN
    /\ payment \in Amount /\ maximum \in Amount
    /\ nodes \in Seq(Account) /\ index \in Nat /\ locked \in BOOLEAN
    /\ rows \in Seq(Row)
    /\ pc \in [Call -> State] /\ limit \in [Call -> Amount]
    /\ making \in [Call -> Payment \cup {NoPayment}]
    /\ attempt \in [Call -> 0 .. MaxAttempts]
    /\ charged \subseteq Nat /\ limits \subseteq Nat /\ explicit \subseteq Nat
    /\ raced \in BOOLEAN /\ overlapped \in BOOLEAN

\* The nodes are set before the cost is asked for; from the first payment on
\* they are locked and the amount is known.
Decided == locked /\ nodes # <<>> /\ payment \in Nat
NodesKnown ==
    /\ nodes # <<>> => index < Len(nodes)
    /\ rows # <<>> => Decided
    /\ \A c \in Call : /\ pc[c] = "cost" => nodes # <<>>
                       /\ pc[c] \in {"rows", "loop", "signing", "sent"} => Decided
                       /\ pc[c] \in {"rows", "signing", "sent"} => making[c] \in Payment

\* While calls do not overlap, the one that makes payments makes the one that
\* comes next.
Ordered == ~overlapped =>
    /\ \A i \in 1 .. Len(rows) : i <= Len(nodes) /\ rows[i].node = nodes[i]
    /\ \A c, d \in Call : InBeforeExecute(c) /\ InBeforeExecute(d) => c = d
    /\ \A c \in Call : /\ pc[c] = "cost" => rows = <<>>
                       /\ pc[c] = "rows" => /\ making[c].row = Len(rows) + 1
                                            /\ making[c].row <= Len(nodes)
                                            /\ making[c].node = nodes[making[c].row]

\* The application has named a payment, and nothing has replaced it.
Named ==
    /\ payment = Null => explicit = {}
    /\ ~raced => /\ explicit # {} => payment \in explicit
                 /\ \A c \in Call : pc[c] = "cost" => explicit = {}

PayInv == Typed /\ NodesKnown /\ Ordered /\ Named

LEMMA PayInit == Init => PayInv
<1> SUFFICES ASSUME Init PROVE PayInv
  OBVIOUS
<1>1. Typed
  <2>1. /\ pc \in [Call -> State] /\ limit \in [Call -> Amount]
        /\ making \in [Call -> Payment \cup {NoPayment}]
        /\ attempt \in [Call -> 0 .. MaxAttempts]
    BY QueryAssumption DEF Init, State, Amount
  <2>2. rows \in Seq(Row) /\ nodes \in Seq(Account)
    BY EmptySeq DEF Init
  <2> QED
    BY <2>1, <2>2 DEF Init, Typed, Amount
<1>2. NodesKnown
  BY DEF Init, NodesKnown
<1>3. Ordered
  BY DEF Init, Ordered, InBeforeExecute
<1>4. Named
  BY DEF Init, Named
<1> QED
  BY <1>1, <1>2, <1>3, <1>4 DEF PayInv

-----------------------------------------------------------------------------
(* The application. *)

LEMMA SetQueryPaymentKeeps ==
  ASSUME PayInv, NEW amount \in Payments, SetQueryPayment(amount)
  PROVE  PayInv'
<1> USE DEF PayInv
<1>1. /\ payment' = amount /\ explicit' = explicit \cup {amount} /\ amount \in Nat
      /\ raced' = (raced \/ \E c \in Call : pc[c] = "cost")
      /\ UNCHANGED <<maximum, nodes, index, locked, rows, pc, limit, making, attempt,
                     required, operator, charged, limits, overlapped>>
  BY QueryAssumption DEF SetQueryPayment, calls, outside
<1>2. Typed'
  BY <1>1 DEF Typed, Amount
<1>3. NodesKnown' /\ Ordered'
  BY <1>1 DEF NodesKnown, Ordered, Decided, InBeforeExecute
<1>4. Named'
  BY <1>1, QueryAssumption DEF Named
<1> QED
  BY <1>2, <1>3, <1>4

LEMMA SetMaxQueryPaymentKeeps ==
  ASSUME PayInv, NEW amount \in Maxima, SetMaxQueryPayment(amount)
  PROVE  PayInv'
<1> USE DEF PayInv
<1>1. /\ maximum' = amount /\ amount \in Nat
      /\ UNCHANGED <<payment, nodes, index, locked, rows, pc, limit, making, attempt,
                     required, operator, charged, limits, explicit, raced, overlapped>>
  BY QueryAssumption DEF SetMaxQueryPayment, calls, outside, history
<1>2. Typed'
  BY <1>1 DEF Typed, Amount
<1> QED
  BY <1>1, <1>2 DEF NodesKnown, Ordered, Decided, InBeforeExecute, Named

LEMMA SetNodeAccountIdsKeeps ==
  ASSUME PayInv, NEW list \in GivenNodes, SetNodeAccountIds(list)
  PROVE  PayInv'
<1> USE DEF PayInv
<1>1. /\ ~locked /\ nodes' = list /\ index' = 0 /\ locked' = TRUE
      /\ list \in Seq(Account) /\ list # <<>>
      /\ UNCHANGED <<payment, maximum, rows, pc, limit, making, attempt,
                     required, operator, charged, limits, explicit, raced, overlapped>>
  BY QueryAssumption DEF SetNodeAccountIds, calls, outside, history
<1>2. /\ rows = <<>>
      /\ \A c \in Call : pc[c] \notin {"rows", "loop", "signing", "sent"}
  BY <1>1 DEF NodesKnown, Decided
<1>3. Len(list) \in Nat /\ Len(list) # 0
  BY <1>1, EmptySeq, LenProperties
<1>4. Typed'
  BY <1>1 DEF Typed
<1>5. NodesKnown'
  BY <1>1, <1>2, <1>3 DEF NodesKnown
<1>6. Ordered'
  BY <1>1, <1>2 DEF Ordered, InBeforeExecute
<1>7. Named'
  BY <1>1 DEF Named
<1> QED
  BY <1>4, <1>5, <1>6, <1>7

-----------------------------------------------------------------------------
(* _beforeExecute. *)

\* A call that ends, or enters the loop.
LEMMA Leaves ==
  ASSUME PayInv, NEW c \in Call, NEW where \in {"loop", "answered", "failed"},
         pc' = [pc EXCEPT ![c] = where], where = "loop" => Decided,
         making' = [making EXCEPT ![c] = NoPayment], limit' = [limit EXCEPT ![c] = Null],
         attempt' \in [Call -> 0 .. MaxAttempts], charged' \subseteq Nat,
         index' \in Nat, nodes # <<>> => index' < Len(nodes),
         UNCHANGED <<required, operator, payment, maximum, nodes, locked, rows, history>>
  PROVE  PayInv'
<1> USE DEF PayInv
<1>1. /\ pc' \in [Call -> State] /\ limit' \in [Call -> Amount]
      /\ making' \in [Call -> Payment \cup {NoPayment}]
  BY DEF Typed, State, Amount
<1>2. \A d \in Call : /\ d # c => pc'[d] = pc[d] /\ making'[d] = making[d]
                      /\ pc'[c] = where
  BY DEF Typed
<1>3. Typed'
  BY <1>1 DEF Typed, history
<1>4. NodesKnown'
  BY <1>2 DEF NodesKnown, Decided, history
<1>5. Ordered'
  BY <1>2 DEF Ordered, InBeforeExecute, history
<1>6. Named'
  BY <1>2 DEF Named, history
<1> QED
  BY <1>3, <1>4, <1>5, <1>6

\* _queryPayment is decided, and the first payment is made.
LEMMA DecideKeeps ==
  ASSUME PayInv, NEW c \in Call, NEW amount \in Nat, NEW list \in Seq(Account),
         list # <<>>, Decide(c, amount, list), nodes' = list, index' \in Nat, index' < Len(list),
         rows # <<>> => list = nodes,
         overlapped' \in BOOLEAN,
         ~overlapped' => rows = <<>> /\ ~overlapped /\ \A d \in Call \ {c} : ~InBeforeExecute(d),
         limit' \in [Call -> Amount], limits' \subseteq Nat,
         ~raced => (explicit # {} => amount \in explicit),
         UNCHANGED <<maximum, rows, attempt, explicit, raced, required, operator, charged>>
  PROVE  PayInv'
<1> USE DEF PayInv
<1>1. /\ payment' = amount /\ locked' = TRUE /\ Decided'
      /\ pc' = [pc EXCEPT ![c] = "rows"]
      /\ making' = [making EXCEPT ![c] = [node |-> list[1], amount |-> amount, row |-> 1]]
  BY QueryAssumption DEF Decide, SignsRow, Goto, Decided
<1>2. Len(list) \in Nat /\ Len(list) >= 1 /\ list[1] \in Account
  BY EmptySeq, LenProperties, ElementOfSeq
<1>3. [node |-> list[1], amount |-> amount, row |-> 1] \in Payment
  BY <1>2 DEF Payment
<1>4. /\ pc' \in [Call -> State] /\ making' \in [Call -> Payment \cup {NoPayment}]
  BY <1>1, <1>3 DEF Typed, State
<1>5. \A d \in Call : d # c => pc'[d] = pc[d] /\ making'[d] = making[d]
  BY <1>1 DEF Typed
<1>6. pc'[c] = "rows" /\ making'[c] = [node |-> list[1], amount |-> amount, row |-> 1]
  BY <1>1 DEF Typed
<1>7. Typed'
  BY <1>1, <1>4 DEF Typed, Amount
<1>8. NodesKnown'
  BY <1>1, <1>3, <1>5, <1>6 DEF NodesKnown, Decided
<1>9. Ordered'
  <2> SUFFICES ASSUME ~overlapped' PROVE Ordered'
    BY DEF Ordered
  <2>1. rows' = <<>> /\ Len(rows') = 0
    BY EmptySeq
  <2>2. \A d \in Call : d # c => pc'[d] \notin {"cost", "rows"}
    BY <1>5 DEF InBeforeExecute
  <2> QED
    BY <2>1, <2>2, <1>2, <1>6 DEF Ordered, InBeforeExecute
<1>10. Named'
  BY <1>1, <1>5, <1>6, QueryAssumption DEF Named
<1> QED
  BY <1>7, <1>8, <1>9, <1>10

LEMMA MaxInForceTyped == PayInv => MaxInForce \in Nat
BY QueryAssumption DEF PayInv, Typed, MaxInForce, Amount

LEMMA ExecuteKeeps ==
  ASSUME PayInv, NEW c \in Call, Execute(c)
  PROVE  PayInv'
<1> USE DEF PayInv
<1>1. /\ pc[c] = "idle"
      /\ UNCHANGED <<maximum, rows, explicit, raced, required, operator, charged>>
  BY DEF Execute, outside
<1>2. CASE rows # <<>> /\ Loop(c) /\ UNCHANGED <<payment, nodes, index, locked, attempt, limits, overlapped>>
  <2>1. Decided /\ index < Len(nodes) /\ attempt' \in [Call -> 0 .. MaxAttempts]
    BY <1>2 DEF NodesKnown, Typed, Decided
  <2>2. /\ pc' = [pc EXCEPT ![c] = "loop"]
        /\ making' = [making EXCEPT ![c] = NoPayment] /\ limit' = [limit EXCEPT ![c] = Null]
    BY <1>2 DEF Loop, Goto
  <2> QED
    BY <1>1, <1>2, <2>1, <2>2, Leaves DEF history, Typed
<1> DEFINE list == IF nodes = <<>> THEN ClientNodes ELSE nodes
<1>3. CASE /\ rows = <<>>
           /\ nodes' = list /\ index' = IF nodes = <<>> THEN 0 ELSE index
           /\ ~(rows # <<>> /\ Loop(c))
  <2>1. /\ list \in Seq(Account) /\ list # <<>>
        /\ index' \in Nat /\ index' < Len(list)
    <3>1. ClientNodes \in Seq(Account) /\ ClientNodes # <<>>
      BY QueryAssumption
    <3>2. Len(ClientNodes) \in Nat /\ Len(ClientNodes) # 0
      BY <3>1, EmptySeq, LenProperties
    <3> QED
      BY <3>1, <3>2, <1>3 DEF Typed, NodesKnown
  <2> HIDE DEF list
  <2>2. CASE End(c, "failed") /\ UNCHANGED <<payment, locked, limits, overlapped>>
    <3>1. /\ pc' = [pc EXCEPT ![c] = "failed"]
          /\ making' = [making EXCEPT ![c] = NoPayment] /\ limit' = [limit EXCEPT ![c] = Null]
          /\ attempt' = [attempt EXCEPT ![c] = 0]
      BY <2>2 DEF End, Goto
    <3>2. /\ pc' \in [Call -> State] /\ limit' \in [Call -> Amount]
          /\ making' \in [Call -> Payment \cup {NoPayment}]
          /\ attempt' \in [Call -> 0 .. MaxAttempts]
      BY <3>1, QueryAssumption DEF Typed, State, Amount
    <3>3. /\ \A d \in Call : d # c => pc'[d] = pc[d] /\ making'[d] = making[d]
          /\ pc'[c] = "failed"
      BY <3>1 DEF Typed
    <3>4. Typed'
      BY <1>1, <1>3, <2>1, <2>2, <3>2 DEF Typed
    <3>5. Decided => Decided'
      BY <1>3, <2>2 DEF Decided, list
    <3>6. NodesKnown'
      BY <1>1, <1>3, <2>1, <3>3, <3>5 DEF NodesKnown
    <3>7. Ordered'
      <4>1. rows' = rows /\ rows' = <<>> /\ overlapped' = overlapped
        BY <1>1, <1>3, <2>2
      <4>2. \A i : i \notin 1 .. Len(rows')
        BY <4>1, EmptySeq
      <4>3. \A d \in Call : pc[d] = "rows" => nodes' = nodes
        BY <1>3 DEF NodesKnown, Decided, list
      <4> QED
        BY <3>3, <4>1, <4>2, <4>3 DEF Ordered, InBeforeExecute
    <3>8. Named'
      BY <1>1, <2>2, <3>3 DEF Named
    <3> QED
      BY <3>4, <3>6, <3>7, <3>8
  <2>3. CASE /\ limit' = [limit EXCEPT ![c] = MaxInForce]
             /\ limits' = limits \cup {MaxInForce}
             /\ overlapped' = (overlapped \/ \E d \in Call : InBeforeExecute(d))
             /\ UNCHANGED attempt
             /\ \/ AsksForCost /\ Goto(c, "cost") /\ UNCHANGED <<payment, locked, making>>
                \/ ~AsksForCost /\ Decide(c, IF payment = Null THEN 0 ELSE payment, nodes')
    <3>1. /\ limit' \in [Call -> Amount] /\ limits' \subseteq Nat /\ overlapped' \in BOOLEAN
      BY <2>3, MaxInForceTyped DEF Typed, Amount
    <3>2. CASE AsksForCost /\ Goto(c, "cost") /\ UNCHANGED <<payment, locked, making>>
      <4>1. pc' = [pc EXCEPT ![c] = "cost"] /\ pc' \in [Call -> State] /\ payment = Null
        BY <3>2 DEF Goto, Typed, State, AsksForCost
      <4>2. pc'[c] = "cost" /\ \A d \in Call : d # c => pc'[d] = pc[d]
        BY <4>1 DEF Typed
      <4>3. Typed'
        BY <1>1, <1>3, <2>1, <2>3, <3>1, <3>2, <4>1 DEF Typed
      <4>4. Decided => Decided'
        BY <1>3, <3>2 DEF Decided, list
      <4>5. NodesKnown'
        BY <1>1, <1>3, <2>1, <3>2, <4>2, <4>4 DEF NodesKnown
      <4>6. Ordered'
        <5>1. rows' = <<>> /\ \A i : i \notin 1 .. Len(rows')
          BY <1>1, <1>3, EmptySeq
        <5>2. ~overlapped' => \A d \in Call : d # c => pc'[d] \notin {"cost", "rows"}
          BY <2>3, <4>2 DEF InBeforeExecute
        <5> QED
          BY <4>2, <5>1, <5>2 DEF Ordered, InBeforeExecute
      <4>7. Named'
        BY <1>1, <3>2, <4>1, <4>2 DEF Named
      <4> QED
        BY <4>3, <4>5, <4>6, <4>7
    <3>3. CASE ~AsksForCost /\ Decide(c, IF payment = Null THEN 0 ELSE payment, nodes')
      <4> DEFINE amount == IF payment = Null THEN 0 ELSE payment
      <4>1. /\ amount \in Nat /\ (~raced => (explicit # {} => amount \in explicit))
        BY DEF Typed, Amount, Named
      <4>2. ~overlapped' => ~overlapped /\ \A d \in Call : ~InBeforeExecute(d)
        BY <2>3
      <4> HIDE DEF amount
      <4>3. Decide(c, amount, list)
        BY <1>3, <3>3 DEF amount
      <4> QED
        BY <1>1, <1>3, <2>1, <2>3, <3>1, <4>1, <4>2, <4>3, DecideKeeps
    <3> QED
      BY <2>3, <3>2, <3>3
  <2> QED
    BY <1>3, <2>2, <2>3 DEF Execute
<1> QED
  BY <1>2, <1>3 DEF Execute

LEMMA EndKeeps ==
  ASSUME PayInv, NEW c \in Call, NEW how \in {"answered", "failed"}, End(c, how),
         charged' \subseteq Nat, index' \in Nat, nodes # <<>> => index' < Len(nodes),
         UNCHANGED <<required, operator, payment, maximum, nodes, locked, rows, history>>
  PROVE  PayInv'
<1>1. /\ pc' = [pc EXCEPT ![c] = how]
      /\ making' = [making EXCEPT ![c] = NoPayment] /\ limit' = [limit EXCEPT ![c] = Null]
      /\ attempt' = [attempt EXCEPT ![c] = 0]
  BY DEF End, Goto
<1>2. attempt' \in [Call -> 0 .. MaxAttempts]
  BY <1>1, QueryAssumption DEF PayInv, Typed
<1> QED
  BY <1>1, <1>2, Leaves

LEMMA LoopKeeps ==
  ASSUME PayInv, NEW c \in Call, Loop(c), Decided,
         charged' \subseteq Nat, index' \in Nat, nodes # <<>> => index' < Len(nodes),
         UNCHANGED <<required, operator, payment, maximum, nodes, locked, rows, attempt, history>>
  PROVE  PayInv'
<1>1. /\ pc' = [pc EXCEPT ![c] = "loop"]
      /\ making' = [making EXCEPT ![c] = NoPayment] /\ limit' = [limit EXCEPT ![c] = Null]
  BY DEF Loop, Goto
<1>2. attempt' \in [Call -> 0 .. MaxAttempts]
  BY DEF PayInv, Typed
<1> QED
  BY <1>1, <1>2, Leaves

LEMMA Still ==
  ASSUME PayInv, UNCHANGED <<charged, index>>
  PROVE  charged' \subseteq Nat /\ index' \in Nat /\ (nodes # <<>> => index' < Len(nodes))
BY DEF PayInv, Typed, NodesKnown

LEMMA FetchedKeeps ==
  ASSUME PayInv, NEW c \in Call, Fetched(c)
  PROVE  PayInv'
<1>1. /\ pc[c] = "cost"
      /\ UNCHANGED <<maximum, nodes, index, rows, required, operator, charged,
                     limits, explicit, raced, overlapped>>
  BY DEF Fetched, outside, history
<1>2. CASE /\ \E cost \in Costs : Decide(c, WithMargin(cost), nodes)
           /\ UNCHANGED <<limit, attempt>>
  <2>1. PICK cost \in Costs : Decide(c, WithMargin(cost), nodes)
    BY <1>2
  <2>2. WithMargin(cost) \in Nat
    BY QueryAssumption DEF WithMargin
  <2>3. /\ nodes \in Seq(Account) /\ nodes # <<>> /\ index' \in Nat /\ index' < Len(nodes)
        /\ limit' \in [Call -> Amount] /\ limits' \subseteq Nat /\ overlapped' \in BOOLEAN
    BY <1>1, <1>2 DEF PayInv, Typed, NodesKnown
  <2>4. ~overlapped' => rows = <<>> /\ ~overlapped /\ \A d \in Call \ {c} : ~InBeforeExecute(d)
    BY <1>1 DEF PayInv, Ordered, InBeforeExecute
  <2>5. ~raced => (explicit # {} => WithMargin(cost) \in explicit)
    BY <1>1 DEF PayInv, Named
  <2> QED
    BY <1>1, <1>2, <2>1, <2>2, <2>3, <2>4, <2>5, DecideKeeps
<1>3. CASE End(c, "failed") /\ UNCHANGED <<payment, locked>>
  BY <1>1, <1>3, Still, EndKeeps DEF history
<1> QED
  BY <1>2, <1>3 DEF Fetched

LEMMA CostQueryFailsKeeps ==
  ASSUME PayInv, NEW c \in Call, CostQueryFails(c)
  PROVE  PayInv'
<1>1. /\ End(c, "failed")
      /\ UNCHANGED <<required, operator, payment, maximum, nodes, index, locked, rows, charged, history>>
  BY DEF CostQueryFails, query, outside
<1> QED
  BY <1>1, Still, EndKeeps

LEMMA SignerRejectsKeeps ==
  ASSUME PayInv, NEW c \in Call, SignerRejects(c)
  PROVE  PayInv'
<1>1. /\ End(c, "failed")
      /\ UNCHANGED <<required, operator, payment, maximum, nodes, index, locked, rows, charged, history>>
  BY DEF SignerRejects, query, outside
<1> QED
  BY <1>1, Still, EndKeeps

LEMMA PushPaymentKeeps ==
  ASSUME PayInv, NEW c \in Call, PushPayment(c)
  PROVE  PayInv'
<1> USE DEF PayInv
<1>1. /\ pc[c] = "rows" /\ Decided /\ making[c] \in Payment
      /\ rows' = Append(rows, [node |-> making[c].node, amount |-> making[c].amount])
      /\ UNCHANGED <<payment, maximum, nodes, index, locked, attempt,
                     required, operator, charged, limits, explicit, raced, overlapped>>
  BY DEF PushPayment, NodesKnown, outside, history
<1> DEFINE row == [node |-> making[c].node, amount |-> making[c].amount]
           next == making[c].row + 1
<1>2. row \in Row /\ next \in Nat
  BY <1>1 DEF Payment, Row
<1>3. /\ rows' \in Seq(Row) /\ Len(rows) \in Nat /\ Len(rows') = Len(rows) + 1
      /\ rows'[Len(rows) + 1] = row
      /\ \A i \in 1 .. Len(rows) : rows'[i] = rows[i]
  BY <1>1, <1>2, LenProperties, AppendProperties DEF Typed
<1>4. Decided'
  BY <1>1 DEF Decided
<1>5. Len(nodes) \in Nat
  BY LenProperties DEF Typed
<1>6. ~overlapped => \A i \in 1 .. Len(rows') : i <= Len(nodes) /\ rows'[i].node = nodes[i]
  BY <1>1, <1>3, <1>5 DEF Ordered
<1>7. ~overlapped => \A d \in Call : d # c => ~InBeforeExecute(d)
  BY <1>1 DEF Ordered, InBeforeExecute
<1>8. ~overlapped => making[c].row = Len(rows) + 1
  BY <1>1 DEF Ordered
<1> HIDE DEF row
<1>9. CASE /\ making' = [making EXCEPT ![c] = [node |-> nodes[next], amount |-> payment, row |-> next]]
           /\ next <= Len(nodes)
           /\ pc' = [pc EXCEPT ![c] = "rows"] /\ UNCHANGED limit
  <2>1. 1 <= next /\ nodes[next] \in Account
    BY <1>1, <1>2, <1>5, <1>9, ElementOfSeq DEF Typed, Payment
  <2>2. [node |-> nodes[next], amount |-> payment, row |-> next] \in Payment
    BY <1>1, <1>2, <2>1 DEF Payment, Decided
  <2>3. /\ pc' = pc /\ making' \in [Call -> Payment \cup {NoPayment}]
        /\ making'[c] = [node |-> nodes[next], amount |-> payment, row |-> next]
        /\ \A d \in Call : d # c => making'[d] = making[d]
    BY <1>1, <1>9, <2>2 DEF Typed
  <2>4. Typed'
    BY <1>1, <1>3, <1>9, <2>3 DEF Typed
  <2>5. NodesKnown'
    BY <1>1, <1>4, <2>2, <2>3 DEF NodesKnown
  <2>6. Ordered'
    BY <1>1, <1>3, <1>6, <1>7, <1>8, <1>9, <2>3 DEF Ordered, InBeforeExecute
  <2>7. Named'
    BY <1>1, <2>3 DEF Named
  <2> QED
    BY <2>4, <2>5, <2>6, <2>7
<1>10. CASE Loop(c)
  <2>1. /\ pc' = [pc EXCEPT ![c] = "loop"]
        /\ making' = [making EXCEPT ![c] = NoPayment] /\ limit' = [limit EXCEPT ![c] = Null]
    BY <1>10 DEF Loop, Goto
  <2>2. /\ pc' \in [Call -> State] /\ limit' \in [Call -> Amount]
        /\ making' \in [Call -> Payment \cup {NoPayment}]
    BY <2>1 DEF Typed, State, Amount
  <2>3. /\ \A d \in Call : d # c => pc'[d] = pc[d] /\ making'[d] = making[d]
        /\ pc'[c] = "loop"
    BY <2>1 DEF Typed
  <2>4. Typed'
    BY <1>1, <1>3, <2>2 DEF Typed
  <2>5. NodesKnown'
    BY <1>1, <1>4, <2>3 DEF NodesKnown
  <2>6. Ordered'
    BY <1>1, <1>6, <1>7, <2>3 DEF Ordered, InBeforeExecute
  <2>7. Named'
    BY <1>1, <2>3 DEF Named
  <2> QED
    BY <2>4, <2>5, <2>6, <2>7
<1> QED
  BY <1>9, <1>10 DEF PushPayment, FollowingRow, SignsRow, Goto

-----------------------------------------------------------------------------
(* The attempts. *)

LEMMA AdvanceInRange ==
  ASSUME PayInv, Decided, Advance
  PROVE  index' \in Nat /\ index' < Len(nodes)
<1>1. /\ index \in Nat /\ Len(nodes) \in Nat /\ Len(nodes) > 0
  BY EmptySeq, LenProperties DEF PayInv, Typed, Decided, NodesKnown
<1> QED
  BY <1>1 DEF Advance

LEMMA StartAttemptKeeps ==
  ASSUME PayInv, NEW c \in Call, StartAttempt(c)
  PROVE  PayInv'
<1> USE DEF PayInv
<1> DEFINE made == [node |-> nodes[index + 1], amount |-> payment, row |-> 0]
<1>1. /\ pc[c] = "loop" /\ attempt[c] < MaxAttempts /\ Decided
      /\ attempt' = [attempt EXCEPT ![c] = attempt[c] + 1]
      /\ making' = [making EXCEPT ![c] = made]
      /\ pc' = [pc EXCEPT ![c] = "signing"]
      /\ UNCHANGED <<payment, maximum, nodes, index, locked, rows, limit,
                     required, operator, charged, limits, explicit, raced, overlapped>>
  BY DEF StartAttempt, Counted, Goto, NodesKnown, query, outside, history
<1>2. made \in Payment
  <2>1. index + 1 \in 1 .. Len(nodes)
    BY <1>1, LenProperties DEF Typed, NodesKnown, Decided
  <2>2. nodes[index + 1] \in Account
    BY <2>1, ElementOfSeq DEF Typed
  <2> QED
    BY <1>1, <2>2 DEF Payment, Decided
<1> HIDE DEF made
<1>3. attempt' \in [Call -> 0 .. MaxAttempts]
  BY <1>1, QueryAssumption DEF Typed
<1>4. /\ pc' \in [Call -> State] /\ making' \in [Call -> Payment \cup {NoPayment}]
  BY <1>1, <1>2 DEF Typed, State
<1>5. /\ \A d \in Call : d # c => pc'[d] = pc[d] /\ making'[d] = making[d]
      /\ pc'[c] = "signing" /\ making'[c] = made
  BY <1>1 DEF Typed
<1>6. Typed'
  BY <1>1, <1>3, <1>4 DEF Typed
<1>7. NodesKnown'
  BY <1>1, <1>2, <1>5 DEF NodesKnown, Decided
<1>8. Ordered'
  BY <1>1, <1>5 DEF Ordered, InBeforeExecute
<1>9. Named'
  BY <1>1, <1>5 DEF Named
<1> QED
  BY <1>6, <1>7, <1>8, <1>9

LEMMA GivesUpKeeps ==
  ASSUME PayInv, NEW c \in Call, GivesUp(c)
  PROVE  PayInv'
<1>1. /\ End(c, "failed")
      /\ UNCHANGED <<required, operator, payment, maximum, nodes, index, locked, rows, charged, history>>
  BY DEF GivesUp, query, outside
<1> QED
  BY <1>1, Still, EndKeeps

LEMMA UnhealthyKeeps ==
  ASSUME PayInv, NEW c \in Call, Unhealthy(c)
  PROVE  PayInv'
<1>1. /\ Decided /\ charged' \subseteq Nat
      /\ UNCHANGED <<required, operator, payment, maximum, nodes, locked, rows, charged, history>>
  BY DEF Unhealthy, PayInv, Typed, NodesKnown, outside
<1>2. CASE End(c, "failed") /\ UNCHANGED index
  BY <1>1, <1>2, Still, EndKeeps
<1>3. CASE Loop(c) /\ Advance /\ UNCHANGED attempt
  BY <1>1, <1>3, AdvanceInRange, LoopKeeps
<1> QED
  BY <1>2, <1>3 DEF Unhealthy

LEMMA SendKeeps ==
  ASSUME PayInv, NEW c \in Call, Send(c)
  PROVE  PayInv'
<1> USE DEF PayInv
<1>1. /\ pc[c] = "signing" /\ Decided /\ making[c] \in Payment /\ Advance
      /\ pc' = [pc EXCEPT ![c] = "sent"]
      /\ UNCHANGED <<payment, maximum, nodes, locked, rows, limit, making, attempt,
                     required, operator, charged, limits, explicit, raced, overlapped>>
  BY DEF Send, Goto, NodesKnown, outside, history
<1>2. index' \in Nat /\ index' < Len(nodes)
  BY <1>1, AdvanceInRange
<1>3. /\ pc' \in [Call -> State]
      /\ \A d \in Call : d # c => pc'[d] = pc[d]
      /\ pc'[c] = "sent"
  BY <1>1 DEF Typed, State
<1>4. Typed'
  BY <1>1, <1>2, <1>3 DEF Typed
<1>5. NodesKnown'
  BY <1>1, <1>2, <1>3 DEF NodesKnown, Decided
<1>6. Ordered'
  BY <1>1, <1>3 DEF Ordered, InBeforeExecute
<1>7. Named'
  BY <1>1, <1>3 DEF Named
<1> QED
  BY <1>4, <1>5, <1>6, <1>7

LEMMA PaidKeeps ==
  ASSUME PayInv, NEW c \in Call, Paid(c)
  PROVE  PayInv'
<1>1. /\ Decided /\ making[c] \in Payment /\ index \in Nat /\ (nodes # <<>> => index < Len(nodes))
      /\ charged \subseteq Nat
  BY DEF Paid, PayInv, Typed, NodesKnown
<1>2. /\ charged' \subseteq Nat
  BY <1>1 DEF Paid, Payment
<1>3. UNCHANGED <<required, operator, payment, maximum, nodes, index, locked, rows, history>>
  BY DEF Paid, query
<1>4. CASE Loop(c) /\ UNCHANGED attempt
  BY <1>1, <1>2, <1>3, <1>4, LoopKeeps
<1>5. CASE \E how \in {"answered", "failed"} : End(c, how)
  BY <1>1, <1>2, <1>3, <1>5, EndKeeps
<1> QED
  BY <1>4, <1>5 DEF Paid

LEMMA NotPaidKeeps ==
  ASSUME PayInv, NEW c \in Call, NotPaid(c)
  PROVE  PayInv'
<1>1. /\ Decided
      /\ UNCHANGED <<required, operator, payment, maximum, nodes, index, locked, rows, charged, history>>
  BY DEF NotPaid, PayInv, NodesKnown, query, outside
<1>2. CASE Loop(c) /\ UNCHANGED attempt
  BY <1>1, <1>2, Still, LoopKeeps
<1>3. CASE End(c, "failed")
  BY <1>1, <1>3, Still, EndKeeps
<1> QED
  BY <1>2, <1>3 DEF NotPaid

-----------------------------------------------------------------------------
(* Theorems. *)

LEMMA PayStep == PayInv /\ [Next]_vars => PayInv'
<1> SUFFICES ASSUME PayInv, [Next]_vars PROVE PayInv'
  OBVIOUS
<1>1. CASE UNCHANGED vars
  BY <1>1 DEF vars, query, calls, outside, history, PayInv, Typed, NodesKnown, Decided,
              Ordered, InBeforeExecute, Named
<1>2. CASE \E amount \in Payments : SetQueryPayment(amount)
  BY <1>2, SetQueryPaymentKeeps
<1>3. CASE \E amount \in Maxima : SetMaxQueryPayment(amount)
  BY <1>3, SetMaxQueryPaymentKeeps
<1>4. CASE \E list \in GivenNodes : SetNodeAccountIds(list)
  BY <1>4, SetNodeAccountIdsKeeps
<1>5. ASSUME NEW c \in Call, Execute(c) \/ Step(c) PROVE PayInv'
  BY <1>5, ExecuteKeeps, CostQueryFailsKeeps, FetchedKeeps, PushPaymentKeeps, SignerRejectsKeeps,
     StartAttemptKeeps, GivesUpKeeps, UnhealthyKeeps, SendKeeps, PaidKeeps, NotPaidKeeps DEF Step
<1> QED
  BY <1>1, <1>2, <1>3, <1>4, <1>5 DEF Next

LEMMA PaySafe == Spec => []PayInv
<1> QED
  BY PayInit, PayStep, PTL DEF Spec

\* Every field keeps its type, and a call in the loop has a node and an amount
\* to pay with, for any number of overlapping executions (Query.js:252-354).
THEOREM PaymentTypeOK == Spec => []TypeOK
<1>1. ASSUME PayInv PROVE TypeOK
  <2>1. \A i \in DOMAIN rows : rows[i].node \in Account /\ rows[i].amount \in Nat
    <3>1. \A i \in DOMAIN rows : rows[i] \in Row
      BY <1>1, LenProperties DEF PayInv, Typed
    <3> QED
      BY <3>1 DEF Row
  <2>2. /\ required \in BOOLEAN /\ operator \in BOOLEAN
        /\ payment \in Amount /\ maximum \in Amount
        /\ nodes \in Seq(Account) /\ index \in Nat /\ locked \in BOOLEAN
        /\ charged \subseteq Nat /\ limits \subseteq Nat /\ explicit \subseteq Nat
        /\ raced \in BOOLEAN /\ overlapped \in BOOLEAN
    BY <1>1 DEF PayInv, Typed
  <2>3. \A c \in Call : /\ pc[c] \in State /\ limit[c] \in Amount
                        /\ attempt[c] \in 0 .. MaxAttempts
    BY <1>1 DEF PayInv, Typed
  <2>4. \A c \in Call : pc[c] \in {"rows", "signing", "sent"} =>
            making[c].node \in Account /\ making[c].amount \in Nat
    BY <1>1 DEF PayInv, NodesKnown, Payment
  <2>5. \A c \in Call : pc[c] \in {"loop", "signing", "sent"} =>
            payment \in Nat /\ locked /\ index \in 0 .. Len(nodes) - 1
    BY <1>1, LenProperties DEF PayInv, Typed, NodesKnown, Decided
  <2> QED
    BY <2>1, <2>2, <2>3, <2>4, <2>5 DEF TypeOK, State
<1> QED
  BY <1>1, PaySafe, PTL

\* toBytes takes payments by the position of the node: they stand in the order of
\* the nodes unless two executions made them at once (Query.js:332-354).
THEOREM PaymentsFollowNodesSafe == Spec => []PaymentsFollowNodes
<1>1. ASSUME PayInv PROVE PaymentsFollowNodes
  <2>1. DOMAIN rows = 1 .. Len(rows)
    BY <1>1, LenProperties DEF PayInv, Typed
  <2> QED
    BY <1>1, <2>1 DEF PayInv, Ordered, PaymentsFollowNodes
<1> QED
  BY <1>1, PaySafe, PTL

\* Every attempt pays an amount setQueryPayment was called with, once it was
\* called and no cost was awaited meanwhile (Query.js:129, 439).
THEOREM PaysExactlyThisSafe == Spec => PaysExactlyThis
<1> DEFINE Exactly == \A c \in Call :
      pc[c] = "loop" /\ pc'[c] = "signing" /\ explicit # {} /\ ~raced
        => making'[c].amount \in explicit
<1>1. ASSUME PayInv, [Next]_vars PROVE Exactly
  <2> SUFFICES ASSUME NEW c \in Call, pc[c] = "loop", pc'[c] = "signing", explicit # {}, ~raced
               PROVE  making'[c].amount \in explicit
    OBVIOUS
  <2>1. pc \in [Call -> State] /\ making \in [Call -> Payment \cup {NoPayment}]
        /\ payment \in explicit
    BY <1>1 DEF PayInv, Typed, Named
  <2>2. pc' # pc
    OBVIOUS
  <2>3. PICK d \in Call : Execute(d) \/ Step(d)
    BY <1>1, <2>2 DEF Next, vars, calls, SetQueryPayment, SetMaxQueryPayment, SetNodeAccountIds
  <2>4. CASE StartAttempt(d)
    <3>1. pc' = [pc EXCEPT ![d] = "signing"]
          /\ making' = [making EXCEPT ![d] = [node |-> nodes[index + 1], amount |-> payment, row |-> 0]]
      BY <2>4 DEF StartAttempt, Goto
    <3>2. d = c
      BY <2>1, <3>1
    <3> QED
      BY <2>1, <3>1, <3>2
  <2>5. CASE ~StartAttempt(d)
    <3>1. \E where \in State \ {"signing"} : pc' = [pc EXCEPT ![d] = where]
      BY <2>3, <2>5 DEF Execute, Step, CostQueryFails, Fetched, PushPayment, SignerRejects, GivesUp,
         Unhealthy, Send, Paid, NotPaid, Loop, End, Goto, Decide, SignsRow, State
    <3> QED
      BY <2>1, <3>1
  <2> QED
    BY <2>4, <2>5
<1> QED
  BY <1>1, PaySafe, PTL DEF Spec, PaysExactlyThis

-----------------------------------------------------------------------------
(* What is charged. *)

SmallAmounts ==
    /\ \A cost \in Costs : WithMargin(cost) < Half
    /\ \A max \in Maxima : max < Half
    /\ DefaultMax < Half

LEMMA ToIntSmall ==
  ASSUME NEW x \in Nat, x < Half
  PROVE  ToInt(x) = x
<1>1. Half \in Nat /\ Half > 0
  BY QueryAssumption
<1>2. (x + Half) % (2 * Half) = x + Half
  BY <1>1
<1> QED
  BY <1>1, <1>2 DEF ToInt

Covered(amount) == amount \in explicit \/ \E max \in limits : amount <= max

Within ==
    /\ payment # Null => Covered(payment)
    /\ maximum # Null => maximum < Half
    /\ \A c \in Call : /\ pc[c] = "cost" => limit[c] \in limits /\ limit[c] < Half
                       /\ pc[c] \in {"signing", "sent"} => Covered(making[c].amount)
    /\ ChargedWithinLimit

\* Calls that neither ask for a cost nor pay.
LEMMA WithinStays ==
  ASSUME PayInv, Within,
         explicit \subseteq explicit', limits \subseteq limits',
         payment' # Null => payment' = payment \/ Covered(payment)',
         maximum' # Null => maximum' < Half,
         charged' \subseteq charged \cup {amount \in Nat : Covered(amount)'},
         \A c \in Call : /\ pc'[c] = "cost" => \/ pc[c] = "cost" /\ limit'[c] = limit[c]
                                               \/ limit'[c] \in limits' /\ limit'[c] < Half
                         /\ pc'[c] \in {"signing", "sent"} =>
                              \/ pc[c] \in {"signing", "sent"} /\ making'[c] = making[c]
                              \/ Covered(making[c].amount)'
  PROVE  Within'
<1>1. \A amount : Covered(amount) => Covered(amount)'
  BY DEF Covered
<1>2. \A amount \in charged : Covered(amount)
  BY DEF Within, ChargedWithinLimit, Covered
<1>3. \A amount \in charged' : Covered(amount)'
  BY <1>1, <1>2
<1>4. ChargedWithinLimit'
  BY <1>3 DEF Covered, ChargedWithinLimit
<1>5. payment' # Null => Covered(payment)'
  BY <1>1 DEF Within
<1>6. \A c \in Call : /\ pc'[c] = "cost" => limit'[c] \in limits' /\ limit'[c] < Half
                      /\ pc'[c] \in {"signing", "sent"} => Covered(making[c].amount)'
  BY <1>1 DEF Within
<1> QED
  BY <1>4, <1>5, <1>6 DEF Within

\* A call that is put somewhere else than at the cost or an attempt.
LEMMA WithinMoves ==
  ASSUME PayInv, Within, NEW c \in Call, NEW where \in State \ {"cost", "signing", "sent"},
         pc' = [pc EXCEPT ![c] = where],
         \A d \in Call : d # c => limit'[d] = limit[d] /\ making'[d] = making[d],
         payment' # Null => payment' = payment \/ Covered(payment)',
         explicit \subseteq explicit', limits \subseteq limits',
         charged' \subseteq charged \cup {amount \in Nat : Covered(amount)'},
         UNCHANGED maximum
  PROVE  Within'
<1>1. \A d \in Call : d # c => pc'[d] = pc[d]
  BY DEF PayInv, Typed
<1>2. pc'[c] = where
  BY DEF PayInv, Typed
<1>3. maximum' # Null => maximum' < Half
  BY DEF Within
<1> QED
  BY <1>1, <1>2, <1>3, WithinStays

LEMMA EndWithin ==
  ASSUME PayInv, Within, NEW c \in Call, NEW how \in {"answered", "failed"},
         End(c, how) \/ Loop(c), UNCHANGED <<payment, maximum, history>>,
         charged' \subseteq charged \cup {amount \in Nat : Covered(amount)'}
  PROVE  Within'
<1>1. \E where \in State \ {"cost", "signing", "sent"} : pc' = [pc EXCEPT ![c] = where]
  BY DEF End, Loop, Goto, State
<1>2. limit' = [limit EXCEPT ![c] = Null] /\ making' = [making EXCEPT ![c] = NoPayment]
  BY DEF End, Loop
<1>3. \A d \in Call : d # c => limit'[d] = limit[d] /\ making'[d] = making[d]
  BY <1>2 DEF PayInv, Typed
<1> QED
  BY <1>1, <1>3, WithinMoves DEF history

LEMMA DecideWithin ==
  ASSUME PayInv, Within, NEW c \in Call, NEW amount, NEW list, Decide(c, amount, list),
         Covered(amount)', explicit \subseteq explicit', limits \subseteq limits',
         \A d \in Call : d # c => limit'[d] = limit[d],
         UNCHANGED <<charged, maximum>>
  PROVE  Within'
<1>1. /\ payment' = amount /\ pc' = [pc EXCEPT ![c] = "rows"]
      /\ making' = [making EXCEPT ![c] = [node |-> list[1], amount |-> amount, row |-> 1]]
  BY DEF Decide, SignsRow, Goto
<1>2. \A d \in Call : d # c => making'[d] = making[d]
  BY <1>1 DEF PayInv, Typed
<1>3. Covered(payment)'
  BY <1>1 DEF Covered
<1> QED
  BY <1>1, <1>2, <1>3, WithinMoves DEF State

LEMMA ApplicationWithin ==
  ASSUME SmallAmounts, PayInv, Within,
         \/ \E amount \in Payments : SetQueryPayment(amount)
         \/ \E amount \in Maxima : SetMaxQueryPayment(amount)
         \/ \E list \in GivenNodes : SetNodeAccountIds(list)
  PROVE  Within'
<1>1. CASE \E amount \in Payments : SetQueryPayment(amount)
  <2>1. PICK amount \in Payments : SetQueryPayment(amount)
    BY <1>1
  <2>2. Covered(payment)' /\ explicit \subseteq explicit'
    BY <2>1 DEF SetQueryPayment, Covered
  <2>3. UNCHANGED <<maximum, limits, charged, pc, limit, making>>
    BY <2>1 DEF SetQueryPayment, calls, outside
  <2> QED
    BY <2>2, <2>3, WithinStays DEF Within
<1>2. CASE \E amount \in Maxima : SetMaxQueryPayment(amount)
  <2>1. maximum' < Half
    BY <1>2 DEF SetMaxQueryPayment, SmallAmounts
  <2>2. UNCHANGED <<payment, limits, explicit, charged, pc, limit, making>>
    BY <1>2 DEF SetMaxQueryPayment, calls, outside, history
  <2> QED
    BY <2>1, <2>2, WithinStays
<1>3. CASE \E list \in GivenNodes : SetNodeAccountIds(list)
  <2>1. UNCHANGED <<payment, maximum, limits, explicit, charged, pc, limit, making>>
    BY <1>3 DEF SetNodeAccountIds, calls, outside, history
  <2> QED
    BY <2>1, WithinStays DEF Within
<1> QED
  BY <1>1, <1>2, <1>3

LEMMA ExecuteWithin ==
  ASSUME SmallAmounts, PayInv, Within, NEW c \in Call, Execute(c)
  PROVE  Within'
<1>1. UNCHANGED <<maximum, explicit, raced, charged>>
  BY DEF Execute, outside
<1>2. CASE rows # <<>> /\ Loop(c) /\ UNCHANGED <<payment, nodes, index, locked, attempt, limits, overlapped>>
  BY <1>1, <1>2, EndWithin DEF history
<1>3. CASE End(c, "failed") /\ UNCHANGED <<payment, locked, limits, overlapped>>
  BY <1>1, <1>3, EndWithin DEF history
<1>4. CASE /\ limit' = [limit EXCEPT ![c] = MaxInForce]
           /\ limits' = limits \cup {MaxInForce}
           /\ \/ AsksForCost /\ Goto(c, "cost") /\ UNCHANGED <<payment, locked, making>>
              \/ ~AsksForCost /\ Decide(c, IF payment = Null THEN 0 ELSE payment, nodes')
  <2>1. /\ MaxInForce \in Nat /\ MaxInForce < Half /\ limits \subseteq limits'
        /\ limit'[c] = MaxInForce /\ \A d \in Call : d # c => limit'[d] = limit[d]
    <3>1. limit \in [Call -> Amount]
      BY DEF PayInv, Typed
    <3>2. MaxInForce < Half
      BY DEF MaxInForce, SmallAmounts, Within
    <3> QED
      BY <1>4, <3>1, <3>2, MaxInForceTyped
  <2>2. CASE AsksForCost /\ Goto(c, "cost") /\ UNCHANGED <<payment, locked, making>>
    <3>1. \A d \in Call : /\ d # c => pc'[d] = pc[d]
                          /\ pc'[c] = "cost"
      BY <2>2 DEF Goto, PayInv, Typed
    <3> QED
      BY <1>1, <1>4, <2>1, <2>2, <3>1, WithinStays DEF Within
  <2>3. CASE ~AsksForCost /\ Decide(c, IF payment = Null THEN 0 ELSE payment, nodes')
    <3>1. PICK amount : amount = IF payment = Null THEN 0 ELSE payment
      OBVIOUS
    <3>2. Covered(amount)'
      <4>1. CASE payment = Null
        BY <4>1, <3>1, <1>4, <2>1 DEF Covered
      <4>2. CASE payment # Null
        BY <4>2, <3>1, <1>1, <2>1 DEF Covered, Within
      <4> QED
        BY <4>1, <4>2
    <3>3. Decide(c, amount, nodes')
      BY <2>3, <3>1
    <3> QED
      BY <1>1, <2>1, <3>2, <3>3, DecideWithin
  <2> QED
    BY <1>4, <2>2, <2>3
<1> QED
  BY <1>2, <1>3, <1>4 DEF Execute

LEMMA FetchedWithin ==
  ASSUME SmallAmounts, PayInv, Within, NEW c \in Call, Fetched(c)
  PROVE  Within'
<1>1. pc[c] = "cost" /\ UNCHANGED <<maximum, charged, history>>
  BY DEF Fetched, outside
<1>2. CASE /\ \E cost \in Costs : /\ ~Exceeds(WithMargin(cost), limit[c])
                                  /\ Decide(c, WithMargin(cost), nodes)
           /\ UNCHANGED <<limit, attempt>>
  <2>1. PICK cost \in Costs : /\ ~Exceeds(WithMargin(cost), limit[c])
                              /\ Decide(c, WithMargin(cost), nodes)
    BY <1>2
  <2>2. WithMargin(cost) \in Nat /\ WithMargin(cost) < Half
    BY QueryAssumption DEF WithMargin, SmallAmounts
  <2>3. limit[c] \in limits /\ limit[c] < Half /\ limit[c] \in Nat
    BY <1>1 DEF Within, PayInv, Typed
  <2>4. WithMargin(cost) <= limit[c]
    BY <2>1, <2>2, <2>3, ToIntSmall DEF Exceeds
  <2>5. Covered(WithMargin(cost))'
    BY <1>1, <2>3, <2>4 DEF Covered, history
  <2> QED
    BY <1>1, <1>2, <2>1, <2>5, DecideWithin DEF history
<1>3. CASE End(c, "failed") /\ UNCHANGED <<payment, locked>>
  BY <1>1, <1>3, EndWithin
<1> QED
  BY <1>2, <1>3 DEF Fetched

LEMMA PushPaymentWithin ==
  ASSUME PayInv, Within, NEW c \in Call, PushPayment(c)
  PROVE  Within'
<1>1. UNCHANGED <<payment, maximum, charged, history>>
  BY DEF PushPayment, outside
<1>2. CASE SignsRow(c, FollowingRow(c), nodes, payment) /\ UNCHANGED limit
  <2>1. /\ pc' = [pc EXCEPT ![c] = "rows"]
        /\ \A d \in Call : d # c => limit'[d] = limit[d] /\ making'[d] = making[d]
    BY <1>2 DEF SignsRow, Goto, PayInv, Typed
  <2> QED
    BY <1>1, <2>1, WithinMoves DEF State, history
<1>3. CASE Loop(c)
  BY <1>1, <1>3, EndWithin
<1> QED
  BY <1>2, <1>3 DEF PushPayment

LEMMA StartAttemptWithin ==
  ASSUME PayInv, Within, NEW c \in Call, StartAttempt(c)
  PROVE  Within'
<1>1. /\ pc[c] = "loop" /\ payment \in Nat
      /\ making' = [making EXCEPT ![c] = [node |-> nodes[index + 1], amount |-> payment, row |-> 0]]
      /\ pc' = [pc EXCEPT ![c] = "signing"]
      /\ UNCHANGED <<payment, maximum, limit, charged, explicit, limits>>
  BY DEF StartAttempt, Goto, query, outside, history, PayInv, NodesKnown, Decided
<1>2. /\ \A d \in Call : d # c => pc'[d] = pc[d] /\ making'[d] = making[d]
      /\ pc'[c] = "signing" /\ making'[c].amount = payment
  BY <1>1 DEF PayInv, Typed
<1>3. Covered(making[c].amount)'
  BY <1>1, <1>2, QueryAssumption DEF Within, Covered
<1> QED
  BY <1>1, <1>2, <1>3, WithinStays DEF Within

LEMMA SendWithin ==
  ASSUME PayInv, Within, NEW c \in Call, Send(c)
  PROVE  Within'
<1>1. /\ pc[c] = "signing" /\ pc' = [pc EXCEPT ![c] = "sent"]
      /\ UNCHANGED <<payment, maximum, limit, making, charged, explicit, limits>>
  BY DEF Send, Goto, outside, history
<1>2. pc'[c] = "sent" /\ \A d \in Call : d # c => pc'[d] = pc[d]
  BY <1>1 DEF PayInv, Typed
<1> QED
  BY <1>1, <1>2, WithinStays DEF Within

LEMMA PaidWithin ==
  ASSUME PayInv, Within, NEW c \in Call, Paid(c)
  PROVE  Within'
<1>1. /\ making[c] \in Payment /\ Covered(making[c].amount)
      /\ UNCHANGED <<payment, maximum, history>>
  BY DEF Paid, query, PayInv, NodesKnown, Within
<1>2. making[c].amount \in Nat /\ Covered(making[c].amount)
  BY <1>1 DEF Payment
<1>3. \A amount : Covered(amount) => Covered(amount)'
  BY <1>1 DEF Covered, history
<1>4. charged' \subseteq charged \cup {amount \in Nat : Covered(amount)'}
  BY <1>2, <1>3 DEF Paid
<1> QED
  BY <1>1, <1>4, EndWithin DEF Paid

LEMMA OthersWithin ==
  ASSUME PayInv, Within, NEW c \in Call,
         CostQueryFails(c) \/ SignerRejects(c) \/ GivesUp(c) \/ Unhealthy(c) \/ NotPaid(c)
  PROVE  Within'
<1>1. /\ UNCHANGED <<payment, maximum, charged, history>>
      /\ End(c, "failed") \/ Loop(c)
  BY DEF CostQueryFails, SignerRejects, GivesUp, Unhealthy, NotPaid, query, outside
<1> QED
  BY <1>1, EndWithin

LEMMA WithinInit == SmallAmounts /\ Init => Within
BY DEF Init, Within, ChargedWithinLimit

LEMMA WithinStep == SmallAmounts /\ PayInv /\ Within /\ [Next]_vars => Within'
<1> SUFFICES ASSUME SmallAmounts, PayInv, Within, [Next]_vars PROVE Within'
  OBVIOUS
<1>1. CASE UNCHANGED vars
  BY <1>1 DEF vars, query, calls, outside, history, Within, Covered, ChargedWithinLimit
<1>2. CASE \/ \E amount \in Payments : SetQueryPayment(amount)
           \/ \E amount \in Maxima : SetMaxQueryPayment(amount)
           \/ \E list \in GivenNodes : SetNodeAccountIds(list)
  BY <1>2, ApplicationWithin
<1>3. ASSUME NEW c \in Call, Execute(c) \/ Step(c) PROVE Within'
  BY <1>3, ExecuteWithin, FetchedWithin, PushPaymentWithin, StartAttemptWithin, SendWithin,
     PaidWithin, OthersWithin DEF Step
<1> QED
  BY <1>1, <1>2, <1>3 DEF Next

\* While every amount is below 2^31 tinybars, the operator is charged only what
\* the application named or a cost within a maximum in force when the query was
\* executed, whatever overlaps and is retried (Query.js:306, 324, 439).
THEOREM ChargedWithinLimitSafe ==
  ASSUME SmallAmounts
  PROVE  Spec => []ChargedWithinLimit
<1>1. Init => Within
  BY WithinInit
<1>2. PayInv /\ Within /\ [Next]_vars => Within'
  BY WithinStep
<1>3. Within => ChargedWithinLimit
  BY DEF Within
<1> QED
  BY <1>1, <1>2, <1>3, PaySafe, PTL DEF Spec
=============================================================================
