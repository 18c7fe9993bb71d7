---------------------------- MODULE Transaction ----------------------------
(***************************************************************************)
(* One transaction object and everything an application may do with it     *)
(* while earlier calls on the same object still await a signature or an    *)
(* answer: src/src/transaction/Transaction.js, with transaction/List.js.   *)
(*                                                                         *)
(* `tx' is the object.  A method that does not await is an action; one     *)
(* that awaits (signWith, toBytesAsync, execute) is a call in flight, held *)
(* by a Caller, and every signature it awaits ends one step of it.         *)
(*                                                                         *)
(* Abstractions.  A body is its node and its transaction ID: the other     *)
(* fields are behind _requireNotFrozen, as SetNodeAccountIds is.  Its      *)
(* signatures are counted by key, whichever signer made them.  Every       *)
(* client has the operator Operator, and its network is ClientNodes.       *)
(* Transaction IDs are numbered in the order they are generated or set.    *)
(* The transaction has one chunk and no batch key.  A method that throws   *)
(* before it changes anything is not a step.                               *)
(***************************************************************************)
EXTENDS Naturals, Sequences, SequencesExt

CONSTANTS
    Account,       \* nodes' account IDs
    ClientNodes,   \* client._network.getNodeAccountIdsForExecute()
    GivenNodes,    \* the lists setNodeAccountIds is called with
    Key, Operator, \* public keys, and the one of the client's operator
    SignsOnDemand, \* values client.signOnDemand takes
    MaxNodes,      \* client.maxNodesPerTransaction, 0 for no limit
    Caller,        \* bound: calls in flight at once
    MaxIds,        \* bound: transaction IDs generated or set
    MaxCalls,      \* bound: calls the application makes
    Null

ASSUME TransactionAssumption ==
    /\ Operator \in Key /\ Null \notin Key \cup Account
    /\ ClientNodes \in Seq(Account) \ {<<>>} /\ GivenNodes \subseteq Seq(Account) \ {<<>>}
    /\ IsInjective(ClientNodes) /\ \A list \in GivenNodes : IsInjective(list)
    /\ SignsOnDemand \subseteq BOOLEAN
    /\ MaxNodes \in Nat /\ MaxIds \in Nat \ {0} /\ MaxCalls \in Nat

VARIABLES
    tx,       \* the transaction
    call,     \* the calls in flight
    excused,  \* history: keys that lost their signatures in a known way
    halfAdded,\* history: keys whose addSignature has thrown half-way
    removed,  \* history: a signature was taken back
    calls     \* history: calls the application has made

vars == <<tx, call, excused, halfAdded, removed, calls>>

-----------------------------------------------------------------------------
(* List.js *)

Listed(items) == [list |-> items, locked |-> FALSE, index |-> 0]
NoItems == Listed(<<>>)
SetList(l, items) == [list |-> items, locked |-> l.locked, index |-> 0]  \* throws when locked
SetLocked(l) == [l EXCEPT !.locked = TRUE]
Advance(l) == [l EXCEPT !.index = (@ + 1) % Len(l.list)]
IsEmpty(l) == l.list = <<>>

\* The transaction before anything is set.
New == [nodeIds |-> NoItems, ids |-> NoItems, signed |-> NoItems, built |-> NoItems,
        signerKeys |-> {}, publicKeys |-> <<>>, signers |-> <<>>,
        signOnDemand |-> FALSE, accountKnown |-> FALSE,
        throttled |-> FALSE, newest |-> 0]

\* _fromProtobufTransactions of bytes for ClientNodes signed by `keys', which
\* are recorded once for every node.
NoSignature == [k \in Key |-> 0]
SignedBy(keys) == [k \in Key |-> IF k \in ToSet(keys) THEN 1 ELSE 0]
Entry(node, id, sigs) == [node |-> node, id |-> id, sigs |-> sigs]
FromBytes(keys) ==
    LET rows == [i \in 1 .. Len(ClientNodes) |-> Entry(ClientNodes[i], 1, SignedBy(keys))]
        known == [i \in 1 .. Len(ClientNodes) * Len(keys) |-> keys[((i - 1) % Len(keys)) + 1]]
    IN  [New EXCEPT !.nodeIds = Listed(ClientNodes), !.ids = Listed(<<1>>),
                    !.signed = Listed(rows), !.built = Listed(rows),
                    !.signerKeys = ToSet(keys), !.publicKeys = known,
                    !.signers = [i \in 1 .. Len(known) |-> Null], !.newest = 1]

Idle == [pc |-> "idle", executes |-> FALSE, key |-> Null, at |-> 0, attached |-> FALSE,
         row |-> Null, done |-> 0, missing |-> {}, expired |-> 0]

Attempt == [Idle EXCEPT !.pc = "attempt", !.executes = TRUE]
AttemptAfter(id) == [Attempt EXCEPT !.expired = id]

Init ==
    /\ tx \in {New} \cup {FromBytes(keys) : keys \in {<<>>} \cup {<<k>> : k \in Key}}
    /\ call = [c \in Caller |-> Idle]
    /\ excused = {}
    /\ halfAdded = {}
    /\ removed = FALSE
    /\ calls = 0

-----------------------------------------------------------------------------
(* Helpers. *)

\* isFrozen and _isFrozen, which differ for a transaction signed on demand.
IsFrozen(t) == ~IsEmpty(t.signed)
HeldFrozen(t) == t.signOnDemand \/ IsFrozen(t)

CurrentId(t) == IF IsEmpty(t.ids) THEN 0 ELSE Head(t.ids.list)
MayGenerate(t) == t.newest < MaxIds                                \* bound

\* _buildNewTransactionIdList
IgnoringLock(t) ==                                                 \* mutant
    IF ~t.accountKnown THEN t ELSE [t EXCEPT !.newest = @ + 1, !.ids.list = <<t.newest + 1>>]
WithNewId(t) ==
    IF t.ids.locked \/ ~t.accountKnown THEN t
    ELSE [t EXCEPT !.newest = @ + 1, !.ids.list = <<t.newest + 1>>]

\* _makeSignedTransaction for each of the nodes.
Unsigned(t) == [i \in 1 .. Len(t.nodeIds.list) |-> Entry(t.nodeIds.list[i], CurrentId(t), NoSignature)]

\* _buildSignedTransactions
Rebuilds(t) == ~t.signed.locked
BuildSigned(t) == IF Rebuilds(t) THEN [t EXCEPT !.signed = SetList(@, Unsigned(t))] ELSE t

\* What _validateTransactionBodies asks of the number of bodies and of a row.
ValidBodies(t) ==
    \/ IsEmpty(t.ids) \/ IsEmpty(t.signed)
    \/ /\ Len(t.signed.list) = IF IsEmpty(t.nodeIds) THEN 1 ELSE Len(t.nodeIds.list)
       /\ \A i \in 1 .. Len(t.signed.list) : t.signed.list[i].id = t.signed.list[1].id

\* freezeWith(client), client.signOnDemand being `demand'; freeze() is
\* freezeWith(null).  It throws where it must set a locked or unknown list.
WithOptions(t, client, demand) ==
    [t EXCEPT !.signOnDemand = demand, !.accountKnown = @ \/ client]
FreezeThrows(t, client) ==
    \/ client /\ IsEmpty(t.nodeIds) /\ t.nodeIds.locked
    \/ ~client /\ ~t.accountKnown /\ IsEmpty(t.ids)
WithNodes(t, client) ==
    IF client /\ IsEmpty(t.nodeIds) THEN [t EXCEPT !.nodeIds = SetList(@, ClientNodes)] ELSE t
FreezeWith(t, client, demand) ==
    LET set == WithOptions(t, client, demand)
        named == WithNewId(WithNodes(set, client))
    IN  IF FreezeThrows(t, client) THEN set
        ELSE IF demand THEN named ELSE BuildSigned(named)

\* History: signatures freezing throws away, and signers it no longer asks.
Replaces(t, client, demand) == ~demand /\ ~FreezeThrows(t, client) /\ Rebuilds(t)
LostByFreezing(t, client, demand) ==
    IF Replaces(t, client, demand) \/ (t.signOnDemand /\ ~demand) THEN t.signerKeys ELSE {}
\* A call that is signing rows goes on with the rows it started with.
DetachedIf(replaced) ==
    IF replaced THEN [c \in Caller |-> [call[c] EXCEPT !.attached = FALSE]] ELSE call

\* _buildTransaction for every signed transaction: longer lists keep their tail.
BuildAll(t) ==
    LET rows == t.signed.list
        tail == SubSeq(t.built.list, Len(rows) + 1, Len(t.built.list))
    IN  [t EXCEPT !.built.list = rows \o tail]

\* _transactions.clear, then the key and its signer.
KeyOnly(t, k, signer) ==                                           \* mutant
    [t EXCEPT !.built = NoItems, !.signerKeys = @ \cup {k}, !.publicKeys = Append(@, k)]
Registered(t, k, signer) ==
    [t EXCEPT !.built = NoItems, !.signerKeys = @ \cup {k},
              !.publicKeys = Append(@, k), !.signers = Append(@, signer)]
LockNames(t) == [t EXCEPT !.ids = SetLocked(@), !.nodeIds = SetLocked(@)]

KeysIn(sigs) == {k \in Key : sigs[k] > 0}
WithSignature(row, k) == [row EXCEPT !.sigs[k] = @ + 1]
SignerAt(t, j) == IF j <= Len(t.signers) THEN t.signers[j] ELSE Null

Free(c) == call[c] = Idle
BeingSigned == {call[c].key : c \in {d \in Caller : call[d].pc = "signing" /\ call[d].attached}}

-----------------------------------------------------------------------------
(* Setters and freezing. *)

SetNodeAccountIds(list) ==
    /\ ~HeldFrozen(tx) /\ ~tx.nodeIds.locked
    /\ tx' = [tx EXCEPT !.nodeIds = SetLocked(SetList(@, list))]
    /\ UNCHANGED <<call, excused, halfAdded, removed>>

SetTransactionId ==
    /\ ~HeldFrozen(tx) /\ ~tx.ids.locked /\ MayGenerate(tx)
    /\ tx' = [tx EXCEPT !.newest = @ + 1, !.ids = SetLocked(SetList(@, <<tx.newest + 1>>))]
    /\ UNCHANGED <<call, excused, halfAdded, removed>>

\* The getter transactionId locks the list it reads.
GetTransactionId ==
    /\ ~IsEmpty(tx.ids)
    /\ tx' = [tx EXCEPT !.ids.locked = TRUE]
    /\ UNCHANGED <<call, excused, halfAdded, removed>>

Freeze(client, demand) ==
    /\ client \/ ~demand
    /\ MayGenerate(tx)
    /\ tx' = FreezeWith(tx, client, demand)
    /\ call' = DetachedIf(Replaces(tx, client, demand))
    /\ excused' = excused \cup LostByFreezing(tx, client, demand)
    /\ UNCHANGED <<halfAdded, removed>>

\* The state in which a method that freezes first goes on.
Refrozen(t) == FreezeWith(t, FALSE, FALSE)                          \* mutant
Frozen(t) == IF IsFrozen(t) THEN t ELSE FreezeWith(t, FALSE, FALSE)
FreezesFirst(t) == ~IsFrozen(t) /\ Rebuilds(t)
MayFreeze(t) == IsFrozen(t) \/ (MayGenerate(t) /\ ~FreezeThrows(t, FALSE))
LostByFrozen(t) == IF IsFrozen(t) THEN {} ELSE LostByFreezing(t, FALSE, FALSE)

-----------------------------------------------------------------------------
(* Signatures. *)

\* signWith, without its awaits.  It throws unless MaySignWith.
MaySignWith(t, k) == HeldFrozen(t) /\ (k \in t.signerKeys \/ ValidBodies(t))
Unknown(t, k) == FALSE                                             \* mutant
Known(t, k) == k \in t.signerKeys
SignWith(t, k) ==
    IF Known(t, k) THEN t
    ELSE IF t.signOnDemand THEN Registered(t, k, k)
    ELSE LockNames(Registered(t, k, k))
Signing(t, k, executes) ==
    [Idle EXCEPT !.pc = "signing", !.key = k, !.executes = executes, !.attached = TRUE,
                 !.done = Len(t.signed.list)]

Sign(c, k) ==
    /\ Free(c)
    /\ MaySignWith(tx, k) /\ ~Known(tx, k)
    /\ tx' = SignWith(tx, k)
    /\ call' = IF tx.signOnDemand THEN call ELSE [call EXCEPT ![c] = Signing(tx, k, FALSE)]
    /\ UNCHANGED <<excused, halfAdded, removed>>

\* A signature arrives and the next row is signed; a list that was trimmed
\* has lost its last rows.
SignsRow(c) ==
    LET at == call[c].at + 1
    IN  /\ call[c].pc = "signing"
        /\ tx' = IF call[c].attached /\ at <= Len(tx.signed.list)
                 THEN [tx EXCEPT !.signed.list[at] = WithSignature(@, call[c].key)]
                 ELSE tx
        /\ call' = [call EXCEPT ![c] =
               IF at < call[c].done THEN [@ EXCEPT !.at = at]
               ELSE IF call[c].executes THEN Attempt ELSE Idle]
        /\ UNCHANGED <<excused, halfAdded, removed>>

\* The signer rejects: the call ends, and the key stays registered.
SignerRejects(c) ==
    /\ call[c].pc \in {"signing", "making"}
    /\ call' = [call EXCEPT ![c] = Idle]
    /\ excused' = IF call[c].pc = "signing" THEN excused \cup {call[c].key} ELSE excused
    /\ UNCHANGED <<tx, halfAdded, removed>>

\* addSignature with signatures for the first n rows, and its older form,
\* which has one for each row.  Row n + 1 makes it throw half-way.
AddSignature(k, n) ==
    LET t == Frozen(tx)
        added == [i \in 1 .. Len(t.signed.list) |->
                     IF i <= n THEN WithSignature(t.signed.list[i], k) ELSE t.signed.list[i]]
        locked == [LockNames(t) EXCEPT !.built = NoItems, !.signed.locked = TRUE, !.signed.list = added]
    IN  /\ MayFreeze(tx) /\ ~Known(tx, k) /\ n <= Len(t.signed.list)
        /\ tx' = IF n = Len(t.signed.list) THEN Registered(locked, k, Null) ELSE locked
        /\ call' = DetachedIf(FreezesFirst(tx))
        /\ excused' = excused \cup LostByFrozen(tx)
        /\ halfAdded' = IF n = Len(t.signed.list) THEN halfAdded ELSE halfAdded \cup {k}
        /\ UNCHANGED removed

Without(t, k) ==
    LET rows == t.signed.list
    IN  [t EXCEPT !.signed.list = [i \in 1 .. Len(rows) |-> [rows[i] EXCEPT !.sigs[k] = 0]],
                  !.signerKeys = @ \ {k},
                  !.publicKeys = Remove(@, k),
                  !.signers = IF @ = <<>> THEN @ ELSE Front(@)]

\* removeSignature freezes before it finds out that the key has not signed.
RemoveSignature(k) ==
    LET t == Frozen(tx)
    IN  /\ MayFreeze(tx)
        /\ tx' = IF Known(t, k) THEN Without(t, k) ELSE t
        /\ call' = DetachedIf(FreezesFirst(tx))
        /\ excused' = (excused \cup LostByFrozen(tx)) \ (IF Known(t, k) THEN {k} ELSE {})
        /\ removed' = (removed \/ Known(t, k))
        /\ halfAdded' = halfAdded \ (IF Known(t, k) THEN {k} ELSE {})

RemoveAllSignatures ==
    LET t == Frozen(tx)
    IN  /\ MayFreeze(tx)
        /\ tx' = [t EXCEPT !.signed.list =
                      [i \in 1 .. Len(t.signed.list) |-> [t.signed.list[i] EXCEPT !.sigs = NoSignature]],
                  !.signerKeys = {}, !.publicKeys = <<>>, !.signers = <<>>]
        /\ call' = DetachedIf(FreezesFirst(tx))
        /\ excused' = {}
        /\ removed' = (removed \/ tx.signerKeys # {})
        /\ halfAdded' = {}

-----------------------------------------------------------------------------
(* Bytes. *)

\* toBytes, and getSignatures when frozen.
ToBytes ==
    /\ ~tx.signOnDemand
    /\ IF IsFrozen(tx)
       THEN /\ tx' = BuildAll(LockNames(tx))
       ELSE /\ ~tx.built.locked
            /\ tx' = [tx EXCEPT !.built = SetList(@,
                         IF IsEmpty(tx.nodeIds) THEN <<Entry(Null, CurrentId(tx), NoSignature)>> ELSE Unsigned(tx))]
    /\ UNCHANGED <<call, excused, halfAdded, removed>>

\* The first public key from position j on that has a signer, or 0.
SkippingOne(t, j) ==                                               \* mutant
    LET able == {i \in j + 1 .. Len(t.publicKeys) : SignerAt(t, i) # Null}
    IN  IF able = {} THEN 0 ELSE CHOOSE i \in able : \A other \in able : i <= other
NextSigner(t, j) ==
    LET able == {i \in j .. Len(t.publicKeys) : SignerAt(t, i) # Null}
    IN  IF able = {} THEN 0 ELSE CHOOSE i \in able : \A other \in able : i <= other

\* History: the keys that sign it.
Able(t) == {t.publicKeys[i] : i \in {j \in 1 .. Len(t.publicKeys) : SignerAt(t, j) # Null}}

\* _signTransaction up to its first await, for the next node.
Making(t, executes, done) ==
    LET j == NextSigner(t, 1)
    IN  [Idle EXCEPT !.pc = "making", !.executes = executes, !.done = done, !.at = j,
                     !.row = Entry(t.nodeIds.list[t.nodeIds.index + 1], CurrentId(t), NoSignature),
                     !.missing = Able(t),
                     !.key = IF j = 0 THEN Null ELSE t.publicKeys[j]]
NextNode(t) == [t EXCEPT !.nodeIds = Advance(@)]

Closed(t) == [t EXCEPT !.built.locked = TRUE, !.signed.locked = TRUE]

\* toBytesAsync, getSignaturesAsync, getTransactionHash.
ToBytesAsync(c) ==
    LET t == LockNames(tx)
        rows == BuildSigned(t)
    IN  /\ Free(c)
        /\ IF ~tx.signOnDemand
           THEN /\ tx' = Closed(BuildAll(t))
                /\ UNCHANGED call
           ELSE IF tx.built.locked \/ ~IsFrozen(rows)
           THEN /\ tx' = Closed(rows)
                /\ call' = DetachedIf(Rebuilds(tx))
           ELSE /\ tx' = NextNode(rows)
                /\ call' = [DetachedIf(Rebuilds(tx)) EXCEPT ![c] = Making(rows, FALSE, 0)]
        /\ UNCHANGED <<excused, halfAdded, removed>>

\* A signer answers; the row is complete when no other is left to ask.
Made(c) == IF call[c].key = Null THEN call[c].row
           ELSE WithSignature(call[c].row, call[c].key)
Following(c) == IF call[c].at = 0 THEN 0 ELSE NextSigner(tx, call[c].at + 1)

AsksNextSigner(c) ==
    /\ call[c].pc = "making" /\ Following(c) # 0
    /\ call' = [call EXCEPT ![c].row = Made(c), ![c].at = Following(c),
           ![c].key = tx.publicKeys[Following(c)]]
    /\ UNCHANGED <<tx, excused, halfAdded, removed>>

\* push throws when another call has locked the list.
PushesEntry(c) ==
    LET pushed == [tx EXCEPT !.built.list = Append(@, Made(c))]
        done == call[c].done + 1
    IN  /\ call[c].pc = "making" /\ ~call[c].executes /\ Following(c) = 0
        /\ IF tx.built.locked
           THEN /\ call' = [call EXCEPT ![c] = Idle]
                /\ UNCHANGED tx
           ELSE IF done < Len(tx.signed.list)
           THEN /\ tx' = NextNode(pushed)
                /\ call' = [call EXCEPT ![c] = Making(tx, FALSE, done)]
           ELSE /\ tx' = Closed(pushed)
                /\ call' = [call EXCEPT ![c] = Idle]
        /\ UNCHANGED <<excused, halfAdded, removed>>

-----------------------------------------------------------------------------
(* Execution.  Executable.execute is the loop: which node it asks, and when *)
(* it gives up, is its own (see Executable).                               *)

Excess(t) == MaxNodes > 0 /\ Len(t.nodeIds.list) > MaxNodes

\* _applyMaxNodesPerTransactionLimit; setList throws on locked rows.
TrimmedApart(t) ==                                                 \* mutant
    LET from == Len(t.nodeIds.list) - MaxNodes + 1
    IN  IF ~Excess(t) \/ t.signed.locked THEN t
        ELSE [t EXCEPT !.nodeIds.list = SubSeq(@, from, Len(@)), !.nodeIds.locked = TRUE]
First(list) == SubSeq(list, 1, IF Len(list) < MaxNodes THEN Len(list) ELSE MaxNodes)
Trimmed(t) ==
    LET nodes == [list |-> First(t.nodeIds.list), locked |-> TRUE, index |-> 0]
        rows == IF IsEmpty(t.ids) THEN <<>> ELSE First(t.signed.list)
    IN  IF ~Excess(t) THEN t
        ELSE [t EXCEPT !.built = NoItems, !.nodeIds = nodes,
                       !.signed = IF t.signed.locked THEN @ ELSE SetList(@, rows)]

WithClient(t) == [t EXCEPT !.accountKnown = TRUE]

\* _beforeExecute: freezes, trims, and signs with the operator.
Execute(c, demand) ==
    LET freezes == ~HeldFrozen(tx)
        frozen == IF freezes THEN FreezeWith(tx, TRUE, demand) ELSE tx
        trimmed == Trimmed(frozen)
        ready == WithClient(trimmed)
        left == DetachedIf(freezes /\ Replaces(tx, TRUE, demand))
    IN  /\ Free(c)
        /\ freezes => MayGenerate(tx)
        /\ excused' = excused \cup (IF freezes THEN LostByFreezing(tx, TRUE, demand) ELSE {})
        /\ \/ /\ freezes /\ FreezeThrows(tx, TRUE)
              /\ tx' = frozen /\ call' = left
           \/ /\ ~(freezes /\ FreezeThrows(tx, TRUE)) /\ Excess(frozen) /\ frozen.signed.locked
              /\ tx' = trimmed /\ call' = left
           \/ /\ ~(freezes /\ FreezeThrows(tx, TRUE)) /\ ~(Excess(frozen) /\ frozen.signed.locked)
              /\ IF ~MaySignWith(ready, Operator)
                 THEN tx' = ready /\ call' = left
                 ELSE /\ tx' = SignWith(ready, Operator)
                      /\ call' = [left EXCEPT ![c] =
                             IF Known(ready, Operator) \/ ready.signOnDemand
                             THEN Attempt ELSE Signing(ready, Operator, TRUE)]
        /\ UNCHANGED <<halfAdded, removed>>

\* A body on its way, with the history of what it lacks.
Sent(c, row, expected) ==
    [Idle EXCEPT !.pc = "sent", !.executes = TRUE, !.row = row, !.expired = call[c].expired,
                 !.missing = expected \ KeysIn(row.sigs)]

\* _buildTransaction for the row of the current node.
Padded(t, index) ==
    t.built.list \o [i \in 1 .. index - 1 - Len(t.built.list) |-> Null]
WithEntry(t, index, row) ==
    LET list == IF Len(t.built.list) < index - 1 THEN Padded(t, index) ELSE t.built.list
    IN  [t EXCEPT !.built.list = IF index = Len(list) + 1 THEN Append(list, row)
                                 ELSE [list EXCEPT ![index] = row]]

\* _makeRequestAsync of a transaction whose rows are signed.
MakesRequest(c) ==
    LET index == tx.nodeIds.index + 1
        throws == \/ index > Len(tx.signed.list)
                  \/ tx.built.locked /\ Len(tx.built.list) < index - 1
    IN  /\ call[c].pc = "attempt" /\ ~tx.signOnDemand /\ ~tx.throttled
        /\ IF throws
           THEN /\ call' = [call EXCEPT ![c] = Idle]
                /\ UNCHANGED tx
           ELSE /\ tx' = WithEntry(tx, index, tx.signed.list[index])
                /\ call' = [call EXCEPT ![c] =
                      Sent(c, tx.signed.list[index], tx.signerKeys \ (excused \cup BeingSigned))]
        /\ UNCHANGED <<excused, halfAdded, removed>>

\* _makeRequestAsync of one that is signed attempt by attempt.
StartsRequest(c) ==
    /\ call[c].pc = "attempt" /\ (tx.signOnDemand \/ tx.throttled) /\ ~IsEmpty(tx.nodeIds)
    /\ tx' = NextNode(tx)
    /\ call' = [call EXCEPT ![c] = [Making(tx, TRUE, 0) EXCEPT !.expired = call[c].expired]]
    /\ UNCHANGED <<excused, halfAdded, removed>>

SendsMade(c) ==
    /\ call[c].pc = "making" /\ call[c].executes /\ Following(c) = 0
    /\ call' = [call EXCEPT ![c] = Sent(c, Made(c), call[c].missing)]
    /\ UNCHANGED <<tx, excused, halfAdded, removed>>

\* A retryable status or a failed call: the next node.
Retries(c) ==
    /\ call[c].pc = "sent"
    /\ tx' = [tx EXCEPT !.nodeIds = Advance(@)]
    /\ call' = [call EXCEPT ![c] = AttemptAfter(call[c].expired)]
    /\ UNCHANGED <<excused, halfAdded, removed>>

\* TRANSACTION_EXPIRED with regenerateTransactionId unset or true.
Expires(c) ==
    /\ call[c].pc = "sent"
    /\ IF tx.ids.locked
       THEN /\ call' = [call EXCEPT ![c] = Idle]
            /\ UNCHANGED tx
       ELSE /\ MayGenerate(tx)
            /\ tx' = [WithNewId(tx) EXCEPT !.nodeIds = Advance(@)]
            /\ call' = [call EXCEPT ![c] = AttemptAfter(call[c].row.id)]
    /\ UNCHANGED <<excused, halfAdded, removed>>

\* Any other error, attempts exhausted, or a timeout.
GivesUp(c) ==
    /\ call[c].pc \in {"attempt", "sent"}
    /\ call' = [call EXCEPT ![c] = Idle]
    /\ UNCHANGED <<tx, excused, halfAdded, removed>>

\* OK: _mapResponse awaits the hash, then names the current transaction ID.
Accepted(c) ==
    /\ call[c].pc = "sent"
    /\ call' = [call EXCEPT ![c].pc = "accepted"]
    /\ UNCHANGED <<tx, excused, halfAdded, removed>>
Responds(c) ==
    /\ call[c].pc = "accepted"
    /\ tx' = [tx EXCEPT !.ids.locked = @ \/ ~IsEmpty(tx.ids)]
    /\ call' = [call EXCEPT ![c] = Idle]
    /\ UNCHANGED <<excused, halfAdded, removed>>

\* _resetTransaction, which a response calls when consensus throttled.
ResetTransaction ==
    /\ tx.accountKnown /\ MayGenerate(tx)
    /\ tx' = [tx EXCEPT !.newest = @ + 1, !.throttled = TRUE, !.signed = NoItems,
                        !.ids = Listed(<<tx.newest + 1>>)]
    /\ call' = DetachedIf(TRUE)
    /\ excused' = tx.signerKeys
    /\ UNCHANGED <<halfAdded, removed>>

-----------------------------------------------------------------------------
Request(c) ==
    \/ \E k \in Key : Sign(c, k)
    \/ ToBytesAsync(c)
    \/ \E demand \in SignsOnDemand : Execute(c, demand)

Change ==
    \/ \E list \in GivenNodes : SetNodeAccountIds(list)
    \/ SetTransactionId
    \/ GetTransactionId
    \/ \E demand \in SignsOnDemand : Freeze(TRUE, demand)
    \/ Freeze(FALSE, FALSE)
    \/ \E k \in Key : \E n \in 0 .. Len(Frozen(tx).signed.list) : AddSignature(k, n)
    \/ \E k \in Key : RemoveSignature(k)
    \/ RemoveAllSignatures
    \/ ToBytes
    \/ ResetTransaction

Continue(c) ==
    \/ SignsRow(c) \/ SignerRejects(c)
    \/ AsksNextSigner(c) \/ PushesEntry(c)
    \/ MakesRequest(c) \/ StartsRequest(c) \/ SendsMade(c)
    \/ Retries(c) \/ Expires(c) \/ GivesUp(c) \/ Accepted(c) \/ Responds(c)

Next ==
    \/ calls < MaxCalls /\ (Change \/ \E c \in Caller : Request(c)) /\ calls' = calls + 1
    \/ (\E c \in Caller : Continue(c)) /\ UNCHANGED calls
Spec == Init /\ [][Next]_vars

-----------------------------------------------------------------------------
(* Properties. *)

SignedRow == [node : Account \cup {Null}, id : 0 .. MaxIds,
              sigs : [Key -> Nat]]
Items(S) == [list : Seq(S), locked : BOOLEAN, index : Nat]

\* Every variable keeps the type of the field it models.
TypeOK ==
    /\ tx.nodeIds \in Items(Account) /\ tx.ids \in Items(1 .. MaxIds)
    /\ tx.signed \in Items(SignedRow) /\ tx.built \in Items(SignedRow \cup {Null})
    /\ tx.signerKeys \subseteq Key /\ tx.publicKeys \in Seq(Key)
    /\ tx.signers \in Seq(Key \cup {Null})
    /\ tx.signOnDemand \in BOOLEAN /\ tx.accountKnown \in BOOLEAN /\ tx.throttled \in BOOLEAN
    /\ tx.newest \in 0 .. MaxIds /\ excused \subseteq Key /\ removed \in BOOLEAN

Aligned == /\ Len(tx.publicKeys) = Len(tx.signers)
           /\ \A i \in 1 .. Len(tx.signers) : tx.signers[i] \in {Null, tx.publicKeys[i]}
Rows == {tx.signed.list[i] : i \in 1 .. Len(tx.signed.list)}

\* The i-th signing function is that of the i-th public key, or unknown, until
\* removeSignature drops the last function with whichever key (1385).
KeysAligned == removed \/ Aligned

\* A key that the object believes has signed did sign every body, unless it is
\* signing now, its signer rejected, freezing again threw the bodies away, or
\* signing was put off and freeze() called it off: nothing else, in any order of
\* overlapping calls, loses a signature.
RegisteredHaveSigned ==
    ~tx.signOnDemand => \A row \in Rows :
        tx.signerKeys \subseteq KeysIn(row.sigs) \cup excused \cup BeingSigned

\* A body that is sent carries the signature of every key registered when it was
\* built, with the exceptions above.
SentIsSigned == \A c \in Caller : call[c].pc = "sent" => removed \/ call[c].missing = {}

\* The i-th body is for the i-th node, whatever was set, trimmed and locked:
\* _makeRequestAsync takes bodies by the position of the node.
RowsFollowNodes ==
    \A i \in 1 .. Len(tx.signed.list) : i <= Len(tx.nodeIds.list) =>
        tx.signed.list[i].node = tx.nodeIds.list[i]

\* No body has two signatures of a key, unless addSignature threw half-way and
\* was called again (1223), or a signature was taken back while it was made.
OneSignature ==
    removed \/ \A row \in Rows : \A k \in Key \ halfAdded : row.sigs[k] <= 1

\* "Locking the transaction IDs and node account IDs is necessary for consistency
\* between before and after execution": a locked ID stays, until a response
\* throttled at consensus resets the transaction.
LockedIdStays ==
    [][ResetTransaction \/ (tx.ids.locked => tx'.ids.list = tx.ids.list)]_vars

\* manual/CONFIGURATION.md: the transaction ID is regenerated "when a
\* TRANSACTION_EXPIRED status is returned": the next body has another ID.
ExpiredIsNotResent == \A c \in Caller : call[c].pc = "sent" => call[c].row.id # call[c].expired
=============================================================================
