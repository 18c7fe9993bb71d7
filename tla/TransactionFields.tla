------------------------ MODULE TransactionFields ------------------------
(***************************************************************************)
(* The fields of a transaction on their way through freezing, signing and  *)
(* bytes: the setters, freezeWith, toBytes and fromBytes of               *)
(* src/src/transaction/Transaction.js together with what each transaction  *)
(* class does with its own fields (TransactionTypes).                      *)
(*                                                                         *)
(* One transaction of any type, new or read from bytes that this or        *)
(* another SDK wrote.  Abstractions: a field's contents are null, zero, a  *)
(* value, a changed value or the value it starts with; node IDs are        *)
(* given, so that freezing builds bodies, and those of all nodes carry the *)
(* same fields; the transaction IDs and the signatures are Transaction's.  *)
(***************************************************************************)
EXTENDS TransactionTypes, FiniteSets

CONSTANTS
    Null, Zero, One, Two, Preset, \* what a field can hold
    None,       \* no body
    MaxMoves    \* bound: fields set here or carried by bytes written elsewhere

ASSUME FieldsAssumption ==
    /\ Cardinality({Null, Zero, One, Two, Preset}) = 5
    /\ MaxMoves \in Nat

VARIABLES
    type,       \* the transaction's class
    values,     \* its fields
    body,       \* what the bodies of _signedTransactions carry, or None
    foreign,    \* whether another SDK encoded those bodies
    locked,     \* whether _signedTransactions is locked
    source,     \* what the bytes it was read from carry, or None
    touched,    \* fields set since it was made or read
    moves       \* counts fields up to MaxMoves

vars == <<type, values, body, foreign, locked, source, touched, moves>>

Of(t) == Types[t]
Fields(t) == Of(t).kept \union Of(t).flat

\* no body is a value apart
ASSUME NoBodyAssumption ==
    \A t \in DOMAIN Types : None \notin [Fields(t) -> {Null, Zero, One, Two, Preset}]

----------------------------------------------------------------------------
(* There and back.                                                         *)

Initial(t) == [f \in Fields(t) |-> IF f \in Of(t).preset THEN Preset ELSE Null]

\* _makeTransactionData, as its reader decodes it
Wire(t, v) ==
    [f \in Fields(t) |-> IF \/ f \in Of(t).unwritten
                            \/ f \in Of(t).flat /\ v[f] = Null THEN Zero ELSE v[f]]

ReadAsNull(t, f, content, elsewhere) ==
    \/ f \in Of(t).unread
    \/ content = Zero /\ (f \in Of(t).dropsZero \/ (elsewhere /\ f \in Of(t).wrapped))

\* (mutant) every wrapper read as the boolean
CarriedAsBoolean(t, w, elsewhere) ==
    [f \in Fields(t) |-> IF f \in Of(t).truthy \union Of(t).wrapped
                         THEN (IF w[f] = Null THEN Zero ELSE One)
                         ELSE IF ReadAsNull(t, f, w[f], elsewhere) THEN Null ELSE w[f]]

\* what _fromProtobuf hands to the constructor
Carried(t, w, elsewhere) ==
    [f \in Fields(t) |-> IF f \in Of(t).truthy THEN (IF w[f] = Null THEN Zero ELSE One)
                         ELSE IF ReadAsNull(t, f, w[f], elsewhere) THEN Null ELSE w[f]]

ClearedBy(t, f) == {g \in Fields(t) : <<g, f>> \in Of(t).clears}

\* (mutant) a field that was cleared reads as its initial value
ReadUncleared(t, w, elsewhere) ==
    LET c == Carried(t, w, elsewhere)
    IN  [f \in Fields(t) |-> IF c[f] # Null THEN c[f] ELSE Initial(t)[f]]

\* the constructor: initial values, then the setters of what is not null
Read(t, w, elsewhere) ==
    LET c == Carried(t, w, elsewhere)
    IN  [f \in Fields(t) |->
           IF c[f] # Null THEN c[f]
           ELSE IF \E g \in ClearedBy(t, f) : c[g] # Null THEN Null
           ELSE Initial(t)[f]]

Readable(t, w) == \A f \in Of(t).needed : w[f] # Null

\* bodies another SDK may have written: at most two fields (a bound), never
\* two members of a oneof
Absent(t) == [f \in Fields(t) |-> IF f \in Of(t).flat THEN Zero ELSE Null]
Present(t, w) == {f \in Fields(t) : w[f] # Absent(t)[f]}
OneofsHold(t, w) == \A p \in Of(t).ties : w[p[1]] = Null \/ w[p[2]] = Null
Elsewhere(t) ==
    {w \in {Absent(t)} \union
           {[Absent(t) EXCEPT ![f] = x, ![g] = y] :
              f \in Fields(t), g \in Fields(t), x \in {Zero, One}, y \in {Zero, One}} :
        OneofsHold(t, w) /\ Readable(t, w)}

----------------------------------------------------------------------------
(* The transaction.                                                        *)

IsFrozen == body # None

New ==
    /\ values = Initial(type)
    /\ body = None
    /\ foreign = FALSE
    /\ source = None
    /\ moves = 0

\* bytes of a frozen transaction hold signed bodies, those of another do not
FromElsewhere(w) ==
    /\ values = Read(type, w, TRUE)
    /\ body \in {None, w}
    /\ foreign = (body = w)
    /\ source = w
    /\ moves = Cardinality(Present(type, w))

Init ==
    /\ type \in DOMAIN Types
    /\ locked = FALSE
    /\ touched = {}
    /\ New \/ \E w \in Elsewhere(type) : FromElsewhere(w)

Moves(F) ==
    /\ moves < MaxMoves
    /\ moves' = moves + 1
    /\ touched' = touched \union F
    /\ UNCHANGED <<type, body, foreign, locked, source>>

Unguarded(f, exempt) == TRUE \* (mutant) no setter looks

Unfrozen(f, exempt) == f \in exempt \/ ~IsFrozen

ClearsNone(f) == {} \* (mutant)

Clears(f) == {g \in Fields(type) : <<f, g>> \in Of(type).clears}

Assigned(f, x) ==
    [g \in Fields(type) |-> IF g = f THEN x ELSE IF g \in Clears(f) THEN Null ELSE values[g]]

\* set...
SetField(f, x) ==
    /\ Unfrozen(f, Of(type).open)
    /\ Moves({f} \union Clears(f))
    /\ values' = Assigned(f, x)

\* add..., set...Approval: change a list there is
Amends(f) ==
    \/ f \in Of(type).adds /\ values[f] # Null
    \/ f \in Of(type).edits /\ values[f] \notin {Null, Zero}

AmendList(f) ==
    /\ f \in Of(type).adds \union Of(type).edits
    /\ Unfrozen(f, Of(type).openLists)
    /\ Amends(f)
    /\ Moves({f})
    /\ values' = [values EXCEPT ![f] = Two]

\* clear..., delete...
ClearField(f) ==
    \/ /\ f \in Of(type).forgets
       /\ Unfrozen(f, {})
       /\ Moves({f})
       /\ values' = [values EXCEPT ![f] = Null]
    \/ /\ f \in Of(type).blanks
       /\ Moves({f})
       /\ values' = [values EXCEPT ![f] = Zero]

\* what freezeWith sets
Filled == {f \in Of(type).fills :
             /\ values[f] = Null
             /\ \A p \in Of(type).fillsWith : p[1] = f => values[p[2]] # Null}
FallsBack == {f \in Of(type).fallsBack : values[f] = Null}
Completed == [f \in Fields(type) |-> IF f \in Filled \union FallsBack THEN Preset ELSE values[f]]

\* freeze, freezeWith; it throws where a setter does
FreezeWith ==
    /\ \A f \in Of(type).required : values[f] # Null
    /\ IsFrozen => Filled = {}
    /\ values' = Completed
    /\ IF locked THEN UNCHANGED <<body, foreign>>
       ELSE body' = Wire(type, Completed) /\ foreign' = FALSE
    /\ touched' = touched \union Filled \union FallsBack
    /\ UNCHANGED <<type, locked, source, moves>>

\* sign, signWith
Sign ==
    /\ IsFrozen
    /\ locked' = TRUE
    /\ UNCHANGED <<type, values, body, foreign, source, touched, moves>>

\* what toBytes writes: the signed bodies, or those an unfrozen transaction
\* would have
Bytes == IF IsFrozen THEN body ELSE Wire(type, values)

\* Transaction.fromBytes(transaction.toBytes())
ReadBack ==
    /\ Readable(type, Bytes)
    /\ values' = Read(type, Bytes, foreign)
    /\ body' = IF IsFrozen THEN Bytes ELSE None
    /\ locked' = FALSE
    /\ source' = Bytes
    /\ touched' = {}
    /\ UNCHANGED <<type, foreign, moves>>

Next ==
    \/ \E f \in Fields(type) :
         \/ \E x \in {Zero, One} : SetField(f, x)
         \/ AmendList(f)
         \/ ClearField(f)
    \/ FreezeWith
    \/ Sign
    \/ ReadBack

Spec == Init /\ [][Next]_vars

----------------------------------------------------------------------------
(* Properties.                                                             *)

TypeOK ==
    LET Bodies == [Fields(type) -> {Null, Zero, One, Two, Preset}]
    IN  /\ type \in DOMAIN Types
        /\ values \in Bodies
        /\ \A f \in Fields(type) :
             /\ values[f] = Two => f \in Of(type).adds \union Of(type).edits
             /\ values[f] = Preset =>
                  f \in Of(type).preset \union Of(type).fills \union Of(type).fallsBack
        /\ body = None \/ DOMAIN body = Fields(type)
        /\ source = None \/ DOMAIN source = Fields(type)
        /\ locked \in BOOLEAN /\ foreign \in BOOLEAN
        /\ touched \subseteq Fields(type)
        /\ moves \in 0..MaxMoves

\* Fields a frozen transaction lets go: a setter without _requireNotFrozen, or
\* the fee freezeWith falls back to when the signed bodies are locked.
KnownOpen ==
    {<<"Transaction", "maxTransactionFee">>, <<"Prng", "range">>,
     <<"AccountCreate", "alias">>, <<"AccountCreate", "hooks">>,
     <<"ContractCreate", "maxAutomaticTokenAssociations">>, <<"ContractCreate", "hooks">>,
     <<"ContractUpdate", "autoRenewAccountId">>,
     <<"NodeUpdate", "description">>, <<"NodeUpdate", "grpcWebProxyEndpoint">>,
     <<"ScheduleCreate", "expirationTime">>, <<"ScheduleCreate", "waitForExpiry">>,
     <<"TokenCreate", "customFees">>, <<"TokenCreate", "tokenType">>,
     <<"TokenCreate", "supplyType">>, <<"TokenCreate", "maxSupply">>,
     <<"Batch", "innerTransactions">>}
    \union {"AccountUpdate", "ContractUpdate"} \X {"hooksToBeCreated", "hooksToBeDeleted"}
    \union {"NodeCreate"} \X {"gossipEndpoints", "serviceEndpoints"}
    \union {"Transfer"} \X {"hbarTransfers", "tokenTransfers", "nftTransfers"}

\* A frozen transaction shows what its signatures cover: each field is what
\* its bodies carry, or what reading them made of it (Transaction.js:1697,
\* "Freeze this transaction from further modification").
FrozenShowsWhatItSigns ==
    IsFrozen =>
      \A f \in Fields(type) :
        \/ <<type, f>> \in KnownOpen
        \/ Wire(type, values)[f] \in {body[f], Wire(type, Read(type, body, foreign))[f]}

\* What reading and building again loses although it was set, loses when it
\* was zero in a wrapper that another SDK left empty, and adds.
LostWhenSet ==
    {<<"AccountCreate", "hooks">>, <<"ContractCreate", "bytecode">>,
     <<"ContractCreate", "hooks">>, <<"ScheduleCreate", "expirationTime">>,
     <<"ScheduleCreate", "waitForExpiry">>, <<"Freeze", "startTime">>, <<"Freeze", "endTime">>}
    \union {"AccountUpdate", "ContractUpdate"} \X {"hooksToBeCreated", "hooksToBeDeleted"}
LostWhenZero ==
    {<<"Transaction", "maxTransactionFee">>, <<"AccountUpdate", "receiverSignatureRequired">>,
     <<"AccountUpdate", "accountMemo">>, <<"AccountUpdate", "maxAutomaticTokenAssociations">>,
     <<"AccountUpdate", "declineStakingReward">>, <<"ContractUpdate", "contractMemo">>,
     <<"ContractUpdate", "declineStakingReward">>, <<"FileUpdate", "fileMemo">>,
     <<"NodeUpdate", "description">>, <<"NodeUpdate", "gossipCaCertificate">>,
     <<"NodeUpdate", "grpcCertificateHash">>, <<"RegisteredNodeUpdate", "description">>,
     <<"TokenUpdate", "tokenMemo">>, <<"TokenUpdate", "metadata">>,
     <<"TokenUpdateNfts", "metadata">>, <<"TopicUpdate", "topicMemo">>} \union LostWhenSet
AddedWhenAbsent ==
    {<<"Transaction", "transactionValidDuration">>,
     <<"AccountCreate", "autoRenewPeriod">>, <<"ContractCreate", "autoRenewPeriod">>,
     <<"ContractUpdate", "declineStakingReward">>, <<"FileCreate", "expirationTime">>,
     <<"TokenCreate", "expirationTime">>, <<"TokenCreate", "autoRenewPeriod">>,
     <<"TopicCreate", "autoRenewPeriod">>}

Excused(f) ==
    IF source[f] = Null
    THEN <<type, f>> \in AddedWhenAbsent /\ \A g \in ClearedBy(type, f) : source[g] = Null
    ELSE <<type, f>> \in IF source[f] = Zero THEN LostWhenZero ELSE LostWhenSet

\* A transaction read from bytes, whoever wrote them, would build the bodies it
\* was read from: what nobody set since is carried unchanged.
RebuildingKeepsFields ==
    source # None =>
      \A f \in Fields(type) \ touched : Wire(type, values)[f] = source[f] \/ Excused(f)

\* Two fields that share a oneof are never both set, so that the one set last
\* is the one that is sent; these classes' setters leave the other as it is.
KnownBoth == {"AccountCreate", "AccountUpdate", "ContractUpdate", "SystemDelete", "SystemUndelete"}
OneOfEach == type \notin KnownBoth => OneofsHold(type, values)

\* What was read once is read the same again: a second trip through bytes
\* changes nothing (but for a null declineStakingReward, which one trip turns
\* false and the next true, and for the hours and minutes of a freeze, which
\* are read and never written).
KnownDrift ==
    {<<"ContractUpdate", "declineStakingReward">>,
     <<"Freeze", "startTime">>, <<"Freeze", "endTime">>}
SecondTripIsIdle ==
    [][ReadBack /\ source # None /\ touched = {} =>
         \A f \in Fields(type) : values'[f] = values[f] \/ <<type, f>> \in KnownDrift]_vars

\* "should maintain all properties after serialization and deserialization",
\* says the test of ContractUpdateTransaction (line 156); it does not.
ContractUpdateIsMaintained ==
    [][ReadBack /\ type = "ContractUpdate" =>
         Wire(type, values') = Wire(type, values)]_vars

============================================================================
