------------------------- MODULE TransactionTypes -------------------------
(***************************************************************************)
(* What every transaction class of the SDK keeps of itself: its fields,    *)
(* how its setters treat them, and what of them its body carries there     *)
(* (_makeTransactionData) and back (_fromProtobuf).  A field here is a     *)
(* setter's property; its contents are left out.                           *)
(*                                                                         *)
(* `kept` fields are messages, wrappers and oneof members: absent on the   *)
(* wire when null, zero when zero.  `flat` fields are scalars and lists:   *)
(* when null they read back as zero (external: the generated protobuf      *)
(* code).  What else a class does with a field is one of:                  *)
(*   wrapped    read only if the wrapper has a value of its own: a zero    *)
(*              another SDK sends as an empty wrapper is taken for null    *)
(*   dropsZero  zero on the wire is read as null                           *)
(*   truthy     the wrapper, never its value, is read as the boolean       *)
(*   preset     has a value before anything is set                         *)
(*   fills      set by freezeWith when null, with the field's setter       *)
(*   fillsWith  <<f, g>>: f is filled only if g is not null                *)
(*   fallsBack  set by freezeWith when null, without a setter              *)
(*   clears     <<f, g>>: setting f sets g to null                         *)
(*   ties       <<f, g>>: members of a oneof, g the one sent last          *)
(*   open       has a setter that does not require an unfrozen transaction *)
(*   adds       the add method pushes if there is a list, and else nothing *)
(*   edits      a method changes entries the list has                      *)
(*   openLists  adds or edits that do not require an unfrozen transaction  *)
(*   forgets    the clear method sets null                                 *)
(*   blanks     a clear or delete method sets zero, frozen or not          *)
(*   unread     carried by the body, ignored by _fromProtobuf              *)
(*   unwritten  set and read, never carried by the body                    *)
(*   required   freezeWith throws when null                                *)
(*   needed     _fromProtobuf throws when absent                           *)
(***************************************************************************)
EXTENDS Naturals

Plain == [kept |-> {}, flat |-> {}, wrapped |-> {}, dropsZero |-> {}, truthy |-> {},
          preset |-> {}, fills |-> {}, fillsWith |-> {}, fallsBack |-> {},
          clears |-> {}, ties |-> {}, open |-> {}, adds |-> {}, edits |-> {},
          openLists |-> {}, forgets |-> {}, blanks |-> {},
          unread |-> {}, unwritten |-> {}, required |-> {}, needed |-> {}]

Carries(kept, flat) == [Plain EXCEPT !.kept = kept, !.flat = flat]

Either(f, g) == {<<f, g>>, <<g, f>>}

----------------------------------------------------------------------------
(* What every transaction has: transaction/Transaction.js.                 *)

Transaction ==
    [Carries({"maxTransactionFee", "transactionValidDuration", "batchKey"},
             {"transactionMemo", "customFeeLimits", "highVolume"})
       EXCEPT !.preset = {"transactionValidDuration"},
              !.dropsZero = {"maxTransactionFee"},
              !.fallsBack = {"maxTransactionFee"}]

----------------------------------------------------------------------------
(* Accounts: account/.                                                     *)

AccountCreate ==
    [Carries({"key", "proxyAccountId", "autoRenewPeriod", "stakedAccountId", "stakedNodeId"},
             {"initialBalance", "receiverSignatureRequired", "accountMemo", "alias", "hooks",
              "maxAutomaticTokenAssociations", "declineStakingReward"})
       EXCEPT !.preset = {"autoRenewPeriod"},
              !.ties = {<<"stakedAccountId", "stakedNodeId">>},
              !.open = {"alias", "hooks"},
              !.unread = {"hooks"}]

AccountUpdate ==
    [Carries({"accountId", "key", "receiverSignatureRequired", "proxyAccountId",
              "autoRenewPeriod", "expirationTime", "accountMemo",
              "maxAutomaticTokenAssociations", "stakedAccountId", "stakedNodeId",
              "declineStakingReward"},
             {"hooksToBeCreated", "hooksToBeDeleted"})
       EXCEPT !.wrapped = {"receiverSignatureRequired", "accountMemo",
                           "maxAutomaticTokenAssociations", "declineStakingReward"},
              !.ties = {<<"stakedAccountId", "stakedNodeId">>},
              !.open = {"hooksToBeCreated", "hooksToBeDeleted"},
              !.forgets = {"accountMemo"},
              !.unread = {"hooksToBeCreated", "hooksToBeDeleted"}]

AccountDelete == Carries({"accountId", "transferAccountId"}, {})

AccountAllowanceApprove == Carries({}, {"hbarApprovals", "tokenApprovals", "nftApprovals"})

AccountAllowanceDelete == Carries({}, {"nftAllowances"})

LiveHashAdd == Carries({"keys", "duration", "accountId"}, {"hash"})

LiveHashDelete == Carries({"accountId"}, {"hash"})

Transfer ==
    [Carries({}, {"hbarTransfers", "tokenTransfers", "nftTransfers"})
       EXCEPT !.edits = {"hbarTransfers", "tokenTransfers", "nftTransfers"},
              !.openLists = {"hbarTransfers", "tokenTransfers", "nftTransfers"}]

----------------------------------------------------------------------------
(* Contracts: contract/, EthereumTransaction.js, hooks/.                   *)

ContractCreate ==
    [Carries({"bytecodeFileId", "bytecode", "adminKey", "proxyAccountId", "autoRenewPeriod",
              "stakedAccountId", "stakedNodeId", "autoRenewAccountId"},
             {"gas", "initialBalance", "constructorParameters", "contractMemo",
              "maxAutomaticTokenAssociations", "declineStakingReward", "hooks"})
       EXCEPT !.preset = {"autoRenewPeriod"},
              !.clears = Either("bytecodeFileId", "bytecode")
                           \union Either("stakedAccountId", "stakedNodeId"),
              !.ties = {<<"bytecodeFileId", "bytecode">>, <<"stakedAccountId", "stakedNodeId">>},
              !.open = {"maxAutomaticTokenAssociations", "hooks"},
              !.unread = {"bytecode", "hooks"}]

ContractUpdate ==
    [Carries({"contractId", "expirationTime", "adminKey", "proxyAccountId", "autoRenewPeriod",
              "bytecodeFileId", "contractMemo", "maxAutomaticTokenAssociations",
              "stakedAccountId", "stakedNodeId", "declineStakingReward", "autoRenewAccountId"},
             {"hooksToBeCreated", "hooksToBeDeleted"})
       EXCEPT !.wrapped = {"contractMemo"},
              !.truthy = {"declineStakingReward"},
              !.ties = {<<"stakedAccountId", "stakedNodeId">>},
              !.open = {"hooksToBeCreated", "hooksToBeDeleted"},
              !.forgets = {"contractMemo"},
              !.blanks = {"autoRenewAccountId"},
              !.unread = {"hooksToBeCreated", "hooksToBeDeleted"}]

ContractDelete ==
    [Carries({"contractId", "transferAccountId", "transferContractId"}, {"permanentRemoval"})
       EXCEPT !.clears = Either("transferAccountId", "transferContractId"),
              !.ties = {<<"transferAccountId", "transferContractId">>}]

ContractExecute == Carries({"contractId"}, {"gas", "amount", "functionParameters"})

Ethereum == Carries({"callDataFileId"}, {"ethereumData", "maxGasAllowance"})

HookStore == Carries({"hookId"}, {"storageUpdates"})

----------------------------------------------------------------------------
(* Files: file/.                                                           *)

FileCreate ==
    [Carries({"keys", "expirationTime"}, {"contents", "fileMemo"})
       EXCEPT !.preset = {"expirationTime"}]

FileUpdate ==
    [Carries({"fileId", "keys", "expirationTime", "fileMemo"}, {"contents"})
       EXCEPT !.wrapped = {"fileMemo"}, !.forgets = {"fileMemo"}]

FileDelete == Carries({"fileId"}, {})

FileAppend == Carries({"fileId"}, {"contents"})

----------------------------------------------------------------------------
(* Nodes: node/.                                                           *)

NodeCreate ==
    [Carries({"accountId", "adminKey", "grpcWebProxyEndpoint"},
             {"description", "gossipEndpoints", "serviceEndpoints", "gossipCaCertificate",
              "grpcCertificateHash", "declineReward", "associatedRegisteredNodes"})
       EXCEPT !.adds = {"gossipEndpoints", "serviceEndpoints"},
              !.openLists = {"gossipEndpoints", "serviceEndpoints"}]

NodeUpdate ==
    [Carries({"accountId", "description", "gossipCaCertificate", "grpcCertificateHash",
              "grpcWebProxyEndpoint", "adminKey", "declineReward", "associatedRegisteredNodes"},
             {"nodeId", "gossipEndpoints", "serviceEndpoints"})
       EXCEPT !.wrapped = {"description", "gossipCaCertificate", "grpcCertificateHash"},
              !.blanks = {"description", "grpcWebProxyEndpoint"},
              !.adds = {"gossipEndpoints", "serviceEndpoints"},
              !.required = {"nodeId"}]

NodeDelete == [Carries({}, {"nodeId"}) EXCEPT !.required = {"nodeId"}]

RegisteredNodeCreate == Carries({"adminKey"}, {"description", "serviceEndpoints"})

RegisteredNodeUpdate ==
    [Carries({"adminKey", "description"}, {"registeredNodeId", "serviceEndpoints"})
       EXCEPT !.wrapped = {"description"}]

RegisteredNodeDelete == Carries({}, {"registeredNodeId"})

----------------------------------------------------------------------------
(* Schedules, batches, the network: schedule/, transaction/, system/.      *)

ScheduleCreate ==
    [Carries({"adminKey", "payerAccountId", "scheduledTransaction", "expirationTime"},
             {"scheduleMemo", "waitForExpiry"})
       EXCEPT !.open = {"expirationTime", "waitForExpiry"},
              !.unread = {"expirationTime", "waitForExpiry"},
              !.needed = {"scheduledTransaction"}]

ScheduleDelete == Carries({"scheduleId"}, {})

ScheduleSign == Carries({"scheduleId"}, {})

Batch == [Carries({}, {"innerTransactions"}) EXCEPT !.open = {"innerTransactions"}]

Freeze ==
    [Carries({"startTimestamp", "fileId"}, {"fileHash", "freezeType", "startTime", "endTime"})
       EXCEPT !.unwritten = {"startTime", "endTime"}]

SystemDelete ==
    [Carries({"fileId", "contractId", "expirationTime"}, {})
       EXCEPT !.ties = {<<"fileId", "contractId">>}]

SystemUndelete ==
    [Carries({"fileId", "contractId"}, {}) EXCEPT !.ties = {<<"fileId", "contractId">>}]

Prng == [Carries({}, {"range"}) EXCEPT !.open = {"range"}]

----------------------------------------------------------------------------
(* Tokens: token/.                                                         *)

TokenCreate ==
    [Carries({"treasuryAccountId", "adminKey", "kycKey", "freezeKey", "pauseKey", "wipeKey",
              "supplyKey", "feeScheduleKey", "metadataKey", "autoRenewAccountId",
              "expirationTime", "autoRenewPeriod"},
             {"tokenName", "tokenSymbol", "decimals", "initialSupply", "freezeDefault",
              "tokenMemo", "customFees", "tokenType", "supplyType", "maxSupply", "metadata"})
       EXCEPT !.preset = {"expirationTime", "autoRenewPeriod"},
              !.fills = {"autoRenewAccountId"},
              !.fillsWith = {<<"autoRenewAccountId", "autoRenewPeriod">>},
              !.clears = {<<"expirationTime", "autoRenewPeriod">>},
              !.open = {"customFees", "tokenType", "supplyType", "maxSupply"}]

TokenUpdate ==
    [Carries({"tokenId", "treasuryAccountId", "adminKey", "kycKey", "freezeKey", "pauseKey",
              "wipeKey", "supplyKey", "feeScheduleKey", "metadataKey", "autoRenewAccountId",
              "expirationTime", "autoRenewPeriod", "tokenMemo", "metadata"},
             {"tokenName", "tokenSymbol", "keyVerificationMode"})
       EXCEPT !.wrapped = {"tokenMemo", "metadata"}, !.forgets = {"tokenMemo"}]

TokenDelete == Carries({"tokenId"}, {})

TokenPause == Carries({"tokenId"}, {})

TokenUnpause == Carries({"tokenId"}, {})

TokenFreeze == Carries({"tokenId", "accountId"}, {})

TokenUnfreeze == Carries({"tokenId", "accountId"}, {})

TokenGrantKyc == Carries({"tokenId", "accountId"}, {})

TokenRevokeKyc == Carries({"tokenId", "accountId"}, {})

TokenAssociate == Carries({"accountId"}, {"tokenIds"})

TokenDissociate == Carries({"accountId"}, {"tokenIds"})

TokenMint == Carries({"tokenId"}, {"amount", "metadata"})

TokenBurn == Carries({"tokenId"}, {"amount", "serials"})

TokenWipe == Carries({"tokenId", "accountId"}, {"amount", "serials"})

TokenFeeScheduleUpdate == Carries({"tokenId"}, {"customFees"})

TokenUpdateNfts ==
    [Carries({"tokenId", "metadata"}, {"serialNumbers"}) EXCEPT !.wrapped = {"metadata"}]

TokenReject == Carries({"owner"}, {"tokenIds", "nftIds"})

TokenAirdrop == Carries({}, {"tokenTransfers", "nftTransfers"})

TokenCancelAirdrop == Carries({}, {"pendingAirdropIds"})

TokenClaimAirdrop == Carries({}, {"pendingAirdropIds"})

----------------------------------------------------------------------------
(* Topics: topic/.                                                         *)

TopicCreate ==
    [Carries({"adminKey", "submitKey", "feeScheduleKey", "autoRenewAccountId",
              "autoRenewPeriod"},
             {"topicMemo", "feeExemptKeys", "customFees"})
       EXCEPT !.preset = {"autoRenewPeriod"},
              !.fills = {"autoRenewAccountId"}]

TopicUpdate ==
    [Carries({"topicId", "topicMemo", "adminKey", "submitKey", "feeScheduleKey",
              "feeExemptKeys", "autoRenewAccountId", "autoRenewPeriod", "customFees",
              "expirationTime"}, {})
       EXCEPT !.wrapped = {"topicMemo"},
              !.forgets = {"topicId", "topicMemo", "adminKey", "submitKey",
                           "feeScheduleKey", "autoRenewAccountId"}]

TopicDelete == Carries({"topicId"}, {})

TopicMessageSubmit == Carries({"topicId"}, {"message"})

----------------------------------------------------------------------------
(* The registry Transaction.fromBytes chooses from (TRANSACTION_REGISTRY).   *)

Types ==
    [Transaction |-> Transaction, AccountCreate |-> AccountCreate,
     AccountUpdate |-> AccountUpdate, AccountDelete |-> AccountDelete,
     AccountAllowanceApprove |-> AccountAllowanceApprove,
     AccountAllowanceDelete |-> AccountAllowanceDelete, LiveHashAdd |-> LiveHashAdd,
     LiveHashDelete |-> LiveHashDelete, Transfer |-> Transfer,
     ContractCreate |-> ContractCreate, ContractUpdate |-> ContractUpdate,
     ContractDelete |-> ContractDelete, ContractExecute |-> ContractExecute,
     Ethereum |-> Ethereum, HookStore |-> HookStore, FileCreate |-> FileCreate,
     FileUpdate |-> FileUpdate, FileDelete |-> FileDelete, FileAppend |-> FileAppend,
     NodeCreate |-> NodeCreate, NodeUpdate |-> NodeUpdate, NodeDelete |-> NodeDelete,
     RegisteredNodeCreate |-> RegisteredNodeCreate,
     RegisteredNodeUpdate |-> RegisteredNodeUpdate,
     RegisteredNodeDelete |-> RegisteredNodeDelete, ScheduleCreate |-> ScheduleCreate,
     ScheduleDelete |-> ScheduleDelete, ScheduleSign |-> ScheduleSign,
     Batch |-> Batch, Freeze |-> Freeze, SystemDelete |-> SystemDelete,
     SystemUndelete |-> SystemUndelete, Prng |-> Prng, TokenCreate |-> TokenCreate,
     TokenUpdate |-> TokenUpdate, TokenDelete |-> TokenDelete,
     TokenPause |-> TokenPause, TokenUnpause |-> TokenUnpause,
     TokenFreeze |-> TokenFreeze, TokenUnfreeze |-> TokenUnfreeze,
     TokenGrantKyc |-> TokenGrantKyc, TokenRevokeKyc |-> TokenRevokeKyc,
     TokenAssociate |-> TokenAssociate, TokenDissociate |-> TokenDissociate,
     TokenMint |-> TokenMint, TokenBurn |-> TokenBurn, TokenWipe |-> TokenWipe,
     TokenFeeScheduleUpdate |-> TokenFeeScheduleUpdate,
     TokenUpdateNfts |-> TokenUpdateNfts, TokenReject |-> TokenReject,
     TokenAirdrop |-> TokenAirdrop, TokenCancelAirdrop |-> TokenCancelAirdrop,
     TokenClaimAirdrop |-> TokenClaimAirdrop, TopicCreate |-> TopicCreate,
     TopicUpdate |-> TopicUpdate, TopicDelete |-> TopicDelete,
     TopicMessageSubmit |-> TopicMessageSubmit]

============================================================================
