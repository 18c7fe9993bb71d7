-------------------------- MODULE ChunkedExecution --------------------------
(***************************************************************************)
(* From execute to the receipt: transactions that are sent in chunks       *)
(* (file/FileAppendTransaction.js, topic/TopicMessageSubmitTransaction.js) *)
(* or whole (any other type), the responses they give                      *)
(* (transaction/TransactionResponse.js), and the retry of a transaction    *)
(* that was throttled at consensus.                                        *)
(*                                                                         *)
(* A call is a stack of frames, since a throttled chunk executes its       *)
(* transaction, with all of its chunks, inside the call that awaits it.    *)
(*                                                                         *)
(* Abstractions.  Contents are the numbers 1 .. Length.  A transaction ID  *)
(* is the valid start that was generated and how many chunk intervals were *)
(* added to it.  One node: which of several is asked is Executable's, and  *)
(* who has signed is Transaction's.  The client's operator pays.  Payers   *)
(* and the network's ledger are external.                                  *)
(***************************************************************************)
EXTENDS Naturals, Sequences, SequencesExt, FiniteSets, TLC

CONSTANTS
    Kinds,        \* of "plain", "file" and "topic"
    Length,       \* of the contents
    Sizes,        \* chunk sizes that are set
    Demands,      \* values client.signOnDemand takes
    MaxChunks,    \* maxChunks
    MaxRetries,   \* MAX_RETRIES of _retryTransaction
    Caller,       \* bound: calls in flight at once
    MaxCalls,     \* bound: calls the application makes
    MaxBodies,    \* bound: bodies the network takes
    MaxLapses,    \* bound: IDs generated because one has expired
    MaxDepth      \* bound: frames of a call

ASSUME ChunkedAssumption ==
    /\ Kinds \subseteq {"plain", "file", "topic"} /\ Demands \subseteq BOOLEAN
    /\ Length \in Nat \ {0} /\ Sizes \subseteq Nat \ {0} /\ Sizes # {}
    /\ {MaxChunks, MaxRetries, MaxCalls, MaxBodies, MaxLapses, MaxDepth} \subseteq Nat

VARIABLES
    tx,        \* the transaction
    stack,     \* of every caller
    responses, \* every TransactionResponse made
    returned,  \* those an application has received
    ledger,    \* external: what became of the bodies the network took, by ID
    applied,   \* external: bodies that succeeded, in order of consensus
    excused,   \* history: what makes a promise void
    calls,     \* history: calls the application has made
    lapses     \* history: IDs that have expired

vars == <<tx, stack, responses, returned, ledger, applied, excused, calls, lapses>>

-----------------------------------------------------------------------------
(* Bodies. *)

Whole == [i \in 1 .. Length |-> i]
Chunks(t) == IF t.kind = "plain" THEN 1 ELSE (Length + t.size - 1) \div t.size
TooMany(t) == t.kind # "plain" /\ Chunks(t) > MaxChunks

StartIndex(t, k) == (k - 1) * t.size
EndIndex(t, k) == IF k * t.size < Length THEN k * t.size ELSE Length

Overlapping(t, k) ==                                               \* mutant
    SubSeq(Whole, StartIndex(t, k) + 1, IF k * t.size < Length THEN k * t.size + 1 ELSE Length)
Slice(t, k) == SubSeq(Whole, StartIndex(t, k) + 1, EndIndex(t, k))

\* _makeTransactionData: a message is cut by _chunkInfo, which only freezeWith
\* sets; contents are cut by the index of the transaction ID.
Body(t, id, k, numbered) ==
    LET cut == t.kind = "file" \/ (t.kind = "topic" /\ numbered)
        part == t.kind = "topic" /\ numbered
    IN  [id |-> id, bytes |-> IF cut THEN Slice(t, k) ELSE Whole,
         number |-> IF part THEN k ELSE 0, total |-> IF part THEN Chunks(t) ELSE 0]

Current(t) == t.ids[t.index + 1]
NextIndex(t) == (t.index + 1) % Len(t.ids)

Init ==
    /\ tx \in {[kind |-> kind, client |-> demand, demand |-> FALSE, size |-> size, ids |-> <<>>,
                index |-> 0, locked |-> FALSE, rows |-> <<>>, throttled |-> FALSE, newest |-> 0] :
                  kind \in Kinds, demand \in Demands, size \in Sizes}
    /\ stack = [c \in Caller |-> <<>>]
    /\ responses = <<>>
    /\ returned = {}
    /\ ledger = <<>>
    /\ applied = <<>>
    /\ excused = {}
    /\ calls = 0
    /\ lapses = 0

-----------------------------------------------------------------------------
(* Freezing. *)

Frozen(t) == t.demand \/ t.rows # <<>>

\* Transaction.freezeWith
Named(t) ==
    IF t.locked THEN t
    ELSE [t EXCEPT !.newest = @ + 1,
                   !.ids = IF @ = <<>> THEN <<<<t.newest + 1, 0>>>>
                           ELSE [@ EXCEPT ![t.index + 1] = <<t.newest + 1, 0>>]]
FrozenOnce(t) ==
    LET named == [Named(t) EXCEPT !.demand = t.client]
    IN  IF t.client THEN named
        ELSE [named EXCEPT !.rows = <<Body(named, Current(named), 1, FALSE)>>]

\* freezeWith of the two chunked types; that of a message throws half-way when
\* it is too long.
FreezeThrows(t) == t.kind = "topic" /\ TooMany(t)
FreezeWith(t) ==
    LET once == FrozenOnce(t)
        id(k) == <<Current(once)[1], Current(once)[2] + k - 1>>
    IN  IF t.kind = "plain" \/ FreezeThrows(t) THEN once
        ELSE [once EXCEPT !.ids = [k \in 1 .. Chunks(t) |-> id(k)], !.index = 0,
                          !.locked = (t.kind = "file"),
                          !.rows = [k \in 1 .. Chunks(t) |-> Body(once, id(k), k, TRUE)]]
Ready(t) == IF Frozen(t) THEN t ELSE FreezeWith(t)

\* signWithOperator locks the IDs, unless the transaction is signed on demand
\* or the operator's key is known already.
Signed(t) == IF t.demand \/ t.throttled THEN t ELSE [t EXCEPT !.locked = TRUE]

\* _resetTransaction
Reset(t) ==
    [t EXCEPT !.ids = <<<<t.newest + 1, 0>>>>, !.newest = @ + 1, !.index = 0,
              !.locked = FALSE, !.rows = <<>>, !.throttled = TRUE]

-----------------------------------------------------------------------------
(* Calls. *)

Frame(op) == [op |-> op, pc |-> "send", round |-> 1, got |-> <<>>, response |-> 0, asked |-> <<>>]
All == Frame("all")
Receipt(r) == [Frame("receipt") EXCEPT !.pc = "ask", !.response = r, !.asked = responses[r].id]
Retrying(r) == [Frame("retry") EXCEPT !.pc = "executing", !.response = r]

Busy(c, op, pc) == stack[c] # <<>> /\ Last(stack[c]).op = op /\ Last(stack[c]).pc = pc
Set(c, frames) == stack' = [stack EXCEPT ![c] = frames]
Throw(c) == Set(c, <<>>)
Below(c) == Front(stack[c])

\* execute or executeAll, called by the application or by _retryTransaction on
\* top of `frames'.  Too many chunks make it throw: a file before it is frozen.
Starts(c, frames, t) ==
    LET ready == Ready(t)
        throws == (t.kind = "file" /\ TooMany(t)) \/ (~Frozen(t) /\ FreezeThrows(t))
    IN  /\ tx' = IF t.kind = "file" /\ TooMany(t) THEN t ELSE IF throws THEN ready ELSE Signed(ready)
        /\ IF throws THEN Throw(c) ELSE Set(c, Append(frames, All))

Why(condition, why) == IF condition THEN {why} ELSE {}
Doing(c, op) == \E i \in 1 .. Len(stack[c]) : stack[c][i].op = op

ExecuteAll(c) ==
    /\ stack[c] = <<>> /\ calls < MaxCalls
    /\ ~(tx.kind = "file" /\ TooMany(tx))
    /\ Starts(c, <<>>, tx)
    /\ excused' = excused \cup Why(tx.newest > 0, "again") \cup Why(\E d \in Caller : Doing(d, "retry"), "overlapped")
    /\ calls' = calls + 1
    /\ UNCHANGED <<responses, returned, ledger, applied, lapses>>

\* The body that _makeRequestAsync sends.
BodyOf(t) ==
    IF t.demand \/ t.throttled THEN Body(t, Current(t), t.index + 1, FALSE) ELSE t.rows[t.index + 1]
Sendable(t) == t.demand \/ t.throttled \/ t.index < Len(t.rows)

\* The network takes the body, and its answer arrives or is lost; after a lost
\* answer Executable sends the body again, or whatever Expires makes of it.
Submit(c, answered) ==
    LET t == Ready(tx)
        body == BodyOf(t)
    IN  /\ Busy(c, "all", "send")
        /\ Frozen(tx) \/ ~FreezeThrows(tx)
        /\ Cardinality(DOMAIN ledger) < MaxBodies                  \* bound
        /\ Sendable(t) /\ body.id \notin DOMAIN ledger
        /\ tx' = t
        /\ ledger' = [id \in DOMAIN ledger \cup {body.id} |->
                         IF id = body.id THEN [body |-> body, state |-> "pending"] ELSE ledger[id]]
        /\ Set(c, Append(Below(c), [Last(stack[c]) EXCEPT !.pc = IF answered THEN "answered" ELSE "send"]))
        /\ UNCHANGED <<responses, returned, applied, excused, calls, lapses>>

\* TRANSACTION_EXPIRED: an ID that is not locked is generated anew, and the next
\* attempt sends a body under it, also when an answer was lost and the network
\* has taken the body under the old one.
Expires(c) ==
    LET t == Ready(tx)
    IN  /\ Busy(c, "all", "send")
        /\ Frozen(tx) \/ ~FreezeThrows(tx)
        /\ Sendable(t) /\ ~t.locked
        /\ lapses < MaxLapses                                      \* bound
        /\ tx' = Named(t)
        /\ excused' = excused \cup Why(Current(t) \in DOMAIN ledger, "replaced")
                              \cup Why(\E d \in Caller \ {c} : Doing(d, "all"), "overlapped")
        /\ lapses' = lapses + 1
        /\ UNCHANGED <<stack, responses, returned, ledger, applied, calls>>

\* TRANSACTION_EXPIRED when the ID is locked or regenerateTransactionId is off,
\* DUPLICATE_TRANSACTION, any other refusal, attempts exhausted, no such body.
Refused(c) ==
    /\ Busy(c, "all", "send")
    /\ tx' = Ready(tx)
    /\ Throw(c)
    /\ UNCHANGED <<responses, returned, ledger, applied, excused, calls, lapses>>

\* The loop of executeAll compares with the IDs there are now.
LoopsOn(t, frame) == t.kind # "plain" /\ frame.round < Len(t.ids)

\* An executeAll that goes on, or returns to _retryTransaction, which asks for
\* the receipt of its first response, or to the application.
Continued(t, made, frames, frame) ==
    IF LoopsOn(t, frame) THEN Append(frames, [frame EXCEPT !.pc = "send", !.round = @ + 1])
    ELSE IF frames = <<>> THEN <<>>
    ELSE Append(Front(frames), [Last(frames) EXCEPT !.pc = "receipt", !.asked = made[frame.got[1]].id])
GivenBack(t, frames, frame) == IF LoopsOn(t, frame) \/ frames # <<>> THEN {} ELSE ToSet(frame.got)

\* _mapResponse; a file awaits the receipt of every chunk.
Impatient(t) == FALSE                                              \* mutant
AwaitsReceipt(t) == t.kind = "file"
Responds(c) ==
    LET made == Append(responses, [id |-> Current(tx), retried |-> FALSE])
        t == [tx EXCEPT !.index = NextIndex(tx)]
        frame == [Last(stack[c]) EXCEPT !.got = Append(@, Len(made)), !.pc = "await"]
        receipt == [Frame("receipt") EXCEPT !.pc = "ask", !.response = Len(made), !.asked = Current(tx)]
    IN  /\ Busy(c, "all", "answered")
        /\ tx' = t
        /\ responses' = made
        /\ IF AwaitsReceipt(tx)
           THEN /\ Set(c, Below(c) \o <<frame, receipt>>)
                /\ UNCHANGED returned
           ELSE /\ Set(c, Continued(t, made, Below(c), frame))
                /\ returned' = returned \cup GivenBack(t, Below(c), frame)
        /\ UNCHANGED <<ledger, applied, excused, calls, lapses>>

\* TransactionResponse.getReceipt, also for getRecord.
GetReceipt(c, r) ==
    /\ stack[c] = <<>> /\ calls < MaxCalls
    /\ Set(c, <<Receipt(r)>>)
    /\ calls' = calls + 1
    /\ UNCHANGED <<tx, responses, returned, ledger, applied, excused, lapses>>

-----------------------------------------------------------------------------
(* Receipts. *)

StateOf(id) == IF id \in DOMAIN ledger THEN ledger[id].state ELSE "unknown"
Asking(c) == Busy(c, "receipt", "ask") \/ Busy(c, "retry", "receipt")

\* SUCCESS.  What waited for it goes on.
ReceiptArrives(c) ==
    LET frames == Below(c)
    IN  /\ Asking(c) /\ StateOf(Last(stack[c]).asked) = "success"
        /\ IF frames = <<>>
           THEN /\ Throw(c)
                /\ UNCHANGED returned
           ELSE /\ Set(c, Continued(tx, responses, Front(frames), Last(frames)))
                /\ returned' = returned \cup GivenBack(tx, Front(frames), Last(frames))
        /\ UNCHANGED <<tx, responses, ledger, applied, excused, calls, lapses>>

\* Another status; or no receipt until attempts or time are exhausted.
ReceiptFails(c) ==
    /\ Asking(c) /\ StateOf(Last(stack[c]).asked) \notin {"success", "throttled"}
    /\ Throw(c)
    /\ UNCHANGED <<tx, responses, returned, ledger, applied, excused, calls, lapses>>

Unsuccessful(id) == StateOf(id) # "success"                        \* mutant
Throttled(id) == StateOf(id) = "throttled"
Renamed(r, t) == responses' = [responses EXCEPT ![r] = [id |-> Current(t), retried |-> TRUE]]
WhyVoid(c, r) ==
    Why(Chunks(tx) > 1, "reset") \cup
    Why(responses[r].retried \/ \E d \in Caller \ {c} : Doing(d, "all"), "overlapped")

\* _retryTransaction: the response is renamed by a first reset, the transaction
\* by a second one, and freezeWith may rename it once more.
StartRetry(c) ==
    LET r == Last(stack[c]).response
    IN  /\ Busy(c, "receipt", "ask") /\ Throttled(Last(stack[c]).asked)
        /\ MaxRetries > 0 /\ Len(stack[c]) < MaxDepth
        /\ Renamed(r, Reset(tx))
        /\ Starts(c, Append(Below(c), Retrying(r)), Reset(Reset(tx)))
        /\ excused' = excused \cup WhyVoid(c, r)
        /\ UNCHANGED <<returned, ledger, applied, calls, lapses>>

OnceMore(frame) == frame.round <= MaxRetries                       \* mutant
MayRetry(frame) == frame.round < MaxRetries

\* Throttled again: a reset and a wait, or the end.
ThrottledAgain(c) ==
    LET frame == Last(stack[c])
    IN  /\ Busy(c, "retry", "receipt") /\ Throttled(frame.asked)
        /\ IF MayRetry(frame)
           THEN /\ tx' = [Reset(tx) EXCEPT !.locked = TRUE]
                /\ Renamed(frame.response, Reset(tx))
                /\ Set(c, Append(Below(c), [frame EXCEPT !.pc = "waiting", !.round = @ + 1]))
           ELSE /\ Throw(c)
                /\ UNCHANGED <<tx, responses>>
        /\ UNCHANGED <<returned, ledger, applied, excused, calls, lapses>>

Resume(c) ==
    /\ Busy(c, "retry", "waiting")
    /\ Starts(c, Append(Below(c), [Last(stack[c]) EXCEPT !.pc = "executing"]), Reset(tx))
    /\ UNCHANGED <<responses, returned, ledger, applied, excused, calls, lapses>>

-----------------------------------------------------------------------------
\* setChunkSize does not look whether the transaction is frozen.
SetChunkSize(size) ==
    /\ tx.kind # "plain" /\ calls < MaxCalls
    /\ tx' = [tx EXCEPT !.size = size]
    /\ excused' = excused \cup Why(Frozen(tx), "resized")
    /\ calls' = calls + 1
    /\ UNCHANGED <<stack, responses, returned, ledger, applied, lapses>>

\* External.
Consensus(id, state) ==
    /\ StateOf(id) = "pending"
    /\ ledger' = [ledger EXCEPT ![id].state = state]
    /\ applied' = IF state = "success" THEN Append(applied, ledger[id].body) ELSE applied
    /\ UNCHANGED <<tx, stack, responses, returned, excused, calls, lapses>>

Next ==
    \/ \E c \in Caller :
          \/ ExecuteAll(c)
          \/ \E r \in returned : GetReceipt(c, r)
          \/ \E answered \in BOOLEAN : Submit(c, answered)
          \/ Expires(c) \/ Refused(c) \/ Responds(c)
          \/ ReceiptArrives(c) \/ ReceiptFails(c) \/ StartRetry(c) \/ ThrottledAgain(c) \/ Resume(c)
    \/ \E size \in Sizes : SetChunkSize(size)
    \/ \E id \in DOMAIN ledger, state \in {"success", "failed", "throttled"} : Consensus(id, state)

Spec == Init /\ [][Next]_vars

-----------------------------------------------------------------------------
(* Properties. *)

Id == (Nat \ {0}) \X (0 .. Length)
Bodies == [id : Id, bytes : Seq(1 .. Length), number : 0 .. Length, total : 0 .. Length]

\* Every variable keeps the type of what it models; the index of the IDs always
\* points at one.
TypeOK ==
    /\ tx.kind \in Kinds /\ tx.size \in Sizes
    /\ {tx.client, tx.demand, tx.locked, tx.throttled} \subseteq BOOLEAN
    /\ tx.ids \in Seq(Id) /\ (tx.ids = <<>> \/ tx.index < Len(tx.ids)) /\ tx.rows \in Seq(Bodies)
    /\ \A c \in Caller : \A i \in 1 .. Len(stack[c]) :
          stack[c][i].op = (IF i = 1 THEN stack[c][i].op ELSE
              CASE stack[c][i - 1].op = "all" -> IF stack[c][i].op = "receipt" THEN "receipt" ELSE "retry"
                [] stack[c][i - 1].op = "retry" -> "all"
                [] OTHER -> "none")
    /\ \A r \in 1 .. Len(responses) : responses[r].id \in Id
    /\ \A id \in DOMAIN ledger : ledger[id].body \in Bodies /\ ledger[id].body.id = id

\* bytes are the contents from a place on, some of them
Piece(bytes, from) == bytes # <<>> /\ \A i \in 1 .. Len(bytes) : bytes[i] = from + i - 1
After(body) == Last(body.bytes) + 1

\* A file is appended its chunks in order, each going on where the one before
\* stops, whatever chunks fail, whatever answers are lost and however late the
\* network decides, and once executeAll returns all of them; unless it is called
\* again, a chunk of several is throttled, or the chunk size is changed meanwhile.
FileHoldsContents ==
    tx.kind = "file" /\ excused = {} =>
        /\ \A i \in 1 .. Len(applied) :
              Piece(applied[i].bytes, IF i = 1 THEN 1 ELSE After(applied[i - 1]))
        /\ returned # {} => applied # <<>> /\ After(Last(applied)) = Length + 1

\* The numbered parts of a message that reach a topic are never repeated, and
\* each begins where the part numbered before it stops, the first at the
\* beginning and the last up to the end, in whatever order they came.
Numbered == {i \in 1 .. Len(applied) : applied[i].number > 0}
PartsMakeMessage ==
    /\ \A i \in Numbered :
          /\ applied[i].number = 1 => Piece(applied[i].bytes, 1)
          /\ applied[i].number = applied[i].total => After(applied[i]) = Length + 1
          /\ applied[i].number <= applied[i].total
    /\ \A i, j \in Numbered :
          /\ applied[i].number = applied[j].number => i = j
          /\ applied[j].number = applied[i].number + 1 =>
                Piece(applied[j].bytes, After(applied[i]))

\* Resending after a lost answer, also under a new ID once the old one has
\* expired, and retrying after a throttle take effect once, unless an ID is
\* replaced that the network has taken a body under, a second getReceipt of the
\* response retries it too, or the application executes the transaction while it
\* is retried or its ID replaced.
Repeats == {"overlapped", "replaced"}
AppliedOnce == tx.kind = "plain" /\ excused \cap Repeats = {} => Len(applied) <= 1

\* Each response that was retried has sent the transaction under MAX_RETRIES
\* further IDs at most, also when the application executed it again in between;
\* with the same exceptions.
Retried == {r \in 1 .. Len(responses) : responses[r].retried}
RetriesBounded ==
    tx.kind = "plain" /\ excused \cap Repeats = {} =>
        Cardinality(DOMAIN ledger) <= 1 + MaxRetries * Cardinality(Retried)

\* "The size of each chunk for a given topic message in bytes"
\* (TopicMessageSubmitTransaction.js).
ChunksWithinSize ==
    tx.kind = "topic" /\ excused = {} => \A id \in DOMAIN ledger : Len(ledger[id].body.bytes) <= tx.size
=============================================================================
