----------------------- MODULE ChunkedExecutionProofs -----------------------
(***************************************************************************)
(* Proofs about ChunkedExecution.                                          *)
(* A transaction that is sent whole takes effect once and is sent under a  *)
(* bounded number of IDs; the parts of a message that reach a topic follow *)
(* each other, none twice; a file is appended its chunks in order, and all of*)
(* them when executeAll returns: however answers are lost, however late the*)
(* network decides and however often it throttles and is retried.          *)
(***************************************************************************)
EXTENDS ChunkedExecution, FiniteSetTheorems, SequenceTheorems, TLAPS

-----------------------------------------------------------------------------
(* The inductive invariant of a transaction that is not cut. *)

TxFields == {"kind", "client", "demand", "size", "ids", "index", "locked", "rows",
             "throttled", "newest"}

Solo == tx.kind = "plain" /\ "overlapped" \notin excused /\ "replaced" \notin excused

\* It has one ID, the newest that was generated, and the body it is frozen to
\* bears it, if that is the one to be sent.
IdOf(t) == <<t.newest, 0>>
OneBody(t) ==
    /\ DOMAIN t = TxFields /\ t.kind = "plain" /\ t.newest \in Nat /\ t.index = 0
    /\ t.ids = IF t.newest = 0 THEN <<>> ELSE <<IdOf(t)>>
    /\ t.newest = 0 => ~t.locked /\ ~Frozen(t)
    /\ t.rows # <<>> => Len(t.rows) = 1 /\ (t.demand \/ t.throttled \/ t.rows[1].id = IdOf(t))

\* The stacks there are: a call in flight, a receipt awaited, a retry with or
\* without the execution it awaits.
FrameAt(op, pc, r, k, id) ==
    [op |-> op, pc |-> pc, round |-> k, got |-> <<>>, response |-> r, asked |-> id]
Sending(pc) == FrameAt("all", pc, 0, 1, <<>>)
Awaiting(r, id) == FrameAt("receipt", "ask", r, 1, id)
RetryAt(pc, r, k, id) == FrameAt("retry", pc, r, k, id)

Executing(s) == \E pc \in {"send", "answered"} : s = <<Sending(pc)>>
Awaits(s) == \E r, id : s = <<Awaiting(r, id)>>
RetryExecuting(s) ==
    \E r, id : \E k \in 1 .. MaxRetries, pc \in {"send", "answered"} :
        s = <<RetryAt("executing", r, k, id), Sending(pc)>>
RetryPaused(s, pc) ==
    \E r, id : \E k \in 1 .. MaxRetries : s = <<RetryAt(pc, r, k, id)>>
InRetry(s) == RetryExecuting(s) \/ RetryPaused(s, "receipt") \/ RetryPaused(s, "waiting")
Answered(s) == s # <<>> /\ Last(s).op = "all" /\ Last(s).pc = "answered"

Shaped ==
    /\ stack = [c \in Caller |-> stack[c]]
    /\ \A c \in Caller :
          stack[c] = <<>> \/ Executing(stack[c]) \/ Awaits(stack[c]) \/ InRetry(stack[c])

\* Whoever executes finds the transaction frozen; only a retry that waits to
\* resume leaves it unfrozen after its first freeze.
KeptFrozen ==
    /\ \A c \in Caller : Executing(stack[c]) \/ RetryExecuting(stack[c]) => Frozen(tx)
    /\ tx.newest > 0 => Frozen(tx) \/ \E c \in Caller : RetryPaused(stack[c], "waiting")

\* One retry at a time, and nobody else executes meanwhile.
OneRetry == \A c, d \in Caller :
    c # d /\ InRetry(stack[c]) => ~InRetry(stack[d]) /\ ~Executing(stack[d])

\* The network has decided against every ID but the newest.
OthersThrottled ==
    /\ ledger = [id \in DOMAIN ledger |-> ledger[id]]
    /\ DOMAIN ledger \subseteq (1 .. tx.newest) \X {0}
    /\ \A id \in DOMAIN ledger :
          DOMAIN ledger[id] = {"body", "state"} /\ (id # IdOf(tx) => ledger[id].state = "throttled")
    /\ \/ applied = <<>> /\ \A id \in DOMAIN ledger : ledger[id].state # "success"
       \/ /\ Len(applied) = 1
          /\ IdOf(tx) \in DOMAIN ledger /\ ledger[IdOf(tx)].state = "success"

\* What may lead to a retry: an answer on its way, or a response that was handed
\* out and not retried yet.  There is one at most, and it is about the newest ID.
Response == [id : Nat \X Nat, retried : BOOLEAN]
Fresh(r) == r \in returned /\ ~responses[r].retried
OneAnswer ==
    /\ responses \in Seq(Response) /\ returned \subseteq 1 .. Len(responses)
    /\ \A c \in Caller : Answered(stack[c]) => IdOf(tx) \in DOMAIN ledger
    /\ \A c, d \in Caller : Answered(stack[c]) /\ Answered(stack[d]) => c = d
    /\ \A r \in returned : Fresh(r) =>
          /\ responses[r].id = IdOf(tx) /\ IdOf(tx) \in DOMAIN ledger
          /\ \A c \in Caller : ~Answered(stack[c]) /\ ~InRetry(stack[c])
    /\ \A r, s \in returned : Fresh(r) /\ Fresh(s) => r = s

\* A receipt is asked for by the ID its response has, until the response is
\* renamed by a retry.
AskedFor == \A c \in Caller : stack[c] # <<>> =>
    LET frame == stack[c][1]
    IN  /\ frame.op \in {"receipt", "retry"} => frame.response \in returned
        /\ frame.op = "receipt" /\ Fresh(frame.response) => frame.asked = IdOf(tx)
        /\ frame.op = "retry" => ~Fresh(frame.response)
        /\ frame.pc = "receipt" => frame.asked = IdOf(tx) /\ IdOf(tx) \in DOMAIN ledger
        /\ frame.pc = "waiting" => IdOf(tx) \notin DOMAIN ledger

\* The IDs that were used before the newest.
Spent == DOMAIN ledger \ {IdOf(tx)}
Allowed == MaxRetries * Cardinality(Retried)
Counted ==
    /\ IsFiniteSet(DOMAIN ledger)
    /\ Cardinality(Spent) <= Allowed
    /\ \A c \in Caller : InRetry(stack[c]) =>
          Cardinality(Spent) + MaxRetries <= stack[c][1].round + Allowed

SoloInv ==
    /\ OneBody(tx) /\ Shaped /\ KeptFrozen /\ OneRetry
    /\ OthersThrottled /\ OneAnswer /\ AskedFor /\ Counted

\* An ID that may still expire belongs to a body that is built when it is sent.
Marked == tx.newest > 0 => tx.locked \/ tx.demand \/ tx.throttled

ChunkInv == DOMAIN tx = TxFields /\ (Solo => SoloInv /\ Marked)

-----------------------------------------------------------------------------
(* One body: the transaction. *)

\* Freezing gives an unfrozen transaction one body, under a new ID if it is not
\* locked, and leaves a frozen one alone.
LEMMA ReadyOne ==
    ASSUME NEW t, OneBody(t)
    PROVE  /\ OneBody(Ready(t)) /\ Frozen(Ready(t))
           /\ Frozen(t) => Ready(t) = t
           /\ ~Frozen(t) /\ ~t.locked => Ready(t).newest = t.newest + 1
           /\ Ready(t).throttled = t.throttled
<1>1. CASE Frozen(t)
  BY <1>1 DEF Ready
<1>2. CASE ~Frozen(t)
  <2>1. t.rows = <<>> /\ ~t.demand
    BY <1>2 DEF Frozen, OneBody
  <2> DEFINE n == Named(t)
  <2>2. /\ DOMAIN n = TxFields /\ n.kind = "plain" /\ n.newest \in Nat /\ n.index = 0
        /\ n.newest > 0 /\ n.ids = <<<<n.newest, 0>>>> /\ n.rows = <<>>
        /\ n.client = t.client /\ n.throttled = t.throttled
        /\ ~t.locked => n.newest = t.newest + 1
    <3>1. CASE t.locked
      BY <2>1, <3>1 DEF Named, OneBody, IdOf
    <3>2. CASE ~t.locked /\ t.newest = 0
      <4>1. t.ids = <<>>
        BY <3>2 DEF OneBody
      <4>2. n = [t EXCEPT !.newest = t.newest + 1, !.ids = <<<<t.newest + 1, 0>>>>]
        BY <3>2, <4>1 DEF Named
      <4> QED BY <2>1, <3>2, <4>2 DEF OneBody, TxFields
    <3>3. CASE ~t.locked /\ t.newest # 0
      <4>1. t.ids = <<<<t.newest, 0>>>> /\ t.ids # <<>>
        BY <3>3 DEF OneBody, IdOf
      <4>2. [t.ids EXCEPT ![t.index + 1] = <<t.newest + 1, 0>>] = <<<<t.newest + 1, 0>>>>
        BY <4>1 DEF OneBody
      <4> QED BY <2>1, <3>3, <4>1, <4>2 DEF Named, OneBody, TxFields
    <3> QED BY <3>1, <3>2, <3>3 DEF OneBody
  <2> DEFINE o == FrozenOnce(t)
  <2>3. Ready(t) = o
    BY <1>2 DEF Ready, FreezeWith, OneBody
  <2>4. /\ DOMAIN o = TxFields /\ o.kind = "plain" /\ o.newest = n.newest /\ o.index = 0
        /\ o.demand = t.client /\ o.throttled = n.throttled /\ o.ids = n.ids
    BY <2>2 DEF FrozenOnce, OneBody, TxFields
  <2>5. CASE t.client
    <3>1. o.rows = <<>> /\ o.demand
      BY <2>2, <2>5 DEF FrozenOnce, TxFields
    <3> QED BY <1>2, <2>2, <2>3, <2>4, <3>1 DEF OneBody, IdOf, Frozen
  <2>6. CASE ~t.client
    <3> DEFINE m == [Named(t) EXCEPT !.demand = t.client]
    <3>1. m.ids = n.ids /\ m.index = 0 /\ Current(m) = <<n.newest, 0>>
      BY <2>2 DEF Current, TxFields
    <3>2. o.rows = <<Body(m, Current(m), 1, FALSE)>>
      BY <2>2, <2>6 DEF FrozenOnce, TxFields
    <3>3. Body(m, Current(m), 1, FALSE).id = <<n.newest, 0>>
      BY <3>1 DEF Body
    <3>4. \A b : <<b>> # <<>> /\ <<b>>[1] = b /\ Len(<<b>>) = 1
      OBVIOUS
    <3>5. o.rows # <<>> /\ o.rows[1].id = <<n.newest, 0>> /\ Len(o.rows) = 1
      BY <3>2, <3>3, <3>4
    <3> QED BY <1>2, <2>2, <2>3, <2>4, <3>5 DEF OneBody, IdOf, Frozen
  <2> QED BY <2>5, <2>6 DEF OneBody
<1> QED BY <1>1, <1>2

\* A reset names the transaction anew and forgets its body.
LEMMA ResetOne ==
    ASSUME NEW t, OneBody(t)
    PROVE  /\ OneBody(Reset(t)) /\ Reset(t).newest = t.newest + 1
           /\ ~Reset(t).locked /\ Reset(t).throttled
           /\ OneBody([Reset(t) EXCEPT !.locked = TRUE])
           /\ IdOf([Reset(t) EXCEPT !.locked = TRUE]) = IdOf(Reset(t))
           /\ Current(Reset(t)) = IdOf(Reset(t))
<1> DEFINE u == Reset(t)
<1>1. /\ DOMAIN u = TxFields /\ u.kind = "plain" /\ u.newest = t.newest + 1 /\ u.index = 0
      /\ u.client = t.client /\ u.demand = t.demand /\ ~u.locked /\ u.throttled
      /\ u.locked = FALSE /\ u.throttled = TRUE
      /\ u.ids = <<<<t.newest + 1, 0>>>> /\ u.rows = <<>>
  BY DEF Reset, OneBody, TxFields
<1>2. t.newest \in Nat
  BY DEF OneBody
<1> DEFINE v == [u EXCEPT !.locked = TRUE]
<1>3. /\ DOMAIN v = TxFields /\ v.kind = "plain" /\ v.newest = t.newest + 1 /\ v.index = 0
      /\ v.client = t.client /\ v.demand = t.demand /\ v.locked = TRUE /\ v.throttled = TRUE
      /\ v.ids = <<<<t.newest + 1, 0>>>> /\ v.rows = <<>>
  BY <1>1 DEF TxFields
<1>4. u.ids[1] = <<u.newest, 0>>
  BY <1>1
<1> HIDE DEF u, v
<1>5. OneBody(u)
  BY <1>1, <1>2 DEF OneBody, IdOf
<1>6. OneBody(v) /\ IdOf(v) = IdOf(u)
  BY <1>1, <1>2, <1>3 DEF OneBody, IdOf
<1>7. Current(u) = IdOf(u)
  BY <1>1, <1>4 DEF IdOf, Current
<1> QED BY <1>1, <1>5, <1>6, <1>7 DEF u, v

\* Signing may lock the ID and does nothing else.
LEMMA SignedOne ==
    ASSUME NEW t, OneBody(t), t.newest > 0
    PROVE  /\ OneBody(Signed(t)) /\ Signed(t).newest = t.newest
           /\ Frozen(Signed(t)) <=> Frozen(t)
<1>1. CASE t.demand \/ t.throttled
  BY <1>1 DEF Signed
<1>2. CASE ~(t.demand \/ t.throttled)
  <2> DEFINE u == [t EXCEPT !.locked = TRUE]
  <2>1. Signed(t) = u
    BY <1>2 DEF Signed
  <2>2. /\ DOMAIN u = TxFields /\ u.kind = t.kind /\ u.newest = t.newest /\ u.index = t.index
        /\ u.client = t.client /\ u.demand = t.demand /\ u.locked = TRUE
        /\ u.throttled = t.throttled /\ u.ids = t.ids /\ u.rows = t.rows
    BY DEF OneBody, TxFields
  <2> HIDE DEF u
  <2> QED BY <2>1, <2>2 DEF OneBody, IdOf, Frozen
<1> QED BY <1>1, <1>2

\* execute of a whole transaction never throws before it sends.
LEMMA StartsOne ==
    ASSUME NEW c, NEW frames, NEW t, OneBody(t), Starts(c, frames, t)
    PROVE  /\ OneBody(tx') /\ Frozen(tx') /\ tx'.newest > 0
           /\ Set(c, Append(frames, All))
           /\ Frozen(t) => tx'.newest = t.newest
           /\ ~Frozen(t) /\ ~t.locked => tx'.newest = t.newest + 1
<1>1. ~TooMany(t) /\ ~FreezeThrows(t) /\ t.kind # "file"
  BY DEF OneBody, TooMany, FreezeThrows
<1>2. tx' = Signed(Ready(t)) /\ Set(c, Append(frames, All))
  BY <1>1 DEF Starts
<1>3. Ready(t).newest > 0
  <2>1. OneBody(Ready(t)) /\ Frozen(Ready(t))
    BY ReadyOne
  <2> DEFINE u == Ready(t)
  <2> HIDE DEF u
  <2>2. OneBody(u) /\ Frozen(u) => u.newest > 0
    BY DEF OneBody
  <2> QED BY <2>1, <2>2 DEF u
<1> QED BY <1>2, <1>3, ReadyOne, SignedOne

\* What is sent bears the newest ID.
LEMMA BodyOfOne ==
    ASSUME NEW t, OneBody(t), Frozen(t)
    PROVE  BodyOf(t).id = IdOf(t) /\ t.newest > 0 /\ Current(t) = IdOf(t)
<1>1. t.newest > 0 /\ t.ids = <<IdOf(t)>> /\ t.index = 0
  BY DEF OneBody
<1>2. Current(t) = IdOf(t)
  BY <1>1 DEF Current
<1>3. Body(t, Current(t), t.index + 1, FALSE).id = IdOf(t)
  BY <1>2 DEF Body
<1>4. ~t.demand /\ ~t.throttled => t.rows # <<>> /\ t.rows[t.index + 1].id = IdOf(t)
  BY <1>1 DEF OneBody, Frozen
<1> QED BY <1>1, <1>2, <1>3, <1>4 DEF BodyOf

-----------------------------------------------------------------------------
(* One body: the stacks. *)

LEMMA FrameFields ==
    ASSUME NEW op, NEW pc, NEW r, NEW k, NEW id
    PROVE  /\ FrameAt(op, pc, r, k, id).op = op
           /\ FrameAt(op, pc, r, k, id).pc = pc
           /\ FrameAt(op, pc, r, k, id).response = r
           /\ FrameAt(op, pc, r, k, id).round = k
           /\ FrameAt(op, pc, r, k, id).asked = id
           /\ FrameAt(op, pc, r, k, id).got = <<>>
BY DEF FrameAt

LEMMA SendingMoves == \A p, q : [Sending(p) EXCEPT !.pc = q] = Sending(q)
<1>1. ASSUME NEW p, NEW q
      PROVE [FrameAt("all", p, 0, 1, <<>>) EXCEPT !.pc = q] = FrameAt("all", q, 0, 1, <<>>)
  BY DEF FrameAt
<1> QED BY <1>1 DEF Sending

LEMMA NewFrames ==
    /\ All = Sending("send")
    /\ \A r : Retrying(r) = RetryAt("executing", r, 1, <<>>)
    /\ \A r : Receipt(r) = Awaiting(r, responses[r].id)
<1>1. \A op : Frame(op) = FrameAt(op, "send", 0, 1, <<>>)
  BY DEF Frame, FrameAt
<1>2. All = Sending("send")
  BY <1>1 DEF All, Sending
<1>3. ASSUME NEW r PROVE Retrying(r) = RetryAt("executing", r, 1, <<>>)
  <2> DEFINE f == FrameAt("retry", "send", 0, 1, <<>>)
             g == FrameAt("retry", "executing", 0, 1, <<>>)
  <2>1. [f EXCEPT !.pc = "executing", !.response = r] =
            [[f EXCEPT !.pc = "executing"] EXCEPT !.response = r]
    OBVIOUS
  <2>2. [f EXCEPT !.pc = "executing"] = g
    BY DEF FrameAt
  <2>3. [g EXCEPT !.response = r] = FrameAt("retry", "executing", r, 1, <<>>)
    BY DEF FrameAt
  <2> QED BY <1>1, <2>1, <2>2, <2>3 DEF Retrying, RetryAt
<1>4. ASSUME NEW r PROVE Receipt(r) = Awaiting(r, responses[r].id)
  <2> DEFINE id == responses[r].id
             f == FrameAt("receipt", "send", 0, 1, <<>>)
             g == FrameAt("receipt", "ask", 0, 1, <<>>)
             h == FrameAt("receipt", "ask", r, 1, <<>>)
  <2>1. [f EXCEPT !.pc = "ask", !.response = r, !.asked = id] =
            [[[f EXCEPT !.pc = "ask"] EXCEPT !.response = r] EXCEPT !.asked = id]
    OBVIOUS
  <2>2. [f EXCEPT !.pc = "ask"] = g
    BY DEF FrameAt
  <2>3. [g EXCEPT !.response = r] = h
    BY DEF FrameAt
  <2>4. [h EXCEPT !.asked = id] = FrameAt("receipt", "ask", r, 1, id)
    BY DEF FrameAt
  <2> QED BY <1>1, <2>1, <2>2, <2>3, <2>4 DEF Receipt, Awaiting
<1> QED BY <1>2, <1>3, <1>4

\* The top of a stack of one frame or two, and what is below it.
LEMMA TopOfOne ==
    ASSUME NEW a
    PROVE  /\ <<a>> # <<>> /\ <<a>>[1] = a /\ Len(<<a>>) = 1
           /\ Last(<<a>>) = a /\ Front(<<a>>) = <<>> /\ Append(<<>>, a) = <<a>>
<1>1. <<a>> # <<>> /\ <<a>>[1] = a /\ Len(<<a>>) = 1 /\ Append(<<>>, a) = <<a>>
  OBVIOUS
<1>2. Front(<<a>>) = <<>>
  BY DEF Front
<1> QED BY <1>1, <1>2 DEF Last

LEMMA Appended ==
    ASSUME NEW S, NEW s \in Seq(S), NEW e \in S, NEW i \in 1 .. Len(s)
    PROVE  Append(s, e)[i] = s[i]
OBVIOUS

LEMMA CountedUpTo == ASSUME NEW m \in Nat PROVE IsFiniteSet(1 .. m)
BY FS_Interval

LEMMA TopOfTwo ==
    ASSUME NEW a, NEW b
    PROVE  /\ <<a, b>> # <<>> /\ <<a, b>>[1] = a
           /\ Last(<<a, b>>) = b /\ Front(<<a, b>>) = <<a>> /\ Append(<<a>>, b) = <<a, b>>
<1>1. <<a, b>> # <<>> /\ <<a, b>>[1] = a /\ <<a, b>>[2] = b /\ Len(<<a, b>>) = 2
  OBVIOUS
<1> DEFINE S == {a, b}
           s == <<a>>
           t == Append(s, b)
           u == <<a, b>>
           v == SubSeq(u, 1, 1)
<1>2. s \in Seq(S) /\ Len(s) = 1 /\ s[1] = a /\ b \in S
  OBVIOUS
<1>3. u \in Seq(S) /\ Len(u) = 2 /\ u[1] = a
  OBVIOUS
<1> HIDE DEF s, S, u
<1>4. t \in Seq(S)
  BY <1>2, AppendProperties
<1>5. Len(t) = Len(s) + 1
  BY <1>2, AppendProperties
<1>6. t[1] = a /\ t[Len(s) + 1] = b
  <2>1. ASSUME NEW i \in 1 .. Len(s) PROVE Append(s, b)[i] = s[i]
    BY <1>2, <2>1, Appended
  <2>2. Append(s, b)[Len(s) + 1] = b
    BY <1>2, AppendProperties
  <2>3. 1 \in 1 .. Len(s)
    BY <1>2
  <2> QED BY <1>2, <2>1, <2>2, <2>3
<1>7. v \in Seq(S) /\ Len(v) = 1 /\ v[1] = a
  BY <1>3
<1> HIDE DEF t, v
<1>8. t = <<t[1], t[2]>>
  BY <1>2, <1>4, <1>5
<1>9. v = <<v[1]>>
  BY <1>7
<1>10. Front(u) = <<a>>
  BY <1>3, <1>7, <1>9 DEF Front, v
<1>11. Append(<<a>>, b) = <<a, b>>
  BY <1>2, <1>6, <1>8 DEF s, t
<1> QED BY <1>1, <1>10, <1>11 DEF u, Last

LEMMA EmptyStack == ~Executing(<<>>) /\ ~Awaits(<<>>) /\ ~InRetry(<<>>) /\ ~Answered(<<>>)
BY DEF Executing, Awaits, InRetry, RetryExecuting, RetryPaused, Answered

LEMMA SendingStack ==
    ASSUME NEW pc \in {"send", "answered"}, NEW s, s = <<Sending(pc)>>
    PROVE  /\ Executing(s) /\ ~InRetry(s) /\ s # <<>> /\ s[1].op = "all" /\ s[1].pc = pc
           /\ Last(s) = Sending(pc) /\ Front(s) = <<>>
           /\ Answered(s) <=> pc = "answered"
<1>1. /\ s # <<>> /\ s[1].op = "all" /\ s[1].pc = pc /\ Last(s) = Sending(pc) /\ Front(s) = <<>>
      /\ Last(s).op = "all" /\ Last(s).pc = pc
  BY TopOfOne, TopOfTwo, FrameFields DEF Sending, Awaiting, RetryAt
<1>2. \A t : InRetry(t) => t[1].op = "retry"
  BY TopOfOne, TopOfTwo, FrameFields DEF Sending, Awaiting, RetryAt, InRetry, RetryExecuting, RetryPaused
<1>3. Executing(s)
  BY DEF Executing
<1> QED BY <1>1, <1>2, <1>3 DEF Answered

LEMMA AwaitingStack ==
    ASSUME NEW r, NEW id, NEW s, s = <<Awaiting(r, id)>>
    PROVE  /\ Awaits(s) /\ ~Executing(s) /\ ~InRetry(s) /\ ~Answered(s) /\ s # <<>>
           /\ s[1].op = "receipt" /\ s[1].pc = "ask" /\ s[1].response = r /\ s[1].asked = id
           /\ Last(s) = Awaiting(r, id) /\ Front(s) = <<>>
<1>1. /\ s # <<>> /\ s[1].op = "receipt" /\ s[1].pc = "ask" /\ s[1].response = r /\ s[1].asked = id
      /\ Last(s) = Awaiting(r, id) /\ Front(s) = <<>> /\ Last(s).op = "receipt"
  BY TopOfOne, TopOfTwo, FrameFields DEF Sending, Awaiting, RetryAt
<1>2. \A t : (InRetry(t) => t[1].op = "retry") /\ (Executing(t) => t[1].op = "all")
  BY TopOfOne, TopOfTwo, FrameFields DEF Sending, Awaiting, RetryAt, InRetry, RetryExecuting, RetryPaused, Executing
<1>3. Awaits(s)
  BY DEF Awaits
<1> QED BY <1>1, <1>2, <1>3 DEF Answered

LEMMA AwaitsTop ==
    ASSUME NEW s, NEW r, NEW id, s = <<Awaiting(r, id)>>
    PROVE  s[1].pc = "ask" /\ s[1].op = "receipt" /\ s # <<>> /\ ~Answered(s)
BY AwaitingStack

LEMMA RetryStack ==
    ASSUME NEW r, NEW id, NEW k \in 1 .. MaxRetries, NEW pc \in {"send", "answered"},
           NEW s, s = <<RetryAt("executing", r, k, id), Sending(pc)>>
    PROVE  /\ InRetry(s) /\ RetryExecuting(s) /\ ~Executing(s) /\ s # <<>>
           /\ s[1].op = "retry" /\ s[1].pc = "executing" /\ s[1].response = r /\ s[1].round = k
           /\ Last(s) = Sending(pc) /\ Front(s) = <<RetryAt("executing", r, k, id)>>
           /\ Answered(s) <=> pc = "answered"
<1>1. /\ s # <<>> /\ s[1].op = "retry" /\ s[1].pc = "executing" /\ s[1].response = r /\ s[1].round = k
      /\ Last(s) = Sending(pc) /\ Front(s) = <<RetryAt("executing", r, k, id)>>
      /\ Last(s).op = "all" /\ Last(s).pc = pc
  <2> DEFINE f == RetryAt("executing", r, k, id)
             g == Sending(pc)
  <2>1. f.op = "retry" /\ f.pc = "executing" /\ f.response = r /\ f.round = k
    BY FrameFields DEF RetryAt
  <2>2. g.op = "all" /\ g.pc = pc
    BY FrameFields DEF Sending
  <2> HIDE DEF f, g
  <2>3. <<f, g>> # <<>> /\ <<f, g>>[1] = f /\ Last(<<f, g>>) = g /\ Front(<<f, g>>) = <<f>>
    BY TopOfTwo
  <2>4. s = <<f, g>>
    BY DEF f, g
  <2>5. s # <<>> /\ s[1] = f /\ Last(s) = g /\ Front(s) = <<f>>
    BY <2>3, <2>4
  <2> QED BY <2>1, <2>2, <2>5 DEF f, g
<1>2. \A t : Executing(t) => t[1].op = "all"
  BY TopOfOne, TopOfTwo, FrameFields DEF Sending, Awaiting, RetryAt, Executing
<1>3. RetryExecuting(s) /\ InRetry(s)
  BY DEF RetryExecuting, InRetry
<1> QED BY <1>1, <1>2, <1>3 DEF Answered

LEMMA PausedStack ==
    ASSUME NEW pc \in {"receipt", "waiting"}, NEW r, NEW id, NEW k \in 1 .. MaxRetries,
           NEW s, s = <<RetryAt(pc, r, k, id)>>
    PROVE  /\ InRetry(s) /\ RetryPaused(s, pc) /\ ~Executing(s) /\ ~RetryExecuting(s)
           /\ ~Answered(s) /\ s # <<>>
           /\ s[1].op = "retry" /\ s[1].pc = pc /\ s[1].response = r /\ s[1].round = k
           /\ s[1].asked = id /\ Last(s) = RetryAt(pc, r, k, id) /\ Front(s) = <<>>
<1>1. /\ s # <<>> /\ s[1].op = "retry" /\ s[1].pc = pc /\ s[1].response = r /\ s[1].round = k
      /\ s[1].asked = id /\ Last(s) = RetryAt(pc, r, k, id) /\ Front(s) = <<>>
      /\ Last(s).op = "retry"
  BY TopOfOne, TopOfTwo, FrameFields DEF Sending, Awaiting, RetryAt
<1>2. \A t : (Executing(t) => t[1].op = "all") /\ (RetryExecuting(t) => t[1].pc = "executing")
  BY TopOfOne, TopOfTwo, FrameFields DEF Sending, Awaiting, RetryAt, Executing, RetryExecuting
<1>3. RetryPaused(s, pc) /\ InRetry(s)
  BY DEF RetryPaused, InRetry
<1> QED BY <1>1, <1>2, <1>3 DEF Answered

\* Which stack a caller has whose top is at a point.
LEMMA Busies ==
    ASSUME Shaped, NEW c \in Caller
    PROVE  /\ \A pc \in {"send", "answered"} : Busy(c, "all", pc) =>
                 \/ stack[c] = <<Sending(pc)>>
                 \/ \E r, id : \E k \in 1 .. MaxRetries :
                       stack[c] = <<RetryAt("executing", r, k, id), Sending(pc)>>
           /\ Busy(c, "receipt", "ask") => \E r, id : stack[c] = <<Awaiting(r, id)>>
           /\ \A pc \in {"receipt", "waiting"} : Busy(c, "retry", pc) =>
                 \E r, id : \E k \in 1 .. MaxRetries : stack[c] = <<RetryAt(pc, r, k, id)>>
<1> DEFINE s == stack[c]
<1>1. s = <<>> \/ Executing(s) \/ Awaits(s) \/ InRetry(s)
  BY DEF Shaped
<1>2. CASE s = <<>>
  BY <1>2 DEF Busy
<1>3. CASE Executing(s)
  <2>1. PICK pc \in {"send", "answered"} : s = <<Sending(pc)>>
    BY <1>3 DEF Executing
  <2>2. Last(s).op = "all" /\ Last(s).pc = pc
    BY <2>1, SendingStack, FrameFields DEF Sending, Awaiting, RetryAt
  <2> QED BY <2>1, <2>2 DEF Busy
<1>4. CASE Awaits(s)
  <2>1. PICK r, id : s = <<Awaiting(r, id)>>
    BY <1>4 DEF Awaits
  <2>2. Last(s).op = "receipt"
    BY <2>1, AwaitingStack, FrameFields DEF Sending, Awaiting, RetryAt
  <2> QED BY <2>1, <2>2 DEF Busy
<1>5. CASE RetryExecuting(s)
  <2>1. PICK r, id : \E k \in 1 .. MaxRetries, pc \in {"send", "answered"} :
            s = <<RetryAt("executing", r, k, id), Sending(pc)>>
    BY <1>5 DEF RetryExecuting
  <2>2. PICK k \in 1 .. MaxRetries, pc \in {"send", "answered"} :
            s = <<RetryAt("executing", r, k, id), Sending(pc)>>
    BY <2>1
  <2>3. Last(s).op = "all" /\ Last(s).pc = pc
    BY <2>2, RetryStack, FrameFields DEF Sending, Awaiting, RetryAt
  <2> QED BY <2>2, <2>3 DEF Busy
<1>6. ASSUME NEW pc \in {"receipt", "waiting"}, RetryPaused(s, pc)
      PROVE  /\ ~Busy(c, "all", "send") /\ ~Busy(c, "all", "answered") /\ ~Busy(c, "receipt", "ask")
             /\ \A q \in {"receipt", "waiting"} : Busy(c, "retry", q) =>
                   \E r, id : \E k \in 1 .. MaxRetries : s = <<RetryAt(q, r, k, id)>>
  <2>1. PICK r, id : \E k \in 1 .. MaxRetries : s = <<RetryAt(pc, r, k, id)>>
    BY <1>6 DEF RetryPaused
  <2>2. PICK k \in 1 .. MaxRetries : s = <<RetryAt(pc, r, k, id)>>
    BY <2>1
  <2>3. Last(s).op = "retry" /\ Last(s).pc = pc
    BY <2>2, PausedStack, FrameFields DEF Sending, Awaiting, RetryAt
  <2> QED BY <2>2, <2>3 DEF Busy
<1> QED BY <1>1, <1>2, <1>3, <1>4, <1>5, <1>6 DEF InRetry

LEMMA StackStep ==
    ASSUME stack = [d \in Caller |-> stack[d]], NEW c \in Caller, NEW frames, Set(c, frames)
    PROVE  /\ stack' = [d \in Caller |-> stack'[d]] /\ stack'[c] = frames
           /\ \A d \in Caller \ {c} : stack'[d] = stack[d]
BY DEF Set

\* Who is in a retry or executes is seen to be doing it.
LEMMA Doings ==
    ASSUME NEW c \in Caller
    PROVE  /\ InRetry(stack[c]) => Doing(c, "retry") /\ stack[c][1].op = "retry"
           /\ Executing(stack[c]) => Doing(c, "all")
<1>1. ASSUME NEW s, Executing(s) PROVE Len(s) = 1 /\ s[1].op = "all"
  BY <1>1, TopOfOne, FrameFields DEF Executing, Sending
<1>2. ASSUME NEW s, RetryExecuting(s) PROVE Len(s) = 2 /\ s[1].op = "retry"
  <2>1. PICK r, id : \E k \in 1 .. MaxRetries, pc \in {"send", "answered"} :
            s = <<RetryAt("executing", r, k, id), Sending(pc)>>
    BY <1>2 DEF RetryExecuting
  <2>2. PICK k \in 1 .. MaxRetries, pc \in {"send", "answered"} :
            s = <<RetryAt("executing", r, k, id), Sending(pc)>>
    BY <2>1
  <2>3. RetryAt("executing", r, k, id).op = "retry"
    BY FrameFields DEF RetryAt
  <2>4. \A a, b : Len(<<a, b>>) = 2 /\ <<a, b>>[1] = a
    OBVIOUS
  <2> QED BY <2>2, <2>3, <2>4
<1>3. ASSUME NEW s, NEW pc, RetryPaused(s, pc) PROVE Len(s) = 1 /\ s[1].op = "retry"
  BY <1>3, TopOfOne, FrameFields DEF RetryPaused, RetryAt
<1>4. ASSUME NEW s, InRetry(s) PROVE Len(s) \in {1, 2} /\ s[1].op = "retry"
  BY <1>2, <1>3, <1>4 DEF InRetry
<1>5. Executing(stack[c]) => 1 \in 1 .. Len(stack[c]) /\ stack[c][1].op = "all"
  BY <1>1
<1>6. InRetry(stack[c]) => 1 \in 1 .. Len(stack[c]) /\ stack[c][1].op = "retry"
  BY <1>4
<1> QED BY <1>5, <1>6 DEF Doing

-----------------------------------------------------------------------------
(* One body: the steps. *)

\* A call that ends, with an error or a receipt.
LEMMA CallEnds ==
    ASSUME SoloInv, NEW c \in Caller, Throw(c), ~RetryPaused(stack[c], "waiting"),
           UNCHANGED <<tx, responses, returned, ledger, applied>>
    PROVE  SoloInv'
<1>1. /\ stack' = [d \in Caller |-> stack'[d]] /\ stack'[c] = <<>>
      /\ \A d \in Caller \ {c} : stack'[d] = stack[d]
  BY StackStep DEF SoloInv, Shaped, Throw
<1>2. OneBody(tx)' /\ OthersThrottled'
  BY DEF SoloInv, OneBody, IdOf, Frozen, OthersThrottled
<1>3. Shaped'
  BY <1>1 DEF SoloInv, Shaped
<1>4. KeptFrozen'
  <2>1. \A d \in Caller : Executing(stack'[d]) \/ RetryExecuting(stack'[d]) => Frozen(tx)
    BY <1>1, EmptyStack DEF SoloInv, KeptFrozen, InRetry
  <2>2. \A d \in Caller : RetryPaused(stack[d], "waiting") => RetryPaused(stack'[d], "waiting")
    BY <1>1
  <2> QED BY <2>1, <2>2 DEF SoloInv, KeptFrozen
<1>5. OneRetry'
  BY <1>1, EmptyStack DEF SoloInv, OneRetry
<1>6. OneAnswer'
  BY <1>1, EmptyStack DEF SoloInv, OneAnswer, Fresh, IdOf
<1>7. AskedFor'
  BY <1>1 DEF SoloInv, AskedFor, Fresh, IdOf
<1>8. Counted'
  BY <1>1, EmptyStack DEF SoloInv, Counted, Spent, Allowed, Retried, IdOf
<1> QED BY <1>2, <1>3, <1>4, <1>5, <1>6, <1>7, <1>8 DEF SoloInv

LEMMA GetReceiptSolo ==
    ASSUME SoloInv, NEW c \in Caller, NEW r \in returned, GetReceipt(c, r)
    PROVE  SoloInv'
<1> DEFINE s == <<Awaiting(r, responses[r].id)>>
<1>1. /\ stack' = [d \in Caller |-> stack'[d]] /\ stack'[c] = s
      /\ \A d \in Caller \ {c} : stack'[d] = stack[d]
  BY StackStep, NewFrames DEF SoloInv, Shaped, GetReceipt
<1>2. /\ Awaits(s) /\ ~Executing(s) /\ ~InRetry(s) /\ ~Answered(s) /\ s # <<>>
      /\ s[1].op = "receipt" /\ s[1].pc = "ask" /\ s[1].response = r /\ s[1].asked = responses[r].id
  BY AwaitingStack
<1>u. UNCHANGED <<tx, responses, returned, ledger, applied>> /\ stack[c] = <<>>
  BY DEF GetReceipt
<1> HIDE DEF s
<1>3. OneBody(tx)' /\ OthersThrottled'
  BY <1>u DEF SoloInv, OneBody, IdOf, Frozen, OthersThrottled
<1>4. Shaped'
  BY <1>1, <1>2 DEF SoloInv, Shaped
<1>5. KeptFrozen'
  <2>1. \A d \in Caller : Executing(stack'[d]) \/ RetryExecuting(stack'[d]) => Frozen(tx)
    BY <1>1, <1>2 DEF SoloInv, KeptFrozen, InRetry
  <2>2. \A d \in Caller : RetryPaused(stack[d], "waiting") => RetryPaused(stack'[d], "waiting")
    BY <1>1, <1>u, EmptyStack DEF InRetry
  <2> QED BY <1>u, <2>1, <2>2 DEF SoloInv, KeptFrozen
<1>6. OneRetry'
  BY <1>1, <1>2 DEF SoloInv, OneRetry
<1>7. OneAnswer'
  BY <1>1, <1>2, <1>u DEF SoloInv, OneAnswer, Fresh, IdOf
<1>8. AskedFor'
  <2>1. Fresh(r) => responses[r].id = IdOf(tx)
    BY DEF SoloInv, OneAnswer
  <2> QED BY <1>1, <1>2, <1>u, <2>1 DEF SoloInv, AskedFor, Fresh, IdOf
<1>9. Counted'
  BY <1>1, <1>2, <1>u DEF SoloInv, Counted, Spent, Allowed, Retried, IdOf
<1> QED BY <1>3, <1>4, <1>5, <1>6, <1>7, <1>8, <1>9 DEF SoloInv

\* A transaction that was not frozen yet has been sent to nobody.
LEMMA Unnamed ==
    ASSUME SoloInv, tx.newest = 0
    PROVE  DOMAIN ledger = {} /\ \A r \in returned : ~Fresh(r)
<1>1. 1 .. tx.newest = {}
  OBVIOUS
<1>2. DOMAIN ledger = {}
  BY <1>1 DEF SoloInv, OthersThrottled
<1> QED BY <1>2 DEF SoloInv, OneAnswer

LEMMA ExecuteAllSolo ==
    ASSUME SoloInv, Solo', NEW c \in Caller, ExecuteAll(c)
    PROVE  SoloInv'
<1>1. \A d \in Caller : ~InRetry(stack[d])
  BY Doings DEF ExecuteAll, Solo, Why
<1>2. \A d \in Caller : ~RetryExecuting(stack[d]) /\ ~RetryPaused(stack[d], "waiting")
  BY <1>1 DEF InRetry
<1> DEFINE s == <<Sending("send")>>
<1>3. /\ OneBody(tx') /\ Frozen(tx') /\ tx'.newest > 0 /\ Set(c, Append(<<>>, All))
      /\ Frozen(tx) => tx'.newest = tx.newest
  BY StartsOne DEF SoloInv, ExecuteAll
<1>4. Append(<<>>, All) = s
  BY TopOfOne, NewFrames
<1>5. /\ stack' = [d \in Caller |-> stack'[d]] /\ stack'[c] = s
      /\ \A d \in Caller \ {c} : stack'[d] = stack[d]
  BY <1>3, <1>4, StackStep DEF SoloInv, Shaped
<1>6. /\ Executing(s) /\ ~InRetry(s) /\ ~Answered(s) /\ s # <<>>
      /\ s[1].op = "all" /\ s[1].pc = "send"
  BY SendingStack
<1>u. UNCHANGED <<responses, returned, ledger, applied>>
  BY DEF ExecuteAll
<1> HIDE DEF s
<1>7. Frozen(tx) \/ (tx.newest = 0 /\ DOMAIN ledger = {} /\ \A r \in returned : ~Fresh(r))
  BY <1>2, Unnamed DEF SoloInv, KeptFrozen, OneBody
<1>8. IdOf(tx') = IdOf(tx) \/ (DOMAIN ledger = {} /\ \A r \in returned : ~Fresh(r))
  BY <1>3, <1>7 DEF IdOf
<1>9. tx'.newest \in Nat /\ tx'.newest >= tx.newest
  BY <1>3, <1>7 DEF OneBody, SoloInv
<1>10. Shaped'
  BY <1>5, <1>6 DEF SoloInv, Shaped
<1>11. KeptFrozen'
  BY <1>3 DEF KeptFrozen
<1>12. OneRetry'
  BY <1>1, <1>5, <1>6 DEF OneRetry
<1>13. OthersThrottled'
  <2>1. DOMAIN ledger \subseteq (1 .. tx'.newest) \X {0}
    BY <1>9 DEF SoloInv, OthersThrottled, OneBody
  <2> QED BY <1>8, <1>u, <2>1 DEF SoloInv, OthersThrottled
<1>14. OneAnswer'
  <2>1. \A d \in Caller : Answered(stack'[d]) => Answered(stack[d]) /\ d # c
    BY <1>5, <1>6
  <2>2. \A d \in Caller : ~InRetry(stack'[d])
    BY <1>1, <1>5, <1>6
  <2> QED BY <1>8, <1>u, <2>1, <2>2 DEF SoloInv, OneAnswer, Fresh
<1>15. AskedFor'
  <2>1. \A r : Fresh(r)' <=> Fresh(r)
    BY <1>u DEF Fresh
  <2>2. ASSUME NEW d \in Caller, stack'[d] # <<>> PROVE d = c \/ stack'[d] = stack[d]
    BY <1>5
  <2>3. ASSUME NEW d \in Caller, d # c, stack[d] # <<>>
        PROVE stack[d][1].pc \notin {"receipt", "waiting"} /\ stack[d][1].op # "retry"
    <3>1. Executing(stack[d]) \/ Awaits(stack[d])
      BY <1>1, <2>3 DEF SoloInv, Shaped
    <3>2. CASE Executing(stack[d])
      BY <3>2, SendingStack DEF Executing
    <3>3. CASE Awaits(stack[d])
      <4>1. PICK r, id : stack[d] = <<Awaiting(r, id)>>
        BY <3>3 DEF Awaits
      <4>2. stack[d][1].pc = "ask" /\ stack[d][1].op = "receipt"
        BY <4>1, AwaitsTop
      <4> QED BY <4>2
    <3> QED BY <3>1, <3>2, <3>3
  <2> QED BY <1>5, <1>6, <1>8, <1>u, <2>1, <2>2, <2>3 DEF SoloInv, AskedFor
<1>16. Counted'
  <2>1. Spent' = Spent
    BY <1>8, <1>u DEF Spent
  <2>2. \A d \in Caller : ~InRetry(stack'[d])
    BY <1>1, <1>5, <1>6
  <2> QED BY <1>u, <2>1, <2>2 DEF SoloInv, Counted, Allowed, Retried
<1> QED BY <1>3, <1>10, <1>11, <1>12, <1>13, <1>14, <1>15, <1>16 DEF SoloInv

\* The network takes a body: the only one under the newest ID.
LEMMA SubmitSolo ==
    ASSUME SoloInv, NEW c \in Caller, NEW answered \in BOOLEAN, Submit(c, answered)
    PROVE  SoloInv'
<1> DEFINE pc == IF answered THEN "answered" ELSE "send"
<1>1. Busy(c, "all", "send") /\ pc \in {"send", "answered"}
  BY DEF Submit
<1>2. \/ stack[c] = <<Sending("send")>>
      \/ \E r, id : \E k \in 1 .. MaxRetries :
            stack[c] = <<RetryAt("executing", r, k, id), Sending("send")>>
  BY <1>1, Busies DEF SoloInv
<1>3. /\ Executing(stack[c]) \/ RetryExecuting(stack[c])
      /\ stack[c] # <<>> /\ stack[c][1].pc \notin {"receipt", "waiting"}
  <2>1. CASE stack[c] = <<Sending("send")>>
    BY <2>1, SendingStack
  <2>2. CASE \E r, id : \E k \in 1 .. MaxRetries :
            stack[c] = <<RetryAt("executing", r, k, id), Sending("send")>>
    <3>1. PICK r, id : \E k \in 1 .. MaxRetries :
              stack[c] = <<RetryAt("executing", r, k, id), Sending("send")>>
      BY <2>2
    <3>2. PICK k \in 1 .. MaxRetries :
              stack[c] = <<RetryAt("executing", r, k, id), Sending("send")>>
      BY <3>1
    <3> QED BY <3>2, RetryStack
  <2> QED BY <1>2, <2>1, <2>2
<1>4. Frozen(tx) /\ Ready(tx) = tx
  BY <1>3 DEF SoloInv, KeptFrozen, Ready
<1>5. BodyOf(tx).id = IdOf(tx) /\ tx.newest > 0
  BY <1>4, BodyOfOne DEF SoloInv
<1>6. /\ tx' = tx /\ IdOf(tx) \notin DOMAIN ledger
      /\ ledger' = [id \in DOMAIN ledger \cup {IdOf(tx)} |->
                       IF id = IdOf(tx) THEN [body |-> BodyOf(tx), state |-> "pending"] ELSE ledger[id]]
      /\ Set(c, Append(Below(c), [Last(stack[c]) EXCEPT !.pc = pc]))
      /\ UNCHANGED <<responses, returned, applied>>
  BY <1>4, <1>5 DEF Submit
<1>7. /\ DOMAIN ledger' = DOMAIN ledger \cup {IdOf(tx)}
      /\ ledger' = [id \in DOMAIN ledger' |-> ledger'[id]]
      /\ \A id \in DOMAIN ledger : ledger'[id] = ledger[id]
      /\ ledger'[IdOf(tx)] = [body |-> BodyOf(tx), state |-> "pending"]
  BY <1>6
<1>8. /\ Executing(stack[c]) =>
             Executing(stack'[c]) /\ ~InRetry(stack'[c]) /\ ~InRetry(stack[c])
      /\ RetryExecuting(stack[c]) =>
             RetryExecuting(stack'[c]) /\ ~Executing(stack'[c]) /\ ~Executing(stack[c])
      /\ Executing(stack[c]) \/ RetryExecuting(stack[c])
      /\ stack' = [d \in Caller |-> stack'[d]]
      /\ \A d \in Caller \ {c} : stack'[d] = stack[d]
      /\ stack'[c] # <<>> /\ stack'[c][1].pc \notin {"receipt", "waiting"}
      /\ stack'[c][1].op = stack[c][1].op
      /\ stack'[c][1].op = "retry" => stack'[c][1] = stack[c][1]
      /\ stack'[c][1].op # "receipt"
  <2>1. CASE stack[c] = <<Sending("send")>>
    <3>1. /\ Executing(stack[c]) /\ ~InRetry(stack[c]) /\ stack[c][1].op = "all"
          /\ Last(stack[c]) = Sending("send") /\ Front(stack[c]) = <<>>
      BY <2>1, SendingStack
    <3>2. [Sending("send") EXCEPT !.pc = pc] = Sending(pc)
      BY SendingMoves
    <3>3. Set(c, <<Sending(pc)>>)
      BY <1>6, <3>1, <3>2, TopOfOne DEF Below
    <3>4. /\ stack' = [d \in Caller |-> stack'[d]] /\ stack'[c] = <<Sending(pc)>>
          /\ \A d \in Caller \ {c} : stack'[d] = stack[d]
      BY <3>3, StackStep DEF SoloInv, Shaped
    <3>5. /\ Executing(stack'[c]) /\ ~InRetry(stack'[c]) /\ stack'[c] # <<>>
          /\ stack'[c][1].op = "all" /\ stack'[c][1].pc = pc
      BY <1>1, <3>4, SendingStack
    <3> QED BY <1>1, <3>1, <3>4, <3>5 DEF InRetry
  <2>2. CASE \E r, id : \E k \in 1 .. MaxRetries :
            stack[c] = <<RetryAt("executing", r, k, id), Sending("send")>>
    <3>1. PICK r, id : \E k \in 1 .. MaxRetries :
              stack[c] = <<RetryAt("executing", r, k, id), Sending("send")>>
      BY <2>2
    <3>2. PICK k \in 1 .. MaxRetries :
              stack[c] = <<RetryAt("executing", r, k, id), Sending("send")>>
      BY <3>1
    <3> DEFINE f == RetryAt("executing", r, k, id)
    <3>3. /\ RetryExecuting(stack[c]) /\ ~Executing(stack[c]) /\ stack[c][1].op = "retry"
          /\ Last(stack[c]) = Sending("send") /\ Front(stack[c]) = <<f>>
      BY <3>2, RetryStack
    <3>4. [Sending("send") EXCEPT !.pc = pc] = Sending(pc)
      BY SendingMoves
    <3>5. Append(<<f>>, Sending(pc)) = <<f, Sending(pc)>>
      BY TopOfTwo
    <3>6. Set(c, <<f, Sending(pc)>>)
      BY <1>6, <3>3, <3>4, <3>5 DEF Below
    <3>7. /\ stack' = [d \in Caller |-> stack'[d]] /\ stack'[c] = <<f, Sending(pc)>>
          /\ \A d \in Caller \ {c} : stack'[d] = stack[d]
      BY <3>6, StackStep DEF SoloInv, Shaped
    <3>8. /\ RetryExecuting(stack'[c]) /\ ~Executing(stack'[c]) /\ stack'[c] # <<>>
          /\ stack'[c][1].op = "retry" /\ stack'[c][1].pc = "executing"
      BY <1>1, <3>7, RetryStack
    <3>9. stack'[c][1] = stack[c][1]
      BY <3>2, <3>7, TopOfTwo
    <3> QED BY <3>3, <3>7, <3>8, <3>9
  <2> QED BY <1>2, <2>1, <2>2
<1>9. /\ \A d \in Caller : InRetry(stack'[d]) <=> InRetry(stack[d])
      /\ \A d \in Caller : Executing(stack'[d]) <=> Executing(stack[d])
  BY <1>8 DEF InRetry
<1>10. \A d \in Caller \ {c} : Executing(stack[c]) \/ RetryExecuting(stack[c]) => ~InRetry(stack[d])
  BY DEF SoloInv, OneRetry, InRetry
<1>11. OneBody(tx)' /\ KeptFrozen'
  BY <1>4, <1>6 DEF SoloInv, OneBody, IdOf, Frozen, KeptFrozen
<1>12. Shaped'
  BY <1>8 DEF SoloInv, Shaped, InRetry
<1>13. OneRetry'
  BY <1>9 DEF SoloInv, OneRetry
<1>14. OthersThrottled'
  <2>1. applied = <<>> /\ \A id \in DOMAIN ledger : ledger[id].state # "success"
    BY <1>6 DEF SoloInv, OthersThrottled
  <2>2. IdOf(tx) \in (1 .. tx.newest) \X {0}
    BY <1>5 DEF IdOf, SoloInv, OneBody
  <2>3. DOMAIN ledger'[IdOf(tx)] = {"body", "state"} /\ ledger'[IdOf(tx)].state = "pending"
    BY <1>7
  <2> QED BY <1>6, <1>7, <2>1, <2>2, <2>3 DEF SoloInv, OthersThrottled, IdOf
<1>15. OneAnswer'
  <2>1. \A d \in Caller : Answered(stack'[d]) => d = c
    BY <1>6, <1>8 DEF SoloInv, OneAnswer
  <2>2. \A r : ~Fresh(r)
    BY <1>6 DEF SoloInv, OneAnswer, Fresh
  <2>3. \A r : Fresh(r)' <=> Fresh(r)
    BY <1>6 DEF Fresh
  <2> QED BY <1>6, <1>7, <2>1, <2>2, <2>3 DEF SoloInv, OneAnswer, IdOf
<1>16. AskedFor'
  <2>1. \A r : Fresh(r)' <=> Fresh(r)
    BY <1>6 DEF Fresh
  <2>2. ASSUME NEW d \in Caller, d # c, stack[d] # <<>> PROVE stack[d][1].pc # "waiting"
    <3>1. Executing(stack[d]) \/ Awaits(stack[d])
      BY <1>8, <1>10, <2>2 DEF SoloInv, Shaped
    <3>2. CASE Executing(stack[d])
      BY <3>2, SendingStack DEF Executing
    <3>3. CASE Awaits(stack[d])
      <4>1. PICK r, id : stack[d] = <<Awaiting(r, id)>>
        BY <3>3 DEF Awaits
      <4>2. stack[d][1].pc = "ask"
        BY <4>1, AwaitsTop
      <4> QED BY <4>2
    <3> QED BY <3>1, <3>2, <3>3
  <2>3. ASSUME NEW d \in Caller, d # c, stack'[d] # <<>>
        PROVE  LET frame == stack'[d][1]
               IN  /\ frame.op \in {"receipt", "retry"} => frame.response \in returned'
                   /\ frame.op = "receipt" /\ Fresh(frame.response) => frame.asked = IdOf(tx)'
                   /\ frame.op = "retry" => ~Fresh(frame.response)
                   /\ frame.pc = "receipt" => frame.asked = IdOf(tx)' /\ IdOf(tx)' \in DOMAIN ledger'
                   /\ frame.pc = "waiting" => IdOf(tx)' \notin DOMAIN ledger'
    BY <1>6, <1>7, <1>8, <2>1, <2>2, <2>3 DEF SoloInv, AskedFor, IdOf
  <2>4. stack'[c][1].op = "retry" =>
            stack'[c][1].response \in returned' /\ ~Fresh(stack'[c][1].response)
    BY <1>3, <1>6, <1>8, <2>1 DEF SoloInv, AskedFor
  <2> QED BY <1>6, <1>8, <2>3, <2>4 DEF AskedFor, Fresh, IdOf
<1>17. Counted'
  <2>1. Spent' = Spent
    BY <1>6, <1>7 DEF Spent, IdOf
  <2>2. IsFiniteSet(DOMAIN ledger')
    BY <1>7, FS_AddElement DEF SoloInv, Counted
  <2>3. \A d \in Caller : InRetry(stack'[d]) => stack'[d][1] = stack[d][1]
    BY <1>8, <1>9, Doings
  <2>4. Allowed' = Allowed
    BY <1>6 DEF Allowed, Retried
  <2> QED BY <1>9, <2>1, <2>2, <2>3, <2>4 DEF SoloInv, Counted
<1> QED BY <1>11, <1>12, <1>13, <1>14, <1>15, <1>16, <1>17 DEF SoloInv

\* Of one ID, the next one is the same.
LEMMA NextOne ==
    ASSUME NEW t, OneBody(t), t.newest > 0
    PROVE  LET u == [t EXCEPT !.index = NextIndex(t)]
           IN  OneBody(u) /\ u.newest = t.newest /\ (Frozen(u) <=> Frozen(t)) /\ u.kind = "plain"
<1> DEFINE u == [t EXCEPT !.index = NextIndex(t)]
<1>1. t.ids = <<IdOf(t)>> /\ t.index = 0
  BY DEF OneBody
<1>2. Len(t.ids) = 1
  BY <1>1
<1>3. NextIndex(t) = 0
  BY <1>1, <1>2 DEF NextIndex
<1>4. /\ DOMAIN u = TxFields /\ u.kind = t.kind /\ u.newest = t.newest /\ u.index = 0
      /\ u.client = t.client /\ u.demand = t.demand /\ u.locked = t.locked
      /\ u.throttled = t.throttled /\ u.ids = t.ids /\ u.rows = t.rows
  BY <1>3 DEF OneBody, TxFields
<1> HIDE DEF u
<1>5. OneBody(u)
  BY <1>4 DEF OneBody, IdOf, Frozen
<1> QED BY <1>4, <1>5 DEF Frozen, OneBody, u

\* A response is added to those there are.
LEMMA ResponseAdded ==
    ASSUME NEW x \in Response, ~x.retried, responses \in Seq(Response),
           returned \subseteq 1 .. Len(responses), responses' = Append(responses, x)
    PROVE  /\ responses' \in Seq(Response) /\ Len(responses') = Len(responses) + 1
           /\ \A r \in 1 .. Len(responses) : responses'[r] = responses[r]
           /\ responses'[Len(responses) + 1] = x
           /\ Retried' = Retried
<1>1. responses' \in Seq(Response)
  BY AppendProperties
<1>2. Len(responses') = Len(responses) + 1
  BY AppendProperties
<1>3. \A r \in 1 .. Len(responses) : responses'[r] = responses[r]
  BY AppendProperties
<1>4. responses'[Len(responses) + 1] = x
  BY AppendProperties
<1>5. Retried' = Retried
  BY <1>2, <1>3, <1>4 DEF Retried
<1> QED BY <1>1, <1>2, <1>3, <1>4, <1>5

\* The answer of the network to a call of the application.
LEMMA RespondsCalled ==
    ASSUME SoloInv, NEW c \in Caller, Responds(c), stack[c] = <<Sending("answered")>>
    PROVE  SoloInv'
<1> DEFINE x == [id |-> Current(tx), retried |-> FALSE]
           made == Append(responses, x)
           t == [tx EXCEPT !.index = NextIndex(tx)]
           frame == [Last(stack[c]) EXCEPT !.got = Append(@, Len(made)), !.pc = "await"]
<1>1. /\ Executing(stack[c]) /\ ~InRetry(stack[c]) /\ Answered(stack[c])
      /\ Last(stack[c]) = Sending("answered") /\ Below(c) = <<>>
  BY SendingStack DEF Below
<1>2. Frozen(tx) /\ tx.newest > 0 /\ Current(tx) = IdOf(tx) /\ IdOf(tx) \in DOMAIN ledger
  BY <1>1, BodyOfOne DEF SoloInv, KeptFrozen, OneAnswer
<1>3. /\ OneBody(t) /\ IdOf(t) = IdOf(tx) /\ Frozen(t) /\ t.kind = "plain"
  BY <1>2, NextOne DEF SoloInv, IdOf
<1>4. /\ responses \in Seq(Response) /\ returned \subseteq 1 .. Len(responses)
  BY DEF SoloInv, OneAnswer
<1>5. x \in Response /\ ~x.retried
  BY <1>2 DEF IdOf, Response, SoloInv, OneBody
<1>6. tx' = t /\ responses' = made /\ UNCHANGED <<ledger, applied>>
  BY DEF Responds
<1>7. /\ responses' \in Seq(Response) /\ Len(responses') = Len(responses) + 1
      /\ \A r \in 1 .. Len(responses) : responses'[r] = responses[r]
      /\ responses'[Len(responses) + 1] = x
      /\ Retried' = Retried
  BY <1>4, <1>5, <1>6, ResponseAdded
<1>8. Set(c, <<>>) /\ returned' = returned \cup {Len(responses) + 1}
  <2>1. ~AwaitsReceipt(tx)
    BY DEF AwaitsReceipt, SoloInv, OneBody
  <2>2. /\ Set(c, Continued(t, made, Below(c), frame))
        /\ returned' = returned \cup GivenBack(t, Below(c), frame)
    BY <2>1 DEF Responds
  <2>3. Continued(t, made, Below(c), frame) = <<>>
    BY <1>1, <1>3 DEF Continued, LoopsOn
  <2>4. GivenBack(t, Below(c), frame) = ToSet(frame.got)
    BY <1>1, <1>3 DEF GivenBack, LoopsOn
  <2>5. frame.got = <<Len(made)>>
    <3>1. Last(stack[c]).got = <<>> /\ DOMAIN Last(stack[c]) = {"op", "pc", "round", "got", "response", "asked"}
      BY <1>1 DEF Sending, FrameAt
    <3>2. frame.got = Append(<<>>, Len(made))
      BY <3>1
    <3> QED BY <3>2, TopOfOne
  <2>6. ToSet(<<Len(made)>>) = {Len(made)}
    BY DEF ToSet
  <2> QED BY <1>6, <1>7, <2>2, <2>3, <2>4, <2>5, <2>6
<1>9. /\ stack' = [d \in Caller |-> stack'[d]] /\ stack'[c] = <<>>
      /\ \A d \in Caller \ {c} : stack'[d] = stack[d]
  BY <1>8, StackStep DEF SoloInv, Shaped
<1> HIDE DEF x, made, t
<1>10. IdOf(tx') = IdOf(tx) /\ OneBody(tx') /\ Frozen(tx') /\ tx'.newest = tx.newest
  BY <1>2, <1>3, <1>6, NextOne DEF t, SoloInv
<1>11. \A r \in returned : ~Fresh(r)
  BY <1>1 DEF SoloInv, OneAnswer
<1>12. \A d \in Caller : ~InRetry(stack[d])
  BY <1>1 DEF SoloInv, OneRetry
<1>13. \A d \in Caller : ~InRetry(stack'[d]) /\ ~Answered(stack'[d])
  BY <1>1, <1>9, <1>12, EmptyStack DEF SoloInv, OneAnswer
<1>14. x.id = IdOf(tx) /\ x.retried = FALSE
  BY <1>2 DEF x
<1>15. /\ \A r \in returned : responses'[r].retried = TRUE
       /\ responses'[Len(responses) + 1].id = IdOf(tx)
  <2>1. ASSUME NEW r \in returned PROVE responses'[r].retried = TRUE
    <3>1. responses[r] \in Response /\ responses'[r] = responses[r]
      BY <1>4, <1>7
    <3>2. responses[r].retried \in BOOLEAN
      BY <3>1 DEF Response
    <3> QED BY <1>11, <3>1, <3>2 DEF Fresh
  <2> QED BY <1>7, <1>14, <2>1
<1>16. Shaped'
  BY <1>9 DEF SoloInv, Shaped
<1>17. KeptFrozen'
  BY <1>10 DEF KeptFrozen
<1>18. OneRetry'
  BY <1>13 DEF OneRetry
<1>19. OthersThrottled'
  BY <1>6, <1>10 DEF SoloInv, OthersThrottled
<1>20. OneAnswer'
  <2>1. returned' \subseteq 1 .. Len(responses')
    <3>1. Len(responses) \in Nat
      BY <1>4
    <3>2. 1 .. Len(responses') = (1 .. Len(responses)) \cup {Len(responses) + 1}
      BY <1>7, <3>1
    <3> QED BY <1>4, <1>8, <3>2
  <2>2. \A r \in returned' : ~responses'[r].retried => r = Len(responses) + 1
    BY <1>8, <1>15
  <2> QED BY <1>2, <1>6, <1>7, <1>10, <1>13, <1>15, <2>1, <2>2 DEF OneAnswer, Fresh
<1>21. AskedFor'
  <2>1. ASSUME NEW d \in Caller, stack'[d] # <<>>
        PROVE  d # c /\ (Executing(stack[d]) \/ Awaits(stack[d]))
    BY <1>9, <1>12, <2>1 DEF SoloInv, Shaped
  <2>2. ASSUME NEW d \in Caller, Executing(stack[d])
        PROVE  stack[d][1].op = "all" /\ stack[d][1].pc \notin {"receipt", "waiting"}
    BY <2>2, SendingStack DEF Executing
  <2>3. ASSUME NEW d \in Caller, Awaits(stack[d])
        PROVE  /\ stack[d][1].op = "receipt" /\ stack[d][1].pc \notin {"receipt", "waiting"}
               /\ stack[d] # <<>>
    <3>1. PICK r, id : stack[d] = <<Awaiting(r, id)>>
      BY <2>3 DEF Awaits
    <3> QED BY <3>1, AwaitsTop
  <2>4. ASSUME NEW d \in Caller, Awaits(stack[d])
        PROVE  stack[d][1].response \in returned
    BY <2>3, <2>4 DEF SoloInv, AskedFor
  <2>5. \A r \in returned : ~(r \in returned' /\ ~responses'[r].retried)
    BY <1>15
  <2> QED BY <1>8, <1>9, <1>10, <2>1, <2>2, <2>3, <2>4, <2>5 DEF AskedFor, Fresh
<1>22. Counted'
  <2>1. Spent' = Spent /\ Allowed' = Allowed
    BY <1>6, <1>7, <1>10 DEF Spent, Allowed
  <2> QED BY <1>6, <1>13, <2>1 DEF SoloInv, Counted
<1> QED BY <1>10, <1>16, <1>17, <1>18, <1>19, <1>20, <1>21, <1>22 DEF SoloInv

\* The answer of the network to a retry, which then asks for the receipt.
LEMMA RespondsRetried ==
    ASSUME SoloInv, NEW c \in Caller, Responds(c),
           NEW r, NEW i, NEW k \in 1 .. MaxRetries,
           stack[c] = <<RetryAt("executing", r, k, i), Sending("answered")>>
    PROVE  SoloInv'
<1> DEFINE x == [id |-> Current(tx), retried |-> FALSE]
           made == Append(responses, x)
           t == [tx EXCEPT !.index = NextIndex(tx)]
           frame == [Last(stack[c]) EXCEPT !.got = Append(@, Len(made)), !.pc = "await"]
           f == RetryAt("executing", r, k, i)
           g == RetryAt("receipt", r, k, IdOf(tx))
<1>1. /\ RetryExecuting(stack[c]) /\ InRetry(stack[c]) /\ Answered(stack[c]) /\ stack[c] # <<>>
      /\ stack[c][1].op = "retry" /\ stack[c][1].response = r /\ stack[c][1].round = k
      /\ Last(stack[c]) = Sending("answered") /\ Below(c) = <<f>>
  BY RetryStack DEF Below
<1>2. Frozen(tx) /\ tx.newest > 0 /\ Current(tx) = IdOf(tx) /\ IdOf(tx) \in DOMAIN ledger
  BY <1>1, BodyOfOne DEF SoloInv, KeptFrozen, OneAnswer
<1>3. /\ OneBody(t) /\ IdOf(t) = IdOf(tx) /\ Frozen(t) /\ t.kind = "plain"
  BY <1>2, NextOne DEF SoloInv, IdOf
<1>4. /\ responses \in Seq(Response) /\ returned \subseteq 1 .. Len(responses)
  BY DEF SoloInv, OneAnswer
<1>5. x \in Response /\ ~x.retried
  BY <1>2 DEF IdOf, Response, SoloInv, OneBody
<1>6. tx' = t /\ responses' = made /\ UNCHANGED <<ledger, applied>>
  BY DEF Responds
<1>7. /\ responses' \in Seq(Response) /\ Len(responses') = Len(responses) + 1
      /\ \A s \in 1 .. Len(responses) : responses'[s] = responses[s]
      /\ responses'[Len(responses) + 1] = x
      /\ Retried' = Retried
  BY <1>4, <1>5, <1>6, ResponseAdded
<1>8. Set(c, <<g>>) /\ returned' = returned
  <2>1. ~AwaitsReceipt(tx)
    BY DEF AwaitsReceipt, SoloInv, OneBody
  <2>2. /\ Set(c, Continued(t, made, Below(c), frame))
        /\ returned' = returned \cup GivenBack(t, Below(c), frame)
    BY <2>1 DEF Responds
  <2>3. Below(c) # <<>> /\ Front(Below(c)) = <<>> /\ Last(Below(c)) = f
    BY <1>1, TopOfOne
  <2>4. Continued(t, made, Below(c), frame) =
            Append(<<>>, [f EXCEPT !.pc = "receipt", !.asked = made[frame.got[1]].id])
    BY <1>3, <2>3 DEF Continued, LoopsOn
  <2>5. GivenBack(t, Below(c), frame) = {}
    BY <2>3 DEF GivenBack
  <2>6. frame.got[1] = Len(made)
    <3>1. Last(stack[c]).got = <<>> /\ DOMAIN Last(stack[c]) = {"op", "pc", "round", "got", "response", "asked"}
      BY <1>1 DEF Sending, FrameAt
    <3>2. frame.got = Append(<<>>, Len(made))
      BY <3>1
    <3>3. frame.got = <<Len(made)>>
      BY <3>2, TopOfOne
    <3> QED BY <3>3
  <2>7. made[frame.got[1]].id = IdOf(tx)
    BY <1>2, <1>6, <1>7, <2>6
  <2>8. [f EXCEPT !.pc = "receipt", !.asked = IdOf(tx)] = g
    <3> DEFINE h == RetryAt("receipt", r, k, i)
    <3>1. [f EXCEPT !.pc = "receipt", !.asked = IdOf(tx)] =
              [[f EXCEPT !.pc = "receipt"] EXCEPT !.asked = IdOf(tx)]
      OBVIOUS
    <3>2. [f EXCEPT !.pc = "receipt"] = h
      BY DEF RetryAt, FrameAt
    <3>3. [h EXCEPT !.asked = IdOf(tx)] = g
      BY DEF RetryAt, FrameAt
    <3> QED BY <3>1, <3>2, <3>3
  <2>9. Append(<<>>, g) = <<g>>
    BY TopOfOne
  <2> QED BY <2>2, <2>4, <2>5, <2>7, <2>8, <2>9
<1>9. /\ stack' = [d \in Caller |-> stack'[d]] /\ stack'[c] = <<g>>
      /\ \A d \in Caller \ {c} : stack'[d] = stack[d]
  BY <1>8, StackStep DEF SoloInv, Shaped
<1>10. /\ InRetry(stack'[c]) /\ ~Executing(stack'[c]) /\ ~RetryExecuting(stack'[c])
       /\ ~Answered(stack'[c]) /\ stack'[c][1].op = "retry" /\ stack'[c][1].pc = "receipt"
       /\ stack'[c][1].response = r /\ stack'[c][1].round = k /\ stack'[c][1].asked = IdOf(tx)
  BY <1>9, PausedStack
<1> HIDE DEF x, made, t, f, g
<1>11. IdOf(tx') = IdOf(tx) /\ OneBody(tx') /\ Frozen(tx') /\ tx'.newest = tx.newest
  BY <1>2, <1>3, <1>6, NextOne DEF t, SoloInv
<1>12. \A s : (s \in returned' /\ ~responses'[s].retried) => Fresh(s)
  BY <1>4, <1>7, <1>8 DEF Fresh
<1>13. \A s \in returned : ~Fresh(s)
  BY <1>1 DEF SoloInv, OneAnswer
<1>14. \A d \in Caller \ {c} : ~InRetry(stack[d]) /\ ~Executing(stack[d])
  BY <1>1 DEF SoloInv, OneRetry
<1>15. \A d \in Caller : ~Answered(stack'[d])
  BY <1>1, <1>9, <1>10 DEF SoloInv, OneAnswer
<1>16. Shaped'
  BY <1>9, <1>10 DEF SoloInv, Shaped
<1>17. KeptFrozen'
  BY <1>11 DEF KeptFrozen
<1>18. OneRetry'
  BY <1>9, <1>10, <1>14 DEF OneRetry
<1>19. OthersThrottled'
  BY <1>6, <1>11 DEF SoloInv, OthersThrottled
<1>20. OneAnswer'
  <2>1. returned' \subseteq 1 .. Len(responses')
    <3>1. Len(responses) \in Nat
      BY <1>4
    <3>2. 1 .. Len(responses) \subseteq 1 .. Len(responses')
      BY <1>7, <3>1
    <3> QED BY <1>4, <1>8, <3>2
  <2>2. \A s \in returned' : responses'[s].retried
    BY <1>8, <1>12, <1>13 DEF Fresh
  <2> QED BY <1>7, <1>15, <2>1, <2>2 DEF OneAnswer, Fresh
<1>21. AskedFor'
  <2>1. ASSUME NEW d \in Caller, stack'[d] # <<>>, d # c PROVE Awaits(stack[d])
    BY <1>9, <1>14, <2>1 DEF SoloInv, Shaped
  <2>2. ASSUME NEW d \in Caller, Awaits(stack[d])
        PROVE  /\ stack[d][1].op = "receipt" /\ stack[d][1].pc = "ask"
               /\ stack[d] # <<>>
    <3>1. PICK s, id : stack[d] = <<Awaiting(s, id)>>
      BY <2>2 DEF Awaits
    <3> QED BY <3>1, AwaitsTop
  <2>3. ASSUME NEW d \in Caller, Awaits(stack[d])
        PROVE  stack[d][1].response \in returned
    BY <2>2, <2>3 DEF SoloInv, AskedFor
  <2>4. r \in returned
    BY <1>1 DEF SoloInv, AskedFor
  <2>5. \A s : ~(s \in returned' /\ ~responses'[s].retried)
    BY <1>8, <1>12, <1>13
  <2> QED BY <1>2, <1>6, <1>8, <1>9, <1>10, <1>11, <2>1, <2>2, <2>3, <2>4, <2>5 DEF AskedFor, Fresh
<1>22. Counted'
  <2>1. Spent' = Spent /\ Allowed' = Allowed
    BY <1>6, <1>7, <1>11 DEF Spent, Allowed
  <2>2. \A d \in Caller : InRetry(stack'[d]) => d = c
    BY <1>9, <1>14
  <2> QED BY <1>1, <1>6, <1>10, <2>1, <2>2 DEF SoloInv, Counted
<1> QED BY <1>11, <1>16, <1>17, <1>18, <1>19, <1>20, <1>21, <1>22 DEF SoloInv

\* A retry takes a new ID when every ID so far was throttled.
LEMMA Renews ==
    ASSUME SoloInv, NEW c \in Caller, NEW s, NEW r \in returned, NEW i, NEW k \in 1 .. MaxRetries,
           Set(c, s),
           \/ s = <<RetryAt("waiting", r, k, i)>>
           \/ s = <<RetryAt("executing", r, k, i), Sending("send")>> /\ Frozen(tx'),
           OneBody(tx'), tx'.newest > tx.newest,
           \A d \in Caller \ {c} : ~InRetry(stack[d]) /\ ~Executing(stack[d]),
           \A id \in DOMAIN ledger : ledger[id].state = "throttled",
           responses' \in Seq(Response), Len(responses') = Len(responses),
           \A q \in returned : responses'[q].retried,
           UNCHANGED <<returned, ledger, applied>>,
           Cardinality(DOMAIN ledger) + MaxRetries <= k + Allowed'
    PROVE  SoloInv'
<1>1. /\ stack' = [d \in Caller |-> stack'[d]] /\ stack'[c] = s
      /\ \A d \in Caller \ {c} : stack'[d] = stack[d]
  BY StackStep DEF SoloInv, Shaped
<1>2. /\ InRetry(s) /\ ~Executing(s) /\ ~Answered(s) /\ s # <<>>
      /\ s[1].op = "retry" /\ s[1].response = r /\ s[1].round = k
      /\ s[1].pc = "waiting" \/ (s[1].pc = "executing" /\ Frozen(tx'))
      /\ RetryExecuting(s) => Frozen(tx')
      /\ Frozen(tx') \/ RetryPaused(s, "waiting")
  <2>1. CASE s = <<RetryAt("waiting", r, k, i)>>
    BY <2>1, PausedStack
  <2>2. CASE s = <<RetryAt("executing", r, k, i), Sending("send")>> /\ Frozen(tx')
    BY <2>2, RetryStack
  <2> QED BY <2>1, <2>2
<1>3. IdOf(tx') \notin DOMAIN ledger
  <2>1. <<tx'.newest, 0>> \notin (1 .. tx.newest) \X {0}
    BY DEF SoloInv, OneBody
  <2> QED BY <2>1 DEF SoloInv, OthersThrottled, IdOf
<1>4. \A q \in returned' : ~Fresh(q)'
  BY DEF Fresh
<1>5. Shaped'
  BY <1>1, <1>2 DEF SoloInv, Shaped
<1>6. KeptFrozen'
  <2>1. \A d \in Caller : Executing(stack'[d]) \/ RetryExecuting(stack'[d]) => Frozen(tx')
    BY <1>1, <1>2 DEF InRetry
  <2>2. Frozen(tx') \/ \E d \in Caller : RetryPaused(stack'[d], "waiting")
    BY <1>1, <1>2
  <2> QED BY <2>1, <2>2 DEF KeptFrozen
<1>7. OneRetry'
  BY <1>1, <1>2 DEF OneRetry
<1>8. OthersThrottled'
  <2>1. DOMAIN ledger \subseteq (1 .. tx'.newest) \X {0}
    <3>1. 1 .. tx.newest \subseteq 1 .. tx'.newest
      BY DEF SoloInv, OneBody
    <3> QED BY <3>1 DEF SoloInv, OthersThrottled
  <2>2. \A id \in DOMAIN ledger : ledger[id].state # "success"
    OBVIOUS
  <2>3. applied = <<>>
    BY <2>2 DEF SoloInv, OthersThrottled
  <2> QED BY <2>1, <2>2, <2>3 DEF SoloInv, OthersThrottled
<1>9. OneAnswer'
  <2>1. \A d \in Caller : ~Answered(stack'[d])
    <3>1. ASSUME NEW d \in Caller \ {c} PROVE ~Answered(stack[d])
      <4>1. CASE stack[d] = <<>>
        BY <4>1, EmptyStack
      <4>2. CASE Awaits(stack[d])
        <5>1. PICK q, id : stack[d] = <<Awaiting(q, id)>>
          BY <4>2 DEF Awaits
        <5> QED BY <5>1, AwaitsTop
      <4> QED BY <4>1, <4>2 DEF SoloInv, Shaped
    <3> QED BY <1>1, <1>2, <3>1
  <2>2. returned' \subseteq 1 .. Len(responses')
    BY DEF SoloInv, OneAnswer
  <2> QED BY <1>4, <2>1, <2>2 DEF OneAnswer
<1>10. AskedFor'
  <2>1. ASSUME NEW d \in Caller, stack'[d] # <<>>, d # c PROVE Awaits(stack[d])
    BY <1>1, <2>1 DEF SoloInv, Shaped
  <2>2. ASSUME NEW d \in Caller, Awaits(stack[d])
        PROVE  /\ stack[d][1].op = "receipt" /\ stack[d][1].pc = "ask"
               /\ stack[d][1].response \in returned
    <3>1. PICK q, id : stack[d] = <<Awaiting(q, id)>>
      BY <2>2 DEF Awaits
    <3>2. stack[d][1].op = "receipt" /\ stack[d][1].pc = "ask" /\ stack[d] # <<>>
      BY <3>1, AwaitsTop
    <3> QED BY <3>2 DEF SoloInv, AskedFor
  <2> QED BY <1>1, <1>2, <1>3, <2>1, <2>2 DEF AskedFor, Fresh
<1>11. Counted'
  <2>1. Spent' = DOMAIN ledger
    BY <1>3 DEF Spent
  <2>2. Cardinality(DOMAIN ledger) \in Nat /\ IsFiniteSet(DOMAIN ledger)
    BY FS_CardinalityType DEF SoloInv, Counted
  <2>3. MaxRetries \in Nat
    BY ChunkedAssumption
  <2>4. MaxRetries * Cardinality(Retried') \in Nat
    <3>1. Retried' \subseteq 1 .. Len(responses') /\ Len(responses') \in Nat
      BY DEF Retried
    <3>2. IsFiniteSet(Retried')
      <4> DEFINE m == Len(responses')
      <4>1. m \in Nat /\ Retried' \subseteq 1 .. m
        BY <3>1
      <4> HIDE DEF m
      <4>2. IsFiniteSet(1 .. m)
        BY <4>1, CountedUpTo
      <4> QED BY <4>1, <4>2, FS_Subset
    <3> DEFINE n == Cardinality(Retried')
    <3>3. n \in Nat
      BY <3>2, FS_CardinalityType
    <3> HIDE DEF n
    <3>4. MaxRetries * n \in Nat
      BY <2>3, <3>3
    <3> QED BY <3>4 DEF n
  <2> DEFINE a == Allowed'
             l == Cardinality(DOMAIN ledger)
  <2>5. a \in Nat /\ l \in Nat /\ l + MaxRetries <= k + a
    BY <2>2, <2>4 DEF Allowed
  <2> HIDE DEF a, l
  <2>6. l <= a
    BY <2>3, <2>5
  <2>7. Cardinality(Spent') <= Allowed' /\ Cardinality(Spent') + MaxRetries <= k + Allowed'
    BY <2>1, <2>5, <2>6 DEF a, l
  <2>8. \A d \in Caller : InRetry(stack'[d]) => stack'[d][1].round = k
    BY <1>1, <1>2
  <2> QED BY <2>2, <2>7, <2>8 DEF Counted
<1> QED BY <1>5, <1>6, <1>7, <1>8, <1>9, <1>10, <1>11 DEF SoloInv

\* A response that is renamed counts as retried.
LEMMA Renames ==
    ASSUME NEW r \in 1 .. Len(responses), NEW t, OneBody(t), t.newest > 0,
           responses \in Seq(Response), Renamed(r, t)
    PROVE  /\ responses' \in Seq(Response) /\ Len(responses') = Len(responses)
           /\ responses'[r].retried
           /\ \A q \in 1 .. Len(responses) : q # r => responses'[q] = responses[q]
           /\ Retried' = Retried \cup {r}
<1> DEFINE x == [id |-> Current(t), retried |-> TRUE]
<1>1. t.ids = <<IdOf(t)>> /\ t.index = 0 /\ t.newest \in Nat
  BY DEF OneBody
<1>2. Current(t) = <<t.newest, 0>>
  BY <1>1 DEF Current, IdOf
<1>3. x \in Response /\ x.retried = TRUE
  <2>1. Current(t) \in Nat \X Nat
    BY <1>1, <1>2
  <2> QED BY <2>1 DEF Response
<1>4. responses' = [responses EXCEPT ![r] = x]
  BY DEF Renamed
<1> HIDE DEF x
<1>5. responses' \in Seq(Response) /\ Len(responses') = Len(responses) /\ responses'[r] = x
  BY <1>3, <1>4
<1>6. \A q \in 1 .. Len(responses) : q # r => responses'[q] = responses[q]
  BY <1>4
<1>7. Retried' = Retried \cup {r}
  BY <1>3, <1>5, <1>6 DEF Retried
<1> QED BY <1>3, <1>5, <1>6, <1>7

\* The bounds of the count, for the arithmetic below.
LEMMA Counts ==
    ASSUME SoloInv
    PROVE  /\ IsFiniteSet(Retried) /\ Cardinality(Retried) \in Nat /\ Allowed \in Nat
           /\ MaxRetries \in Nat /\ Cardinality(Spent) \in Nat
           /\ Cardinality(DOMAIN ledger) \in Nat
           /\ Cardinality(DOMAIN ledger) <= Cardinality(Spent) + 1
           /\ IdOf(tx) \notin DOMAIN ledger => Cardinality(DOMAIN ledger) = Cardinality(Spent)
<1>1. IsFiniteSet(Retried)
  <2>1. Len(responses) \in Nat
    BY DEF SoloInv, OneAnswer
  <2>2. IsFiniteSet(1 .. Len(responses))
    BY <2>1, CountedUpTo
  <2>3. Retried \subseteq 1 .. Len(responses)
    BY DEF Retried
  <2> QED BY <2>2, <2>3, FS_Subset
<1>2. Cardinality(Retried) \in Nat
  BY <1>1, FS_CardinalityType
<1>3. MaxRetries \in Nat
  BY ChunkedAssumption
<1> DEFINE n == Cardinality(Retried)
<1>4. Allowed \in Nat
  <2>1. n \in Nat
    BY <1>2
  <2> HIDE DEF n
  <2>2. MaxRetries * n \in Nat
    BY <1>3, <2>1
  <2> QED BY <2>2 DEF Allowed, n
<1>5. IsFiniteSet(DOMAIN ledger)
  BY DEF SoloInv, Counted
<1>6. Cardinality(DOMAIN ledger) \in Nat
  BY <1>5, FS_CardinalityType
<1>7. IsFiniteSet(Spent) /\ Cardinality(Spent) =
          IF IdOf(tx) \in DOMAIN ledger THEN Cardinality(DOMAIN ledger) - 1
          ELSE Cardinality(DOMAIN ledger)
  BY <1>5, FS_RemoveElement DEF Spent
<1>8. Cardinality(Spent) \in Nat
  BY <1>7, FS_CardinalityType
<1> QED BY <1>1, <1>2, <1>3, <1>4, <1>6, <1>7, <1>8

\* getReceipt finds the transaction throttled and executes it under a new ID.
LEMMA StartRetrySolo ==
    ASSUME SoloInv, Solo', NEW c \in Caller, StartRetry(c)
    PROVE  SoloInv'
<1>1. PICK r, i : stack[c] = <<Awaiting(r, i)>>
  BY Busies DEF StartRetry, SoloInv
<1>2. /\ stack[c] # <<>> /\ stack[c][1].op = "receipt" /\ stack[c][1].response = r
      /\ stack[c][1].asked = i /\ ~Executing(stack[c])
      /\ Last(stack[c]) = Awaiting(r, i) /\ Below(c) = <<>>
  BY <1>1, AwaitingStack DEF Below
<1>3. Awaiting(r, i).response = r /\ Awaiting(r, i).asked = i
  BY FrameFields DEF Awaiting
<1>4. Throttled(i) /\ MaxRetries > 0 /\ r = Last(stack[c]).response
  BY <1>2, <1>3 DEF StartRetry
<1>5. ~responses[r].retried /\ \A d \in Caller \ {c} : ~Doing(d, "all")
  BY <1>4 DEF StartRetry, Solo, WhyVoid, Why
<1>6. r \in returned /\ Fresh(r) /\ i = IdOf(tx)
  BY <1>2, <1>5 DEF SoloInv, AskedFor, Fresh
<1>7. /\ \A d \in Caller : ~InRetry(stack[d])
      /\ \A q \in returned : q # r => responses[q].retried
      /\ r \in 1 .. Len(responses)
  BY <1>6 DEF SoloInv, OneAnswer, Fresh
<1>8. \A d \in Caller \ {c} : ~InRetry(stack[d]) /\ ~Executing(stack[d])
  BY <1>5, <1>7, Doings
<1>9. IdOf(tx) \in DOMAIN ledger /\ ledger[IdOf(tx)].state = "throttled"
  BY <1>4, <1>6 DEF Throttled, StateOf
<1>10. \A id \in DOMAIN ledger : ledger[id].state = "throttled"
  BY <1>9 DEF SoloInv, OthersThrottled
<1> DEFINE t == Reset(tx)
           u == Reset(Reset(tx))
           s == <<RetryAt("executing", r, 1, <<>>), Sending("send")>>
<1>11. OneBody(tx) /\ tx.newest \in Nat
  BY DEF SoloInv, OneBody
<1>12. OneBody(t) /\ t.newest = tx.newest + 1
  BY <1>11, ResetOne
<1>13. OneBody(u) /\ u.newest = t.newest + 1 /\ ~u.locked
  BY <1>12, ResetOne
<1>14. /\ Starts(c, Append(Below(c), Retrying(r)), u) /\ Renamed(r, t)
       /\ UNCHANGED <<returned, ledger, applied>>
  BY <1>4 DEF StartRetry
<1> HIDE DEF t, u, s
<1>15. /\ OneBody(tx') /\ Frozen(tx') /\ tx'.newest > tx.newest
       /\ Set(c, Append(Append(Below(c), Retrying(r)), All))
  BY <1>11, <1>12, <1>13, <1>14, StartsOne
<1>16. Append(Append(Below(c), Retrying(r)), All) = s
  <2> DEFINE f == RetryAt("executing", r, 1, <<>>)
  <2>1. Append(<<>>, f) = <<f>> /\ Append(<<f>>, All) = <<f, All>>
    BY TopOfOne, TopOfTwo
  <2> QED BY <1>2, <2>1, NewFrames DEF s
<1>17. Set(c, s)
  BY <1>15, <1>16
<1>18. /\ responses' \in Seq(Response) /\ Len(responses') = Len(responses)
       /\ responses'[r].retried
       /\ \A q \in 1 .. Len(responses) : q # r => responses'[q] = responses[q]
       /\ Retried' = Retried \cup {r}
  BY <1>7, <1>11, <1>12, <1>14, Renames DEF SoloInv, OneAnswer
<1>19. \A q \in returned : responses'[q].retried
  BY <1>7, <1>18 DEF SoloInv, OneAnswer
<1>20. 1 \in 1 .. MaxRetries
  BY <1>4, Counts
<1>21. Cardinality(DOMAIN ledger) + MaxRetries <= 1 + Allowed'
  <2>1. r \notin Retried
    BY <1>5 DEF Retried
  <2>2. Cardinality(Retried') = Cardinality(Retried) + 1
    BY <1>18, <2>1, Counts, FS_AddElement
  <2>3. \A n \in Nat : MaxRetries * (n + 1) = MaxRetries * n + MaxRetries
    BY Counts
  <2>4. Allowed' = Allowed + MaxRetries
    BY <2>2, <2>3, Counts DEF Allowed
  <2>5. Cardinality(Spent) <= Allowed
    BY DEF SoloInv, Counted
  <2> DEFINE p == Cardinality(Spent)
             l == Cardinality(DOMAIN ledger)
  <2>6. p \in Nat /\ l \in Nat /\ l <= p + 1 /\ p <= Allowed /\ Allowed \in Nat /\ MaxRetries \in Nat
    BY <2>5, Counts
  <2> HIDE DEF p, l
  <2>7. l + MaxRetries <= 1 + (Allowed + MaxRetries)
    BY <2>6
  <2> QED BY <2>4, <2>7 DEF l
<1>22. s = <<RetryAt("executing", r, 1, <<>>), Sending("send")>>
  BY DEF s
<1> QED
  BY <1>6, <1>8, <1>10, <1>14, <1>15, <1>17, <1>18, <1>19, <1>20, <1>21, <1>22, Renews

\* A retry that is throttled again gives up, or resets and waits.
LEMMA ThrottledAgainSolo ==
    ASSUME SoloInv, NEW c \in Caller, ThrottledAgain(c)
    PROVE  SoloInv'
<1>1. PICK r, i : \E k \in 1 .. MaxRetries : stack[c] = <<RetryAt("receipt", r, k, i)>>
  BY Busies DEF ThrottledAgain, SoloInv
<1>2. PICK k \in 1 .. MaxRetries : stack[c] = <<RetryAt("receipt", r, k, i)>>
  BY <1>1
<1> DEFINE f == RetryAt("receipt", r, k, i)
           g == RetryAt("waiting", r, k + 1, i)
<1>3. /\ stack[c] # <<>> /\ InRetry(stack[c])
      /\ stack[c][1].op = "retry" /\ stack[c][1].pc = "receipt" /\ stack[c][1].response = r
      /\ stack[c][1].round = k /\ stack[c][1].asked = i
      /\ Last(stack[c]) = f /\ Below(c) = <<>>
  BY <1>2, PausedStack DEF Below
<1>4. f.response = r /\ f.round = k /\ f.asked = i
  BY FrameFields DEF RetryAt
<1>5. i = IdOf(tx) /\ IdOf(tx) \in DOMAIN ledger /\ r \in returned /\ ~Fresh(r)
  BY <1>3 DEF SoloInv, AskedFor
<1>6. ledger[IdOf(tx)].state = "throttled" /\ UNCHANGED <<returned, ledger, applied>>
  BY <1>3, <1>4, <1>5 DEF ThrottledAgain, Throttled, StateOf
<1>7. CASE ~MayRetry(f)
  <2>1. Throw(c) /\ UNCHANGED <<tx, responses>>
    BY <1>3, <1>7 DEF ThrottledAgain
  <2>2. ~RetryPaused(stack[c], "waiting")
    <3>1. ASSUME NEW q, RetryPaused(stack[c], q) PROVE stack[c][1].pc = q
      BY <3>1, TopOfOne, FrameFields DEF RetryPaused, RetryAt
    <3> QED BY <1>3, <3>1
  <2> QED BY <1>6, <2>1, <2>2, CallEnds
<1>8. CASE MayRetry(f)
  <2> DEFINE t == Reset(tx)
             u == [Reset(tx) EXCEPT !.locked = TRUE]
             s == <<g>>
  <2>1. /\ tx' = u /\ Renamed(r, t)
        /\ Set(c, Append(<<>>, [f EXCEPT !.pc = "waiting", !.round = @ + 1]))
    BY <1>3, <1>4, <1>8 DEF ThrottledAgain
  <2>2. [f EXCEPT !.pc = "waiting", !.round = @ + 1] = g
    <3> DEFINE h == RetryAt("waiting", r, k, i)
    <3>1. [f EXCEPT !.pc = "waiting", !.round = @ + 1] =
              [[f EXCEPT !.pc = "waiting"] EXCEPT !.round = @ + 1]
      OBVIOUS
    <3>2. [f EXCEPT !.pc = "waiting"] = h
      BY DEF RetryAt, FrameAt
    <3>3. [h EXCEPT !.round = @ + 1] = g
      BY DEF RetryAt, FrameAt
    <3> QED BY <3>1, <3>2, <3>3
  <2>3. Set(c, s)
    BY <2>1, <2>2, TopOfOne
  <2>4. k + 1 \in 1 .. MaxRetries
    BY <1>4, <1>8, Counts DEF MayRetry
  <2>5. OneBody(tx) /\ tx.newest \in Nat
    BY DEF SoloInv, OneBody
  <2>6. /\ OneBody(t) /\ t.newest = tx.newest + 1 /\ OneBody(u) /\ IdOf(u) = IdOf(t)
    BY <2>5, ResetOne
  <2>7. u.newest = t.newest
    BY <2>6 DEF IdOf
  <2> HIDE DEF t, u, s
  <2>8. OneBody(tx') /\ tx'.newest > tx.newest
    BY <2>1, <2>5, <2>6, <2>7
  <2>9. r \in 1 .. Len(responses) /\ responses \in Seq(Response)
    BY <1>5 DEF SoloInv, OneAnswer
  <2>10. /\ responses' \in Seq(Response) /\ Len(responses') = Len(responses)
         /\ responses'[r].retried
         /\ \A q \in 1 .. Len(responses) : q # r => responses'[q] = responses[q]
         /\ Retried' = Retried \cup {r}
    BY <2>1, <2>5, <2>6, <2>9, Renames
  <2>11. \A q \in returned : ~Fresh(q)
    BY <1>3 DEF SoloInv, OneAnswer
  <2>12. \A q \in returned : responses'[q].retried
    BY <2>10, <2>11 DEF SoloInv, OneAnswer, Fresh
  <2>13. \A d \in Caller \ {c} : ~InRetry(stack[d]) /\ ~Executing(stack[d])
    BY <1>3 DEF SoloInv, OneRetry
  <2>14. \A id \in DOMAIN ledger : ledger[id].state = "throttled"
    BY <1>6 DEF SoloInv, OthersThrottled
  <2>15. Cardinality(DOMAIN ledger) + MaxRetries <= (k + 1) + Allowed'
    <3>1. Retried' = Retried
      BY <1>5, <2>9, <2>10 DEF Fresh, Retried
    <3>2. Cardinality(Spent) + MaxRetries <= k + Allowed
      BY <1>3 DEF SoloInv, Counted
    <3> DEFINE p == Cardinality(Spent)
               l == Cardinality(DOMAIN ledger)
    <3>3. /\ p \in Nat /\ l \in Nat /\ l <= p + 1 /\ p + MaxRetries <= k + Allowed
          /\ Allowed \in Nat /\ MaxRetries \in Nat
      BY <3>2, Counts
    <3>4. Allowed' = Allowed
      BY <3>1 DEF Allowed
    <3> HIDE DEF p, l
    <3>5. l + MaxRetries <= (k + 1) + Allowed
      BY <3>3
    <3> QED BY <3>4, <3>5 DEF l
  <2>16. s = <<RetryAt("waiting", r, k + 1, i)>>
    BY DEF s
  <2> QED
    BY <1>5, <1>6, <2>3, <2>4, <2>8, <2>10, <2>12, <2>13, <2>14, <2>15, <2>16, Renews
<1> QED BY <1>7, <1>8

\* The wait is over: the transaction is executed under another ID.
LEMMA ResumeSolo ==
    ASSUME SoloInv, NEW c \in Caller, Resume(c)
    PROVE  SoloInv'
<1>1. PICK r, i : \E k \in 1 .. MaxRetries : stack[c] = <<RetryAt("waiting", r, k, i)>>
  BY Busies DEF Resume, SoloInv
<1>2. PICK k \in 1 .. MaxRetries : stack[c] = <<RetryAt("waiting", r, k, i)>>
  BY <1>1
<1> DEFINE f == RetryAt("waiting", r, k, i)
           g == RetryAt("executing", r, k, i)
           s == <<g, Sending("send")>>
           u == Reset(tx)
<1>3. /\ stack[c] # <<>> /\ InRetry(stack[c])
      /\ stack[c][1].op = "retry" /\ stack[c][1].pc = "waiting" /\ stack[c][1].response = r
      /\ stack[c][1].round = k
      /\ Last(stack[c]) = f /\ Below(c) = <<>>
  BY <1>2, PausedStack DEF Below
<1>4. r \in returned /\ ~Fresh(r) /\ IdOf(tx) \notin DOMAIN ledger
  BY <1>3 DEF SoloInv, AskedFor
<1>5. /\ Starts(c, Append(<<>>, [f EXCEPT !.pc = "executing"]), u)
      /\ UNCHANGED <<responses, returned, ledger, applied>>
  BY <1>3 DEF Resume
<1>6. [f EXCEPT !.pc = "executing"] = g
  BY DEF RetryAt, FrameAt
<1>7. OneBody(tx) /\ tx.newest \in Nat
  BY DEF SoloInv, OneBody
<1>8. OneBody(u) /\ u.newest = tx.newest + 1 /\ ~u.locked
  BY <1>7, ResetOne
<1> HIDE DEF u
<1>9. /\ OneBody(tx') /\ Frozen(tx') /\ tx'.newest > tx.newest
      /\ Set(c, Append(Append(<<>>, [f EXCEPT !.pc = "executing"]), All))
  BY <1>5, <1>7, <1>8, StartsOne
<1>10. Set(c, s)
  <2>1. Append(<<>>, g) = <<g>> /\ Append(<<g>>, All) = <<g, All>>
    BY TopOfOne, TopOfTwo
  <2> QED BY <1>6, <1>9, <2>1, NewFrames
<1>11. \A d \in Caller \ {c} : ~InRetry(stack[d]) /\ ~Executing(stack[d])
  BY <1>3 DEF SoloInv, OneRetry
<1>12. \A id \in DOMAIN ledger : ledger[id].state = "throttled"
  BY <1>4 DEF SoloInv, OthersThrottled
<1>13. \A q \in returned : responses'[q].retried
  BY <1>3, <1>5 DEF SoloInv, OneAnswer, Fresh
<1>14. responses' \in Seq(Response) /\ Len(responses') = Len(responses)
  BY <1>5 DEF SoloInv, OneAnswer
<1>15. Cardinality(DOMAIN ledger) + MaxRetries <= k + Allowed'
  <2>1. Cardinality(Spent) + MaxRetries <= k + Allowed
    BY <1>3 DEF SoloInv, Counted
  <2>2. Cardinality(DOMAIN ledger) = Cardinality(Spent)
    BY <1>4, Counts
  <2>3. Allowed' = Allowed
    BY <1>5 DEF Allowed, Retried
  <2> QED BY <2>1, <2>2, <2>3
<1>16. s = <<RetryAt("executing", r, k, i), Sending("send")>>
  OBVIOUS
<1> HIDE DEF s
<1> QED
  BY <1>4, <1>5, <1>9, <1>10, <1>11, <1>12, <1>13, <1>14, <1>15, <1>16, Renews

\* The network decides about the newest ID, as the others were throttled.
LEMMA ConsensusSolo ==
    ASSUME SoloInv, NEW id \in DOMAIN ledger, NEW state \in {"success", "failed", "throttled"},
           Consensus(id, state)
    PROVE  SoloInv'
<1>1. /\ ledger[id].state = "pending"
      /\ ledger' = [ledger EXCEPT ![id].state = state]
      /\ applied' = IF state = "success" THEN Append(applied, ledger[id].body) ELSE applied
      /\ UNCHANGED <<tx, stack, responses, returned>>
  BY DEF Consensus, StateOf
<1>2. id = IdOf(tx)
  BY <1>1 DEF SoloInv, OthersThrottled
<1>3. applied = <<>> /\ \A n \in DOMAIN ledger : ledger[n].state # "success"
  BY <1>1, <1>2 DEF SoloInv, OthersThrottled
<1>4. /\ DOMAIN ledger' = DOMAIN ledger /\ ledger' = [n \in DOMAIN ledger' |-> ledger'[n]]
      /\ DOMAIN ledger'[id] = {"body", "state"} /\ ledger'[id].state = state
      /\ \A n \in DOMAIN ledger : n # id => ledger'[n] = ledger[n]
  <2>1. DOMAIN ledger[id] = {"body", "state"}
    BY DEF SoloInv, OthersThrottled
  <2> QED BY <1>1, <2>1
<1>5. OthersThrottled'
  <2>1. CASE state = "success"
    <3>1. applied' = <<ledger[id].body>>
      BY <1>1, <1>3, <2>1
    <3>2. Len(applied') = 1
      BY <3>1
    <3> QED BY <1>1, <1>2, <1>4, <2>1, <3>2 DEF SoloInv, OthersThrottled
  <2>2. CASE state # "success"
    BY <1>1, <1>2, <1>3, <1>4, <2>2 DEF SoloInv, OthersThrottled
  <2> QED BY <2>1, <2>2
<1>6. OneBody(tx)' /\ Shaped' /\ KeptFrozen' /\ OneRetry'
  BY <1>1 DEF SoloInv, OneBody, IdOf, Frozen, Shaped, KeptFrozen, OneRetry
<1>7. OneAnswer'
  BY <1>1, <1>4 DEF SoloInv, OneAnswer, Fresh
<1>8. AskedFor'
  BY <1>1, <1>4 DEF SoloInv, AskedFor, Fresh
<1>9. Counted'
  <2>1. Spent' = Spent /\ Allowed' = Allowed
    BY <1>1, <1>4 DEF Spent, Allowed, Retried
  <2> QED BY <1>1, <1>4, <2>1 DEF SoloInv, Counted
<1> QED BY <1>5, <1>6, <1>7, <1>8, <1>9 DEF SoloInv

\* A refusal and a receipt end a call; a receipt that a retry waited for ends it.
LEMMA EndsSolo ==
    ASSUME SoloInv, NEW c \in Caller, Refused(c) \/ ReceiptArrives(c) \/ ReceiptFails(c)
    PROVE  SoloInv'
<1>1. ASSUME NEW q, RetryPaused(stack[c], q) PROVE stack[c] # <<>> /\ Last(stack[c]).pc = q
  <2>1. PICK r, id : \E k \in 1 .. MaxRetries : stack[c] = <<RetryAt(q, r, k, id)>>
    BY <1>1 DEF RetryPaused
  <2>2. PICK k \in 1 .. MaxRetries : stack[c] = <<RetryAt(q, r, k, id)>>
    BY <2>1
  <2> QED BY <2>2, TopOfOne, FrameFields DEF RetryAt
<1>2. ~RetryPaused(stack[c], "waiting")
  BY <1>1 DEF Refused, ReceiptArrives, ReceiptFails, Asking, Busy
<1>3. CASE Refused(c)
  <2>1. \/ stack[c] = <<Sending("send")>>
        \/ \E r, id : \E k \in 1 .. MaxRetries :
              stack[c] = <<RetryAt("executing", r, k, id), Sending("send")>>
    BY <1>3, Busies DEF SoloInv, Refused
  <2>2. Executing(stack[c]) \/ RetryExecuting(stack[c])
    BY <2>1 DEF Executing, RetryExecuting
  <2>3. tx' = tx
    BY <1>3, <2>2 DEF SoloInv, KeptFrozen, Ready, Refused
  <2> QED BY <1>2, <1>3, <2>3, CallEnds DEF Refused
<1>4. CASE ReceiptArrives(c)
  <2>1. Below(c) = <<>>
    <3>1. CASE Busy(c, "receipt", "ask")
      <4>1. PICK r, id : stack[c] = <<Awaiting(r, id)>>
        BY <3>1, Busies DEF SoloInv
      <4> QED BY <4>1, TopOfOne DEF Below
    <3>2. CASE Busy(c, "retry", "receipt")
      <4>1. PICK r, id : \E k \in 1 .. MaxRetries : stack[c] = <<RetryAt("receipt", r, k, id)>>
        BY <3>2, Busies DEF SoloInv
      <4> QED BY <4>1, TopOfOne DEF Below
    <3> QED BY <1>4, <3>1, <3>2 DEF ReceiptArrives, Asking
  <2>2. Throw(c) /\ UNCHANGED <<tx, responses, returned, ledger, applied>>
    BY <1>4, <2>1 DEF ReceiptArrives
  <2> QED BY <1>2, <2>2, CallEnds
<1>5. CASE ReceiptFails(c)
  BY <1>2, <1>5, CallEnds DEF ReceiptFails
<1> QED BY <1>3, <1>4, <1>5

\* A new ID, when the network has not taken a body under the old one.
LEMMA ExpiresSolo ==
    ASSUME SoloInv, Marked, Solo', NEW c \in Caller, Expires(c)
    PROVE  SoloInv' /\ Marked'
<1>1. Executing(stack[c]) \/ RetryExecuting(stack[c])
  <2>1. \/ stack[c] = <<Sending("send")>>
        \/ \E r, id : \E k \in 1 .. MaxRetries :
              stack[c] = <<RetryAt("executing", r, k, id), Sending("send")>>
    BY Busies DEF SoloInv, Expires
  <2> QED BY <2>1 DEF Executing, RetryExecuting
<1>2. Frozen(tx) /\ Ready(tx) = tx
  BY <1>1 DEF SoloInv, KeptFrozen, Ready
<1>3. tx.newest > 0 /\ Current(tx) = IdOf(tx)
  BY <1>2, BodyOfOne DEF SoloInv
<1>4. /\ ~tx.locked /\ (tx.demand \/ tx.throttled) /\ tx' = Named(tx)
      /\ UNCHANGED <<stack, responses, returned, ledger, applied>>
  BY <1>2, <1>3 DEF Expires, Marked
<1>5. IdOf(tx) \notin DOMAIN ledger /\ \A d \in Caller \ {c} : ~Doing(d, "all")
  BY <1>2, <1>3 DEF Expires, Solo, Why
<1> DEFINE ids == [tx.ids EXCEPT ![tx.index + 1] = <<tx.newest + 1, 0>>]
           u == [tx EXCEPT !.newest = tx.newest + 1, !.ids = ids]
<1>6. tx.index = 0 /\ tx.ids = <<IdOf(tx)>> /\ tx.newest \in Nat
  BY <1>3 DEF SoloInv, OneBody
<1>7. ids = <<<<tx.newest + 1, 0>>>>
  BY <1>6
<1>8. tx' = u
  <2>1. tx.ids # <<>>
    BY <1>6
  <2> QED BY <1>4, <2>1 DEF Named
<1> HIDE DEF ids
<1>9. /\ DOMAIN u = TxFields /\ u.kind = tx.kind /\ u.newest = tx.newest + 1 /\ u.index = 0
      /\ u.demand = tx.demand /\ u.locked = tx.locked /\ u.throttled = tx.throttled
      /\ u.ids = ids /\ u.rows = tx.rows
  BY <1>6 DEF SoloInv, OneBody, TxFields
<1> HIDE DEF u
<1>10. /\ tx'.newest = tx.newest + 1 /\ tx'.demand = tx.demand /\ tx'.rows = tx.rows
       /\ tx'.throttled = tx.throttled
  BY <1>8, <1>9
<1>11. OneBody(tx') /\ Frozen(tx')
  <2>1. tx'.newest \in Nat /\ tx'.newest # 0
    BY <1>6, <1>10
  <2>2. tx'.ids = <<IdOf(tx')>>
    BY <1>7, <1>8, <1>9 DEF IdOf
  <2> QED BY <1>2, <1>4, <1>8, <1>9, <2>1, <2>2 DEF SoloInv, OneBody, Frozen
<1>12. Marked'
  BY <1>4, <1>10 DEF Marked
<1>13. DOMAIN ledger \subseteq (1 .. tx.newest) \X {0} /\ IdOf(tx') \notin DOMAIN ledger
  <2>1. DOMAIN ledger \subseteq (1 .. tx.newest) \X {0}
    BY DEF SoloInv, OthersThrottled
  <2>2. \A id \in (1 .. tx.newest) \X {0} : id # <<tx.newest + 1, 0>>
    BY <1>6
  <2> QED BY <1>10, <2>1, <2>2 DEF IdOf
<1>14. \A r \in returned : ~Fresh(r)
  BY <1>5 DEF SoloInv, OneAnswer
<1>15. \A d \in Caller : ~Answered(stack[d])
  BY <1>5 DEF SoloInv, OneAnswer
<1>16. Shaped' /\ OneRetry'
  BY <1>4 DEF SoloInv, Shaped, OneRetry
<1>17. KeptFrozen'
  BY <1>11 DEF KeptFrozen
<1>18. OthersThrottled'
  <2>1. DOMAIN ledger \subseteq (1 .. tx'.newest) \X {0}
    <3>1. 1 .. tx.newest \subseteq 1 .. tx'.newest
      BY <1>6, <1>10
    <3> QED BY <1>13, <3>1
  <2>2. \A id \in DOMAIN ledger : ledger[id].state = "throttled"
    BY <1>5 DEF SoloInv, OthersThrottled
  <2>3. applied = <<>> /\ \A id \in DOMAIN ledger : ledger[id].state # "success"
    BY <1>5 DEF SoloInv, OthersThrottled
  <2>4. /\ ledger = [id \in DOMAIN ledger |-> ledger[id]]
        /\ \A id \in DOMAIN ledger : DOMAIN ledger[id] = {"body", "state"}
    BY DEF SoloInv, OthersThrottled
  <2> QED BY <1>4, <2>1, <2>2, <2>3, <2>4 DEF OthersThrottled
<1>19. OneAnswer'
  BY <1>4, <1>14, <1>15 DEF SoloInv, OneAnswer, Fresh
<1>20. AskedFor'
  <2>1. ASSUME NEW d \in Caller, stack[d] # <<>>
        PROVE  stack[d][1].pc # "receipt"
    BY <1>5, <2>1 DEF SoloInv, AskedFor
  <2>2. \A d \in Caller : stack[d] # <<>> =>
            /\ stack[d][1].op \in {"receipt", "retry"} => stack[d][1].response \in returned
            /\ ~Fresh(stack[d][1].response)
    BY <1>14 DEF SoloInv, AskedFor, Fresh
  <2>3. \A r : Fresh(r)' <=> Fresh(r)
    BY <1>4 DEF Fresh
  <2> QED BY <1>4, <1>13, <2>1, <2>2, <2>3 DEF AskedFor
<1>21. Counted'
  <2>1. Spent' = Spent /\ Allowed' = Allowed
    BY <1>4, <1>5, <1>13 DEF Spent, Allowed, Retried
  <2> QED BY <1>4, <2>1 DEF SoloInv, Counted
<1> QED BY <1>11, <1>12, <1>16, <1>17, <1>18, <1>19, <1>20, <1>21 DEF SoloInv

\* Whoever starts to execute locks the ID, unless the body is built when it is
\* sent.
LEMMA StartsMarked ==
    ASSUME NEW c, NEW frames, NEW t, OneBody(t), Starts(c, frames, t)
    PROVE  Marked'
<1>1. ~TooMany(t) /\ ~FreezeThrows(t) /\ t.kind # "file"
  BY DEF OneBody, TooMany, FreezeThrows
<1>2. tx' = Signed(Ready(t))
  BY <1>1 DEF Starts
<1> DEFINE u == Ready(t)
<1>3. DOMAIN u = TxFields
  BY ReadyOne DEF OneBody
<1> HIDE DEF u
<1>4. Signed(u).locked \/ Signed(u).demand \/ Signed(u).throttled
  BY <1>3 DEF Signed, TxFields
<1> QED BY <1>2, <1>4 DEF Marked, u

LEMMA MarkedStep ==
    ASSUME SoloInv, Marked, Solo', [Next]_vars
    PROVE  Marked'
<1>1. CASE UNCHANGED tx
  BY <1>1 DEF Marked
<1>2. ASSUME NEW c \in Caller, Busy(c, "all", "send") PROVE Ready(tx) = tx
  <2>1. \/ stack[c] = <<Sending("send")>>
        \/ \E r, id : \E k \in 1 .. MaxRetries :
              stack[c] = <<RetryAt("executing", r, k, id), Sending("send")>>
    BY <1>2, Busies DEF SoloInv
  <2>2. Executing(stack[c]) \/ RetryExecuting(stack[c])
    BY <2>1 DEF Executing, RetryExecuting
  <2> QED BY <2>2 DEF SoloInv, KeptFrozen, Ready
<1>3. ASSUME NEW c \in Caller, (\E answered \in BOOLEAN : Submit(c, answered)) \/ Refused(c)
      PROVE  Marked'
  BY <1>1, <1>2, <1>3 DEF Submit, Refused
<1>4. ASSUME NEW c \in Caller, Expires(c) PROVE Marked'
  BY <1>4, ExpiresSolo
<1>5. ASSUME NEW c \in Caller, ExecuteAll(c) PROVE Marked'
  BY <1>5, StartsMarked DEF SoloInv, ExecuteAll
<1>6. ASSUME NEW c \in Caller, StartRetry(c) PROVE Marked'
  <2>1. OneBody(Reset(tx))
    BY ResetOne DEF SoloInv
  <2>2. OneBody(Reset(Reset(tx)))
    BY <2>1, ResetOne
  <2> QED BY <1>6, <2>2, StartsMarked DEF StartRetry
<1>7. ASSUME NEW c \in Caller, Resume(c) PROVE Marked'
  <2>1. OneBody(Reset(tx))
    BY ResetOne DEF SoloInv
  <2> QED BY <1>7, <2>1, StartsMarked DEF Resume
<1>8. ASSUME NEW c \in Caller, ThrottledAgain(c) PROVE Marked'
  <2>1. Reset(tx).throttled = TRUE /\ DOMAIN Reset(tx) = TxFields
    BY DEF Reset, SoloInv, OneBody, TxFields
  <2>2. [Reset(tx) EXCEPT !.locked = TRUE].throttled
    BY <2>1 DEF TxFields
  <2>3. tx' = tx \/ tx' = [Reset(tx) EXCEPT !.locked = TRUE]
    BY <1>8 DEF ThrottledAgain
  <2> QED BY <1>1, <2>2, <2>3 DEF Marked
<1>9. ASSUME NEW c \in Caller, Responds(c) PROVE Marked'
  <2>1. tx' = [tx EXCEPT !.index = NextIndex(tx)]
    BY <1>9 DEF Responds
  <2> QED BY <2>1 DEF Marked, SoloInv, OneBody, TxFields
<1>10. ASSUME NEW size \in Sizes, SetChunkSize(size) PROVE Marked'
  BY <1>10 DEF SetChunkSize, SoloInv, OneBody
<1>11. ASSUME NEW c \in Caller,
              \/ \E r \in returned : GetReceipt(c, r)
              \/ ReceiptArrives(c) \/ ReceiptFails(c)
       PROVE  Marked'
  BY <1>1, <1>11 DEF GetReceipt, ReceiptArrives, ReceiptFails
<1>12. ASSUME NEW id, NEW state, Consensus(id, state) PROVE Marked'
  BY <1>1, <1>12 DEF Consensus
<1> QED
  BY <1>1, <1>3, <1>4, <1>5, <1>6, <1>7, <1>8, <1>9, <1>10, <1>11, <1>12 DEF Next, vars

-----------------------------------------------------------------------------
(* The specification. *)

\* No operation changes what kind of transaction it is.
LEMMA FreezeKeeps ==
    ASSUME NEW t, DOMAIN t = TxFields
    PROVE  /\ DOMAIN Ready(t) = TxFields /\ Ready(t).kind = t.kind
           /\ DOMAIN Signed(t) = TxFields /\ Signed(t).kind = t.kind
           /\ DOMAIN Reset(t) = TxFields /\ Reset(t).kind = t.kind
<1>1. DOMAIN Named(t) = TxFields /\ Named(t).kind = t.kind
  BY DEF Named, TxFields
<1> DEFINE m == [Named(t) EXCEPT !.demand = t.client]
           o == FrozenOnce(t)
<1>2. DOMAIN m = TxFields /\ m.kind = t.kind
  BY <1>1 DEF TxFields
<1>3. o = m \/ o = [m EXCEPT !.rows = <<Body(m, Current(m), 1, FALSE)>>]
  BY DEF FrozenOnce
<1> HIDE DEF m
<1>4. DOMAIN o = TxFields /\ o.kind = t.kind
  BY <1>2, <1>3 DEF TxFields
<1> DEFINE id(k) == <<Current(o)[1], Current(o)[2] + k - 1>>
           ids == [k \in 1 .. Chunks(t) |-> id(k)]
           rows == [k \in 1 .. Chunks(t) |-> Body(o, id(k), k, TRUE)]
           file == (t.kind = "file")
           cut == [o EXCEPT !.ids = ids, !.index = 0, !.locked = file, !.rows = rows]
<1>5. Ready(t) = t \/ Ready(t) = o \/ Ready(t) = cut
  BY DEF Ready, FreezeWith
<1> HIDE DEF o, ids, rows, file
<1>6. DOMAIN cut = TxFields /\ cut.kind = t.kind
  BY <1>4 DEF TxFields
<1>7. DOMAIN Ready(t) = TxFields /\ Ready(t).kind = t.kind
  BY <1>4, <1>5, <1>6
<1>8. DOMAIN Signed(t) = TxFields /\ Signed(t).kind = t.kind
  BY DEF Signed, TxFields
<1>9. DOMAIN Reset(t) = TxFields /\ Reset(t).kind = t.kind
  BY DEF Reset, TxFields
<1> QED BY <1>7, <1>8, <1>9

LEMMA StartsKeeps ==
    ASSUME NEW c, NEW frames, NEW t, DOMAIN t = TxFields, Starts(c, frames, t)
    PROVE  DOMAIN tx' = TxFields /\ tx'.kind = t.kind
<1>1. tx' = t \/ tx' = Ready(t) \/ tx' = Signed(Ready(t))
  BY DEF Starts
<1> QED BY <1>1, FreezeKeeps

LEMMA KindKept ==
    ASSUME DOMAIN tx = TxFields, [Next]_vars
    PROVE  DOMAIN tx' = TxFields /\ tx'.kind = tx.kind /\ excused \subseteq excused'
<1>1. CASE UNCHANGED vars
  BY <1>1 DEF vars
<1>2. ASSUME NEW c \in Caller, ExecuteAll(c)
      PROVE  DOMAIN tx' = TxFields /\ tx'.kind = tx.kind /\ excused \subseteq excused'
  BY <1>2, StartsKeeps DEF ExecuteAll
<1>3. ASSUME NEW c \in Caller,
             \/ \E r \in returned : GetReceipt(c, r)
             \/ ReceiptArrives(c) \/ ReceiptFails(c)
      PROVE  DOMAIN tx' = TxFields /\ tx'.kind = tx.kind /\ excused \subseteq excused'
  BY <1>3 DEF GetReceipt, ReceiptArrives, ReceiptFails
<1>4. ASSUME NEW c \in Caller, (\E answered \in BOOLEAN : Submit(c, answered)) \/ Refused(c)
      PROVE  DOMAIN tx' = TxFields /\ tx'.kind = tx.kind /\ excused \subseteq excused'
  <2>1. tx' = Ready(tx) /\ excused' = excused
    BY <1>4 DEF Submit, Refused
  <2> QED BY <2>1, FreezeKeeps
<1>5. ASSUME NEW c \in Caller, Responds(c)
      PROVE  DOMAIN tx' = TxFields /\ tx'.kind = tx.kind /\ excused \subseteq excused'
  BY <1>5 DEF Responds, TxFields
<1>6. ASSUME NEW c \in Caller, StartRetry(c)
      PROVE  DOMAIN tx' = TxFields /\ tx'.kind = tx.kind /\ excused \subseteq excused'
  <2> DEFINE t == Reset(tx)
             u == Reset(t)
  <2>1. DOMAIN t = TxFields /\ t.kind = tx.kind
    BY FreezeKeeps
  <2>2. DOMAIN u = TxFields /\ u.kind = tx.kind
    BY <2>1, FreezeKeeps
  <2>3. Starts(c, Append(Below(c), Retrying(Last(stack[c]).response)), u) /\ excused \subseteq excused'
    BY <1>6 DEF StartRetry
  <2> HIDE DEF u
  <2> QED BY <2>2, <2>3, StartsKeeps
<1>7. ASSUME NEW c \in Caller, ThrottledAgain(c)
      PROVE  DOMAIN tx' = TxFields /\ tx'.kind = tx.kind /\ excused \subseteq excused'
  <2>1. tx' = tx \/ tx' = [Reset(tx) EXCEPT !.locked = TRUE]
    BY <1>7 DEF ThrottledAgain
  <2>2. DOMAIN [Reset(tx) EXCEPT !.locked = TRUE] = TxFields
        /\ [Reset(tx) EXCEPT !.locked = TRUE].kind = tx.kind
    BY FreezeKeeps DEF TxFields
  <2> QED BY <1>7, <2>1, <2>2 DEF ThrottledAgain
<1>8. ASSUME NEW c \in Caller, Resume(c)
      PROVE  DOMAIN tx' = TxFields /\ tx'.kind = tx.kind /\ excused \subseteq excused'
  <2>1. DOMAIN Reset(tx) = TxFields /\ Reset(tx).kind = tx.kind
    BY FreezeKeeps
  <2> QED BY <1>8, <2>1, StartsKeeps DEF Resume
<1>9. ASSUME NEW size \in Sizes, SetChunkSize(size)
      PROVE  DOMAIN tx' = TxFields /\ tx'.kind = tx.kind /\ excused \subseteq excused'
  BY <1>9 DEF SetChunkSize, TxFields
<1>10. ASSUME NEW id, NEW state, Consensus(id, state)
       PROVE  DOMAIN tx' = TxFields /\ tx'.kind = tx.kind /\ excused \subseteq excused'
  BY <1>10 DEF Consensus
<1>11. ASSUME NEW c \in Caller, Expires(c)
       PROVE  DOMAIN tx' = TxFields /\ tx'.kind = tx.kind /\ excused \subseteq excused'
  <2> DEFINE t == Ready(tx)
  <2>1. DOMAIN t = TxFields /\ t.kind = tx.kind
    BY FreezeKeeps
  <2>2. tx' = Named(t) /\ excused \subseteq excused'
    BY <1>11 DEF Expires
  <2> HIDE DEF t
  <2>3. DOMAIN Named(t) = TxFields /\ Named(t).kind = t.kind
    BY <2>1 DEF Named, TxFields
  <2> QED BY <2>1, <2>2, <2>3
<1> QED
  BY <1>1, <1>2, <1>3, <1>4, <1>5, <1>6, <1>7, <1>8, <1>9, <1>10, <1>11 DEF Next

LEMMA SoloStep ==
    ASSUME SoloInv, Marked, Solo', [Next]_vars
    PROVE  SoloInv'
<1>1. CASE UNCHANGED vars
  BY <1>1 DEF vars, SoloInv, OneBody, IdOf, Frozen, Shaped, KeptFrozen, OneRetry, OthersThrottled,
              OneAnswer, Fresh, AskedFor, Counted, Spent, Allowed, Retried
<1>2. ASSUME NEW c \in Caller, Responds(c) PROVE SoloInv'
  <2>1. \/ stack[c] = <<Sending("answered")>>
        \/ \E r, i : \E k \in 1 .. MaxRetries :
              stack[c] = <<RetryAt("executing", r, k, i), Sending("answered")>>
    BY <1>2, Busies DEF SoloInv, Responds
  <2>2. CASE stack[c] = <<Sending("answered")>>
    BY <1>2, <2>2, RespondsCalled
  <2>3. CASE \E r, i : \E k \in 1 .. MaxRetries :
              stack[c] = <<RetryAt("executing", r, k, i), Sending("answered")>>
    <3>1. PICK r, i : \E k \in 1 .. MaxRetries :
              stack[c] = <<RetryAt("executing", r, k, i), Sending("answered")>>
      BY <2>3
    <3>2. PICK k \in 1 .. MaxRetries :
              stack[c] = <<RetryAt("executing", r, k, i), Sending("answered")>>
      BY <3>1
    <3> QED BY <1>2, <3>2, RespondsRetried
  <2> QED BY <2>1, <2>2, <2>3
<1>3. ASSUME NEW size \in Sizes, SetChunkSize(size) PROVE SoloInv'
  BY <1>3 DEF SetChunkSize, SoloInv, OneBody
<1>4. ASSUME NEW c \in Caller, ExecuteAll(c) PROVE SoloInv'
  BY <1>4, ExecuteAllSolo
<1>5. ASSUME NEW c \in Caller, NEW r \in returned, GetReceipt(c, r) PROVE SoloInv'
  BY <1>5, GetReceiptSolo
<1>6. ASSUME NEW c \in Caller, NEW answered \in BOOLEAN, Submit(c, answered) PROVE SoloInv'
  BY <1>6, SubmitSolo
<1>7. ASSUME NEW c \in Caller, Refused(c) \/ ReceiptArrives(c) \/ ReceiptFails(c) PROVE SoloInv'
  BY <1>7, EndsSolo
<1>8. ASSUME NEW c \in Caller, StartRetry(c) PROVE SoloInv'
  BY <1>8, StartRetrySolo
<1>9. ASSUME NEW c \in Caller, ThrottledAgain(c) PROVE SoloInv'
  BY <1>9, ThrottledAgainSolo
<1>10. ASSUME NEW c \in Caller, Resume(c) PROVE SoloInv'
  BY <1>10, ResumeSolo
<1>11. ASSUME NEW id \in DOMAIN ledger, NEW state \in {"success", "failed", "throttled"},
              Consensus(id, state)
       PROVE  SoloInv'
  BY <1>11, ConsensusSolo
<1>12. ASSUME NEW c \in Caller, Expires(c) PROVE SoloInv'
  BY <1>12, ExpiresSolo
<1> QED
  BY <1>1, <1>2, <1>3, <1>4, <1>5, <1>6, <1>7, <1>8, <1>9, <1>10, <1>11, <1>12 DEF Next

LEMMA ChunkInit == Init => ChunkInv
<1> SUFFICES ASSUME Init PROVE ChunkInv
  OBVIOUS
<1>1. PICK kind \in Kinds, demand \in Demands, size \in Sizes :
          tx = [kind |-> kind, client |-> demand, demand |-> FALSE, size |-> size, ids |-> <<>>,
                index |-> 0, locked |-> FALSE, rows |-> <<>>, throttled |-> FALSE, newest |-> 0]
  BY DEF Init
<1>2. /\ DOMAIN tx = TxFields /\ tx.kind = kind /\ tx.demand = FALSE /\ tx.ids = <<>>
      /\ tx.index = 0 /\ tx.locked = FALSE /\ tx.rows = <<>> /\ tx.newest = 0
  BY <1>1 DEF TxFields
<1>3. /\ stack = [c \in Caller |-> <<>>] /\ responses = <<>> /\ returned = {}
      /\ ledger = <<>> /\ applied = <<>>
  BY DEF Init
<1>4. ASSUME Solo PROVE SoloInv
  <2>1. OneBody(tx)
    BY <1>2, <1>4 DEF OneBody, Solo, IdOf, Frozen
  <2>2. \A c \in Caller : stack[c] = <<>>
    BY <1>3
  <2>3. Shaped /\ OneRetry
    BY <1>3, <2>2, EmptyStack DEF Shaped, OneRetry
  <2>4. KeptFrozen
    BY <1>2, <2>2, EmptyStack DEF KeptFrozen, InRetry
  <2>5. DOMAIN ledger = {} /\ ledger = [id \in DOMAIN ledger |-> ledger[id]]
    <3>1. DOMAIN ledger = {}
      BY <1>3
    <3> QED BY <1>3, <3>1
  <2>6. OthersThrottled
    BY <1>3, <2>5 DEF OthersThrottled
  <2>7. OneAnswer
    BY <1>3, <2>2, EmptyStack DEF OneAnswer, Fresh
  <2>8. AskedFor
    BY <2>2 DEF AskedFor
  <2>9. Counted
    <3>1. Spent = {} /\ Retried = {}
      BY <1>3, <2>5 DEF Spent, Retried
    <3>2. Cardinality(Spent) = 0 /\ Cardinality(Retried) = 0 /\ IsFiniteSet(DOMAIN ledger)
      BY <2>5, <3>1, FS_EmptySet
    <3>3. Allowed = 0
      BY <3>2, ChunkedAssumption DEF Allowed
    <3> QED BY <2>2, <3>2, <3>3, EmptyStack DEF Counted
  <2> QED BY <2>1, <2>3, <2>4, <2>6, <2>7, <2>8, <2>9 DEF SoloInv
<1>5. Marked
  BY <1>2 DEF Marked
<1> QED BY <1>2, <1>4, <1>5 DEF ChunkInv

LEMMA ChunkStep == ChunkInv /\ [Next]_vars => ChunkInv'
<1> SUFFICES ASSUME ChunkInv, [Next]_vars PROVE ChunkInv'
  OBVIOUS
<1>1. DOMAIN tx' = TxFields /\ tx'.kind = tx.kind /\ excused \subseteq excused'
  BY KindKept DEF ChunkInv
<1>2. Solo' => Solo
  BY <1>1 DEF Solo
<1>3. Solo' => SoloInv' /\ Marked'
  BY <1>2, SoloStep, MarkedStep DEF ChunkInv
<1> QED BY <1>1, <1>3 DEF ChunkInv

\* ChunkInv holds in every state.
LEMMA ChunkSafe == Spec => []ChunkInv
BY ChunkInit, ChunkStep, PTL DEF Spec

\* Whatever answers are lost, however often its ID expires or the network throttles
\* it and however late it decides, a transaction takes effect once; getReceipt and
\* _retryTransaction.  Not so if an ID expires that the network has taken a body
\* under: Repeats.
THEOREM AppliedOnceSafe == Spec => []AppliedOnce
<1>1. ChunkInv => AppliedOnce
  <2> SUFFICES ASSUME ChunkInv, Solo PROVE Len(applied) <= 1
    BY DEF AppliedOnce, Repeats, Solo
  <2>1. applied = <<>> \/ Len(applied) = 1
    BY DEF ChunkInv, SoloInv, OthersThrottled
  <2>2. CASE applied = <<>>
    BY <2>2
  <2>3. CASE Len(applied) = 1
    BY <2>3
  <2> QED BY <2>1, <2>2, <2>3
<1> QED BY <1>1, ChunkSafe, PTL

\* A response retried once sends the transaction under MAX_RETRIES further IDs at
\* most; _retryTransaction.
THEOREM RetriesBoundedSafe == Spec => []RetriesBounded
<1>1. ChunkInv => RetriesBounded
  <2> SUFFICES ASSUME SoloInv PROVE Cardinality(DOMAIN ledger) <= 1 + Allowed
    BY DEF RetriesBounded, Repeats, Solo, ChunkInv, Allowed
  <2>1. Cardinality(Spent) <= Allowed
    BY DEF SoloInv, Counted
  <2> QED BY <2>1, Counts
<1> QED BY <1>1, ChunkSafe, PTL

-----------------------------------------------------------------------------
(* Chunks. *)

\* There is a chunk at least, every chunk but the last is full, and the last ends
\* the contents.
LEMMA ChunksCover ==
    ASSUME NEW t, t.kind # "plain", t.size \in Nat \ {0}
    PROVE  /\ Chunks(t) \in Nat \ {0}
           /\ \A k \in 1 .. Chunks(t) : (k - 1) * t.size < Length
           /\ \A k \in 1 .. Chunks(t) - 1 : k * t.size < Length
           /\ Chunks(t) * t.size >= Length
<1> DEFINE s == t.size
           m == Length + s - 1
           n == m \div s
<1>1. s \in Nat /\ s > 0 /\ Length \in Nat /\ Length > 0 /\ m \in Nat
  BY ChunkedAssumption
<1>2. Chunks(t) = n
  BY DEF Chunks
<1> HIDE DEF s
<1>3. n \in Nat /\ n * s <= m /\ m < (n + 1) * s
  BY <1>1
<1> HIDE DEF n
<1>4. n > 0
  BY <1>1, <1>3
<1>5. (n - 1) * s < Length
  BY <1>1, <1>3
<1>6. n * s >= Length
  BY <1>1, <1>3
<1>7. ASSUME NEW k \in 1 .. n PROVE (k - 1) * s <= (n - 1) * s
  BY <1>1, <1>3, <1>7
<1>8. ASSUME NEW k \in 1 .. n PROVE (k - 1) * s < Length
  BY <1>1, <1>3, <1>5, <1>7, <1>8
<1>9. ASSUME NEW k \in 1 .. n - 1 PROVE k * s < Length
  <2>1. (k + 1) \in 1 .. n /\ (k + 1) - 1 = k
    BY <1>3
  <2> QED BY <1>8, <2>1
<1> QED BY <1>1, <1>2, <1>3, <1>4, <1>6, <1>8, <1>9 DEF s

\* A chunk is the contents from its start to its end.
LEMMA SliceIsPiece ==
    ASSUME NEW t, t.kind # "plain", t.size \in Nat \ {0}, NEW k \in 1 .. Chunks(t),
           NEW b, b.bytes = Slice(t, k)
    PROVE  /\ b.bytes \in Seq(Nat)
           /\ Piece(b.bytes, (k - 1) * t.size + 1)
           /\ After(b) = (IF k < Chunks(t) THEN k * t.size ELSE Length) + 1
<1> DEFINE from == (k - 1) * t.size
           to == EndIndex(t, k)
           s == Slice(t, k)
<1>1. t.size \in Nat \ {0} /\ Length \in Nat \ {0} /\ k \in Nat \ {0} /\ Chunks(t) \in Nat
  BY ChunksCover, ChunkedAssumption
<1>2. from \in Nat /\ to \in Nat /\ from < to /\ to <= Length
  BY <1>1, ChunksCover DEF EndIndex
<1>3. to = IF k < Chunks(t) THEN k * t.size ELSE Length
  BY <1>1, ChunksCover DEF EndIndex
<1>4. s \in Seq(Nat) /\ Len(s) = to - from /\ \A i \in 1 .. Len(s) : s[i] = from + i
  <2>1. \A i \in from + 1 .. to : i \in 1 .. Length /\ Whole[i] = i
    BY <1>1, <1>2 DEF Whole
  <2>2. s = SubSeq(Whole, from + 1, to)
    BY DEF Slice, StartIndex
  <2>3. \A i \in from + 1 .. to : Whole[i] \in Nat
    BY <1>2, <2>1
  <2> DEFINE m == from + 1
  <2>4. m \in Int /\ to \in Int /\ to - m + 1 = to - from /\ m <= to
    BY <1>2
  <2> HIDE DEF from, to, s, m
  <2>5. /\ SubSeq(Whole, m, to) \in Seq(Nat)
        /\ Len(SubSeq(Whole, m, to)) = to - from
        /\ \A i \in 1 .. to - from : SubSeq(Whole, m, to)[i] = Whole[m + i - 1]
    <3>1. \A i \in m .. to : Whole[i] \in Nat
      BY <2>3 DEF m
    <3> QED BY <2>4, <3>1, SubSeqProperties
  <2>6. ASSUME NEW i \in 1 .. to - from PROVE Whole[m + i - 1] = from + i
    <3>1. m + i - 1 = from + i /\ from + i \in from + 1 .. to
      BY <1>2, <2>6 DEF m
    <3> QED BY <2>1, <3>1
  <2> QED BY <2>2, <2>5, <2>6 DEF m
<1> HIDE DEF from, to, s
<1>5. s # <<>> /\ Len(s) \in 1 .. Len(s)
  BY <1>2, <1>4
<1>6. Piece(s, from + 1)
  BY <1>2, <1>4, <1>5 DEF Piece
<1>7. Last(s) = to
  BY <1>2, <1>4, <1>5 DEF Last
<1> QED BY <1>3, <1>4, <1>6, <1>7 DEF After, from, to, s

-----------------------------------------------------------------------------
(* The inductive invariant of a message. *)

\* What a transaction is made of.  Once it has an ID it keeps one, and it is
\* locked or frozen only then.
Made(t) ==
    /\ DOMAIN t = TxFields /\ t.kind \in {"plain", "file", "topic"} /\ t.size \in Nat \ {0}
    /\ t.newest \in Nat /\ t.index \in Nat /\ t.ids \in Seq(Nat \X Nat) /\ Len(t.rows) \in Nat
    /\ {t.client, t.demand, t.locked, t.throttled} \subseteq BOOLEAN
    /\ t.ids # <<>> => t.index < Len(t.ids)
    /\ t.ids = <<>> => t.index = 0 /\ ~t.locked /\ ~Frozen(t)

Started ==
    /\ \A c \in Caller : stack[c] # <<>> => tx.ids # <<>>
    /\ returned # {} => tx.ids # <<>>

\* The body is a part of the message that m was when it was frozen, with base
\* for the first ID.
PartOf(b, m, base) ==
    /\ b.number \in 1 .. Chunks(m) /\ b.total = Chunks(m)
    /\ b.bytes = Slice(m, b.number)
    /\ b.id = <<base[1], base[2] + b.number - 1>>
Parts(B, m, base) == \A b \in B : b.number = 0 \/ PartOf(b, m, base)
Message(m) == m.kind = "topic" /\ m.size \in Nat \ {0}

Taken == {ledger[id].body : id \in DOMAIN ledger}
RowsOf(t) == {t.rows[i] : i \in 1 .. Len(t.rows)}

\* Freezing cuts one message, and what it cut is used until a throttled body
\* makes the transaction whole again.  B are the bodies the network took.
Cut(t, B) ==
    /\ \E m, base : /\ Message(m) /\ base \in Nat \X Nat /\ Parts(B, m, base)
                    /\ ~t.throttled /\ ~t.demand => Parts(RowsOf(t), m, base)
    /\ ~t.throttled /\ ~Frozen(t) => \A b \in B : b.number = 0

\* A body succeeds once.
TakesEffect(b) == b.id \in DOMAIN ledger /\ ledger[b.id] = [body |-> b, state |-> "success"]
Effects ==
    /\ \A id \in DOMAIN ledger : DOMAIN ledger[id] = {"body", "state"} /\ ledger[id].body.id = id
    /\ applied \in Seq({b \in Taken : TakesEffect(b)})
    /\ \A i, j \in 1 .. Len(applied) : applied[i].id = applied[j].id => i = j

MessageInv == Made(tx) /\ Started /\ Cut(tx, Taken) /\ Effects

-----------------------------------------------------------------------------
(* A message: the transaction. *)

LEMMA MadeNamed ==
    ASSUME NEW t, Made(t)
    PROVE  /\ DOMAIN Named(t) = TxFields /\ Named(t).kind = t.kind /\ Named(t).size = t.size
           /\ Named(t).newest \in Nat /\ Named(t).index = t.index /\ Named(t).rows = t.rows
           /\ Named(t).demand = t.demand /\ Named(t).locked = t.locked
           /\ Named(t).throttled = t.throttled /\ Named(t).client = t.client
           /\ Named(t).ids \in Seq(Nat \X Nat) /\ Named(t).ids # <<>>
           /\ t.index < Len(Named(t).ids)
<1>1. CASE t.locked
  BY <1>1 DEF Named, Made
<1>2. CASE ~t.locked
  <2> DEFINE id == <<t.newest + 1, 0>>
             ids == IF t.ids = <<>> THEN <<id>> ELSE [t.ids EXCEPT ![t.index + 1] = id]
             n == [t EXCEPT !.newest = t.newest + 1, !.ids = ids]
  <2>1. Named(t) = n
    BY <1>2 DEF Named
  <2>2. id \in Nat \X Nat
    BY DEF Made
  <2>3. ids \in Seq(Nat \X Nat) /\ ids # <<>> /\ t.index < Len(ids)
    <3>1. CASE t.ids = <<>>
      <4>1. ids = <<id>> /\ t.index = 0
        BY <3>1 DEF Made
      <4> HIDE DEF id, ids
      <4> QED BY <2>2, <4>1
    <3>2. CASE t.ids # <<>>
      <4> DEFINE old == t.ids
                 i == t.index + 1
      <4>1. old \in Seq(Nat \X Nat) /\ i \in Nat /\ t.index < Len(old)
        BY <3>2 DEF Made
      <4>2. ids = [old EXCEPT ![i] = id]
        BY <3>2
      <4>4. t.index \in Nat
        BY DEF Made
      <4> HIDE DEF id, old, i, ids
      <4>3. [old EXCEPT ![i] = id] \in Seq(Nat \X Nat) /\ Len([old EXCEPT ![i] = id]) = Len(old)
        <5>1. i \in 1 .. Len(old)
          BY <4>1, <4>4 DEF i
        <5> QED BY <2>2, <4>1, <5>1, ExceptSeq
      <4> QED BY <4>1, <4>2, <4>3, <4>4
    <3> QED BY <3>1, <3>2
  <2> HIDE DEF ids
  <2> QED BY <2>1, <2>3 DEF Made, TxFields
<1> QED BY <1>1, <1>2

\* One body is not numbered.
LEMMA MadeOnce ==
    ASSUME NEW t, Made(t), ~Frozen(t)
    PROVE  LET o == FrozenOnce(t)
           IN  /\ Made(o) /\ Frozen(o) /\ o.ids # <<>>
               /\ o.kind = t.kind /\ o.size = t.size /\ o.throttled = t.throttled
               /\ \A b \in RowsOf(o) : b.number = 0
<1> DEFINE n == Named(t)
           m == [n EXCEPT !.demand = t.client]
           o == FrozenOnce(t)
           b == Body(m, Current(m), 1, FALSE)
<1>1. /\ DOMAIN m = TxFields /\ m.kind = t.kind /\ m.size = t.size /\ m.newest \in Nat
      /\ m.index = t.index /\ m.rows = <<>> /\ m.demand = t.client /\ m.locked = t.locked
      /\ m.throttled = t.throttled /\ m.client = t.client
      /\ m.ids \in Seq(Nat \X Nat) /\ m.ids # <<>> /\ m.index < Len(m.ids)
  <2>1. t.rows = <<>>
    BY DEF Frozen
  <2> QED BY <2>1, MadeNamed DEF TxFields
<1>2. b.number = 0
  BY DEF Body
<1> HIDE DEF n
<1>3. o = IF t.client THEN m ELSE [m EXCEPT !.rows = <<b>>]
  BY DEF FrozenOnce, n
<1> HIDE DEF o, m, b
<1>4. /\ t.kind \in {"plain", "file", "topic"} /\ t.size \in Nat \ {0} /\ t.index \in Nat
      /\ {t.client, t.demand, t.locked, t.throttled} \subseteq BOOLEAN
  BY DEF Made
<1>5. CASE t.client
  <2>1. o = m /\ m.demand
    BY <1>1, <1>3, <1>5
  <2>2. Made(m) /\ Frozen(m)
    BY <1>1, <1>4, <2>1 DEF Made, Frozen
  <2>3. RowsOf(m) = {}
    BY <1>1 DEF RowsOf
  <2> QED BY <1>1, <2>1, <2>2, <2>3 DEF o
<1>6. CASE ~t.client
  <2>1. o = [m EXCEPT !.rows = <<b>>]
    BY <1>3, <1>6
  <2>2. /\ DOMAIN o = TxFields /\ o.kind = t.kind /\ o.size = t.size /\ o.newest \in Nat
        /\ o.index = t.index /\ o.rows = <<b>> /\ o.demand = t.client /\ o.locked = t.locked
        /\ o.throttled = t.throttled /\ o.client = t.client
        /\ o.ids \in Seq(Nat \X Nat) /\ o.ids # <<>> /\ o.index < Len(o.ids)
    BY <1>1, <2>1 DEF TxFields
  <2>3. <<b>> # <<>> /\ Len(<<b>>) = 1 /\ <<b>>[1] = b
    OBVIOUS
  <2>4. RowsOf(o) = {b}
    BY <2>2, <2>3 DEF RowsOf
  <2>5. Made(o) /\ Frozen(o)
    BY <1>4, <2>2, <2>3 DEF Made, Frozen
  <2> QED BY <1>2, <2>2, <2>4, <2>5 DEF o
<1> QED BY <1>4, <1>5, <1>6

\* Freezing cuts one message at most, and changes nothing of a frozen transaction.
LEMMA MadeReady ==
    ASSUME NEW t, Made(t)
    PROVE  /\ Made(Ready(t)) /\ Frozen(Ready(t)) /\ Ready(t).ids # <<>>
           /\ Ready(t).throttled = t.throttled
           /\ Frozen(t) => Ready(t) = t
           /\ ~Frozen(t) => \E m, base : /\ Message(m) /\ base \in Nat \X Nat
                                         /\ Parts(RowsOf(Ready(t)), m, base)
<1>1. CASE Frozen(t)
  BY <1>1 DEF Ready, Made
<1>2. CASE ~Frozen(t)
  <2> DEFINE o == FrozenOnce(t)
             base == Current(o)
             n == Chunks(t)
             id(k) == <<base[1], base[2] + k - 1>>
             ids == [k \in 1 .. n |-> id(k)]
             row(k) == Body(o, id(k), k, TRUE)
             rows == [k \in 1 .. n |-> row(k)]
             file == (t.kind = "file")
             cut == [o EXCEPT !.ids = ids, !.index = 0, !.locked = file, !.rows = rows]
  <2>1. /\ Made(o) /\ Frozen(o) /\ o.ids # <<>>
        /\ o.kind = t.kind /\ o.size = t.size /\ o.throttled = t.throttled
        /\ \A b \in RowsOf(o) : b.number = 0
    BY <1>2, MadeOnce
  <2>2. Ready(t) = IF t.kind = "plain" \/ FreezeThrows(t) THEN o ELSE cut
    BY <1>2 DEF Ready, FreezeWith
  <2>3. base \in Nat \X Nat
    <3> HIDE DEF o
    <3>1. o.ids \in Seq(Nat \X Nat) /\ o.index \in Nat /\ o.index < Len(o.ids)
      BY <2>1 DEF Made
    <3> DEFINE old == o.ids
               i == o.index + 1
    <3> HIDE DEF old
    <3>2. old \in Seq(Nat \X Nat) /\ i \in 1 .. Len(old)
      BY <3>1 DEF old
    <3>3. old[i] \in Nat \X Nat
      BY <3>2
    <3> QED BY <3>3 DEF base, Current, old
  <2>4. CASE t.kind = "plain" \/ FreezeThrows(t)
    <3> DEFINE m == [kind |-> "topic", size |-> 1]
    <3>1. Message(m) /\ Parts(RowsOf(o), m, base)
      <4> HIDE DEF o, base
      <4> QED BY <2>1 DEF Message, Parts
    <3> QED BY <1>2, <2>1, <2>2, <2>3, <2>4, <3>1
  <2>5. CASE ~(t.kind = "plain" \/ FreezeThrows(t))
    <3>1. Ready(t) = cut /\ t.kind # "plain"
      BY <2>2, <2>5
    <3>2. n \in Nat \ {0} /\ Chunks(o) = n
      <4>1. t.size \in Nat \ {0}
        BY DEF Made
      <4> QED BY <2>1, <3>1, <4>1, ChunksCover DEF Chunks
    <3> HIDE DEF o, base, n
    <3>3. ids \in Seq(Nat \X Nat) /\ Len(ids) = n /\ ids # <<>>
      <4>1. ASSUME NEW k \in 1 .. n PROVE id(k) \in Nat \X Nat
        <5>1. base[1] \in Nat /\ base[2] \in Nat
          BY <2>3
        <5> QED BY <3>2, <4>1, <5>1
      <4> HIDE DEF id
      <4> QED BY <3>2, <4>1
    <3>4. Len(rows) = n /\ rows # <<>>
      <4> HIDE DEF row
      <4> QED BY <3>2
    <3>5. RowsOf(cut) = {Body(o, id(k), k, TRUE) : k \in 1 .. n}
      <4>1. cut.rows = rows
        BY <2>1 DEF Made, TxFields
      <4>2. \A k \in 1 .. n : rows[k] = Body(o, id(k), k, TRUE)
        OBVIOUS
      <4> HIDE DEF cut, rows
      <4> QED BY <3>4, <4>1, <4>2 DEF RowsOf
    <3> HIDE DEF ids, rows, file
    <3>6. /\ DOMAIN cut = TxFields /\ cut.kind = t.kind /\ cut.size = t.size /\ cut.newest = o.newest
          /\ cut.index = 0 /\ cut.ids = ids /\ cut.rows = rows /\ cut.locked = file
          /\ cut.demand = o.demand /\ cut.throttled = t.throttled /\ cut.client = o.client
      BY <2>1 DEF Made, TxFields
    <3>7. file \in BOOLEAN
      BY DEF file
    <3> HIDE DEF cut
    <3>8. Made(cut) /\ Frozen(cut)
      <4>1. /\ cut.kind \in {"plain", "file", "topic"} /\ cut.size \in Nat \ {0}
            /\ cut.newest \in Nat /\ cut.index \in Nat /\ cut.ids \in Seq(Nat \X Nat)
        BY <2>1, <3>3, <3>6 DEF Made
      <4>2. Len(cut.rows) \in Nat /\ cut.rows # <<>> /\ cut.ids # <<>> /\ cut.index < Len(cut.ids)
        BY <3>2, <3>3, <3>4, <3>6
      <4>3. {cut.client, cut.demand, cut.locked, cut.throttled} \subseteq BOOLEAN
        BY <2>1, <3>6, <3>7 DEF Made
      <4> QED BY <3>6, <4>1, <4>2, <4>3 DEF Made, Frozen
    <3>9. CASE t.kind = "topic"
      <4>1. ASSUME NEW k \in 1 .. n PROVE PartOf(Body(o, id(k), k, TRUE), o, base)
        BY <2>1, <3>2, <3>9 DEF Body, PartOf
      <4>2. Message(o)
        BY <2>1, <3>9 DEF Message, Made
      <4> HIDE DEF id
      <4>3. Parts(RowsOf(cut), o, base)
        BY <3>5, <4>1 DEF Parts
      <4> QED BY <1>2, <2>3, <3>1, <3>3, <3>6, <3>8, <4>2, <4>3
    <3>10. CASE t.kind # "topic"
      <4>1. ASSUME NEW k \in 1 .. n PROVE Body(o, id(k), k, TRUE).number = 0
        BY <2>1, <3>10 DEF Body
      <4> HIDE DEF id
      <4> DEFINE m == [kind |-> "topic", size |-> 1]
      <4>2. Message(m)
        BY DEF Message
      <4> HIDE DEF m
      <4>3. Parts(RowsOf(cut), m, base)
        BY <3>5, <4>1 DEF Parts
      <4> QED BY <1>2, <2>3, <3>1, <3>3, <3>6, <3>8, <4>2, <4>3
    <3> QED BY <3>9, <3>10
  <2> QED BY <2>4, <2>5
<1> QED BY <1>1, <1>2

LEMMA MadeSigned ==
    ASSUME NEW t, Made(t), t.ids # <<>>
    PROVE  /\ Made(Signed(t)) /\ Signed(t).ids = t.ids /\ Signed(t).rows = t.rows
           /\ Signed(t).throttled = t.throttled /\ Signed(t).demand = t.demand
<1> DEFINE u == [t EXCEPT !.locked = TRUE]
<1>1. Signed(t) = t \/ Signed(t) = u
  BY DEF Signed
<1>2. /\ DOMAIN u = TxFields /\ u.kind = t.kind /\ u.size = t.size /\ u.newest = t.newest
      /\ u.index = t.index /\ u.ids = t.ids /\ u.rows = t.rows /\ u.locked = TRUE
      /\ u.demand = t.demand /\ u.throttled = t.throttled /\ u.client = t.client
  BY DEF Made, TxFields
<1> HIDE DEF u
<1> QED BY <1>1, <1>2 DEF Made, Frozen

LEMMA MadeAnew ==
    ASSUME NEW t, Made(t), NEW u, DOMAIN u = TxFields, u.kind = t.kind, u.size = t.size,
           u.newest = t.newest + 1, u.index = 0, u.ids = <<<<t.newest + 1, 0>>>>,
           u.rows = <<>>, u.locked \in BOOLEAN, u.throttled = TRUE, u.demand = t.demand,
           u.client = t.client
    PROVE  Made(u) /\ u.ids # <<>>
<1>1. /\ t.newest + 1 \in Nat /\ t.kind \in {"plain", "file", "topic"}
      /\ t.size \in Nat \ {0} /\ {t.client, t.demand} \subseteq BOOLEAN
  BY DEF Made
<1> DEFINE id == <<t.newest + 1, 0>>
<1>2. id \in Nat \X Nat
  BY <1>1
<1> HIDE DEF id
<1>3. <<id>> \in Seq(Nat \X Nat) /\ <<id>> # <<>> /\ Len(<<id>>) = 1 /\ Len(<<>>) = 0
  BY <1>2
<1>4. u.ids \in Seq(Nat \X Nat) /\ u.ids # <<>> /\ u.index < Len(u.ids) /\ Len(u.rows) \in Nat
  BY <1>3 DEF id
<1>5. {u.client, u.demand, u.locked, u.throttled} \subseteq BOOLEAN
  BY <1>1
<1> QED BY <1>1, <1>4, <1>5 DEF Made

LEMMA MadeReset ==
    ASSUME NEW t, Made(t)
    PROVE  /\ Made(Reset(t)) /\ Reset(t).throttled /\ Reset(t).ids # <<>>
           /\ Made([Reset(t) EXCEPT !.locked = TRUE])
           /\ [Reset(t) EXCEPT !.locked = TRUE].throttled
           /\ [Reset(t) EXCEPT !.locked = TRUE].ids # <<>>
<1> DEFINE u == Reset(t)
           v == [u EXCEPT !.locked = TRUE]
<1>1. /\ DOMAIN u = TxFields /\ u.kind = t.kind /\ u.size = t.size /\ u.newest = t.newest + 1
      /\ u.index = 0 /\ u.ids = <<<<t.newest + 1, 0>>>> /\ u.rows = <<>> /\ u.locked = FALSE
      /\ u.demand = t.demand /\ u.throttled = TRUE /\ u.client = t.client
  BY DEF Made, TxFields, Reset
<1>2. /\ DOMAIN v = TxFields /\ v.kind = t.kind /\ v.size = t.size /\ v.newest = t.newest + 1
      /\ v.index = 0 /\ v.ids = <<<<t.newest + 1, 0>>>> /\ v.rows = <<>> /\ v.locked = TRUE
      /\ v.demand = t.demand /\ v.throttled = TRUE /\ v.client = t.client
  BY <1>1 DEF TxFields
<1> HIDE DEF u, v
<1>5. Made(u) /\ u.ids # <<>>
  BY <1>1, MadeAnew
<1>6. Made(v) /\ v.ids # <<>>
  BY <1>2, MadeAnew
<1> QED BY <1>1, <1>2, <1>5, <1>6 DEF u, v

-----------------------------------------------------------------------------
(* A message: the bodies. *)

\* As long as a transaction keeps its rows, or is whole, nothing else is cut.
LEMMA CutKept ==
    ASSUME NEW t, NEW u, NEW B, Cut(t, B),
           \/ u.throttled
           \/ u.throttled = t.throttled /\ u.rows = t.rows /\ u.demand = t.demand
           \/ ~t.throttled /\ ~Frozen(t) /\ \E m, base : /\ Message(m) /\ base \in Nat \X Nat
                                                         /\ Parts(RowsOf(u), m, base)
    PROVE  Cut(u, B)
<1>1. PICK m, base : /\ Message(m) /\ base \in Nat \X Nat /\ Parts(B, m, base)
                     /\ ~t.throttled /\ ~t.demand => Parts(RowsOf(t), m, base)
  BY DEF Cut
<1>2. CASE u.throttled
  BY <1>1, <1>2 DEF Cut
<1>3. CASE u.throttled = t.throttled /\ u.rows = t.rows /\ u.demand = t.demand
  <2>1. RowsOf(u) = RowsOf(t) /\ Frozen(u) = Frozen(t)
    BY <1>3 DEF RowsOf, Frozen
  <2> QED BY <1>1, <1>3, <2>1 DEF Cut
<1>4. CASE ~t.throttled /\ ~Frozen(t) /\ \E n, id : /\ Message(n) /\ id \in Nat \X Nat
                                                    /\ Parts(RowsOf(u), n, id)
  <2>1. PICK n, id : Message(n) /\ id \in Nat \X Nat /\ Parts(RowsOf(u), n, id)
    BY <1>4
  <2>2. \A b \in B : b.number = 0
    BY <1>4 DEF Cut
  <2>3. Parts(B, n, id)
    BY <2>2 DEF Parts
  <2> QED BY <2>1, <2>2, <2>3 DEF Cut
<1> QED BY <1>2, <1>3, <1>4

LEMMA CutReady ==
    ASSUME NEW t, NEW B, Made(t), Cut(t, B)
    PROVE  Cut(Ready(t), B)
<1>1. CASE Frozen(t)
  BY <1>1, MadeReady
<1>2. CASE ~Frozen(t) /\ t.throttled
  BY <1>2, MadeReady, CutKept
<1>3. CASE ~Frozen(t) /\ ~t.throttled
  <2> DEFINE u == Ready(t)
  <2>1. \E m, base : Message(m) /\ base \in Nat \X Nat /\ Parts(RowsOf(u), m, base)
    BY <1>3, MadeReady
  <2> HIDE DEF u
  <2>2. Cut(u, B)
    BY <1>3, <2>1, CutKept
  <2> QED BY <2>2 DEF u
<1> QED BY <1>1, <1>2, <1>3

\* What is sent of a frozen transaction is a row of it, or not numbered.
LEMMA CutSent ==
    ASSUME NEW t, NEW B, Made(t), Frozen(t), Sendable(t), Cut(t, B)
    PROVE  Cut(t, B \cup {BodyOf(t)})
<1> DEFINE b == BodyOf(t)
<1>1. PICK m, base : /\ Message(m) /\ base \in Nat \X Nat /\ Parts(B, m, base)
                     /\ ~t.throttled /\ ~t.demand => Parts(RowsOf(t), m, base)
  BY DEF Cut
<1>2. b.number = 0 \/ PartOf(b, m, base)
  <2>1. CASE t.demand \/ t.throttled
    BY <2>1 DEF BodyOf, Body
  <2>2. CASE ~(t.demand \/ t.throttled)
    <3>1. b = t.rows[t.index + 1] /\ t.index < Len(t.rows)
      BY <2>2 DEF BodyOf, Sendable
    <3>2. t.index + 1 \in 1 .. Len(t.rows)
      BY <3>1 DEF Made
    <3>3. b \in RowsOf(t)
      BY <3>1, <3>2 DEF RowsOf
    <3> QED BY <1>1, <2>2, <3>3 DEF Parts
  <2> QED BY <2>1, <2>2
<1> HIDE DEF b
<1>3. Parts(B \cup {b}, m, base)
  BY <1>1, <1>2 DEF Parts
<1> QED BY <1>1, <1>3 DEF Cut, b

\* execute and executeAll.
LEMMA StartsMade ==
    ASSUME NEW c, NEW frames, NEW t, NEW B, Made(t), Cut(t, B), Starts(c, frames, t),
           t.ids # <<>> \/ ~(t.kind = "file" /\ TooMany(t))
    PROVE  Made(tx') /\ tx'.ids # <<>> /\ Cut(tx', B)
<1>1. CASE t.kind = "file" /\ TooMany(t)
  BY <1>1 DEF Starts
<1>2. CASE ~(t.kind = "file" /\ TooMany(t))
  <2> DEFINE u == Ready(t)
  <2>1. tx' = u \/ tx' = Signed(u)
    BY <1>2 DEF Starts
  <2>2. Made(u) /\ u.ids # <<>> /\ Cut(u, B)
    BY MadeReady, CutReady
  <2> HIDE DEF u
  <2> DEFINE v == Signed(u)
  <2>3. /\ Made(v) /\ v.ids = u.ids /\ v.rows = u.rows
        /\ v.throttled = u.throttled /\ v.demand = u.demand
    BY <2>2, MadeSigned
  <2>4. Made(v) /\ v.ids # <<>> /\ Cut(v, B)
    <3> HIDE DEF v
    <3>1. Cut(v, B)
      BY <2>2, <2>3, CutKept
    <3> QED BY <2>2, <2>3, <3>1
  <2> QED BY <2>1, <2>2, <2>4
<1> QED BY <1>1, <1>2

-----------------------------------------------------------------------------
(* A message: the steps. *)

\* Most steps leave the network alone.
LEMMA LedgerKept ==
    ASSUME MessageInv, ledger' = ledger, applied' = applied, Made(tx'), tx'.ids # <<>>,
           Cut(tx', Taken)
    PROVE  MessageInv'
<1>1. Taken' = Taken /\ (\A b : TakesEffect(b)' = TakesEffect(b))
  BY DEF Taken, TakesEffect
<1>2. Effects'
  BY <1>1 DEF MessageInv, Effects
<1>3. Started'
  BY DEF Started
<1>4. Cut(tx, Taken)'
  BY <1>1 DEF Cut, Frozen
<1>5. Made(tx)'
  BY DEF Made, Frozen
<1> QED BY <1>2, <1>3, <1>4, <1>5 DEF MessageInv

\* A step that changes nothing of the transaction either.
LEMMA AllKept ==
    ASSUME MessageInv, UNCHANGED <<tx, ledger, applied>>, Started'
    PROVE  MessageInv'
<1>1. Taken' = Taken /\ (\A b : TakesEffect(b)' = TakesEffect(b))
  BY DEF Taken, TakesEffect
<1>2. Effects'
  BY <1>1 DEF MessageInv, Effects
<1>4. Cut(tx, Taken)'
  BY <1>1 DEF MessageInv, Cut, Frozen
<1>5. Made(tx)'
  BY DEF MessageInv, Made, Frozen
<1> QED BY <1>2, <1>4, <1>5 DEF MessageInv

LEMMA BusyStarted ==
    ASSUME MessageInv, NEW c \in Caller, stack[c] # <<>>
    PROVE  tx.ids # <<>>
BY DEF MessageInv, Started

LEMMA SequenceGrows ==
    ASSUME NEW S, NEW T, S \subseteq T, NEW s \in Seq(S)
    PROVE  s \in Seq(T)
OBVIOUS

\* The network takes a body under an ID that it has not seen.
LEMMA SubmitMade ==
    ASSUME MessageInv, NEW c \in Caller, NEW answered \in BOOLEAN, Submit(c, answered)
    PROVE  MessageInv'
<1> DEFINE t == Ready(tx)
           body == BodyOf(t)
           new == [body |-> body, state |-> "pending"]
<1>1. /\ Sendable(t) /\ body.id \notin DOMAIN ledger
      /\ tx' = t /\ applied' = applied
      /\ ledger' = [id \in DOMAIN ledger \cup {body.id} |-> IF id = body.id THEN new ELSE ledger[id]]
  BY DEF Submit
<1>2. Made(t) /\ Frozen(t) /\ t.ids # <<>> /\ Cut(t, Taken)
  BY MadeReady, CutReady DEF MessageInv
<1>3. Cut(t, Taken \cup {body})
  BY <1>1, <1>2, CutSent
<1> HIDE DEF t, body
<1>4. DOMAIN ledger' = DOMAIN ledger \cup {body.id}
  BY <1>1
<1>5. \A id \in DOMAIN ledger : ledger'[id] = ledger[id] /\ id # body.id
  BY <1>1
<1>6. ledger'[body.id] = new
  BY <1>1
<1>7. Taken' = Taken \cup {body}
  BY <1>4, <1>5, <1>6 DEF Taken
<1>8. \A b : TakesEffect(b) => TakesEffect(b)'
  BY <1>4, <1>5 DEF TakesEffect
<1>9. Effects'
  <2>1. \A id \in DOMAIN ledger' : DOMAIN ledger'[id] = {"body", "state"} /\ ledger'[id].body.id = id
    BY <1>4, <1>5, <1>6 DEF MessageInv, Effects
  <2> DEFINE S == {b \in Taken : TakesEffect(b)}
             T == {b \in Taken' : TakesEffect(b)'}
  <2>2. S \subseteq T /\ applied \in Seq(S)
    BY <1>7, <1>8 DEF MessageInv, Effects
  <2> HIDE DEF S, T
  <2>3. applied' \in Seq(T)
    BY <1>1, <2>2, SequenceGrows
  <2>4. \A i, j \in 1 .. Len(applied') : applied'[i].id = applied'[j].id => i = j
    BY <1>1 DEF MessageInv, Effects
  <2> QED BY <2>1, <2>3, <2>4 DEF Effects, T
<1>10. Started'
  BY <1>1, <1>2 DEF Started
<1>11. Cut(tx, Taken)'
  BY <1>1, <1>3, <1>7 DEF Cut, Frozen
<1>12. Made(tx)'
  BY <1>1, <1>2 DEF Made, Frozen
<1> QED BY <1>9, <1>10, <1>11, <1>12 DEF MessageInv

\* A body reaches consensus once.
LEMMA ConsensusMade ==
    ASSUME MessageInv, NEW id, NEW state, Consensus(id, state)
    PROVE  MessageInv'
<1>1. /\ StateOf(id) = "pending" /\ ledger' = [ledger EXCEPT ![id].state = state]
      /\ applied' = IF state = "success" THEN Append(applied, ledger[id].body) ELSE applied
      /\ UNCHANGED <<tx, stack, returned>>
  BY DEF Consensus
<1>2. id \in DOMAIN ledger /\ ledger[id].state = "pending"
  BY <1>1 DEF StateOf
<1>3. \A i \in DOMAIN ledger : DOMAIN ledger[i] = {"body", "state"} /\ ledger[i].body.id = i
  BY DEF MessageInv, Effects
<1>4. DOMAIN ledger' = DOMAIN ledger
  BY <1>1
<1>5. \A i \in DOMAIN ledger : i # id => ledger'[i] = ledger[i]
  BY <1>1
<1> DEFINE b == ledger[id].body
<1>6. ledger'[id] = [body |-> b, state |-> state]
  <2>1. ledger'[id] = [ledger[id] EXCEPT !.state = state]
    BY <1>1, <1>2
  <2>2. DOMAIN ledger[id] = {"body", "state"}
    BY <1>2, <1>3
  <2>3. DOMAIN [ledger[id] EXCEPT !.state = state] = {"body", "state"}
    BY <2>2
  <2>4. [ledger[id] EXCEPT !.state = state] =
            [f \in {"body", "state"} |-> IF f = "state" THEN state ELSE b]
    BY <2>2
  <2> QED BY <2>1, <2>4
<1>7. ledger'[id].body = b /\ DOMAIN ledger'[id] = {"body", "state"}
  BY <1>6
<1>8. \A i \in DOMAIN ledger : ledger'[i].body = ledger[i].body /\ DOMAIN ledger'[i] = {"body", "state"}
  BY <1>3, <1>5, <1>7
<1>9. Taken' = Taken
  BY <1>4, <1>8 DEF Taken
<1> DEFINE S == {x \in Taken : TakesEffect(x)}
           T == {x \in Taken' : TakesEffect(x)'}
<1>10. \A x \in S : x \in T /\ x.id # id
  BY <1>2, <1>4, <1>5, <1>9 DEF TakesEffect
<1>11. applied \in Seq(S) /\ \A i, j \in 1 .. Len(applied) : applied[i].id = applied[j].id => i = j
  BY DEF MessageInv, Effects
<1> HIDE DEF S
<1>12. applied \in Seq(T)
  <2> HIDE DEF T
  <2>1. S \subseteq T
    BY <1>10
  <2> QED BY <1>11, <2>1, SequenceGrows
<1>13. \A i \in 1 .. Len(applied) : applied[i].id # id
  BY <1>10, <1>11
<1>14. applied' \in Seq(T) /\ \A i, j \in 1 .. Len(applied') : applied'[i].id = applied'[j].id => i = j
  <2>1. CASE state = "success"
    <3>1. b.id = id /\ b \in Taken
      BY <1>2, <1>3 DEF Taken
    <3>2. b \in T
      BY <1>2, <1>4, <1>6, <1>9, <2>1, <3>1 DEF TakesEffect
    <3>3. applied' = Append(applied, b)
      BY <1>1, <2>1
    <3> HIDE DEF b, T
    <3>4. /\ applied' \in Seq(T) /\ Len(applied') = Len(applied) + 1
          /\ applied'[Len(applied) + 1] = b
          /\ \A i \in 1 .. Len(applied) : applied'[i] = applied[i]
      BY <1>12, <3>2, <3>3, AppendProperties
    <3>5. Len(applied) \in Nat
      BY <1>11
    <3>6. ASSUME NEW i \in 1 .. Len(applied'), NEW j \in 1 .. Len(applied'),
                 applied'[i].id = applied'[j].id
          PROVE  i = j
      <4>1. CASE i \in 1 .. Len(applied) /\ j \in 1 .. Len(applied)
        BY <1>11, <3>4, <3>6, <4>1
      <4>2. CASE i \in 1 .. Len(applied) /\ j = Len(applied) + 1
        BY <1>13, <3>1, <3>4, <3>6, <4>2
      <4>3. CASE j \in 1 .. Len(applied) /\ i = Len(applied) + 1
        BY <1>13, <3>1, <3>4, <3>6, <4>3
      <4>4. CASE i = Len(applied) + 1 /\ j = Len(applied) + 1
        BY <4>4
      <4> QED BY <3>4, <3>5, <4>1, <4>2, <4>3, <4>4
    <3> QED BY <3>4, <3>6
  <2>2. CASE state # "success"
    BY <1>1, <1>11, <1>12, <2>2
  <2> QED BY <2>1, <2>2
<1>15. Effects'
  BY <1>3, <1>4, <1>8, <1>14 DEF Effects
<1>16. Started'
  BY <1>1 DEF MessageInv, Started
<1>17. Cut(tx, Taken)' /\ Made(tx)'
  BY <1>1, <1>9 DEF MessageInv, Cut, Made, Frozen
<1> QED BY <1>15, <1>16, <1>17 DEF MessageInv

LEMMA RespondsMade ==
    ASSUME MessageInv, NEW c \in Caller, Responds(c)
    PROVE  MessageInv'
<1> DEFINE n == NextIndex(tx)
           t == [tx EXCEPT !.index = n]
<1>1. tx' = t /\ ledger' = ledger /\ applied' = applied /\ stack[c] # <<>>
  BY DEF Responds, Busy
<1>2. tx.ids # <<>> /\ Made(tx) /\ Cut(tx, Taken)
  BY <1>1, BusyStarted DEF MessageInv
<1>3. n \in Nat /\ n < Len(tx.ids)
  <2> DEFINE ids == tx.ids
             i == tx.index + 1
  <2>1. ids \in Seq(Nat \X Nat) /\ ids # <<>> /\ i \in Nat
    BY <1>2 DEF Made
  <2> HIDE DEF ids, i
  <2>2. Len(ids) \in Nat \ {0}
    BY <2>1
  <2>3. i % Len(ids) \in Nat /\ i % Len(ids) < Len(ids)
    BY <2>1, <2>2
  <2> QED BY <2>3 DEF NextIndex, ids, i
<1> HIDE DEF n
<1>4. /\ DOMAIN t = TxFields /\ t.kind = tx.kind /\ t.size = tx.size /\ t.newest = tx.newest
      /\ t.index = n /\ t.ids = tx.ids /\ t.rows = tx.rows /\ t.locked = tx.locked
      /\ t.demand = tx.demand /\ t.throttled = tx.throttled /\ t.client = tx.client
  BY <1>2 DEF Made, TxFields
<1> HIDE DEF t
<1>5. Made(t)
  BY <1>2, <1>3, <1>4 DEF Made, Frozen
<1>6. Cut(t, Taken)
  BY <1>2, <1>4, CutKept
<1>7. Made(tx') /\ tx'.ids # <<>> /\ Cut(tx', Taken)
  BY <1>1, <1>2, <1>4, <1>5, <1>6
<1> QED BY <1>1, <1>7, LedgerKept

LEMMA StartRetryMade ==
    ASSUME MessageInv, NEW c \in Caller, StartRetry(c)
    PROVE  MessageInv'
<1> DEFINE t == Reset(tx)
           u == Reset(t)
           frames == Append(Below(c), Retrying(Last(stack[c]).response))
<1>1. Made(t) /\ t.ids # <<>>
  BY MadeReset DEF MessageInv
<1> HIDE DEF t
<1>2. Made(u) /\ u.throttled /\ u.ids # <<>>
  BY <1>1, MadeReset
<1> HIDE DEF u
<1>3. Cut(u, Taken)
  BY <1>2, CutKept DEF MessageInv
<1>4. Starts(c, frames, u) /\ ledger' = ledger /\ applied' = applied
  BY DEF StartRetry, t, u
<1> HIDE DEF frames
<1>5. Made(tx') /\ tx'.ids # <<>> /\ Cut(tx', Taken)
  BY <1>2, <1>3, <1>4, StartsMade
<1> QED BY <1>4, <1>5, LedgerKept

\* A new ID changes nothing of what was cut.
LEMMA MadeRenamed ==
    ASSUME NEW t, Made(t)
    PROVE  Made(Named(t)) /\ Named(t).ids # <<>>
<1> DEFINE u == Named(t)
<1>1. /\ DOMAIN u = TxFields /\ u.kind = t.kind /\ u.size = t.size
      /\ u.newest \in Nat /\ u.index = t.index /\ u.rows = t.rows
      /\ u.demand = t.demand /\ u.locked = t.locked
      /\ u.throttled = t.throttled /\ u.client = t.client
      /\ u.ids \in Seq(Nat \X Nat) /\ u.ids # <<>> /\ t.index < Len(u.ids)
  BY MadeNamed
<1> HIDE DEF u
<1> QED BY <1>1 DEF Made, u

LEMMA ExpiresMade ==
    ASSUME MessageInv, NEW c \in Caller, Expires(c)
    PROVE  MessageInv'
<1> DEFINE t == Ready(tx)
           u == Named(t)
<1>1. tx' = u /\ ledger' = ledger /\ applied' = applied
  BY DEF Expires
<1>2. Made(t) /\ Cut(t, Taken)
  BY MadeReady, CutReady DEF MessageInv
<1> HIDE DEF t
<1>3. u.rows = t.rows /\ u.demand = t.demand /\ u.throttled = t.throttled
  BY <1>2, MadeNamed
<1>4. Made(u) /\ u.ids # <<>>
  BY <1>2, MadeRenamed
<1> HIDE DEF u
<1>5. Cut(u, Taken)
  BY <1>2, <1>3, CutKept
<1> QED BY <1>1, <1>4, <1>5, LedgerKept

LEMMA MessageStep ==
    ASSUME MessageInv, [Next]_vars
    PROVE  MessageInv'
<1>1. CASE UNCHANGED vars
  BY <1>1, AllKept DEF vars, MessageInv, Started
<1>2. ASSUME NEW c \in Caller, ExecuteAll(c) PROVE MessageInv'
  <2>1. Starts(c, <<>>, tx) /\ ledger' = ledger /\ applied' = applied
        /\ ~(tx.kind = "file" /\ TooMany(tx))
    BY <1>2 DEF ExecuteAll
  <2>2. Made(tx') /\ tx'.ids # <<>> /\ Cut(tx', Taken)
    BY <2>1, StartsMade DEF MessageInv
  <2> QED BY <2>1, <2>2, LedgerKept
<1>3. ASSUME NEW c \in Caller, NEW r \in returned, GetReceipt(c, r) PROVE MessageInv'
  <2>1. UNCHANGED <<tx, ledger, applied, returned>>
    BY <1>3 DEF GetReceipt
  <2>2. tx.ids # <<>>
    BY DEF MessageInv, Started
  <2> QED BY <2>1, <2>2, AllKept DEF Started
<1>4. ASSUME NEW c \in Caller, NEW answered \in BOOLEAN, Submit(c, answered) PROVE MessageInv'
  BY <1>4, SubmitMade
<1>5. ASSUME NEW c \in Caller, Refused(c) PROVE MessageInv'
  <2> DEFINE t == Ready(tx)
  <2>1. tx' = t /\ ledger' = ledger /\ applied' = applied
    BY <1>5 DEF Refused
  <2>2. Made(t) /\ t.ids # <<>> /\ Cut(t, Taken)
    BY MadeReady, CutReady DEF MessageInv
  <2> HIDE DEF t
  <2> QED BY <2>1, <2>2, LedgerKept
<1>6. ASSUME NEW c \in Caller, Responds(c) PROVE MessageInv'
  BY <1>6, RespondsMade
<1>7. ASSUME NEW c \in Caller, ReceiptArrives(c) \/ ReceiptFails(c) PROVE MessageInv'
  <2>1. stack[c] # <<>> /\ UNCHANGED <<tx, ledger, applied>>
    BY <1>7 DEF ReceiptArrives, ReceiptFails, Asking, Busy
  <2>2. tx.ids # <<>>
    BY <2>1, BusyStarted
  <2> QED BY <2>1, <2>2, AllKept DEF Started
<1>8. ASSUME NEW c \in Caller, StartRetry(c) PROVE MessageInv'
  BY <1>8, StartRetryMade
<1>9. ASSUME NEW c \in Caller, ThrottledAgain(c) PROVE MessageInv'
  <2> DEFINE t == [Reset(tx) EXCEPT !.locked = TRUE]
  <2>1. ledger' = ledger /\ applied' = applied /\ stack[c] # <<>> /\ (tx' = tx \/ tx' = t)
    BY <1>9 DEF ThrottledAgain, Busy
  <2>2. Made(t) /\ t.throttled /\ t.ids # <<>>
    BY MadeReset DEF MessageInv
  <2> HIDE DEF t
  <2>3. Cut(t, Taken)
    BY <2>2, CutKept DEF MessageInv
  <2>4. Made(tx) /\ tx.ids # <<>> /\ Cut(tx, Taken)
    BY <2>1, BusyStarted DEF MessageInv
  <2>5. Made(tx') /\ tx'.ids # <<>> /\ Cut(tx', Taken)
    BY <2>1, <2>2, <2>3, <2>4
  <2> QED BY <2>1, <2>5, LedgerKept
<1>10. ASSUME NEW c \in Caller, Resume(c) PROVE MessageInv'
  <2> DEFINE t == Reset(tx)
             frames == Append(Below(c), [Last(stack[c]) EXCEPT !.pc = "executing"])
  <2>1. Starts(c, frames, t) /\ ledger' = ledger /\ applied' = applied
    BY <1>10 DEF Resume
  <2>2. Made(t) /\ t.throttled /\ t.ids # <<>>
    BY MadeReset DEF MessageInv
  <2> HIDE DEF t, frames
  <2>3. Cut(t, Taken)
    BY <2>2, CutKept DEF MessageInv
  <2>4. Made(tx') /\ tx'.ids # <<>> /\ Cut(tx', Taken)
    BY <2>1, <2>2, <2>3, StartsMade
  <2> QED BY <2>1, <2>4, LedgerKept
<1>11. ASSUME NEW size \in Sizes, SetChunkSize(size) PROVE MessageInv'
  <2> DEFINE t == [tx EXCEPT !.size = size]
  <2>1. tx' = t /\ UNCHANGED <<stack, returned, ledger, applied>>
    BY <1>11 DEF SetChunkSize
  <2>2. /\ DOMAIN t = TxFields /\ t.kind = tx.kind /\ t.size = size /\ t.newest = tx.newest
        /\ t.index = tx.index /\ t.ids = tx.ids /\ t.rows = tx.rows /\ t.locked = tx.locked
        /\ t.demand = tx.demand /\ t.throttled = tx.throttled /\ t.client = tx.client
    BY DEF MessageInv, Made, TxFields
  <2>3. size \in Nat \ {0}
    BY ChunkedAssumption
  <2> HIDE DEF t
  <2>4. Made(t)
    BY <2>2, <2>3 DEF MessageInv, Made, Frozen
  <2>5. Cut(t, Taken)
    BY <2>2, CutKept DEF MessageInv
  <2>6. Taken' = Taken /\ (\A b : TakesEffect(b)' = TakesEffect(b))
    BY <2>1 DEF Taken, TakesEffect
  <2>7. Effects'
    BY <2>1, <2>6 DEF MessageInv, Effects
  <2>8. Started'
    BY <2>1, <2>2 DEF MessageInv, Started
  <2>9. Cut(tx, Taken)' /\ Made(tx)'
    BY <2>1, <2>4, <2>5, <2>6 DEF Cut, Made, Frozen
  <2> QED BY <2>7, <2>8, <2>9 DEF MessageInv
<1>12. ASSUME NEW id \in DOMAIN ledger, NEW state \in {"success", "failed", "throttled"},
              Consensus(id, state)
       PROVE  MessageInv'
  BY <1>12, ConsensusMade
<1>13. ASSUME NEW c \in Caller, Expires(c) PROVE MessageInv'
  BY <1>13, ExpiresMade
<1> QED
  BY <1>1, <1>2, <1>3, <1>4, <1>5, <1>6, <1>7, <1>8, <1>9, <1>10, <1>11, <1>12, <1>13 DEF Next

LEMMA MessageInit == Init => MessageInv
<1> SUFFICES ASSUME Init PROVE MessageInv
  OBVIOUS
<1>1. PICK kind \in Kinds, demand \in Demands, size \in Sizes :
          tx = [kind |-> kind, client |-> demand, demand |-> FALSE, size |-> size, ids |-> <<>>,
                index |-> 0, locked |-> FALSE, rows |-> <<>>, throttled |-> FALSE, newest |-> 0]
  BY DEF Init
<1>2. /\ DOMAIN tx = TxFields /\ tx.kind = kind /\ tx.demand = FALSE /\ tx.ids = <<>>
      /\ tx.size = size /\ tx.client = demand /\ tx.throttled = FALSE
      /\ tx.index = 0 /\ tx.locked = FALSE /\ tx.rows = <<>> /\ tx.newest = 0
  BY <1>1 DEF TxFields
<1>3. kind \in {"plain", "file", "topic"} /\ demand \in BOOLEAN /\ size \in Nat \ {0}
  BY ChunkedAssumption
<1>4. /\ stack = [c \in Caller |-> <<>>] /\ returned = {} /\ ledger = <<>> /\ applied = <<>>
  BY DEF Init
<1>5. DOMAIN ledger = {}
  BY <1>4
<1>6. Made(tx)
  <2>1. tx.ids \in Seq(Nat \X Nat) /\ Len(tx.rows) = 0 /\ 0 \in Nat
    BY <1>2
  <2> QED BY <1>2, <1>3, <2>1 DEF Made, Frozen
<1>7. Started
  BY <1>4 DEF Started
<1>8. Taken = {} /\ RowsOf(tx) = {}
  BY <1>2, <1>5 DEF Taken, RowsOf
<1>9. Cut(tx, Taken)
  <2> DEFINE m == [kind |-> "topic", size |-> 1]
             base == <<0, 0>>
  <2>1. Message(m) /\ base \in Nat \X Nat
    BY DEF Message
  <2> HIDE DEF m, base
  <2>2. Parts({}, m, base)
    BY DEF Parts
  <2> QED BY <1>8, <2>1, <2>2 DEF Cut
<1>10. Effects
  BY <1>4, <1>5 DEF Effects
<1> QED BY <1>6, <1>7, <1>9, <1>10 DEF MessageInv

\* MessageInv holds in every state.
LEMMA MessageSafe == Spec => []MessageInv
BY MessageInit, MessageStep, PTL DEF Spec

\* The numbered parts of a message that reach a topic are never repeated, and each
\* goes on where the part numbered before it stops, whatever answers are lost, in
\* whatever order the network decides, and also when the chunk size is changed or
\* the transaction is executed again; freezeWith and executeAll of a
\* TopicMessageSubmitTransaction.
THEOREM PartsMakeMessageSafe == Spec => []PartsMakeMessage
<1>1. ASSUME MessageInv PROVE PartsMakeMessage
  <2>1. PICK m, base : Message(m) /\ base \in Nat \X Nat /\ Parts(Taken, m, base)
    BY <1>1 DEF MessageInv, Cut
  <2> DEFINE n == Chunks(m)
             s == m.size
  <2>2. n \in Nat \ {0} /\ s \in Nat \ {0} /\ m.kind # "plain" /\ Length \in Nat \ {0}
    BY <2>1, ChunksCover, ChunkedAssumption DEF Message
  <2>3. ASSUME NEW i \in Numbered
        PROVE  /\ i \in 1 .. Len(applied) /\ applied[i] \in Taken
               /\ applied[i].number \in 1 .. n /\ applied[i].total = n
               /\ applied[i].id = <<base[1], base[2] + applied[i].number - 1>>
               /\ applied[i].bytes = Slice(m, applied[i].number)
    <3>1. i \in 1 .. Len(applied) /\ applied[i].number > 0
      BY DEF Numbered
    <3>2. applied[i] \in Taken
      BY <1>1, <3>1 DEF MessageInv, Effects
    <3>3. applied[i].number = 0 \/ PartOf(applied[i], m, base)
      BY <2>1, <3>2 DEF Parts
    <3>4. PartOf(applied[i], m, base)
      BY <3>1, <3>3
    <3> QED BY <3>1, <3>2, <3>4 DEF PartOf
  <2>4. ASSUME NEW i \in Numbered
        PROVE  /\ Piece(applied[i].bytes, (applied[i].number - 1) * s + 1)
               /\ After(applied[i]) =
                     (IF applied[i].number < n THEN applied[i].number * s ELSE Length) + 1
    BY <2>2, <2>3, SliceIsPiece
  <2> HIDE DEF n, s
  <2>5. ASSUME NEW i \in Numbered
        PROVE  /\ applied[i].number = 1 => Piece(applied[i].bytes, 1)
               /\ applied[i].number = applied[i].total => After(applied[i]) = Length + 1
               /\ applied[i].number <= applied[i].total
    <3>1. applied[i].number \in 1 .. n /\ applied[i].total = n
      BY <2>3
    <3>2. (1 - 1) * s + 1 = 1
      BY <2>2
    <3> QED BY <2>2, <2>4, <3>1, <3>2
  <2>6. ASSUME NEW i \in Numbered, NEW j \in Numbered, applied[i].number = applied[j].number
        PROVE  i = j
    <3>1. applied[i].id = applied[j].id
      BY <2>3, <2>6
    <3> QED BY <1>1, <2>3, <3>1 DEF MessageInv, Effects
  <2>7. ASSUME NEW i \in Numbered, NEW j \in Numbered, applied[j].number = applied[i].number + 1
        PROVE  Piece(applied[j].bytes, After(applied[i]))
    <3> DEFINE k == applied[i].number
    <3>1. k \in 1 .. n /\ k + 1 \in 1 .. n
      BY <2>3, <2>7
    <3>2. k < n /\ (k + 1) - 1 = k
      BY <2>2, <3>1
    <3>3. After(applied[i]) = k * s + 1
      BY <2>4, <3>2
    <3>4. Piece(applied[j].bytes, ((k + 1) - 1) * s + 1)
      BY <2>4, <2>7
    <3> QED BY <3>2, <3>3, <3>4
  <2> QED BY <2>5, <2>6, <2>7 DEF PartsMakeMessage
<1> QED BY <1>1, MessageSafe, PTL

-----------------------------------------------------------------------------
(* The inductive invariant of a file. *)

\* The file is frozen in chunks that bear the newest ID; once it was reset, in one.
NameOf(t, k) == <<t.newest, k - 1>>
FrozenFile(t) ==
    /\ Made(t) /\ t.kind = "file" /\ t.newest > 0 /\ Frozen(t) /\ ~TooMany(t)
    /\ t.ids = [k \in 1 .. Chunks(t) |-> NameOf(t, k)]
    /\ IF t.throttled THEN Chunks(t) = 1 ELSE t.locked
    /\ ~t.demand /\ ~t.throttled =>
          /\ Len(t.rows) = Chunks(t)
          /\ \A k \in 1 .. Chunks(t) : t.rows[k].id = NameOf(t, k) /\ t.rows[k].bytes = Slice(t, k)

\* The network took chunks, each after the one before had succeeded, and the
\* throttled bodies of earlier IDs.
Succeeded(k) == StateOf(NameOf(tx, k)) = "success"
OfChunk(id, k) ==
    /\ id = NameOf(tx, k) /\ ledger[id].body.bytes = Slice(tx, k)
    /\ k > 1 => Succeeded(k - 1)
OfEarlier(id) == Chunks(tx) = 1 /\ id[1] \in 0 .. tx.newest - 1 /\ ledger[id].state = "throttled"
InOrder ==
    \A id \in DOMAIN ledger : OfEarlier(id) \/ \E k \in 1 .. Chunks(tx) : OfChunk(id, k)

\* It applied the chunks that succeeded.
AppliedFile ==
    /\ \A i \in 1 .. Len(applied) :
          i <= Chunks(tx) /\ Succeeded(i) /\ applied[i].bytes = Slice(tx, i)
    /\ \A k \in 1 .. Chunks(tx) : Succeeded(k) => k <= Len(applied)

\* Nothing is awaited for an ID that succeeded, or will never be submitted.
Settled(id) == StateOf(id) = "success" \/ (id \notin DOMAIN ledger /\ id[1] \in 0 .. tx.newest - 1)
AllSettled == \A r \in 1 .. Len(responses) : Settled(responses[r].id)

\* The frames of the one call that executes are executions and retries in turn,
\* each waiting for the one above it, and the one at the top sends a chunk, asks
\* for its receipt, or asks once more for that of a retried one.
Asked == {<<>>} \cup (Nat \X Nat)
Ops == {"all", "receipt", "retry"}
Pcs == {"send", "answered", "await", "ask", "executing", "receipt", "waiting"}
Frames(n) ==
    [op : Ops, pc : Pcs, round : Nat, got : Seq(1 .. n), response : Nat, asked : Asked]
Runs(s) == s # <<>> /\ s[1].op = "all"
Waits(n, f, above) ==
    \/ /\ f.op = "all" /\ f.pc = "await" /\ f.round \in 1 .. n /\ f.got # <<>>
       /\ above.op # "all"
    \/ f.op = "retry" /\ f.pc = "executing" /\ above.op = "all"
Stacked(n, s) ==
    /\ Len(s) > 2 => n = 1
    /\ \A i \in 1 .. Len(s) - 1 : Waits(n, s[i], s[i + 1])
Sends(f) ==
    /\ f.op = "all" /\ f.pc \in {"send", "answered"} /\ f.round = tx.index + 1
    /\ f.round > 1 => Succeeded(f.round - 1)
    /\ f.pc = "answered" => NameOf(tx, f.round) \in DOMAIN ledger
    /\ AllSettled
AsksFor(f, below) ==
    /\ f.op = "receipt" /\ f.pc = "ask" /\ tx.index = below.round % Chunks(tx)
    /\ f.asked = NameOf(tx, below.round) /\ f.asked \in DOMAIN ledger
    /\ f.response \in 1 .. Len(responses) /\ responses[f.response].id = f.asked
    /\ \A r \in 1 .. Len(responses) : r # f.response => Settled(responses[r].id)
AsksAgain(f) ==
    /\ f.op = "retry" /\ f.pc = "receipt" /\ Settled(f.asked)
    /\ Chunks(tx) = 1 /\ Succeeded(1) /\ AllSettled
InTurn(s) ==
    /\ Stacked(Chunks(tx), s)
    /\ \/ Sends(s[Len(s)])
       \/ Len(s) > 1 /\ AsksFor(s[Len(s)], s[Len(s) - 1])
       \/ Len(s) > 1 /\ AsksAgain(s[Len(s)])

\* Every other call asks for a receipt in vain, or for one that is there.
Idle(s) == Len(s) = 1 /\ s[1].op = "receipt" /\ s[1].pc = "ask" /\ Settled(s[1].asked)

InFlight ==
    /\ responses \in Seq(Response)
    /\ stack \in [Caller -> Seq(Frames(Len(responses)))]
    /\ \A c \in Caller :
          stack[c] # <<>> => Idle(stack[c]) \/ (Runs(stack[c]) /\ InTurn(stack[c]))
    /\ \A c, d \in Caller : Runs(stack[c]) /\ Runs(stack[d]) => c = d
GivenToCaller ==
    /\ returned \subseteq 1 .. Len(responses)
    /\ returned # {} =>
          Succeeded(Chunks(tx)) /\ AllSettled /\ \A c \in Caller : ~Runs(stack[c])

NotStarted ==
    /\ tx.kind = "file" /\ tx.newest = 0 /\ tx.ids = <<>> /\ tx.throttled = FALSE
    /\ stack = [c \in Caller |-> <<>>]
    /\ responses = <<>> /\ returned = {} /\ DOMAIN ledger = {} /\ applied = <<>>

FileState == FrozenFile(tx) /\ InOrder /\ AppliedFile /\ InFlight /\ GivenToCaller
FileInv == NotStarted \/ FileState

-----------------------------------------------------------------------------
(* A file and its chunks. *)

LEMMA SameSize ==
    ASSUME NEW t, NEW u, u.kind = t.kind, u.size = t.size
    PROVE  Chunks(u) = Chunks(t) /\ TooMany(u) = TooMany(t) /\ \A k : Slice(u, k) = Slice(t, k)
<1>1. Chunks(u) = Chunks(t)
  BY DEF Chunks
<1>2. TooMany(u) = TooMany(t)
  BY <1>1 DEF TooMany
<1>3. ASSUME NEW k PROVE Slice(u, k) = Slice(t, k)
  BY DEF Slice, StartIndex, EndIndex
<1> QED BY <1>1, <1>2, <1>3

LEMMA FileFacts ==
    ASSUME NEW t, FrozenFile(t)
    PROVE  /\ Chunks(t) \in Nat \ {0} /\ Len(t.ids) = Chunks(t) /\ t.ids # <<>>
           /\ t.index \in 0 .. Chunks(t) - 1 /\ t.newest \in Nat \ {0}
           /\ t.size \in Nat \ {0} /\ DOMAIN t = TxFields /\ t.kind = "file"
           /\ Current(t) = NameOf(t, t.index + 1)
<1>1. t.size \in Nat \ {0} /\ t.kind = "file" /\ t.index \in Nat /\ t.newest \in Nat \ {0}
  BY DEF FrozenFile, Made
<1>2. Chunks(t) \in Nat \ {0}
  BY <1>1, ChunksCover
<1> DEFINE n == Chunks(t)
           ids == [k \in 1 .. n |-> NameOf(t, k)]
<1> HIDE DEF n
<1>3. Len(ids) = n /\ ids # <<>>
  BY <1>2 DEF n
<1>4. t.ids = ids
  BY DEF FrozenFile, n
<1>5. t.index < n
  BY <1>3, <1>4 DEF FrozenFile, Made
<1>6. t.ids[t.index + 1] = NameOf(t, t.index + 1)
  BY <1>1, <1>2, <1>4, <1>5 DEF n
<1> QED BY <1>1, <1>2, <1>3, <1>4, <1>5, <1>6 DEF FrozenFile, Made, Current, n

\* What is sent of a file is the chunk its index points at.
LEMMA FileSends ==
    ASSUME NEW t, FrozenFile(t)
    PROVE  /\ Ready(t) = t
           /\ BodyOf(t).id = NameOf(t, t.index + 1)
           /\ BodyOf(t).bytes = Slice(t, t.index + 1)
<1>1. Ready(t) = t
  BY DEF FrozenFile, Ready
<1>2. t.index + 1 \in 1 .. Chunks(t) /\ t.kind = "file" /\ Current(t) = NameOf(t, t.index + 1)
  BY FileFacts
<1>3. CASE t.demand \/ t.throttled
  BY <1>1, <1>2, <1>3 DEF BodyOf, Body
<1>4. CASE ~(t.demand \/ t.throttled)
  BY <1>1, <1>2, <1>4 DEF BodyOf, FrozenFile
<1> QED BY <1>3, <1>4

\* Freezing a file cuts it into chunks that bear a new ID.
LEMMA FileFreezes ==
    ASSUME NEW t, Made(t), t.kind = "file", ~TooMany(t), ~Frozen(t), ~t.locked, t.index = 0,
           t.ids = <<>> \/ Len(t.ids) = 1, t.throttled => Chunks(t) = 1
    PROVE  /\ FrozenFile(Ready(t)) /\ Ready(t).newest = t.newest + 1
           /\ Ready(t).size = t.size /\ Ready(t).index = 0
<1> DEFINE n == Named(t)
           o == FrozenOnce(t)
           id == <<t.newest + 1, 0>>
<1>1. t.newest \in Nat /\ t.size \in Nat \ {0} /\ t.ids \in Seq(Nat \X Nat) /\ t.rows = <<>>
  BY DEF Made, Frozen
<1>2. n.ids[1] = id /\ n.newest = t.newest + 1 /\ n.index = 0
  <2>1. n = [t EXCEPT !.newest = t.newest + 1,
                      !.ids = IF t.ids = <<>> THEN <<id>> ELSE [t.ids EXCEPT ![t.index + 1] = id]]
    BY DEF Named
  <2>2. n.ids = IF t.ids = <<>> THEN <<id>> ELSE [t.ids EXCEPT ![1] = id]
    BY <2>1 DEF Made, TxFields
  <2>3. t.ids # <<>> => 1 \in DOMAIN t.ids
    BY <1>1
  <2>4. n.newest = t.newest + 1 /\ n.index = 0
    BY <2>1 DEF Made, TxFields
  <2> HIDE DEF n, id
  <2>5. n.ids[1] = id
    BY <2>2, <2>3
  <2> QED BY <2>4, <2>5
<1>3. /\ Made(o) /\ Frozen(o) /\ o.kind = "file" /\ o.size = t.size /\ o.throttled = t.throttled
  BY MadeOnce
<1>4. o.ids = n.ids /\ o.newest = n.newest /\ o.index = 0
  <2> DEFINE m == [n EXCEPT !.demand = t.client]
  <2>1. m.ids = n.ids /\ m.newest = n.newest /\ m.index = 0 /\ DOMAIN m = TxFields
    BY <1>2, MadeNamed DEF TxFields
  <2>2. o = m \/ o = [m EXCEPT !.rows = <<Body(m, Current(m), 1, FALSE)>>]
    BY DEF FrozenOnce
  <2> HIDE DEF m, o, n
  <2> QED BY <2>1, <2>2 DEF TxFields
<1> HIDE DEF n, o
<1>5. Current(o) = id
  BY <1>2, <1>4 DEF Current
<1> DEFINE c == Chunks(t)
           name(k) == <<id[1], id[2] + k - 1>>
           ids == [k \in 1 .. c |-> name(k)]
           row(k) == Body(o, name(k), k, TRUE)
           rows == [k \in 1 .. c |-> row(k)]
           locked == (t.kind = "file")
           cut == [o EXCEPT !.ids = ids, !.index = 0, !.locked = locked, !.rows = rows]
<1>6. Ready(t) = cut
  BY <1>5 DEF Ready, FreezeWith, FreezeThrows, o
<1>7. c \in Nat \ {0} /\ Chunks(o) = c /\ (\A k : Slice(o, k) = Slice(t, k)) /\ ~TooMany(o)
  BY <1>1, <1>3, ChunksCover, SameSize
<1>8. ASSUME NEW k \in 1 .. c PROVE name(k) = <<t.newest + 1, k - 1>>
  BY <1>7, <1>8
<1>9. ASSUME NEW k \in 1 .. c PROVE row(k).id = name(k) /\ row(k).bytes = Slice(t, k)
  BY <1>3, <1>7 DEF Body
<1>l. locked = TRUE
  OBVIOUS
<1> HIDE DEF c, name, row, id, locked
<1>10. Len(rows) = c /\ rows # <<>> /\ (\A k \in 1 .. c : rows[k] = row(k))
  BY <1>7
<1>11. ids = [k \in 1 .. c |-> <<t.newest + 1, k - 1>>]
  BY <1>8
<1> HIDE DEF rows, ids
<1>12. /\ cut.kind = "file" /\ cut.size = t.size /\ cut.newest = t.newest + 1 /\ cut.index = 0
       /\ cut.ids = ids /\ cut.rows = rows /\ cut.throttled = t.throttled /\ cut.locked = TRUE
  BY <1>2, <1>3, <1>4, <1>l DEF Made, TxFields
<1> HIDE DEF cut
<1>13. Made(cut) /\ Frozen(cut)
  BY <1>6, MadeReady
<1>14. Chunks(cut) = c /\ (\A k : Slice(cut, k) = Slice(t, k)) /\ ~TooMany(cut)
  BY <1>12, SameSize DEF c
<1>15. cut.ids = [k \in 1 .. Chunks(cut) |-> NameOf(cut, k)]
  BY <1>11, <1>12, <1>14 DEF NameOf
<1>16. \A k \in 1 .. c : cut.rows[k].id = NameOf(cut, k) /\ cut.rows[k].bytes = Slice(cut, k)
  BY <1>8, <1>9, <1>10, <1>12, <1>14 DEF NameOf
<1>17. FrozenFile(cut)
  BY <1>1, <1>10, <1>12, <1>13, <1>14, <1>15, <1>16 DEF FrozenFile, c
<1> QED BY <1>6, <1>12, <1>17

LEMMA FileSigned ==
    ASSUME NEW t, FrozenFile(t)
    PROVE  /\ FrozenFile(Signed(t)) /\ Signed(t).newest = t.newest
           /\ Signed(t).size = t.size /\ Signed(t).index = t.index
<1> DEFINE u == [t EXCEPT !.locked = TRUE]
<1>1. Signed(t) = t \/ Signed(t) = u
  BY DEF Signed
<1>2. Made(Signed(t))
  BY MadeSigned, FileFacts DEF FrozenFile
<1>3. /\ u.kind = t.kind /\ u.size = t.size /\ u.newest = t.newest /\ u.index = t.index
      /\ u.ids = t.ids /\ u.rows = t.rows /\ u.demand = t.demand /\ u.throttled = t.throttled
      /\ u.locked = TRUE
  BY FileFacts DEF TxFields
<1> HIDE DEF u
<1>4. Chunks(u) = Chunks(t) /\ (\A k : Slice(u, k) = Slice(t, k)) /\ TooMany(u) = TooMany(t)
  BY <1>3, SameSize
<1>5. \A k : NameOf(u, k) = NameOf(t, k)
  BY <1>3 DEF NameOf
<1>6. Made(u) => FrozenFile(u)
  BY <1>3, <1>4, <1>5 DEF FrozenFile, Frozen
<1> QED BY <1>1, <1>2, <1>3, <1>6

\* executeAll of a file.
LEMMA FileStarts ==
    ASSUME NEW c, NEW frames, NEW t, Starts(c, frames, t), ~TooMany(t), t.kind = "file",
           \/ FrozenFile(t)
           \/ /\ Made(t) /\ ~Frozen(t) /\ ~t.locked /\ t.index = 0
              /\ t.ids = <<>> \/ Len(t.ids) = 1
              /\ t.throttled => Chunks(t) = 1
    PROVE  /\ FrozenFile(tx') /\ tx'.newest \in {t.newest, t.newest + 1}
           /\ ~FrozenFile(t) => tx'.newest = t.newest + 1
           /\ tx'.size = t.size /\ tx'.index = t.index
           /\ Set(c, Append(frames, All))
<1> DEFINE u == Ready(t)
           v == Signed(u)
<1>1. tx' = v /\ Set(c, Append(frames, All))
  BY DEF Starts, FreezeThrows
<1>2. FrozenFile(u) /\ u.size = t.size /\ u.index = t.index
      /\ u.newest = IF FrozenFile(t) THEN t.newest ELSE t.newest + 1
  BY FileSends, FileFreezes
<1> HIDE DEF u
<1>3. FrozenFile(v) /\ v.newest = u.newest /\ v.size = u.size /\ v.index = u.index
  BY <1>2, FileSigned
<1> HIDE DEF v
<1> QED BY <1>1, <1>2, <1>3

\* A file of one chunk that was throttled is cut anew, under a later ID.
LEMMA FileStartsAgain ==
    ASSUME NEW c, NEW frames, FrozenFile(tx), Chunks(tx) = 1,
           Starts(c, frames, Reset(Reset(tx)))
    PROVE  /\ FrozenFile(tx') /\ tx'.newest > tx.newest + 1
           /\ tx'.size = tx.size /\ tx'.index = 0
           /\ Set(c, Append(frames, All))
<1> DEFINE t == Reset(tx)
           u == Reset(t)
<1>1. /\ DOMAIN tx = TxFields /\ tx.kind = "file" /\ tx.newest \in Nat /\ Made(tx)
      /\ tx.size \in Nat \ {0} /\ ~TooMany(tx)
  BY FileFacts DEF FrozenFile
<1>2. /\ DOMAIN t = TxFields /\ t.kind = "file" /\ t.newest = tx.newest + 1 /\ t.size = tx.size
      /\ Made(t)
  BY <1>1, MadeReset DEF Reset, TxFields
<1> HIDE DEF t
<1>3. /\ DOMAIN u = TxFields /\ u.kind = "file" /\ u.newest = t.newest + 1 /\ u.size = tx.size
      /\ u.index = 0 /\ u.locked = FALSE /\ u.rows = <<>> /\ u.throttled = TRUE
      /\ u.ids = <<<<t.newest + 1, 0>>>> /\ Made(u)
  BY <1>2, MadeReset DEF Reset, TxFields
<1>4. Starts(c, frames, u)
  BY DEF t
<1> HIDE DEF u
<1>5. Chunks(u) = 1 /\ ~TooMany(u)
  BY <1>1, <1>3, SameSize
<1>6. Len(u.ids) = 1
  BY <1>3
<1>7. FrozenFile(u) \/ ~Frozen(u)
  <2>1. u.ids = [k \in 1 .. Chunks(u) |-> NameOf(u, k)]
    <3>1. NameOf(u, 1) = <<t.newest + 1, 0>>
      BY <1>3 DEF NameOf
    <3>2. [k \in 1 .. 1 |-> NameOf(u, k)] = <<NameOf(u, 1)>>
      OBVIOUS
    <3> QED BY <1>3, <1>5, <3>1, <3>2
  <2>2. Frozen(u) => u.demand
    BY <1>3 DEF Frozen
  <2> QED BY <1>2, <1>3, <1>5, <2>1, <2>2, <1>1 DEF FrozenFile
<1>8. /\ FrozenFile(tx') /\ tx'.newest \in {u.newest, u.newest + 1}
      /\ tx'.size = u.size /\ tx'.index = 0 /\ Set(c, Append(frames, All))
  <2>1. \/ FrozenFile(u)
        \/ /\ Made(u) /\ ~Frozen(u) /\ ~u.locked /\ u.index = 0
           /\ u.ids = <<>> \/ Len(u.ids) = 1
           /\ u.throttled => Chunks(u) = 1
    BY <1>3, <1>5, <1>6, <1>7
  <2>2. u.kind = "file" /\ ~TooMany(u) /\ u.index = 0
    BY <1>3, <1>5
  <2> QED BY <1>4, <2>1, <2>2, FileStarts
<1> QED BY <1>1, <1>2, <1>3, <1>8

-----------------------------------------------------------------------------
(* Stacks of any depth. *)

\* What is at the top and what is below it.
LEMMA TopOf ==
    ASSUME NEW S, NEW s \in Seq(S), s # <<>>
    PROVE  /\ Len(s) \in Nat \ {0} /\ Last(s) = s[Len(s)] /\ Last(s) \in S
           /\ Front(s) \in Seq(S) /\ Len(Front(s)) = Len(s) - 1
           /\ \A i \in 1 .. Len(s) - 1 : Front(s)[i] = s[i]
           /\ Front(s) = <<>> <=> Len(s) = 1
<1> DEFINE n == Len(s)
<1>1. n \in Nat \ {0} /\ \A i \in 1 .. n : s[i] \in S
  OBVIOUS
<1>2. \A i \in 1 .. n - 1 : s[i] \in S
  BY <1>1
<1> DEFINE f == SubSeq(s, 1, n - 1)
<1>3. 1 \in Int /\ n - 1 \in Int
  BY <1>1
<1> HIDE DEF n
<1>4. /\ f \in Seq(S) /\ Len(f) = IF 1 <= n - 1 THEN n - 1 - 1 + 1 ELSE 0
      /\ \A i \in 1 .. n - 1 - 1 + 1 : f[i] = s[1 + i - 1]
  BY <1>2, <1>3, SubSeqProperties
<1> HIDE DEF f
<1>5. Len(f) = n - 1
  BY <1>1, <1>4
<1>6. \A i \in 1 .. n - 1 : f[i] = s[i]
  <2>1. \A i \in 1 .. n - 1 : i \in 1 .. n - 1 - 1 + 1 /\ 1 + i - 1 = i
    BY <1>1
  <2> QED BY <1>4, <2>1
<1>7. f = <<>> <=> n = 1
  BY <1>1, <1>4, <1>5
<1>8. Front(s) = f /\ Last(s) = s[n]
  BY DEF Front, Last, f, n
<1> QED BY <1>1, <1>4, <1>5, <1>6, <1>7, <1>8 DEF n

\* Two frames on top.
LEMMA TwoOnTop ==
    ASSUME NEW S, NEW s \in Seq(S), NEW a \in S, NEW b \in S
    PROVE  s \o <<a, b>> = Append(Append(s, a), b)
<1> DEFINE t == <<a, b>>
<1>1. t \in Seq(S) /\ Len(t) = 2 /\ t[1] = a /\ t[2] = b
  OBVIOUS
<1> HIDE DEF t
<1>2. /\ s \o t \in Seq(S) /\ Len(s \o t) = Len(s) + Len(t)
      /\ \A i \in 1 .. Len(s) + Len(t) : (s \o t)[i] = IF i <= Len(s) THEN s[i] ELSE t[i - Len(s)]
  BY <1>1, ConcatProperties
<1>3. Len(s) \in Nat
  OBVIOUS
<1>4. (s \o t)[Len(s) + 1] = a /\ (s \o t)[Len(s) + 2] = b
  <2> DEFINE m == Len(s)
  <2>1. /\ m + 1 \in 1 .. m + 2 /\ m + 2 \in 1 .. m + 2 /\ (m + 1) - m = 1 /\ (m + 2) - m = 2
        /\ ~(m + 1 <= m) /\ ~(m + 2 <= m)
    BY <1>3
  <2> DEFINE u == s \o t
  <2> HIDE DEF m, u
  <2>2. \A i \in 1 .. m + 2 : u[i] = IF i <= m THEN s[i] ELSE t[i - m]
    BY <1>1, <1>2 DEF m, u
  <2>3. u[m + 1] = t[(m + 1) - m] /\ u[m + 2] = t[(m + 2) - m]
    BY <2>1, <2>2
  <2>4. u[m + 1] = a /\ u[m + 2] = b
    BY <1>1, <2>1, <2>3
  <2> QED BY <2>4 DEF m, u
<1>5. \A i \in 1 .. Len(s) : (s \o t)[i] = s[i]
  BY <1>1, <1>2, <1>3
<1> DEFINE u == Append(s, a)
           v == Append(u, b)
           w == s \o t
           m == Len(s)
<1>6. /\ u \in Seq(S) /\ Len(u) = m + 1 /\ u[m + 1] = a
      /\ \A i \in 1 .. m : u[i] = s[i]
  BY AppendProperties
<1> HIDE DEF u
<1>7. /\ v \in Seq(S) /\ Len(v) = (m + 1) + 1 /\ v[(m + 1) + 1] = b
      /\ \A i \in 1 .. m + 1 : v[i] = u[i]
  BY <1>6, AppendProperties
<1> HIDE DEF v
<1>8. /\ w \in Seq(S) /\ Len(w) = m + 2 /\ (\A i \in 1 .. m : w[i] = s[i])
      /\ w[m + 1] = a /\ w[m + 2] = b
  BY <1>1, <1>2, <1>4, <1>5
<1> HIDE DEF w
<1>9. m \in Nat
  BY <1>3
<1> HIDE DEF m
<1>10. v[m + 2] = b /\ Len(v) = m + 2
  <2>1. (m + 1) + 1 = m + 2
    BY <1>9
  <2> QED BY <1>7, <2>1
<1>11. v[m + 1] = a /\ \A i \in 1 .. m : v[i] = s[i]
  <2>1. m + 1 \in 1 .. m + 1 /\ \A i \in 1 .. m : i \in 1 .. m + 1
    BY <1>9
  <2> QED BY <1>6, <1>7, <2>1
<1>12. ASSUME NEW i \in 1 .. m + 2 PROVE w[i] = v[i]
  <2>1. i \in 1 .. m \/ i = m + 1 \/ i = m + 2
    BY <1>9
  <2> QED BY <1>8, <1>10, <1>11, <2>1
<1>13. Len(w) = Len(v) /\ \A i \in 1 .. Len(w) : w[i] = v[i]
  BY <1>8, <1>10, <1>12
<1>14. w = v
  BY <1>7, <1>8, <1>13, SeqEqual
<1> QED BY <1>14 DEF t, u, v, w

\* More responses leave every frame what it is.
LEMMA FramesGrow ==
    ASSUME NEW m \in Nat, NEW n \in Nat, m <= n
    PROVE  Frames(m) \subseteq Frames(n) /\ Seq(Frames(m)) \subseteq Seq(Frames(n))
<1>1. 1 .. m \subseteq 1 .. n
  OBVIOUS
<1>2. Seq(1 .. m) \subseteq Seq(1 .. n)
  <2> SUFFICES ASSUME NEW s \in Seq(1 .. m) PROVE s \in Seq(1 .. n)
    OBVIOUS
  <2> DEFINE S == 1 .. m
             T == 1 .. n
  <2> HIDE DEF S, T
  <2>1. s \in Seq(S) /\ S \subseteq T => s \in Seq(T)
    BY SequenceGrows
  <2> QED BY <1>1, <2>1 DEF S, T
<1> DEFINE P == Seq(1 .. m)
           Q == Seq(1 .. n)
<1> HIDE DEF P, Q
<1>3. \A f : /\ f \in [op : Ops, pc : Pcs, round : Nat, got : P, response : Nat, asked : Asked]
             /\ P \subseteq Q
             => f \in [op : Ops, pc : Pcs, round : Nat, got : Q, response : Nat, asked : Asked]
  OBVIOUS
<1>4. Frames(m) \subseteq Frames(n)
  BY <1>2, <1>3 DEF Frames, P, Q
<1> DEFINE A == Frames(m)
           B == Frames(n)
<1> HIDE DEF A, B
<1>5. A \subseteq B => \A s : s \in Seq(A) => s \in Seq(B)
  BY SequenceGrows
<1> QED BY <1>4, <1>5 DEF A, B

\* The frame at the top changes.
LEMMA StackReplaced ==
    ASSUME NEW S, NEW s \in Seq(S), s # <<>>, NEW e \in S, NEW n, Stacked(n, s),
           e.op = "all" <=> Last(s).op = "all"
    PROVE  LET u == Append(Front(s), e)
           IN  /\ u \in Seq(S) /\ Stacked(n, u) /\ Len(u) = Len(s) /\ u # <<>>
               /\ u[Len(u)] = e /\ (\A i \in 1 .. Len(s) - 1 : u[i] = s[i])
               /\ Runs(s) => Runs(u)
<1> DEFINE f == Front(s)
           u == Append(f, e)
           m == Len(s)
<1>1. /\ m \in Nat \ {0} /\ Last(s) = s[m] /\ f \in Seq(S) /\ Len(f) = m - 1
      /\ \A i \in 1 .. m - 1 : f[i] = s[i]
  BY TopOf
<1> HIDE DEF f
<1>2. /\ u \in Seq(S) /\ u # <<>> /\ Len(u) = Len(f) + 1 /\ u[Len(f) + 1] = e
      /\ \A i \in 1 .. Len(f) : u[i] = f[i]
  BY <1>1, AppendProperties
<1> HIDE DEF u, m
<1>3. Len(u) = m /\ u[m] = e /\ \A i \in 1 .. m - 1 : u[i] = s[i]
  BY <1>1, <1>2
<1>4. Len(s) = m
  BY DEF m
<1>5. ASSUME NEW i \in 1 .. m - 1 PROVE Waits(n, u[i], u[i + 1])
  <2>1. Waits(n, s[i], s[i + 1]) /\ u[i] = s[i]
    BY <1>3, <1>4 DEF Stacked
  <2>2. CASE i + 1 = m
    BY <1>1, <1>3, <2>1, <2>2 DEF Waits
  <2>3. CASE i + 1 # m
    <3>1. i + 1 \in 1 .. m - 1
      BY <1>1, <2>3
    <3> QED BY <1>3, <2>1, <3>1
  <2> QED BY <2>2, <2>3
<1>6. Stacked(n, u)
  BY <1>3, <1>4, <1>5 DEF Stacked
<1>7. Runs(s) => Runs(u)
  <2>1. CASE m = 1
    BY <1>1, <1>2, <1>3, <2>1 DEF Runs
  <2>2. CASE m # 1
    <3>1. 1 \in 1 .. m - 1
      BY <1>1, <2>2
    <3> QED BY <1>2, <1>3, <3>1 DEF Runs
  <2> QED BY <2>1, <2>2
<1> QED BY <1>2, <1>3, <1>4, <1>6, <1>7 DEF u, f

\* The frame at the top waits for one above it.
LEMMA StackPushed ==
    ASSUME NEW S, NEW s \in Seq(S), s # <<>>, NEW e \in S, NEW n, Stacked(n, s),
           Waits(n, s[Len(s)], e), Len(s) > 1 => n = 1
    PROVE  LET u == Append(s, e)
           IN  /\ u \in Seq(S) /\ Stacked(n, u) /\ Len(u) = Len(s) + 1 /\ u # <<>>
               /\ u[Len(u)] = e /\ u[Len(u) - 1] = s[Len(s)]
               /\ Runs(s) => Runs(u)
<1> DEFINE u == Append(s, e)
           m == Len(s)
<1>1. m \in Nat \ {0}
  OBVIOUS
<1>2. /\ u \in Seq(S) /\ u # <<>> /\ Len(u) = m + 1 /\ u[m + 1] = e
      /\ \A i \in 1 .. m : u[i] = s[i]
  BY AppendProperties
<1>3. Len(s) = m
  OBVIOUS
<1> HIDE DEF u, m
<1>4. ASSUME NEW i \in 1 .. m PROVE Waits(n, u[i], u[i + 1])
  <2>1. CASE i = m
    BY <1>2, <1>3, <2>1
  <2>2. CASE i # m
    <3>1. i \in 1 .. m - 1 /\ i + 1 \in 1 .. m
      BY <1>1, <2>2
    <3>2. Waits(n, s[i], s[i + 1])
      BY <1>3, <3>1 DEF Stacked
    <3> QED BY <1>2, <3>1, <3>2
  <2> QED BY <2>1, <2>2
<1>5. Stacked(n, u)
  <2>1. \A i \in 1 .. Len(u) - 1 : Waits(n, u[i], u[i + 1])
    <3>1. Len(u) - 1 = m
      BY <1>1, <1>2
    <3> QED BY <1>4, <3>1
  <2>2. Len(u) > 2 => n = 1
    BY <1>1, <1>2, <1>3
  <2> QED BY <2>1, <2>2 DEF Stacked
<1>6. u[1] = s[1] /\ u[m] = s[m] /\ Len(u) - 1 = m
  BY <1>1, <1>2
<1> QED BY <1>2, <1>3, <1>5, <1>6 DEF u, Runs

\* The frame at the top is done.
LEMMA StackPopped ==
    ASSUME NEW S, NEW s \in Seq(S), NEW n, Stacked(n, s), Len(s) > 1
    PROVE  LET u == Front(s)
           IN  /\ u \in Seq(S) /\ Stacked(n, u) /\ Len(u) = Len(s) - 1 /\ u # <<>>
               /\ u[Len(u)] = s[Len(s) - 1] /\ Last(u) = s[Len(s) - 1]
               /\ Waits(n, s[Len(s) - 1], s[Len(s)])
               /\ Runs(s) => Runs(u)
<1> DEFINE u == Front(s)
           m == Len(s)
<1>1. s # <<>>
  OBVIOUS
<1>2. /\ m \in Nat \ {0} /\ u \in Seq(S) /\ Len(u) = m - 1
      /\ \A i \in 1 .. m - 1 : u[i] = s[i]
  BY <1>1, TopOf
<1>3. Len(s) = m
  OBVIOUS
<1> HIDE DEF u, m
<1>4. m > 1
  BY <1>3
<1>5. u # <<>>
  BY <1>2, <1>4
<1>6. m - 1 \in 1 .. m - 1 /\ 1 \in 1 .. m - 1 /\ (m - 1) + 1 = m
  BY <1>2, <1>4
<1>7. u[m - 1] = s[m - 1] /\ u[1] = s[1]
  BY <1>2, <1>6
<1>8. Waits(n, s[m - 1], s[m])
  BY <1>3, <1>6 DEF Stacked
<1>9. ASSUME NEW i \in 1 .. (m - 1) - 1 PROVE Waits(n, u[i], u[i + 1])
  <2>1. i \in 1 .. m - 1 /\ i + 1 \in 1 .. m - 1
    BY <1>2, <1>9
  <2>2. Waits(n, s[i], s[i + 1])
    BY <1>3, <2>1 DEF Stacked
  <2> QED BY <1>2, <2>1, <2>2
<1>10. Len(u) > 2 => n = 1
  BY <1>2, <1>3 DEF Stacked
<1>11. Stacked(n, u)
  BY <1>2, <1>9, <1>10 DEF Stacked
<1>12. Last(u) = u[m - 1]
  BY <1>2, <1>5, TopOf
<1> QED BY <1>2, <1>3, <1>5, <1>7, <1>8, <1>11, <1>12, <1>1 DEF u, Runs

\* The frames that calls make, and what becomes of them.
LEMMA FrameIn ==
    ASSUME NEW n, NEW f
    PROVE  f \in Frames(n) <=>
               /\ f = [op |-> f.op, pc |-> f.pc, round |-> f.round, got |-> f.got,
                       response |-> f.response, asked |-> f.asked]
               /\ f.op \in Ops /\ f.pc \in Pcs /\ f.round \in Nat
               /\ f.got \in Seq(1 .. n) /\ f.response \in Nat /\ f.asked \in Asked
<1> DEFINE S == Seq(1 .. n)
<1> HIDE DEF S
<1>1. f \in [op : Ops, pc : Pcs, round : Nat, got : S, response : Nat, asked : Asked] <=>
          /\ f = [op |-> f.op, pc |-> f.pc, round |-> f.round, got |-> f.got,
                  response |-> f.response, asked |-> f.asked]
          /\ f.op \in Ops /\ f.pc \in Pcs /\ f.round \in Nat
          /\ f.got \in S /\ f.response \in Nat /\ f.asked \in Asked
  OBVIOUS
<1> QED BY <1>1 DEF Frames, S

PcTo(f, pc) == [f EXCEPT !.pc = pc]
LEMMA PcChanges ==
    ASSUME NEW n, NEW f \in Frames(n), NEW pc \in Pcs
    PROVE  LET g == PcTo(f, pc) IN
           /\ g \in Frames(n) /\ g.op = f.op /\ g.pc = pc /\ g.round = f.round
           /\ g.got = f.got /\ g.response = f.response /\ g.asked = f.asked
<1> DEFINE S == Seq(1 .. n)
           g == [f EXCEPT !.pc = pc]
<1> HIDE DEF S
<1>1. ASSUME f \in [op : Ops, pc : Pcs, round : Nat, got : S, response : Nat, asked : Asked]
      PROVE  /\ g \in [op : Ops, pc : Pcs, round : Nat, got : S, response : Nat, asked : Asked]
             /\ g.op = f.op /\ g.pc = pc /\ g.round = f.round
             /\ g.got = f.got /\ g.response = f.response /\ g.asked = f.asked
  BY <1>1
<1> QED BY <1>1 DEF Frames, S, PcTo

RoundTo(f, new) == [f EXCEPT !.round = new]
LEMMA RoundChanges ==
    ASSUME NEW n, NEW f \in Frames(n), NEW new \in Nat
    PROVE  LET g == RoundTo(f, new) IN
           g \in Frames(n) /\ g.round = new /\ g.op = f.op /\ g.pc = f.pc
<1> DEFINE S == Seq(1 .. n)
           g == [f EXCEPT !.round = new]
<1> HIDE DEF S
<1>1. ASSUME f \in [op : Ops, pc : Pcs, round : Nat, got : S, response : Nat, asked : Asked]
      PROVE  /\ g \in [op : Ops, pc : Pcs, round : Nat, got : S, response : Nat, asked : Asked]
             /\ g.round = new /\ g.op = f.op /\ g.pc = f.pc
  BY <1>1
<1> QED BY <1>1 DEF Frames, S, RoundTo

ResponseTo(f, new) == [f EXCEPT !.response = new]
LEMMA ResponseChanges ==
    ASSUME NEW n, NEW f \in Frames(n), NEW new \in Nat
    PROVE  LET g == ResponseTo(f, new) IN
           g \in Frames(n) /\ g.response = new /\ g.op = f.op /\ g.pc = f.pc
<1> DEFINE S == Seq(1 .. n)
           g == [f EXCEPT !.response = new]
<1> HIDE DEF S
<1>1. ASSUME f \in [op : Ops, pc : Pcs, round : Nat, got : S, response : Nat, asked : Asked]
      PROVE  /\ g \in [op : Ops, pc : Pcs, round : Nat, got : S, response : Nat, asked : Asked]
             /\ g.response = new /\ g.op = f.op /\ g.pc = f.pc
  BY <1>1
<1> QED BY <1>1 DEF Frames, S, ResponseTo

AskedTo(f, new) == [f EXCEPT !.asked = new]
LEMMA AskedChanges ==
    ASSUME NEW n, NEW f \in Frames(n), NEW new \in Asked
    PROVE  LET g == AskedTo(f, new) IN
           g \in Frames(n) /\ g.asked = new /\ g.op = f.op /\ g.pc = f.pc /\ g.response = f.response
<1> DEFINE S == Seq(1 .. n)
           g == [f EXCEPT !.asked = new]
<1> HIDE DEF S
<1>1. ASSUME f \in [op : Ops, pc : Pcs, round : Nat, got : S, response : Nat, asked : Asked]
      PROVE  /\ g \in [op : Ops, pc : Pcs, round : Nat, got : S, response : Nat, asked : Asked]
             /\ g.asked = new /\ g.op = f.op /\ g.pc = f.pc /\ g.response = f.response
  BY <1>1
<1> QED BY <1>1 DEF Frames, S, AskedTo

GotTo(f, new) == [f EXCEPT !.got = new]
LEMMA GotChanges ==
    ASSUME NEW n, NEW f \in Frames(n), NEW new \in Seq(1 .. n)
    PROVE  LET g == GotTo(f, new) IN
           g \in Frames(n) /\ g.got = new /\ g.op = f.op /\ g.pc = f.pc /\ g.round = f.round
<1> DEFINE S == Seq(1 .. n)
           g == [f EXCEPT !.got = new]
<1> HIDE DEF S
<1>1. ASSUME f \in [op : Ops, pc : Pcs, round : Nat, got : S, response : Nat, asked : Asked], new \in S
      PROVE  /\ g \in [op : Ops, pc : Pcs, round : Nat, got : S, response : Nat, asked : Asked]
             /\ g.got = new /\ g.op = f.op /\ g.pc = f.pc /\ g.round = f.round
  BY <1>1
<1> QED BY <1>1 DEF Frames, S, GotTo

GoesOn(f) == [f EXCEPT !.pc = "send", !.round = @ + 1]
LEMMA FrameGoesOn ==
    ASSUME NEW n, NEW f \in Frames(n)
    PROVE  LET g == GoesOn(f)
           IN  g \in Frames(n) /\ g.op = f.op /\ g.pc = "send" /\ g.round = f.round + 1
<1> DEFINE h == PcTo(f, "send")
           g == RoundTo(h, f.round + 1)
<1>1. GoesOn(f) = g
  BY DEF GoesOn, PcTo, RoundTo
<1>2. h \in Frames(n) /\ h.op = f.op /\ h.pc = "send"
  BY PcChanges DEF Pcs
<1> HIDE DEF h
<1>3. f.round + 1 \in Nat
  BY FrameIn
<1>4. g \in Frames(n) /\ g.op = h.op /\ g.pc = h.pc /\ g.round = f.round + 1
  BY <1>2, <1>3, RoundChanges
<1> QED BY <1>1, <1>2, <1>4

AsksOf(f, id) == [f EXCEPT !.pc = "receipt", !.asked = id]
LEMMA FrameAsks ==
    ASSUME NEW n, NEW f \in Frames(n), NEW id \in Asked
    PROVE  LET g == AsksOf(f, id)
           IN  g \in Frames(n) /\ g.op = f.op /\ g.pc = "receipt" /\ g.asked = id
<1> DEFINE h == PcTo(f, "receipt")
           g == AskedTo(h, id)
<1>1. AsksOf(f, id) = g
  BY DEF AsksOf, PcTo, AskedTo
<1>2. h \in Frames(n) /\ h.op = f.op /\ h.pc = "receipt"
  BY PcChanges DEF Pcs
<1> HIDE DEF h
<1>3. g \in Frames(n) /\ g.op = h.op /\ g.pc = h.pc /\ g.asked = id
  BY <1>2, AskedChanges
<1> QED BY <1>1, <1>2, <1>3

AwaitsOf(f, r) == [f EXCEPT !.got = Append(@, r), !.pc = "await"]
LEMMA FrameAwaits ==
    ASSUME NEW n \in Nat, NEW f \in Frames(n), NEW r \in 1 .. n
    PROVE  LET g == AwaitsOf(f, r)
           IN  /\ g \in Frames(n) /\ g.op = f.op /\ g.pc = "await" /\ g.round = f.round
               /\ g.got # <<>>
<1> DEFINE got == Append(f.got, r)
           h == GotTo(f, got)
           g == PcTo(h, "await")
<1>1. AwaitsOf(f, r) = g
  BY DEF AwaitsOf, GotTo, PcTo
<1>2. got \in Seq(1 .. n) /\ got # <<>>
  <2>1. f.got \in Seq(1 .. n)
    BY FrameIn
  <2> QED BY <2>1, AppendProperties
<1> HIDE DEF got
<1>3. h \in Frames(n) /\ h.op = f.op /\ h.pc = f.pc /\ h.round = f.round /\ h.got = got
  BY <1>2, GotChanges
<1> HIDE DEF h
<1>4. /\ g \in Frames(n) /\ g.op = h.op /\ g.pc = "await" /\ g.round = h.round
      /\ g.got = h.got
  BY <1>3, PcChanges DEF Pcs
<1> QED BY <1>1, <1>2, <1>3, <1>4

LEMMA NewFrame ==
    ASSUME NEW n \in Nat, NEW op \in Ops
    PROVE  /\ Frame(op) \in Frames(n) /\ Frame(op).op = op /\ Frame(op).pc = "send"
           /\ Frame(op).round = 1
<1>1. <<>> \in Seq(1 .. n) /\ <<>> \in Asked
  BY DEF Asked
<1> DEFINE none == <<>>
<1> HIDE DEF none
<1>2. /\ Frame(op) \in Frames(n) /\ Frame(op).op = op /\ Frame(op).pc = "send"
      /\ Frame(op).round = 1
  <2> DEFINE g == [op |-> op, pc |-> "send", round |-> 1, got |-> none, response |-> 0, asked |-> none]
  <2>1. Frame(op) = g
    BY DEF Frame, none
  <2>2. none \in Seq(1 .. n) /\ none \in Asked
    BY <1>1 DEF none
  <2>3. g.op = op /\ g.pc = "send" /\ g.round = 1 /\ g.got = none /\ g.response = 0 /\ g.asked = none
    OBVIOUS
  <2>4. g = [op |-> g.op, pc |-> g.pc, round |-> g.round, got |-> g.got,
             response |-> g.response, asked |-> g.asked]
    OBVIOUS
  <2> HIDE DEF g
  <2>5. g \in Frames(n)
    BY <2>2, <2>3, <2>4, FrameIn DEF Pcs
  <2> QED BY <2>1, <2>3, <2>5
<1> QED BY <1>2

LEMMA NewAll ==
    ASSUME NEW n \in Nat
    PROVE  All \in Frames(n) /\ All.op = "all" /\ All.pc = "send" /\ All.round = 1
BY NewFrame DEF All, Ops

LEMMA NewRetrying ==
    ASSUME NEW n \in Nat, NEW r \in Nat
    PROVE  Retrying(r) \in Frames(n) /\ Retrying(r).op = "retry" /\ Retrying(r).pc = "executing"
<1> DEFINE f == Frame("retry")
           g == PcTo(f, "executing")
<1>1. Retrying(r) = ResponseTo(g, r)
  BY DEF Retrying, PcTo, ResponseTo
<1>2. f \in Frames(n) /\ f.op = "retry"
  BY NewFrame DEF Ops
<1> HIDE DEF f
<1>3. g \in Frames(n) /\ g.op = "retry" /\ g.pc = "executing"
  BY <1>2, PcChanges DEF Pcs
<1> HIDE DEF g
<1>4. LET h == ResponseTo(g, r) IN h \in Frames(n) /\ h.op = g.op /\ h.pc = g.pc
  BY <1>3, ResponseChanges
<1> QED BY <1>1, <1>3, <1>4

AskingFor(r, id) == [Frame("receipt") EXCEPT !.pc = "ask", !.response = r, !.asked = id]
LEMMA NewReceipt ==
    ASSUME NEW n \in Nat, NEW r \in Nat, NEW id \in Asked
    PROVE  LET new == AskingFor(r, id)
           IN  /\ new \in Frames(n) /\ new.op = "receipt" /\ new.pc = "ask"
               /\ new.response = r /\ new.asked = id
<1> DEFINE f == Frame("receipt")
           g == PcTo(f, "ask")
           h == ResponseTo(g, r)
<1>1. [f EXCEPT !.pc = "ask", !.response = r, !.asked = id] = AskedTo(h, id)
  BY DEF PcTo, ResponseTo, AskedTo
<1>2. f \in Frames(n) /\ f.op = "receipt"
  BY NewFrame DEF Ops
<1> HIDE DEF f
<1>3. g \in Frames(n) /\ g.op = "receipt" /\ g.pc = "ask"
  BY <1>2, PcChanges DEF Pcs
<1> HIDE DEF g
<1>4. h \in Frames(n) /\ h.op = "receipt" /\ h.pc = "ask" /\ h.response = r
  BY <1>3, ResponseChanges
<1> HIDE DEF h
<1>5. LET k == AskedTo(h, id)
      IN  /\ k \in Frames(n) /\ k.op = h.op /\ k.pc = h.pc /\ k.response = h.response
          /\ k.asked = id
  BY <1>4, AskedChanges
<1> QED BY <1>1, <1>4, <1>5 DEF f, AskingFor

-----------------------------------------------------------------------------
(* The steps of a file. *)

\* The frame at the top tells which call it is.
LEMMA FileTop ==
    ASSUME FileState, NEW c \in Caller, stack[c] # <<>>
    PROVE  LET s == stack[c]
               f == Last(s)
           IN  /\ s \in Seq(Frames(Len(responses))) /\ Len(s) \in Nat \ {0}
               /\ f \in Frames(Len(responses)) /\ f = s[Len(s)] /\ Len(responses) \in Nat
               /\ \/ Idle(s) /\ ~Runs(s) /\ Len(s) = 1 /\ f.op = "receipt" /\ f.pc = "ask" /\ Settled(f.asked)
                  \/ /\ Runs(s) /\ Stacked(Chunks(tx), s) /\ returned = {}
                     /\ \/ f.op = "all" /\ Sends(f)
                        \/ f.op = "receipt" /\ Len(s) > 1 /\ AsksFor(f, s[Len(s) - 1])
                        \/ f.op = "retry" /\ Len(s) > 1 /\ AsksAgain(f)
<1> DEFINE s == stack[c]
           S == Frames(Len(responses))
<1>1. s \in Seq(S) /\ Len(responses) \in Nat
  BY DEF FileState, InFlight
<1> HIDE DEF S
<1>2. Len(s) \in Nat \ {0} /\ Last(s) \in S /\ Last(s) = s[Len(s)]
  BY <1>1, TopOf
<1>3. Idle(s) \/ (Runs(s) /\ InTurn(s))
  BY DEF FileState, InFlight
<1>4. CASE Idle(s)
  BY <1>1, <1>2, <1>4 DEF Idle, Runs, S
<1>5. CASE Runs(s) /\ InTurn(s)
  <2>1. returned = {}
    BY <1>5 DEF FileState, GivenToCaller
  <2>2. \/ Last(s).op = "all" /\ Sends(Last(s))
        \/ Last(s).op = "receipt" /\ Len(s) > 1 /\ AsksFor(Last(s), s[Len(s) - 1])
        \/ Last(s).op = "retry" /\ Len(s) > 1 /\ AsksAgain(Last(s))
    BY <1>2, <1>5 DEF InTurn, Sends, AsksFor, AsksAgain
  <2> QED BY <1>1, <1>2, <1>5, <2>1, <2>2 DEF InTurn, S
<1> QED BY <1>3, <1>4, <1>5

\* What the call that executes does concerns nobody else.
LEMMA RunMoves ==
    ASSUME FileState, NEW c \in Caller, Runs(stack[c]), NEW s, stack' = [stack EXCEPT ![c] = s],
           s \in Seq(Frames(Len(responses'))), FrozenFile(tx)', InOrder', AppliedFile',
           responses' \in Seq(Response), Len(responses) <= Len(responses'),
           \A id : Settled(id) => Settled(id)',
           s # <<>> => Runs(s) /\ InTurn(stack[c])',
           \/ returned' = returned
           \/ /\ s = <<>> /\ returned' \subseteq 1 .. Len(responses')
              /\ Succeeded(Chunks(tx))' /\ AllSettled'
    PROVE  FileState'
<1> DEFINE m == Len(responses)
           n == Len(responses')
<1>1. /\ stack \in [Caller -> Seq(Frames(m))] /\ m \in Nat /\ n \in Nat /\ m <= n
      /\ returned = {} /\ \A d \in Caller : Runs(stack[d]) => d = c
  BY DEF FileState, InFlight, GivenToCaller
<1>2. Seq(Frames(m)) \subseteq Seq(Frames(n))
  BY <1>1, FramesGrow
<1>3. stack'[c] = s /\ (\A d \in Caller : d # c => stack'[d] = stack[d])
  BY <1>1
<1> HIDE DEF m, n
<1>4. stack' \in [Caller -> Seq(Frames(n))]
  BY <1>1, <1>2 DEF n
<1>5. ASSUME NEW d \in Caller, stack'[d] # <<>>
      PROVE  Idle(stack[d])' \/ (Runs(stack[d])' /\ InTurn(stack[d])')
  <2>1. CASE d = c
    BY <1>3, <1>5, <2>1 DEF Runs
  <2>2. CASE d # c
    <3>1. Idle(stack[d]) /\ stack'[d] = stack[d]
      BY <1>1, <1>3, <1>5, <2>2 DEF FileState, InFlight
    <3> QED BY <3>1 DEF Idle
  <2> QED BY <2>1, <2>2
<1>6. \A d \in Caller : Runs(stack[d])' => d = c /\ s # <<>>
  BY <1>1, <1>3 DEF Runs
<1>7. InFlight'
  BY <1>4, <1>5, <1>6 DEF InFlight, n
<1>8. GivenToCaller'
  BY <1>1, <1>6 DEF GivenToCaller
<1> QED BY <1>7, <1>8 DEF FileState

\* A step of a call that leaves the transaction, the responses and the network alone.
LEMMA SettledKept ==
    ASSUME UNCHANGED <<tx, responses, ledger, applied>>
    PROVE  /\ \A id : Settled(id)' = Settled(id)
           /\ \A k : Succeeded(k)' = Succeeded(k)
           /\ FrozenFile(tx)' = FrozenFile(tx) /\ InOrder' = InOrder
           /\ AppliedFile' = AppliedFile /\ AllSettled' = AllSettled
           /\ \A f : Sends(f)' = Sends(f)
           /\ \A f, b : AsksFor(f, b)' = AsksFor(f, b)
           /\ \A f : AsksAgain(f)' = AsksAgain(f)
BY DEF Settled, Succeeded, StateOf, FrozenFile, InOrder, OfEarlier, OfChunk, AppliedFile,
       AllSettled, Sends, AsksFor, AsksAgain

LEMMA SubmitFile ==
    ASSUME FileState, NEW c \in Caller, NEW answered \in BOOLEAN, Submit(c, answered)
    PROVE  FileState'
<1> DEFINE s == stack[c]
           f == Last(s)
           N == Len(responses)
           pc == IF answered THEN "answered" ELSE "send"
<1>a. PICK k : k = tx.index + 1
  OBVIOUS
<1>b. PICK body : body = BodyOf(Ready(tx))
  OBVIOUS
<1>c. PICK g : g = PcTo(f, pc)
  OBVIOUS
<1>d. PICK u : u = Append(Front(s), g)
  OBVIOUS
<1> DEFINE new == [body |-> body, state |-> "pending"]
<1>1. /\ s # <<>> /\ f.op = "all" /\ f.pc = "send" /\ body.id \notin DOMAIN ledger
      /\ tx' = Ready(tx) /\ stack' = [stack EXCEPT ![c] = u]
      /\ ledger' = [id \in DOMAIN ledger \cup {body.id} |-> IF id = body.id THEN new ELSE ledger[id]]
      /\ UNCHANGED <<responses, returned, applied>>
  BY <1>b, <1>c, <1>d DEF Submit, Busy, Set, Below, PcTo
<1>2. /\ s \in Seq(Frames(N)) /\ Len(s) \in Nat \ {0} /\ f \in Frames(N) /\ N \in Nat
      /\ Runs(s) /\ Stacked(Chunks(tx), s) /\ Sends(f)
  BY <1>1, FileTop
<1>3. tx' = tx /\ body.id = NameOf(tx, k) /\ body.bytes = Slice(tx, k)
  BY <1>1, <1>a, <1>b, FileSends DEF FileState
<1>4. k \in 1 .. Chunks(tx) /\ f.round = k /\ (k > 1 => Succeeded(k - 1)) /\ AllSettled
  BY <1>2, <1>a, FileFacts DEF Sends, FileState
<1>5. /\ DOMAIN ledger' = DOMAIN ledger \cup {body.id} /\ ledger'[body.id] = new
      /\ \A id \in DOMAIN ledger : ledger'[id] = ledger[id] /\ id # body.id
  BY <1>1
<1> HIDE DEF N, s, f
<1>6. \A id : StateOf(id)' = "success" <=> StateOf(id) = "success"
  BY <1>1, <1>5 DEF StateOf
<1>7. \A i : Succeeded(i)' <=> Succeeded(i)
  BY <1>3, <1>6 DEF Succeeded, NameOf
<1>8. \A id : Settled(id) => Settled(id)'
  <2>1. body.id[1] = tx.newest /\ tx.newest \in Nat
    BY <1>3, FileFacts DEF NameOf, FileState
  <2>2. \A id : id[1] \in 0 .. tx.newest - 1 => id # body.id
    BY <2>1
  <2> QED BY <1>3, <1>5, <1>6, <2>2 DEF Settled
<1>9. AllSettled'
  BY <1>1, <1>4, <1>8 DEF AllSettled
<1>10. InOrder'
  <2>1. ASSUME NEW id \in DOMAIN ledger PROVE OfEarlier(id)' \/ \E i \in 1 .. Chunks(tx') : OfChunk(id, i)'
    <3>1. OfEarlier(id) \/ \E i \in 1 .. Chunks(tx) : OfChunk(id, i)
      BY DEF FileState, InOrder
    <3>2. OfEarlier(id) => OfEarlier(id)'
      BY <1>3, <1>5 DEF OfEarlier
    <3>3. \A i : OfChunk(id, i) => OfChunk(id, i)'
      BY <1>3, <1>5, <1>7 DEF OfChunk
    <3> QED BY <1>3, <3>1, <3>2, <3>3
  <2>2. OfChunk(body.id, k)'
    BY <1>3, <1>4, <1>5, <1>7 DEF OfChunk, NameOf
  <2>3. k \in 1 .. Chunks(tx')
    BY <1>3, <1>4
  <2>4. \E i \in 1 .. Chunks(tx') : OfChunk(body.id, i)'
    BY <2>2, <2>3
  <2>5. \A id \in DOMAIN ledger' : id \in DOMAIN ledger \/ id = body.id
    BY <1>5
  <2> QED BY <2>1, <2>4, <2>5 DEF InOrder
<1>11. AppliedFile' /\ FrozenFile(tx)'
  <2>1. AppliedFile'
    BY <1>1, <1>3, <1>7 DEF FileState, AppliedFile
  <2> QED BY <1>3, <2>1 DEF FileState, FrozenFile, Made, Frozen
<1>12. g \in Frames(N) /\ g.op = "all" /\ g.pc = pc /\ g.round = k
  <2>1. pc \in Pcs
    BY DEF Pcs
  <2> HIDE DEF pc
  <2> QED BY <1>1, <1>2, <1>4, <1>c, <2>1, PcChanges
<1>13. /\ u \in Seq(Frames(N)) /\ Stacked(Chunks(tx), u) /\ u # <<>> /\ u[Len(u)] = g /\ Runs(u)
  BY <1>1, <1>2, <1>12, <1>d, StackReplaced DEF f
<1>14. Sends(g)'
  BY <1>3, <1>4, <1>5, <1>7, <1>9, <1>12, <1>a DEF Sends, NameOf
<1>15. stack'[c] = u
  BY <1>1 DEF FileState, InFlight
<1>16. InTurn(stack[c])'
  BY <1>3, <1>13, <1>14, <1>15 DEF InTurn
<1>17. responses' \in Seq(Response) /\ N <= N /\ responses' = responses
  BY <1>1, <1>2 DEF FileState, InFlight
<1> QED BY <1>1, <1>2, <1>8, <1>10, <1>11, <1>13, <1>16, <1>17, RunMoves DEF N, s

\* The ID of a file that was throttled is replaced, when the network has not taken
\* a body under it.
LEMMA ExpiresFile ==
    ASSUME FileState, NEW c \in Caller, Expires(c), excused' = {}
    PROVE  FileState'
<1>s. PICK s : s = stack[c]
  OBVIOUS
<1>f. PICK f : f = Last(s)
  OBVIOUS
<1>m. PICK N : N = Len(responses)
  OBVIOUS
<1>n. PICK n : n = tx.newest
  OBVIOUS
<1>1. /\ s # <<>> /\ f.op = "all" /\ f.pc = "send"
      /\ UNCHANGED <<stack, responses, returned, ledger, applied>>
  BY <1>s, <1>f DEF Expires, Busy
<1>2. /\ s \in Seq(Frames(N)) /\ Len(s) \in Nat \ {0} /\ N \in Nat /\ f = s[Len(s)]
      /\ Runs(s) /\ Stacked(Chunks(tx), s) /\ Sends(f)
  BY <1>1, <1>s, <1>f, <1>m, FileTop
<1>3. FrozenFile(tx) /\ Made(tx) /\ Ready(tx) = tx
  BY DEF FileState, FrozenFile, Ready
<1>4. /\ ~tx.locked /\ tx.throttled /\ Chunks(tx) = 1 /\ tx' = Named(tx)
      /\ Current(tx) \notin DOMAIN ledger
  BY <1>3 DEF Expires, FrozenFile, Why
<1>5. /\ n \in Nat \ {0} /\ tx.index = 0 /\ Len(tx.ids) = 1 /\ tx.ids # <<>>
      /\ DOMAIN tx = TxFields /\ Current(tx) = NameOf(tx, 1) /\ tx.kind = "file"
  <2>1. /\ n \in Nat \ {0} /\ Len(tx.ids) = 1 /\ tx.ids # <<>> /\ tx.index \in 0 .. 1 - 1
        /\ DOMAIN tx = TxFields /\ Current(tx) = NameOf(tx, tx.index + 1) /\ tx.kind = "file"
    BY <1>3, <1>4, <1>n, FileFacts
  <2>2. tx.index = 0 /\ tx.index + 1 = 1
    BY <2>1
  <2> QED BY <2>1, <2>2
<1> DEFINE ids == [tx.ids EXCEPT ![tx.index + 1] = <<n + 1, 0>>]
           u == [tx EXCEPT !.newest = n + 1, !.ids = ids]
<1>6. tx' = u
  BY <1>4, <1>5, <1>n DEF Named
<1>7. ids = [k \in 1 .. 1 |-> <<n + 1, k - 1>>]
  <2>1. tx.ids = [k \in 1 .. 1 |-> NameOf(tx, k)]
    BY <1>3, <1>4 DEF FrozenFile
  <2> QED BY <1>5, <2>1
<1> HIDE DEF ids
<1>8. /\ u.kind = "file" /\ u.size = tx.size /\ u.newest = n + 1 /\ u.index = 0 /\ u.ids = ids
      /\ u.rows = tx.rows /\ u.demand = tx.demand /\ u.throttled = tx.throttled
  BY <1>5 DEF TxFields
<1> HIDE DEF u
<1>9. Chunks(tx') = 1 /\ TooMany(tx') = TooMany(tx) /\ \A k : Slice(tx', k) = Slice(tx, k)
  BY <1>4, <1>5, <1>6, <1>8, SameSize
<1>10. FrozenFile(tx') /\ tx'.newest = n + 1 /\ tx'.index = 0
  <2>0. Made(tx')
    BY <1>3, <1>4, MadeRenamed
  <2>1. Made(tx') /\ tx'.kind = "file" /\ tx'.newest = n + 1 /\ n + 1 > 0 /\ tx'.index = 0
    BY <1>5, <1>6, <1>8, <2>0
  <2>2. Frozen(tx') /\ ~TooMany(tx') /\ tx'.throttled
    BY <1>3, <1>4, <1>6, <1>8, <1>9 DEF FrozenFile, Frozen
  <2>3. tx'.ids = [k \in 1 .. Chunks(tx') |-> NameOf(tx', k)]
    BY <1>6, <1>7, <1>8, <1>9, <2>1 DEF NameOf
  <2> QED BY <1>9, <2>1, <2>2, <2>3 DEF FrozenFile
<1>11. \A id \in DOMAIN ledger : OfEarlier(id)
  <2>1. \A id \in DOMAIN ledger : OfEarlier(id) \/ \E k \in 1 .. 1 : OfChunk(id, k)
    BY <1>4 DEF FileState, InOrder
  <2>2. \A id \in DOMAIN ledger : ~OfChunk(id, 1)
    BY <1>4, <1>5 DEF OfChunk
  <2> QED BY <2>1, <2>2
<1>12. \A x \in 0 .. n - 1 : x \in 0 .. (n + 1) - 1 /\ x # n + 1
  BY <1>5
<1>13. InOrder'
  <2>1. \A id \in DOMAIN ledger : OfEarlier(id)'
    BY <1>1, <1>9, <1>10, <1>11, <1>12, <1>n DEF OfEarlier
  <2> QED BY <1>1, <2>1 DEF InOrder
<1>14. ~Succeeded(1) /\ ~Succeeded(1)'
  <2>1. ~Succeeded(1)
    BY <1>4, <1>5 DEF Succeeded, StateOf
  <2>2. NameOf(tx', 1)[1] = n + 1
    BY <1>10 DEF NameOf
  <2>3. NameOf(tx', 1) \notin DOMAIN ledger
    BY <1>11, <1>12, <2>2, <1>n DEF OfEarlier
  <2> QED BY <1>1, <2>1, <2>3 DEF Succeeded, StateOf
<1>15. AppliedFile'
  <2>1. \A i \in 1 .. Len(applied) : i <= 1 /\ Succeeded(i)
    BY <1>4 DEF FileState, AppliedFile
  <2>2. \A i \in 1 .. Len(applied) : FALSE
    <3>1. \A i \in 1 .. Len(applied) : i = 1
      BY <2>1
    <3> QED BY <1>14, <2>1, <3>1
  <2>3. \A i \in 1 .. 1 : ~Succeeded(i)'
    BY <1>14
  <2> QED BY <1>1, <1>9, <2>2, <2>3 DEF AppliedFile
<1>16. \A id : Settled(id) => Settled(id)'
  BY <1>1, <1>10, <1>12, <1>n DEF Settled, StateOf
<1>17. AllSettled'
  BY <1>1, <1>2, <1>16 DEF AllSettled, Sends
<1>18. Sends(f)'
  <2>1. f.round = 1
    BY <1>2, <1>5 DEF Sends
  <2> QED BY <1>1, <1>10, <1>17, <2>1 DEF Sends
<1>19. InTurn(stack[c])'
  <2>1. stack'[c] = s /\ Stacked(Chunks(tx'), s) /\ Sends(s[Len(s)])'
    BY <1>1, <1>2, <1>4, <1>9, <1>18, <1>s
  <2> QED BY <2>1, <1>s DEF InTurn
<1>20. FrozenFile(tx)'
  BY <1>10 DEF FrozenFile, Made, Frozen
<1>21. stack' = [stack EXCEPT ![c] = s] /\ responses' \in Seq(Response) /\ N <= N
  BY <1>1, <1>2, <1>s, <1>m DEF FileState, InFlight
<1> QED BY <1>1, <1>2, <1>13, <1>15, <1>16, <1>19, <1>20, <1>21, <1>s, <1>m, RunMoves

LEMMA ConsensusFile ==
    ASSUME FileState, Effects, NEW id, NEW state \in {"success", "failed", "throttled"},
           Consensus(id, state)
    PROVE  FileState'
<1>1. /\ id \in DOMAIN ledger /\ ledger[id].state = "pending"
      /\ ledger' = [ledger EXCEPT ![id].state = state]
      /\ applied' = IF state = "success" THEN Append(applied, ledger[id].body) ELSE applied
      /\ UNCHANGED <<tx, stack, responses, returned>>
  BY DEF Consensus, StateOf
<1>2. DOMAIN ledger[id] = {"body", "state"}
  BY <1>1 DEF Effects
<1>3. /\ DOMAIN ledger' = DOMAIN ledger
      /\ ledger'[id].state = state /\ ledger'[id].body = ledger[id].body
      /\ \A i \in DOMAIN ledger : i # id => ledger'[i] = ledger[i]
  <2>1. ledger'[id] = [ledger[id] EXCEPT !.state = state]
    BY <1>1
  <2>2. [ledger[id] EXCEPT !.state = state].state = state
        /\ [ledger[id] EXCEPT !.state = state].body = ledger[id].body
    BY <1>2
  <2> QED BY <1>1, <2>1, <2>2
<1>4. \A i : StateOf(i)' = IF i = id THEN state ELSE StateOf(i)
  BY <1>1, <1>3 DEF StateOf
<1>5. StateOf(id) = "pending"
  BY <1>1 DEF StateOf
<1>6. \A i : Succeeded(i) => Succeeded(i)'
  BY <1>1, <1>4, <1>5 DEF Succeeded, NameOf
<1>7. \A i : Settled(i) => Settled(i)'
  BY <1>1, <1>3, <1>4, <1>5 DEF Settled
<1>8. AllSettled => AllSettled'
  BY <1>1, <1>7 DEF AllSettled
<1>9. PICK k \in 1 .. Chunks(tx) : OfChunk(id, k)
  <2>1. ~OfEarlier(id)
    BY <1>1 DEF OfEarlier
  <2> QED BY <1>1, <2>1 DEF FileState, InOrder
<1>10. InOrder'
  <2>1. ASSUME NEW i \in DOMAIN ledger
        PROVE  OfEarlier(i)' \/ \E j \in 1 .. Chunks(tx') : OfChunk(i, j)'
    <3>1. OfEarlier(i) \/ \E j \in 1 .. Chunks(tx) : OfChunk(i, j)
      BY DEF FileState, InOrder
    <3>2. OfEarlier(i) => OfEarlier(i)'
      BY <1>1, <1>3 DEF OfEarlier
    <3>3. \A j : OfChunk(i, j) => OfChunk(i, j)'
      BY <1>1, <1>3, <1>6 DEF OfChunk, NameOf
    <3> QED BY <1>1, <3>1, <3>2, <3>3
  <2> QED BY <1>3, <2>1 DEF InOrder
<1>11. AppliedFile'
  <2>1. CASE state # "success"
    <3>1. \A i : Succeeded(i)' <=> Succeeded(i)
      BY <1>1, <1>4, <1>5, <2>1 DEF Succeeded, NameOf
    <3> QED BY <1>1, <2>1, <3>1 DEF FileState, AppliedFile
  <2>2. CASE state = "success"
    <3> DEFINE m == Len(applied)
               b == ledger[id].body
               S == {x \in Taken : TakesEffect(x)}
    <3>1. applied \in Seq(S)
      BY DEF Effects
    <3> HIDE DEF S
    <3>2. applied \in Seq(S \cup {b})
      <4>1. S \subseteq S \cup {b}
        OBVIOUS
      <4> HIDE DEF b
      <4> QED BY <3>1, <4>1, SequenceGrows
    <3>3. applied' = Append(applied, b)
      BY <1>1, <2>2
    <3> HIDE DEF b
    <3>4. /\ Len(applied') = m + 1 /\ applied'[m + 1] = b /\ m \in Nat
          /\ \A i \in 1 .. m : applied'[i] = applied[i]
      BY <3>2, <3>3, AppendProperties
    <3>5. b.bytes = Slice(tx, k) /\ id = NameOf(tx, k) /\ (k > 1 => Succeeded(k - 1))
      BY <1>9 DEF OfChunk, b
    <3>6. Chunks(tx) \in Nat \ {0}
      BY FileFacts DEF FileState
    <3>7. ~Succeeded(k)
      BY <1>5, <3>5 DEF Succeeded
    <3>8. k = m + 1
      <4>1. ~(k <= m)
        BY <3>4, <3>6, <3>7 DEF FileState, AppliedFile
      <4>2. k > 1 => k - 1 <= m
        <5>1. k > 1 => k - 1 \in 1 .. Chunks(tx)
          BY <3>6
        <5> QED BY <3>5, <5>1 DEF FileState, AppliedFile
      <4> QED BY <3>4, <3>6, <4>1, <4>2
    <3>9. \A i \in Nat : Succeeded(i)' => i = k \/ Succeeded(i)
      <4>1. ASSUME NEW i \in Nat, NameOf(tx, i) = id PROVE i = k
        BY <3>5, <4>1 DEF NameOf
      <4> QED BY <1>1, <1>4, <4>1 DEF Succeeded, NameOf
    <3>10. Succeeded(k)'
      BY <1>1, <1>4, <2>2, <3>5 DEF Succeeded, NameOf
    <3>11. ASSUME NEW i \in 1 .. Len(applied')
           PROVE  i <= Chunks(tx') /\ Succeeded(i)' /\ applied'[i].bytes = Slice(tx', i)
      <4>1. CASE i \in 1 .. m
        BY <1>1, <1>6, <3>4, <4>1 DEF FileState, AppliedFile
      <4>2. CASE i = m + 1
        BY <1>1, <3>4, <3>5, <3>6, <3>8, <3>10, <4>2
      <4> QED BY <3>4, <4>1, <4>2
    <3>12. ASSUME NEW i \in 1 .. Chunks(tx'), Succeeded(i)' PROVE i <= Len(applied')
      <4>1. i = k \/ Succeeded(i)
        BY <3>9, <3>12
      <4>2. Succeeded(i) => i <= m
        BY <1>1 DEF FileState, AppliedFile
      <4> QED BY <1>1, <3>4, <3>6, <3>8, <4>1, <4>2
    <3> QED BY <3>11, <3>12 DEF AppliedFile
  <2> QED BY <2>1, <2>2
<1>12. FrozenFile(tx)'
  BY <1>1 DEF FileState, FrozenFile, Made, Frozen
<1>13. \A f : Sends(f) => Sends(f)'
  BY <1>1, <1>3, <1>6, <1>8 DEF Sends, NameOf
<1>14. \A f, g : AsksFor(f, g) => AsksFor(f, g)'
  BY <1>1, <1>3, <1>7 DEF AsksFor, NameOf
<1>15. \A f : AsksAgain(f) => AsksAgain(f)'
  BY <1>1, <1>6, <1>7, <1>8 DEF AsksAgain
<1>16. InFlight'
  <2>1. ASSUME NEW s PROVE (Idle(s) => Idle(s)') /\ (InTurn(s) => InTurn(s)')
    BY <1>1, <1>7, <1>13, <1>14, <1>15 DEF Idle, InTurn
  <2> QED BY <1>1, <2>1 DEF FileState, InFlight
<1>17. GivenToCaller'
  BY <1>1, <1>6, <1>8 DEF FileState, GivenToCaller
<1> QED BY <1>10, <1>11, <1>12, <1>16, <1>17 DEF FileState

\* The calls that only ask for a receipt.
LEMMA IdleMoves ==
    ASSUME FileState, NEW c \in Caller, ~Runs(stack[c]), NEW s, stack' = [stack EXCEPT ![c] = s],
           s \in Seq(Frames(Len(responses))), s = <<>> \/ Idle(s),
           UNCHANGED <<tx, responses, returned, ledger, applied>>
    PROVE  FileState'
<1>1. /\ stack \in [Caller -> Seq(Frames(Len(responses)))]
      /\ stack'[c] = s /\ \A d \in Caller : d # c => stack'[d] = stack[d]
  BY DEF FileState, InFlight
<1>2. ~Runs(s)
  BY DEF Runs, Idle
<1>3. \A d \in Caller : Runs(stack[d])' => d # c /\ Runs(stack[d])
  BY <1>1, <1>2
<1>4. /\ \A id : Settled(id)' = Settled(id)
      /\ \A k : Succeeded(k)' = Succeeded(k)
      /\ FrozenFile(tx)' = FrozenFile(tx) /\ InOrder' = InOrder
      /\ AppliedFile' = AppliedFile /\ AllSettled' = AllSettled
      /\ \A f : Sends(f)' = Sends(f)
      /\ \A f, b : AsksFor(f, b)' = AsksFor(f, b)
      /\ \A f : AsksAgain(f)' = AsksAgain(f)
  BY SettledKept
<1>5. ASSUME NEW t PROVE Idle(t)' = Idle(t) /\ InTurn(t)' = InTurn(t)
  BY <1>4 DEF Idle, InTurn
<1>6. stack' \in [Caller -> Seq(Frames(Len(responses')))]
  BY <1>1
<1>7. InFlight'
  <2>1. ASSUME NEW d \in Caller, stack'[d] # <<>>
        PROVE  Idle(stack[d])' \/ (Runs(stack[d])' /\ InTurn(stack[d])')
    <3>1. CASE d = c
      BY <1>1, <1>5, <2>1, <3>1 DEF Idle
    <3>2. CASE d # c
      <4>1. stack'[d] = stack[d]
        BY <1>1, <3>2
      <4>2. Idle(stack[d]) \/ (Runs(stack[d]) /\ InTurn(stack[d]))
        BY <2>1, <4>1 DEF FileState, InFlight
      <4> QED BY <1>4, <4>1, <4>2 DEF Idle, InTurn
    <3> QED BY <3>1, <3>2
  <2>2. responses' \in Seq(Response)
    BY DEF FileState, InFlight
  <2>3. \A d, e \in Caller : Runs(stack[d])' /\ Runs(stack[e])' => d = e
    BY <1>3 DEF FileState, InFlight
  <2> QED BY <1>6, <2>1, <2>2, <2>3 DEF InFlight
<1>8. GivenToCaller'
  BY <1>3, <1>4 DEF FileState, GivenToCaller
<1> QED BY <1>4, <1>7, <1>8 DEF FileState

LEMMA GetReceiptFile ==
    ASSUME FileState, NEW c \in Caller, NEW r \in returned, GetReceipt(c, r)
    PROVE  FileState'
<1>1. PICK f : f = Receipt(r)
  OBVIOUS
<1>2. /\ stack[c] = <<>> /\ stack' = [stack EXCEPT ![c] = <<f>>]
      /\ UNCHANGED <<tx, responses, returned, ledger, applied>>
  BY <1>1 DEF GetReceipt, Set
<1> DEFINE id == responses[r].id
<1>3. r \in 1 .. Len(responses) /\ r \in Nat /\ Settled(id) /\ id \in Asked /\ Len(responses) \in Nat
  <2>1. responses \in Seq(Response) /\ r \in 1 .. Len(responses) /\ AllSettled
    BY DEF FileState, InFlight, GivenToCaller
  <2>2. responses[r] \in Response
    BY <2>1
  <2> QED BY <2>1, <2>2 DEF AllSettled, Response, Asked
<1> HIDE DEF id
<1>4. /\ f \in Frames(Len(responses)) /\ f.op = "receipt" /\ f.pc = "ask" /\ f.asked = id
  <2> DEFINE N == Len(responses)
  <2>1. f = AskingFor(r, id)
    BY <1>1 DEF Receipt, AskingFor, id
  <2> HIDE DEF N
  <2>2. N \in Nat /\ r \in Nat /\ id \in Asked
    BY <1>3 DEF N
  <2>3. /\ f \in Frames(N) /\ f.op = "receipt" /\ f.pc = "ask"
        /\ f.response = r /\ f.asked = id
    BY <2>1, <2>2, NewReceipt
  <2> QED BY <2>3 DEF N
<1>5. <<f>> \in Seq(Frames(Len(responses))) /\ Len(<<f>>) = 1 /\ <<f>>[1] = f
  BY <1>4
<1>6. Idle(<<f>>)
  BY <1>3, <1>4, <1>5 DEF Idle
<1>7. ~Runs(stack[c])
  BY <1>2 DEF Runs
<1> QED BY <1>2, <1>5, <1>6, <1>7, IdleMoves

\* Whatever throws a call away.
LEMMA CallThrown ==
    ASSUME FileState, NEW c \in Caller, stack[c] # <<>>, Throw(c),
           UNCHANGED <<tx, responses, returned, ledger, applied>>
    PROVE  FileState'
<1>1. stack' = [stack EXCEPT ![c] = <<>>]
  BY DEF Throw, Set
<1>2. <<>> \in Seq(Frames(Len(responses)))
  OBVIOUS
<1>3. CASE Runs(stack[c])
  <2>1. /\ \A id : Settled(id)' = Settled(id)
        /\ FrozenFile(tx)' /\ InOrder' /\ AppliedFile'
    BY SettledKept DEF FileState
  <2>2. responses' \in Seq(Response) /\ Len(responses) <= Len(responses')
        /\ <<>> \in Seq(Frames(Len(responses')))
    <3>1. responses \in Seq(Response) /\ Len(responses) \in Nat
      BY DEF FileState, InFlight
    <3> QED BY <1>2, <3>1
  <2> QED BY <1>1, <1>3, <2>1, <2>2, RunMoves
<1>4. CASE ~Runs(stack[c])
  BY <1>1, <1>2, <1>4, IdleMoves
<1> QED BY <1>3, <1>4

LEMMA EndsFile ==
    ASSUME FileState, NEW c \in Caller, Refused(c) \/ ReceiptFails(c)
    PROVE  FileState'
<1>1. stack[c] # <<>> /\ Throw(c) /\ UNCHANGED <<responses, returned, ledger, applied>>
  BY DEF Refused, ReceiptFails, Asking, Busy
<1>2. tx' = tx
  BY FileSends DEF Refused, ReceiptFails, FileState
<1> QED BY <1>1, <1>2, CallThrown

\* The index moves on; the file and its names stay.
Moved(t) == [t EXCEPT !.index = NextIndex(t)]
LEMMA FileIndexMoves ==
    ASSUME NEW t, FrozenFile(t)
    PROVE  LET u == Moved(t)
           IN  /\ FrozenFile(u) /\ u.index = (t.index + 1) % Chunks(t) /\ u.newest = t.newest
               /\ Chunks(u) = Chunks(t) /\ (\A k : Slice(u, k) = Slice(t, k))
<1>1. /\ Len(t.ids) = Chunks(t) /\ Chunks(t) \in Nat \ {0} /\ t.index \in Nat
      /\ DOMAIN t = TxFields /\ t.ids # <<>>
  BY FileFacts
<1> DEFINE n == NextIndex(t)
           u == Moved(t)
<1>2. n = (t.index + 1) % Chunks(t)
  BY <1>1 DEF NextIndex
<1>3. n \in Nat /\ n < Chunks(t)
  BY <1>1, <1>2
<1> HIDE DEF n
<1>4. /\ u.kind = t.kind /\ u.size = t.size /\ u.newest = t.newest /\ u.index = n
      /\ u.ids = t.ids /\ u.rows = t.rows /\ u.demand = t.demand /\ u.throttled = t.throttled
      /\ u.locked = t.locked /\ u.client = t.client /\ DOMAIN u = TxFields
  BY <1>1 DEF TxFields, n, Moved
<1> HIDE DEF u
<1>5. Chunks(u) = Chunks(t) /\ (\A k : Slice(u, k) = Slice(t, k)) /\ TooMany(u) = TooMany(t)
  BY <1>4, SameSize
<1>6. \A k : NameOf(u, k) = NameOf(t, k)
  BY <1>4 DEF NameOf
<1>7. Made(u) /\ (Frozen(u) <=> Frozen(t))
  BY <1>1, <1>3, <1>4 DEF FrozenFile, Made, Frozen
<1>8. FrozenFile(u)
  BY <1>4, <1>5, <1>6, <1>7 DEF FrozenFile
<1> QED BY <1>2, <1>4, <1>5, <1>8 DEF u

\* An execution on top of another one is that of a retried file of one chunk.
LEMMA ExecutesAgain ==
    ASSUME NEW S, NEW s \in Seq(S), NEW n, Runs(s), Stacked(n, s), s[Len(s)].op = "all",
           Len(s) > 1
    PROVE  n = 1
<1>1. PICK m \in Nat : m = Len(s)
  OBVIOUS
<1>2. CASE m = 2
  <2>1. 1 \in 1 .. m - 1 /\ 1 + 1 = m
    BY <1>1, <1>2
  <2>2. Waits(n, s[1], s[m])
    BY <1>1, <2>1 DEF Stacked
  <2>3. s[m].op = "all" /\ s[1].op = "all"
    BY <1>1 DEF Runs
  <2> QED BY <2>2, <2>3 DEF Waits
<1>3. CASE m > 2
  BY <1>1, <1>3 DEF Stacked
<1> QED BY <1>1, <1>2, <1>3

LEMMA RespondsFile ==
    ASSUME FileState, NEW c \in Caller, Responds(c)
    PROVE  FileState'
<1> DEFINE s == stack[c]
           f == Last(s)
           N == Len(responses)
           S == Frames(N + 1)
           n == Chunks(tx)
<1>a. PICK k : k = tx.index + 1
  OBVIOUS
<1>b. PICK m : m = N + 1
  OBVIOUS
<1>c. PICK g : g = AwaitsOf(f, m)
  OBVIOUS
<1>d. PICK h : h = AskingFor(m, NameOf(tx, k))
  OBVIOUS
<1>e. PICK u : u = Append(Append(Front(s), g), h)
  OBVIOUS
<1>f. PICK r : r = [id |-> NameOf(tx, k), retried |-> FALSE]
  OBVIOUS
<1>1. /\ responses \in Seq(Response) /\ N \in Nat /\ m \in Nat /\ N < m
      /\ r \in Response /\ r.id = NameOf(tx, k) /\ r.id \in Asked
  <2>1. responses \in Seq(Response) /\ k \in Nat \ {0} /\ tx.newest \in Nat
    BY <1>a, FileFacts DEF FileState, InFlight
  <2> QED BY <1>b, <1>f, <2>1 DEF Response, NameOf, Asked
<1>2. /\ s # <<>> /\ f.op = "all" /\ f.pc = "answered"
      /\ tx' = [tx EXCEPT !.index = NextIndex(tx)] /\ responses' = Append(responses, r)
      /\ UNCHANGED <<returned, ledger, applied>>
  BY <1>a, <1>f, FileFacts DEF Responds, Busy, FileState, AwaitsReceipt
<1>3. Len(Append(responses, r)) = m
  BY <1>1, <1>b, AppendProperties
<1>4. stack' = [stack EXCEPT ![c] = Front(s) \o <<g, h>>]
  BY <1>3, <1>a, <1>c, <1>d, <1>f, FileFacts DEF Responds, Set, Below, AskingFor, AwaitsOf, FileState, AwaitsReceipt
<1>5. /\ s \in Seq(Frames(N)) /\ Len(s) \in Nat \ {0} /\ f \in Frames(N) /\ f = s[Len(s)]
      /\ Runs(s) /\ Stacked(n, s) /\ Sends(f)
  BY <1>2, FileTop
<1>6. /\ n \in Nat \ {0} /\ k \in 1 .. n /\ f.round = k /\ AllSettled
      /\ NameOf(tx, k) \in DOMAIN ledger
  BY <1>2, <1>5, <1>a, FileFacts DEF Sends, FileState
<1> HIDE DEF N, s, f
<1>7. /\ FrozenFile(tx') /\ tx'.index = k % n /\ tx'.newest = tx.newest
      /\ Chunks(tx') = n /\ (\A i : Slice(tx', i) = Slice(tx, i))
  <2>1. FrozenFile(tx)
    BY DEF FileState
  <2>2. /\ FrozenFile(tx') /\ tx'.index = (tx.index + 1) % Chunks(tx) /\ tx'.newest = tx.newest
        /\ Chunks(tx') = Chunks(tx) /\ (\A i : Slice(tx', i) = Slice(tx, i))
    <3>1. tx' = Moved(tx)
      BY <1>2 DEF Moved
    <3> QED BY <2>1, <3>1, FileIndexMoves
  <2> QED BY <1>a, <2>2
<1>8. /\ \A id : StateOf(id)' = StateOf(id)
      /\ \A i : NameOf(tx', i) = NameOf(tx, i)
  BY <1>2, <1>7 DEF StateOf, NameOf
<1>9. (\A id : Settled(id) => Settled(id)') /\ (\A i : Succeeded(i)' = Succeeded(i))
  BY <1>2, <1>7, <1>8 DEF Settled, Succeeded
<1>10. InOrder'
  <2>1. ASSUME NEW id PROVE /\ OfEarlier(id) => OfEarlier(id)'
                            /\ \A i : OfChunk(id, i) => OfChunk(id, i)'
    BY <1>2, <1>7, <1>8, <1>9 DEF OfEarlier, OfChunk
  <2> QED BY <1>2, <1>7, <2>1 DEF FileState, InOrder
<1>11. AppliedFile' /\ FrozenFile(tx)'
  <2>1. AppliedFile'
    BY <1>2, <1>7, <1>9 DEF FileState, AppliedFile
  <2> QED BY <1>7, <2>1 DEF FrozenFile, Made, Frozen
<1>12. /\ Frames(N) \subseteq S /\ Seq(Frames(N)) \subseteq Seq(S) /\ S = Frames(m)
  BY <1>1, <1>b, FramesGrow
<1> HIDE DEF S
<1>13. g \in S /\ g.op = "all" /\ g.pc = "await" /\ g.round = k /\ g.got # <<>>
  <2>1. f \in Frames(m) /\ m \in 1 .. m
    BY <1>1, <1>5, <1>12
  <2>2. /\ g \in Frames(m) /\ g.op = f.op /\ g.pc = "await" /\ g.round = f.round
        /\ g.got # <<>>
    BY <1>1, <1>c, <2>1, FrameAwaits
  <2> QED BY <1>2, <1>6, <1>12, <2>2
<1>14. h \in S /\ h.op = "receipt" /\ h.pc = "ask" /\ h.response = m /\ h.asked = NameOf(tx, k)
  BY <1>1, <1>12, <1>d, NewReceipt
<1> HIDE DEF n
<1>15. PICK v : v = Append(Front(s), g)
  OBVIOUS
<1>16. /\ v \in Seq(S) /\ Stacked(n, v) /\ Len(v) = Len(s) /\ v # <<>> /\ v[Len(v)] = g /\ Runs(v)
  BY <1>2, <1>5, <1>12, <1>13, <1>15, StackReplaced DEF f
<1>17. Len(s) > 1 => n = 1
  <2>1. s[Len(s)].op = "all"
    BY <1>2, <1>5
  <2> QED BY <1>5, <2>1, ExecutesAgain
<1>18. Waits(n, g, h)
  BY <1>6, <1>13, <1>14 DEF Waits
<1>19. /\ u \in Seq(S) /\ Stacked(n, u) /\ Len(u) = Len(v) + 1 /\ u # <<>>
       /\ u[Len(u)] = h /\ u[Len(u) - 1] = g /\ Runs(u)
  <2>1. u = Append(v, h)
    BY <1>15, <1>e
  <2> QED BY <1>14, <1>16, <1>17, <1>18, <2>1, StackPushed
<1>20. Front(s) \o <<g, h>> = u
  <2>1. Front(s) \in Seq(S)
    BY <1>2, <1>5, <1>12, TopOf
  <2> QED BY <1>13, <1>14, <1>e, <2>1, TwoOnTop
<1>21. stack' = [stack EXCEPT ![c] = u] /\ stack'[c] = u
  BY <1>4, <1>20 DEF FileState, InFlight
<1>22. /\ responses' \in Seq(Response) /\ Len(responses') = m /\ responses'[m] = r
       /\ \A i \in 1 .. N : responses'[i] = responses[i]
  BY <1>1, <1>2, <1>b, AppendProperties DEF N
<1>23. AsksFor(h, g)'
  <2>1. (\A i \in 1 .. m : i # m => Settled(responses[i].id))'
    <3>1. \A i \in 1 .. m : i # m => i \in 1 .. N
      BY <1>1, <1>b
    <3> QED BY <1>6, <1>9, <1>22, <3>1 DEF AllSettled, N
  <2>2. m \in 1 .. m
    BY <1>1
  <2>3. tx'.index = g.round % Chunks(tx')
    BY <1>7, <1>13
  <2>4. h.asked = NameOf(tx', g.round) /\ h.asked \in DOMAIN ledger'
    BY <1>2, <1>6, <1>8, <1>13, <1>14
  <2>5. responses'[m].id = h.asked
    BY <1>1, <1>14, <1>22
  <2> QED BY <1>14, <1>22, <2>1, <2>2, <2>3, <2>4, <2>5 DEF AsksFor
<1>24. InTurn(stack[c])'
  <2>1. Len(u) > 1
    BY <1>5, <1>16, <1>19
  <2> QED BY <1>7, <1>19, <1>21, <1>23, <2>1 DEF InTurn
<1>25. Len(responses) <= Len(responses') /\ u \in Seq(Frames(Len(responses')))
  BY <1>1, <1>12, <1>19, <1>22 DEF N
<1>26. Runs(stack[c]) /\ returned' = returned /\ responses' \in Seq(Response)
  BY <1>2, <1>5, <1>22 DEF s
<1>27. (u # <<>> => Runs(u) /\ InTurn(stack[c])') /\ stack' = [stack EXCEPT ![c] = u]
  BY <1>19, <1>21, <1>24
<1>28. (\A id : Settled(id) => Settled(id)') /\ FrozenFile(tx)' /\ InOrder' /\ AppliedFile'
  BY <1>9, <1>10, <1>11
<1> QED BY <1>25, <1>26, <1>27, <1>28, RunMoves

\* The call that executes goes on with other frames; the transaction, the
\* responses and the network stay.
LEMMA RunStays ==
    ASSUME FileState, NEW c \in Caller, Runs(stack[c]), NEW u, stack' = [stack EXCEPT ![c] = u],
           u \in Seq(Frames(Len(responses))), u # <<>>, Runs(u), Stacked(Chunks(tx), u),
           \/ Sends(u[Len(u)])
           \/ Len(u) > 1 /\ AsksAgain(u[Len(u)]),
           UNCHANGED <<tx, responses, returned, ledger, applied>>
    PROVE  FileState'
<1>1. PICK e : e = u[Len(u)]
  OBVIOUS
<1>2. /\ \A id : Settled(id)' = Settled(id)
      /\ FrozenFile(tx)' /\ InOrder' /\ AppliedFile'
      /\ Sends(e)' = Sends(e) /\ AsksAgain(e)' = AsksAgain(e)
  BY SettledKept DEF FileState
<1>3. stack'[c] = u
  BY DEF FileState, InFlight
<1>4. InTurn(stack[c])'
  <2>1. stack'[c][Len(stack'[c])] = e
    BY <1>1, <1>3
  <2>2. Sends(e)' \/ (Len(u) > 1 /\ AsksAgain(e)')
    BY <1>1, <1>2
  <2>3. Stacked(Chunks(tx'), u)
    OBVIOUS
  <2> QED BY <1>3, <2>1, <2>2, <2>3 DEF InTurn
<1>5. /\ responses' \in Seq(Response) /\ Len(responses) <= Len(responses')
      /\ u \in Seq(Frames(Len(responses')))
  <2>1. responses \in Seq(Response) /\ Len(responses) \in Nat
    BY DEF FileState, InFlight
  <2> QED BY <2>1
<1> QED BY <1>2, <1>4, <1>5, RunMoves

\* What waits for a receipt, and what its arrival says.
LEMMA ReceiptTells ==
    ASSUME FileState, NEW c \in Caller, Runs(stack[c]), Asking(c),
           StateOf(Last(stack[c]).asked) = "success"
    PROVE  LET s == stack[c]
               u == Front(s)
               g == Last(u)
               n == Chunks(tx)
           IN  /\ u # <<>> /\ u \in Seq(Frames(Len(responses))) /\ Runs(u) /\ Stacked(n, u)
               /\ Len(s) > 1 /\ Len(u) = Len(s) - 1
               /\ g = u[Len(u)] /\ g \in Frames(Len(responses))
               /\ g.op = "all" /\ g.round \in 1 .. n /\ g.got # <<>>
               /\ Succeeded(g.round) /\ AllSettled /\ tx.index = g.round % n
<1> DEFINE s == stack[c]
           f == Last(s)
           n == Chunks(tx)
           S == Frames(Len(responses))
           u == Front(s)
           g == s[Len(s) - 1]
<1>1. s # <<>> /\ f.op \in {"receipt", "retry"} /\ StateOf(f.asked) = "success"
  BY DEF Asking, Busy
<1>2. /\ s \in Seq(S) /\ Len(s) \in Nat \ {0} /\ f = s[Len(s)] /\ Stacked(n, s)
      /\ Len(s) > 1 /\ (AsksFor(f, g) \/ AsksAgain(f))
  BY <1>1, FileTop
<1>3. n \in Nat \ {0} /\ tx.index \in 0 .. n - 1
  BY FileFacts DEF FileState
<1> HIDE DEF f, n, S
<1>4. /\ u \in Seq(S) /\ Stacked(n, u) /\ Len(u) = Len(s) - 1 /\ u # <<>>
      /\ u[Len(u)] = g /\ Last(u) = g /\ Waits(n, g, f) /\ Runs(u)
  BY <1>2, StackPopped
<1>5. Last(u) \in S
  BY <1>4, TopOf
<1> HIDE DEF s, u, g
<1>6. g.op = "all" /\ g.round \in 1 .. n /\ g.got # <<>>
  BY <1>1, <1>4 DEF Waits
<1>7. CASE AsksFor(f, g)
  <2>1. Succeeded(g.round) /\ tx.index = g.round % n
    BY <1>1, <1>7 DEF AsksFor, Succeeded, n
  <2>2. AllSettled
    BY <1>1, <1>7 DEF AsksFor, AllSettled, Settled
  <2> QED BY <1>2, <1>4, <1>5, <1>6, <2>1, <2>2 DEF s, u, S, n
<1>8. CASE AsksAgain(f)
  <2>1. n = 1 /\ Succeeded(1) /\ AllSettled
    BY <1>8 DEF AsksAgain, n
  <2>2. g.round = 1 /\ tx.index = 0 /\ 1 % 1 = 0
    BY <1>3, <1>6, <2>1
  <2> QED BY <1>2, <1>4, <1>5, <1>6, <2>1, <2>2 DEF s, u, S, n
<1> QED BY <1>2, <1>7, <1>8

LEMMA IndexStays ==
    ASSUME NEW n \in Nat, NEW k \in 1 .. n, k < n
    PROVE  k % n = k
OBVIOUS

LEMMA SeqMembers ==
    ASSUME NEW S, NEW s \in Seq(S)
    PROVE  ToSet(s) \subseteq S /\ (s # <<>> => s[1] \in S)
BY DEF ToSet

LEMMA ReceiptArrivesFile ==
    ASSUME FileState, NEW c \in Caller, ReceiptArrives(c)
    PROVE  FileState'
<1> DEFINE s == stack[c]
           u == Front(s)
           g == Last(u)
           w == Front(u)
           n == Chunks(tx)
           N == Len(responses)
           S == Frames(N)
<1>1. /\ s # <<>> /\ Asking(c) /\ StateOf(Last(s).asked) = "success"
      /\ UNCHANGED <<tx, responses, ledger, applied>>
  BY DEF ReceiptArrives, Asking, Busy
<1>2. CASE ~Runs(s)
  <2>1. Len(s) = 1 /\ s \in Seq(S)
    BY <1>1, <1>2, FileTop
  <2>2. u = <<>>
    <3> HIDE DEF S
    <3> QED BY <1>1, <2>1, TopOf
  <2>3. Throw(c) /\ returned' = returned
    BY <2>2 DEF ReceiptArrives, Below
  <2> QED BY <1>1, <2>3, CallThrown
<1>3. CASE Runs(s)
  <2>1. /\ u # <<>> /\ u \in Seq(S) /\ Runs(u) /\ Stacked(n, u)
        /\ Len(s) > 1 /\ Len(u) = Len(s) - 1 /\ g = u[Len(u)] /\ g \in S
        /\ g.op = "all" /\ g.round \in 1 .. n /\ g.got # <<>>
        /\ Succeeded(g.round) /\ AllSettled /\ tx.index = g.round % n
    BY <1>1, <1>3, ReceiptTells
  <2>2. /\ stack' = [stack EXCEPT ![c] = Continued(tx, responses, w, g)]
        /\ returned' = returned \cup GivenBack(tx, w, g)
    BY <2>1 DEF ReceiptArrives, Below, Set
  <2>3. n \in Nat \ {0} /\ Len(tx.ids) = n /\ tx.kind = "file" /\ N \in Nat
        /\ responses \in Seq(Response)
    BY FileFacts DEF FileState, InFlight
  <2>4. LoopsOn(tx, g) <=> g.round < n
    BY <2>3 DEF LoopsOn
  <2>a. Len(s) \in Nat
    BY <1>1, FileTop
  <2> HIDE DEF u, g, n, S, N, s
  <2>5. CASE g.round < n
    <3>1. PICK e : e = GoesOn(g)
      OBVIOUS
    <3>2. PICK v : v = Append(w, e)
      OBVIOUS
    <3>3. stack' = [stack EXCEPT ![c] = v] /\ returned' = returned
      BY <2>2, <2>4, <2>5, <3>1, <3>2 DEF Continued, GivenBack, GoesOn
    <3>4. e \in S /\ e.op = "all" /\ e.pc = "send" /\ e.round = g.round + 1
      BY <2>1, <3>1, FrameGoesOn DEF S
    <3>5. /\ v \in Seq(S) /\ Stacked(n, v) /\ v # <<>> /\ v[Len(v)] = e /\ Runs(v)
      BY <2>1, <3>2, <3>4, StackReplaced DEF g
    <3>6. e.round = tx.index + 1 /\ e.round - 1 = g.round
      <4>1. g.round % n = g.round
        BY <2>1, <2>3, <2>5, IndexStays
      <4> QED BY <2>1, <2>3, <3>4, <4>1
    <3>7. Sends(v[Len(v)])
      BY <2>1, <3>4, <3>5, <3>6 DEF Sends
    <3> QED BY <1>1, <1>3, <3>3, <3>5, <3>7, RunStays DEF S, n, N, s
  <2>6. CASE ~(g.round < n)
    <3>1. g.round = n
      BY <2>1, <2>3, <2>6
    <3>2. g.got \in Seq(1 .. N)
      BY <2>1, FrameIn DEF S
    <3>3. CASE w = <<>>
      <4>1. stack' = [stack EXCEPT ![c] = <<>>] /\ returned' = returned \cup ToSet(g.got)
        BY <2>2, <2>4, <2>6, <3>3 DEF Continued, GivenBack
      <4>2. ToSet(g.got) \subseteq 1 .. N
        BY <3>2, SeqMembers
      <4>3. /\ \A id : Settled(id)' = Settled(id)
            /\ FrozenFile(tx)' /\ InOrder' /\ AppliedFile' /\ AllSettled'
            /\ Succeeded(n)' = Succeeded(n) /\ n = Chunks(tx')
        BY <1>1, <2>1, SettledKept DEF FileState, n
      <4>4. returned' \subseteq 1 .. Len(responses')
        BY <1>1, <4>1, <4>2 DEF FileState, GivenToCaller, N
      <4>5. /\ <<>> \in Seq(Frames(Len(responses'))) /\ responses' \in Seq(Response)
            /\ Len(responses) <= Len(responses')
        BY <1>1, <2>3 DEF N
      <4>6. Succeeded(Chunks(tx))'
        BY <1>1, <2>1, <3>1, <4>3 DEF Succeeded, n
      <4> QED BY <1>3, <4>1, <4>3, <4>4, <4>5, <4>6, RunMoves DEF s
    <3>4. CASE w # <<>>
      <4> DEFINE h == Last(w)
      <4>1. PICK e : e = AsksOf(h, responses[g.got[1]].id)
        OBVIOUS
      <4>2. PICK v : v = Append(Front(w), e)
        OBVIOUS
      <4>3. stack' = [stack EXCEPT ![c] = v] /\ returned' = returned
        BY <2>2, <2>4, <2>6, <3>4, <4>1, <4>2 DEF Continued, GivenBack, AsksOf
      <4>4. Len(u) \in Nat /\ Len(u) > 1 /\ (Len(u) - 1 = 0 <=> w = <<>>)
        <5>1. Len(u) \in Nat \ {0} /\ (w = <<>> <=> Len(u) = 1)
          BY <2>1, TopOf
        <5> QED BY <3>4, <5>1
      <4>5. n = 1
        BY <2>1, <2>a, <4>4, ExecutesAgain
      <4>6. /\ w \in Seq(S) /\ Stacked(n, w) /\ Len(w) = Len(u) - 1
            /\ w[Len(w)] = h /\ Waits(n, h, g) /\ Runs(w)
        BY <2>1, <4>4, StackPopped
      <4>7. h \in S /\ h.op = "retry"
        BY <2>1, <3>4, <4>6, TopOf DEF Waits
      <4>8. responses[g.got[1]].id \in Asked /\ Settled(responses[g.got[1]].id)
        <5>1. g.got[1] \in 1 .. N
          BY <2>1, <3>2, SeqMembers
        <5>2. responses[g.got[1]] \in Response
          BY <2>3, <5>1 DEF N
        <5> QED BY <2>1, <5>1, <5>2 DEF AllSettled, N, Response, Asked
      <4>9. e \in S /\ e.op = "retry" /\ e.pc = "receipt" /\ e.asked = responses[g.got[1]].id
        BY <4>1, <4>7, <4>8, FrameAsks DEF S
      <4>10. /\ v \in Seq(S) /\ Stacked(n, v) /\ Len(v) = Len(w) /\ v # <<>>
             /\ v[Len(v)] = e /\ Runs(v)
        BY <3>4, <4>2, <4>6, <4>7, <4>9, StackReplaced
      <4>11. Len(v) > 1
        <5>1. w[1].op = "all"
          BY <4>6 DEF Runs
        <5>2. Len(w) # 1
          BY <4>6, <4>7, <5>1
        <5> QED BY <4>4, <4>6, <4>10, <5>2
      <4>12. AsksAgain(v[Len(v)])
        BY <2>1, <3>1, <4>5, <4>8, <4>9, <4>10 DEF AsksAgain, n
      <4> QED BY <1>1, <1>3, <4>3, <4>10, <4>11, <4>12, RunStays DEF S, n, N, s
    <3> QED BY <3>3, <3>4
  <2> QED BY <2>5, <2>6
<1> QED BY <1>2, <1>3

\* Where the retry of a throttled file leaves the transaction.
LEMMA RetryTells ==
    ASSUME FileState, NEW c \in Caller, StartRetry(c), excused' = {}
    PROVE  LET f == Last(stack[c])
           IN  /\ Runs(stack[c]) /\ stack[c] # <<>> /\ Chunks(tx) = 1 /\ f.op = "receipt"
               /\ f.asked = NameOf(tx, 1) /\ StateOf(NameOf(tx, 1)) = "throttled"
               /\ f.response \in 1 .. Len(responses)
               /\ \A r \in 1 .. Len(responses) : r # f.response => Settled(responses[r].id)
<1> DEFINE s == stack[c]
           f == Last(s)
           n == Chunks(tx)
           g == s[Len(s) - 1]
<1>1. s # <<>> /\ f.op = "receipt" /\ StateOf(f.asked) = "throttled"
  BY DEF StartRetry, Busy, Throttled
<1>2. n \in Nat \ {0}
  BY FileFacts DEF FileState
<1>3. n = 1
  <2>1. ~(n > 1)
    BY DEF StartRetry, WhyVoid, Why
  <2> QED BY <1>2, <2>1
<1>4. ~Settled(f.asked)
  <2>1. f.asked \in DOMAIN ledger
    BY <1>1 DEF StateOf
  <2> QED BY <1>1, <2>1 DEF Settled
<1> HIDE DEF f, n, g
<1>5. /\ Len(s) \in Nat \ {0} /\ f = s[Len(s)] /\ Runs(s) /\ Stacked(n, s)
      /\ Len(s) > 1 /\ AsksFor(f, g)
  BY <1>1, <1>4, FileTop DEF f, g, n, AsksAgain
<1>6. Waits(n, g, f)
  <2> HIDE DEF s
  <2>1. PICK m \in Nat : m = Len(s)
    BY <1>5
  <2>2. m - 1 \in 1 .. m - 1 /\ (m - 1) + 1 = m
    BY <1>5, <2>1
  <2> QED BY <1>5, <2>1, <2>2 DEF Stacked, g
<1>7. g.round = 1
  BY <1>1, <1>3, <1>6 DEF Waits
<1>8. f.asked = NameOf(tx, 1) /\ f.response \in 1 .. Len(responses)
      /\ \A r \in 1 .. Len(responses) : r # f.response => Settled(responses[r].id)
  BY <1>5, <1>7 DEF AsksFor
<1> QED BY <1>1, <1>3, <1>5, <1>8 DEF f, n

LEMMA StartRetryFile ==
    ASSUME FileState, NEW c \in Caller, StartRetry(c), excused' = {}
    PROVE  FileState'
<1> DEFINE s == stack[c]
           f == Last(s)
           N == Len(responses)
           S == Frames(N)
<1>a. PICK r : r = f.response
  OBVIOUS
<1>b. PICK e : e = Retrying(r)
  OBVIOUS
<1>c. PICK v : v = Append(Front(s), e)
  OBVIOUS
<1>d. PICK u : u = Append(v, All)
  OBVIOUS
<1>e. PICK id : id = <<tx.newest + 1, 0>>
  OBVIOUS
<1>f. PICK new : new = [id |-> id, retried |-> TRUE]
  OBVIOUS
<1>1. /\ Runs(s) /\ s # <<>> /\ Chunks(tx) = 1 /\ f.op = "receipt"
      /\ StateOf(NameOf(tx, 1)) = "throttled" /\ r \in 1 .. N
      /\ \A i \in 1 .. N : i # r => Settled(responses[i].id)
  BY <1>a, RetryTells
<1>2. s \in Seq(S) /\ N \in Nat /\ responses \in Seq(Response) /\ Stacked(1, s)
  BY <1>1, FileTop DEF FileState, InFlight, Idle
<1>3. /\ tx.newest \in Nat \ {0} /\ DOMAIN tx = TxFields /\ FrozenFile(tx)
  BY FileFacts DEF FileState
<1>4. Current(Reset(tx)) = id
  <2>1. Reset(tx).ids = <<id>> /\ Reset(tx).index = 0
    BY <1>3, <1>e DEF Reset, TxFields
  <2> QED BY <2>1 DEF Current
<1>5. /\ responses' = [responses EXCEPT ![r] = new]
      /\ Starts(c, v, Reset(Reset(tx)))
      /\ UNCHANGED <<returned, ledger, applied>>
  BY <1>4, <1>a, <1>b, <1>c, <1>f DEF StartRetry, Renamed, Below
<1>6. /\ FrozenFile(tx') /\ tx'.newest > tx.newest + 1 /\ tx'.size = tx.size /\ tx'.index = 0
      /\ stack' = [stack EXCEPT ![c] = u]
  <2>1. /\ FrozenFile(tx') /\ tx'.newest > tx.newest + 1 /\ tx'.size = tx.size /\ tx'.index = 0
        /\ Set(c, Append(v, All))
    BY <1>1, <1>3, <1>5, FileStartsAgain
  <2> QED BY <1>d, <2>1 DEF Set
<1>7. tx'.newest \in Nat /\ Chunks(tx') = 1 /\ (\A k : Slice(tx', k) = Slice(tx, k))
  <2>1. tx'.kind = "file" /\ tx.kind = "file" /\ tx'.newest \in Nat
    BY <1>3, <1>6, FileFacts
  <2> QED BY <1>1, <1>6, <2>1, SameSize
<1> HIDE DEF s, f, N, S
<1>8. \A i : StateOf(i)' = StateOf(i)
  BY <1>5 DEF StateOf
<1>9. \A i \in DOMAIN ledger : i[1] <= tx.newest /\ (OfEarlier(i) \/ i = NameOf(tx, 1))
  <2>1. ASSUME NEW i \in DOMAIN ledger PROVE OfEarlier(i) \/ i = NameOf(tx, 1)
    BY <1>1 DEF FileState, InOrder, OfChunk
  <2>2. NameOf(tx, 1)[1] = tx.newest
    BY DEF NameOf
  <2>3. \A x \in 0 .. tx.newest - 1 : x <= tx.newest
    BY <1>3
  <2> QED BY <1>3, <2>1, <2>2, <2>3 DEF OfEarlier
<1>10. InOrder'
  <2>1. ASSUME NEW i \in DOMAIN ledger PROVE OfEarlier(i)'
    <3>1. OfEarlier(i) => OfEarlier(i)'
      <4>1. OfEarlier(i) => i[1] \in 0 .. tx.newest - 1
        BY DEF OfEarlier
      <4>2. OfEarlier(i) => i[1] \in 0 .. tx'.newest - 1
        <5>1. \A x \in 0 .. tx.newest - 1 : x \in 0 .. tx'.newest - 1
          BY <1>3, <1>6, <1>7
        <5> QED BY <4>1, <5>1
      <4> QED BY <1>5, <1>7, <4>2 DEF OfEarlier
    <3>2. i = NameOf(tx, 1) => OfEarlier(i)'
      <4>1. NameOf(tx, 1)[1] \in 0 .. tx'.newest - 1
        BY <1>3, <1>6, <1>7 DEF NameOf
      <4> QED BY <1>1, <1>5, <1>7, <4>1 DEF OfEarlier, StateOf
    <3> QED BY <1>9, <3>1, <3>2
  <2> QED BY <1>5, <2>1 DEF InOrder
<1>11. ~Succeeded(1)' /\ ~Succeeded(1)
  <2>1. NameOf(tx', 1)[1] = tx'.newest
    BY DEF NameOf
  <2>2. NameOf(tx', 1) \notin DOMAIN ledger
    BY <1>3, <1>6, <1>7, <1>9, <2>1
  <2> QED BY <1>1, <1>5, <2>2 DEF Succeeded, StateOf
<1>12. AppliedFile'
  <2>1. \A i \in 1 .. Len(applied) : i <= 1 /\ Succeeded(i)
    BY <1>1 DEF FileState, AppliedFile
  <2>2. \A i \in 1 .. Len(applied) : FALSE
    <3>1. \A i \in 1 .. Len(applied) : i = 1
      BY <2>1
    <3> QED BY <1>11, <2>1, <3>1
  <2>3. \A i \in 1 .. 1 : ~Succeeded(i)'
    BY <1>11
  <2> QED BY <1>5, <1>7, <2>2, <2>3 DEF AppliedFile
<1>13. \A i : Settled(i) => Settled(i)'
  <2>1. \A x \in 0 .. tx.newest - 1 : x \in 0 .. tx'.newest - 1
    BY <1>3, <1>6, <1>7
  <2> QED BY <1>5, <1>8, <2>1 DEF Settled
<1>14. /\ responses' \in Seq(Response) /\ Len(responses') = N /\ responses'[r] = new
       /\ \A i \in 1 .. N : i # r => responses'[i] = responses[i]
  <2>1. new \in Response
    BY <1>3, <1>e, <1>f DEF Response
  <2> QED BY <1>1, <1>2, <1>5, <2>1, ExceptSeq DEF N
<1>15. Settled(new.id)'
  <2>1. new.id = id /\ id[1] = tx.newest + 1
    BY <1>e, <1>f
  <2>2. id \notin DOMAIN ledger /\ id[1] \in 0 .. tx'.newest - 1
    BY <1>3, <1>6, <1>7, <1>9, <2>1
  <2> QED BY <1>5, <2>1, <2>2 DEF Settled
<1>16. AllSettled'
  <2>1. ASSUME NEW i \in 1 .. N PROVE Settled(responses[i].id)'
    <3>1. CASE i = r
      BY <1>14, <1>15, <3>1
    <3>2. CASE i # r
      BY <1>1, <1>13, <1>14, <3>2
    <3> QED BY <3>1, <3>2
  <2> QED BY <1>14, <2>1 DEF AllSettled
<1>17. e \in S /\ e.op = "retry" /\ e.pc = "executing"
  <2>1. r \in Nat
    BY <1>1, <1>2
  <2> QED BY <1>2, <1>b, <2>1, NewRetrying DEF S
<1>18. All \in S /\ All.op = "all" /\ All.pc = "send" /\ All.round = 1
  BY <1>2, NewAll DEF S
<1>19. /\ v \in Seq(S) /\ Stacked(1, v) /\ v # <<>> /\ v[Len(v)] = e /\ Runs(v)
  BY <1>1, <1>2, <1>17, <1>c, StackReplaced DEF f
<1>20. Waits(1, v[Len(v)], All)
  BY <1>17, <1>18, <1>19 DEF Waits
<1>21. /\ u \in Seq(S) /\ Stacked(1, u) /\ u # <<>> /\ u[Len(u)] = All /\ Runs(u)
  BY <1>18, <1>19, <1>20, <1>d, StackPushed
<1>22. Sends(u[Len(u)])'
  <2>1. All.round = tx'.index + 1
    BY <1>6, <1>18
  <2>2. Sends(All)'
    BY <1>16, <1>18, <2>1 DEF Sends
  <2> QED BY <1>21, <2>2
<1>23. stack'[c] = u
  BY <1>6 DEF FileState, InFlight
<1>24. InTurn(stack[c])'
  <2>1. Stacked(Chunks(tx'), stack'[c])
    BY <1>7, <1>21, <1>23
  <2>2. Sends(stack[c][Len(stack[c])])'
    BY <1>22, <1>23
  <2> QED BY <2>1, <2>2 DEF InTurn
<1>25. FrozenFile(tx)'
  BY <1>6 DEF FrozenFile, Made, Frozen
<1>26. Len(responses) <= Len(responses') /\ u \in Seq(Frames(Len(responses'))) /\ returned' = returned
  BY <1>2, <1>5, <1>14, <1>21 DEF S, N
<1>27. Runs(stack[c]) /\ stack' = [stack EXCEPT ![c] = u] /\ (u # <<>> => Runs(u))
  BY <1>1, <1>6, <1>21 DEF s
<1> QED BY <1>10, <1>12, <1>13, <1>14, <1>24, <1>25, <1>26, <1>27, RunMoves

\* The first execution.
LEMMA FirstExecution ==
    ASSUME NotStarted, Made(tx), NEW c \in Caller, ExecuteAll(c)
    PROVE  FileState'
<1> DEFINE u == Append(<<>>, All)
           S == Frames(Len(responses))
<1>1. /\ ~TooMany(tx) /\ Starts(c, <<>>, tx) /\ UNCHANGED <<responses, returned, ledger, applied>>
  BY DEF ExecuteAll, NotStarted
<1>2. /\ tx.kind = "file" /\ tx.ids = <<>> /\ tx.newest = 0 /\ tx.index = 0 /\ tx.throttled = FALSE
      /\ ~tx.locked /\ ~Frozen(tx)
  BY DEF NotStarted, Made
<1>3. /\ FrozenFile(tx') /\ tx'.newest = tx.newest + 1 /\ tx'.index = 0
      /\ stack' = [stack EXCEPT ![c] = u]
  <2>1. ~FrozenFile(tx)
    BY <1>2 DEF FrozenFile
  <2> HIDE DEF u
  <2>2. Starts(c, <<>>, tx) /\ ~TooMany(tx) /\ tx.kind = "file" /\ Made(tx) /\ ~Frozen(tx)
        /\ ~tx.locked /\ tx.index = 0 /\ tx.ids = <<>> /\ (tx.throttled => Chunks(tx) = 1)
    BY <1>1, <1>2
  <2>3. /\ FrozenFile(tx') /\ tx'.newest = tx.newest + 1 /\ tx'.index = tx.index
        /\ Set(c, Append(<<>>, All))
    BY <2>1, <2>2, FileStarts
  <2> QED BY <1>2, <2>3 DEF Set, u
<1>4. /\ responses = <<>> /\ Len(responses) = 0 /\ returned = {} /\ DOMAIN ledger = {}
      /\ applied = <<>> /\ Len(applied) = 0 /\ stack = [d \in Caller |-> <<>>]
  BY DEF NotStarted
<1>5. All \in S /\ All.op = "all" /\ All.pc = "send" /\ All.round = 1
  BY <1>4, NewAll
<1> HIDE DEF S
<1>6. u \in Seq(S) /\ Len(u) = 1 /\ u[1] = All /\ u # <<>> /\ Runs(u)
  BY <1>5 DEF Runs
<1> HIDE DEF u
<1>7. stack'[c] = u /\ \A d \in Caller : d # c => stack'[d] = <<>>
  BY <1>3, <1>4
<1>8. AllSettled' /\ (\A k : ~Succeeded(k)')
  BY <1>1, <1>4 DEF AllSettled, Succeeded, StateOf
<1>9. Sends(All)'
  BY <1>3, <1>5, <1>8 DEF Sends
<1>10. InTurn(stack[c])'
  <2>1. Stacked(Chunks(tx'), u)
    BY <1>6 DEF Stacked
  <2> QED BY <1>6, <1>7, <1>9, <2>1 DEF InTurn
<1>11. InFlight'
  <2>1. stack' \in [Caller -> Seq(Frames(Len(responses')))]
    <3>1. <<>> \in Seq(S) /\ S = Frames(Len(responses'))
      BY <1>1 DEF S
    <3> QED BY <1>3, <1>4, <1>6, <3>1
  <2>2. \A d \in Caller : Runs(stack[d])' => d = c
    BY <1>7 DEF Runs
  <2>3. responses' \in Seq(Response)
    BY <1>1, <1>4
  <2> QED BY <1>6, <1>7, <1>10, <2>1, <2>2, <2>3 DEF InFlight
<1>12. InOrder' /\ AppliedFile' /\ GivenToCaller'
  BY <1>1, <1>4, <1>8 DEF InOrder, AppliedFile, GivenToCaller
<1>13. FrozenFile(tx)'
  BY <1>3 DEF FrozenFile, Made, Frozen
<1> QED BY <1>11, <1>12, <1>13 DEF FileState

\* What can be done before that.
LEMMA NotStartedStep ==
    ASSUME NotStarted, Made(tx), Next
    PROVE  NotStarted' \/ FileState'
<1>1. /\ \A c \in Caller : stack[c] = <<>>
      /\ returned = {} /\ DOMAIN ledger = {}
  BY DEF NotStarted
<1>2. ASSUME NEW c \in Caller, ExecuteAll(c) PROVE FileState'
  BY <1>2, FirstExecution
<1>3. ASSUME NEW size \in Sizes, SetChunkSize(size) PROVE NotStarted'
  BY <1>3 DEF SetChunkSize, NotStarted, Made, TxFields
<1>4. ASSUME NEW id \in DOMAIN ledger PROVE FALSE
  BY <1>1
<1>5. ASSUME NEW c \in Caller,
             \/ \E r \in returned : GetReceipt(c, r)
             \/ \E answered \in BOOLEAN : Submit(c, answered)
             \/ Expires(c) \/ Refused(c) \/ Responds(c) \/ ReceiptArrives(c) \/ ReceiptFails(c)
             \/ StartRetry(c) \/ ThrottledAgain(c) \/ Resume(c)
      PROVE  FALSE
  <2>1. stack[c] = <<>> /\ returned = {}
    BY <1>1
  <2> QED
    BY <1>5, <2>1 DEF Submit, Expires, Refused, Responds, ReceiptArrives, ReceiptFails, Asking,
                      StartRetry, ThrottledAgain, Resume, Busy
<1> QED BY <1>2, <1>3, <1>4, <1>5 DEF Next

\* What makes the promise void.
LEMMA VoidSteps ==
    ASSUME FileState, NEW c \in Caller, excused' = {}
    PROVE  ~ExecuteAll(c) /\ ~ThrottledAgain(c) /\ ~Resume(c)
<1>1. tx.newest > 0
  BY DEF FileState, FrozenFile
<1>2. ~ExecuteAll(c)
  BY <1>1 DEF ExecuteAll, Why
<1>3. ASSUME stack[c] # <<>>, Last(stack[c]).op = "retry"
      PROVE  Last(stack[c]).pc = "receipt" /\ Settled(Last(stack[c]).asked)
  BY <1>3, FileTop DEF AsksAgain
<1>4. ~Resume(c)
  BY <1>3 DEF Resume, Busy
<1>5. ~ThrottledAgain(c)
  <2>1. \A id : Settled(id) => StateOf(id) # "throttled"
    BY DEF Settled, StateOf
  <2> QED BY <1>3, <2>1 DEF ThrottledAgain, Busy, Throttled
<1> QED BY <1>2, <1>4, <1>5

LEMMA FileStep ==
    ASSUME FileState, Effects, Next, excused' = {}
    PROVE  FileState'
<1>1. ASSUME NEW c \in Caller PROVE ~ExecuteAll(c) /\ ~ThrottledAgain(c) /\ ~Resume(c)
  BY VoidSteps
<1>2. ASSUME NEW c \in Caller, NEW r \in returned, GetReceipt(c, r) PROVE FileState'
  BY <1>2, GetReceiptFile
<1>3. ASSUME NEW c \in Caller, NEW answered \in BOOLEAN, Submit(c, answered) PROVE FileState'
  BY <1>3, SubmitFile
<1>4. ASSUME NEW c \in Caller, Refused(c) \/ ReceiptFails(c) PROVE FileState'
  BY <1>4, EndsFile
<1>5. ASSUME NEW c \in Caller, Responds(c) PROVE FileState'
  BY <1>5, RespondsFile
<1>6. ASSUME NEW c \in Caller, ReceiptArrives(c) PROVE FileState'
  BY <1>6, ReceiptArrivesFile
<1>7. ASSUME NEW c \in Caller, StartRetry(c) PROVE FileState'
  BY <1>7, StartRetryFile
<1>8. ASSUME NEW size \in Sizes, SetChunkSize(size) PROVE FALSE
  BY <1>8 DEF SetChunkSize, Why, FileState, FrozenFile
<1>9. ASSUME NEW id \in DOMAIN ledger, NEW state \in {"success", "failed", "throttled"},
             Consensus(id, state)
      PROVE  FileState'
  BY <1>9, ConsensusFile
<1>10. ASSUME NEW c \in Caller, Expires(c) PROVE FileState'
  BY <1>10, ExpiresFile
<1> QED BY <1>1, <1>2, <1>3, <1>4, <1>5, <1>6, <1>7, <1>8, <1>9, <1>10 DEF Next

LEMMA FileStays ==
    ASSUME FileInv, UNCHANGED vars
    PROVE  FileInv'
<1>1. UNCHANGED <<tx, stack, responses, returned, ledger, applied>>
  BY DEF vars
<1>2. CASE NotStarted
  BY <1>1, <1>2 DEF FileInv, NotStarted
<1>3. CASE FileState
  <2>1. /\ FrozenFile(tx)' = FrozenFile(tx) /\ InOrder' = InOrder
        /\ AppliedFile' = AppliedFile /\ AllSettled' = AllSettled
        /\ \A id : Settled(id)' = Settled(id)
        /\ \A k : Succeeded(k)' = Succeeded(k)
        /\ \A f : Sends(f)' = Sends(f)
        /\ \A f, b : AsksFor(f, b)' = AsksFor(f, b)
        /\ \A f : AsksAgain(f)' = AsksAgain(f)
    BY <1>1, SettledKept
  <2>2. \A s : Idle(s)' = Idle(s) /\ InTurn(s)' = InTurn(s)
    BY <1>1, <2>1 DEF Idle, InTurn
  <2>3. InFlight'
    BY <1>1, <1>3, <2>2 DEF FileState, InFlight
  <2>4. GivenToCaller'
    BY <1>1, <1>3, <2>1 DEF FileState, GivenToCaller
  <2> QED BY <1>3, <2>1, <2>3, <2>4 DEF FileState, FileInv
<1> QED BY <1>2, <1>3 DEF FileInv

Undisturbed == tx.kind = "file" /\ excused = {}
ContentsInv == MessageInv /\ (Undisturbed => FileInv)

LEMMA ContentsStep == ContentsInv /\ [Next]_vars => ContentsInv'
<1> SUFFICES ASSUME ContentsInv, [Next]_vars PROVE ContentsInv'
  OBVIOUS
<1>1. MessageInv /\ MessageInv' /\ Made(tx) /\ Effects
  BY MessageStep DEF ContentsInv, MessageInv
<1>2. tx'.kind = tx.kind /\ excused \subseteq excused'
  BY <1>1, KindKept DEF Made
<1>3. ASSUME Undisturbed' PROVE FileInv'
  <2>1. FileInv /\ excused' = {}
    BY <1>2, <1>3 DEF ContentsInv, Undisturbed
  <2>2. CASE UNCHANGED vars
    BY <2>1, <2>2, FileStays
  <2>3. CASE Next
    <3>1. CASE NotStarted
      BY <1>1, <2>3, <3>1, NotStartedStep DEF FileInv
    <3>2. CASE FileState
      BY <1>1, <2>1, <2>3, <3>2, FileStep DEF FileInv
    <3> QED BY <2>1, <3>1, <3>2 DEF FileInv
  <2> QED BY <2>2, <2>3
<1> QED BY <1>1, <1>3 DEF ContentsInv

LEMMA ContentsInit == Init => ContentsInv
<1> SUFFICES ASSUME Init, Undisturbed PROVE FileInv
  BY MessageInit DEF ContentsInv
<1>1. tx.ids = <<>> /\ tx.newest = 0 /\ tx.throttled = FALSE
  BY DEF Init
<1>2. NotStarted
  <2>1. /\ stack = [c \in Caller |-> <<>>] /\ responses = <<>> /\ returned = {}
        /\ ledger = <<>> /\ applied = <<>>
    BY DEF Init
  <2>2. DOMAIN ledger = {}
    BY <2>1
  <2> QED BY <1>1, <2>1, <2>2 DEF NotStarted, Undisturbed
<1> QED BY <1>2 DEF FileInv

\* ContentsInv holds in every state.
LEMMA ContentsSafe == Spec => []ContentsInv
BY ContentsInit, ContentsStep, PTL DEF Spec

\* A file is appended its chunks in order, each going on where the one before
\* stops, and executeAll returns when the last one is appended, whatever chunks
\* fail, whatever answers are lost and however late the network decides; executeAll
\* of a FileAppendTransaction and the receipts it awaits.
THEOREM FileHoldsContentsSafe == Spec => []FileHoldsContents
<1>1. ASSUME ContentsInv PROVE FileHoldsContents
  <2> SUFFICES ASSUME Undisturbed
               PROVE  /\ \A i \in 1 .. Len(applied) :
                            Piece(applied[i].bytes, IF i = 1 THEN 1 ELSE After(applied[i - 1]))
                      /\ returned # {} => applied # <<>> /\ After(Last(applied)) = Length + 1
    BY DEF FileHoldsContents, Undisturbed
  <2>1. FileInv
    BY <1>1 DEF ContentsInv
  <2>2. CASE NotStarted
    BY <2>2 DEF NotStarted
  <2>3. CASE FileState
    <3> DEFINE n == Chunks(tx)
               s == tx.size
    <3>1. /\ n \in Nat \ {0} /\ s \in Nat \ {0} /\ tx.kind # "plain" /\ Length \in Nat \ {0}
      BY <2>3, FileFacts, ChunkedAssumption DEF FileState
    <3>a. PICK m \in Nat : m = Len(applied)
      <4> DEFINE T == {b \in Taken : TakesEffect(b)}
      <4>1. applied \in Seq(T)
        BY <1>1 DEF ContentsInv, MessageInv, Effects
      <4> HIDE DEF T
      <4> QED BY <4>1
    <3>2. ASSUME NEW i \in 1 .. m
          PROVE  /\ i \in 1 .. n
                 /\ Piece(applied[i].bytes, (i - 1) * s + 1)
                 /\ After(applied[i]) = (IF i < n THEN i * s ELSE Length) + 1
      <4>1. i \in 1 .. n /\ applied[i].bytes = Slice(tx, i)
        BY <2>3, <3>1, <3>a DEF FileState, AppliedFile
      <4> QED BY <3>1, <4>1, SliceIsPiece
    <3> HIDE DEF n, s
    <3>3. ASSUME NEW i \in 1 .. m
          PROVE  Piece(applied[i].bytes, IF i = 1 THEN 1 ELSE After(applied[i - 1]))
      <4>1. CASE i = 1
        <5>1. (1 - 1) * s + 1 = 1
          BY <3>1
        <5> QED BY <3>2, <4>1, <5>1
      <4>2. CASE i # 1
        <5>1. i - 1 \in 1 .. m /\ i - 1 < n
          BY <3>1, <3>2, <4>2
        <5>2. After(applied[i - 1]) = (i - 1) * s + 1
          BY <3>2, <5>1
        <5> QED BY <3>2, <4>2, <5>2
      <4> QED BY <4>1, <4>2
    <3>4. ASSUME returned # {} PROVE applied # <<>> /\ After(Last(applied)) = Length + 1
      <4>1. n <= m
        <5>1. Succeeded(n)
          BY <2>3, <3>4 DEF FileState, GivenToCaller, n
        <5> QED BY <2>3, <3>1, <3>a, <5>1 DEF FileState, AppliedFile, n
      <4>2. n \in 1 .. m /\ m \in 1 .. m
        BY <3>1, <4>1
      <4>3. m = n
        <5>1. m \in 1 .. n
          BY <3>2, <4>2
        <5> QED BY <3>1, <4>1, <5>1
      <4>4. After(applied[m]) = Length + 1
        BY <3>1, <3>2, <4>2, <4>3
      <4>5. applied # <<>> /\ Last(applied) = applied[m]
        <5>1. applied = <<>> => Len(applied) = 0
          OBVIOUS
        <5> QED BY <3>1, <3>a, <4>3, <5>1 DEF Last
      <4> QED BY <4>4, <4>5
    <3> QED BY <3>3, <3>4, <3>a
  <2> QED BY <2>1, <2>2, <2>3 DEF FileInv
<1> QED BY <1>1, ContentsSafe, PTL
=============================================================================
