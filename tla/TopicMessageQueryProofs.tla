----------------------- MODULE TopicMessageQueryProofs -----------------------
(* Theorems about TopicMessageQuery, for every topic, limit and number of  *)
(* attempts, of a query that is subscribed once.                           *)
EXTENDS TopicMessageQuery, FiniteSetTheorems, TLAPS

OneSubscription == \A g, h \in Handle : g = h

-----------------------------------------------------------------------------
(* The inductive invariant. *)

Typed ==
    /\ handle \in Handle \cup {None}
    /\ startTime \in Nat
    /\ timers \in Nat
    /\ state \in [Stream -> {"unused", "open", "cancelled", "over"}]
    /\ position \in [Stream -> Nat]
    /\ chunks \in [Stream -> [Message -> SUBSET DOMAIN Topic]]
    /\ heard \in Seq(Message)
    /\ starts \subseteq Nat

\* One stream or one timer at a time.
Alone ==
    /\ timers <= 1
    /\ timers = 1 => Live = {}
    /\ handle = None => Live = {} /\ timers = 0
    /\ \A s, t \in Live : s = t

Heard(m) == \E i \in DOMAIN heard : heard[i] = m

\* Positions of the chunks of m from t up to, not including, u.
Between(m, t, u) == {p \in Chunks(m) : t <= p /\ p < u}

\* A live stream reads on from the start time, and has collected what came
\* since the start time t it asked for.
Reading(s) ==
    /\ position[s] = startTime
    /\ \E t \in starts :
          /\ t <= startTime
          /\ \A m \in Message : chunks[s][m] = Between(m, t, startTime) \/ (chunks[s][m] = {} /\ Heard(m))

IsLast(m, p) == p \in Chunks(m) /\ \A q \in Chunks(m) : q <= p

\* What was heard was complete before the start time.
HeardInTime ==
    \A i \in DOMAIN heard : IsLast(heard[i], CompletedAt[heard[i]]) /\ CompletedAt[heard[i]] < startTime

StreamInv ==
    /\ Typed
    /\ Alone
    /\ \A s \in Live : Reading(s)
    /\ HeardInTime
    /\ OnlySplitMessagesLost

-----------------------------------------------------------------------------
(* Chunks. *)

LEMMA ChunksFinite ==
  ASSUME NEW m \in Message
  PROVE  /\ Chunks(m) \subseteq Nat \ {0} /\ IsFiniteSet(Chunks(m))
         /\ Cardinality(Chunks(m)) \in Nat /\ Cardinality(Chunks(m)) <= Total[m]
<1>1. Len(Topic) \in Nat /\ DOMAIN Topic = 1 .. Len(Topic)
  BY TopicAssumption
<1>2. IsFiniteSet(DOMAIN Topic)
  BY <1>1, FS_Interval
<1>3. IsFiniteSet(Chunks(m))
  BY <1>2, FS_Subset DEF Chunks
<1>. QED  BY <1>1, <1>3, FS_CardinalityType, TopicAssumption DEF Chunks

\* As many chunks as the total are all the chunks.
LEMMA WholeIsAll ==
  ASSUME NEW m \in Message, NEW C \in SUBSET Chunks(m), Cardinality(C) = Total[m]
  PROVE  C = Chunks(m) /\ Cardinality(Chunks(m)) = Total[m]
<1>1. IsFiniteSet(C) /\ Cardinality(C) <= Cardinality(Chunks(m))
      /\ (Cardinality(Chunks(m)) = Cardinality(C) => Chunks(m) = C)
  BY ChunksFinite, FS_Subset
<1>2. Total[m] \in Nat
  BY TopicAssumption
<1>. QED  BY <1>1, <1>2, ChunksFinite

LEMMA LastCompletes ==
  ASSUME NEW m \in Message, NEW p, IsLast(m, p), Cardinality(Chunks(m)) = Total[m]
  PROVE  CompletedAt[m] = p
<1>1. CompletedAt[m] = CHOOSE q \in Chunks(m) : \A r \in Chunks(m) : r <= q
  BY DEF CompletedAt
<1>2. \A q \in Chunks(m) : (\A r \in Chunks(m) : r <= q) => q = p
  BY ChunksFinite DEF IsLast
<1>. QED  BY <1>1, <1>2 DEF IsLast

-----------------------------------------------------------------------------
(* Steps that read nothing. *)

LEMMA StreamInit == ASSUME Init PROVE StreamInv
<1>1. Live = {} /\ heard = <<>>
  BY DEF Init, Live
<1>2. Typed
  BY SubscriptionAssumption DEF Init, Typed
<1>3. OnlySplitMessagesLost
  BY DEF Init, OnlySplitMessagesLost, Passed, BeforeStart
<1>. QED  BY <1>1, <1>2, <1>3 DEF Init, StreamInv, Alone, HeardInTime

LEMMA OpensStream ==
  ASSUME OneSubscription, StreamInv, Live = {}, NEW h \in Handle, MakeServerStreamRequest(h),
         handle' = h, timers' = 0, UNCHANGED <<startTime, heard>>
  PROVE  StreamInv'
<1>. PICK s \in Stream :
       /\ state[s] = "unused"
       /\ state' = [state EXCEPT ![s] = "open"]
       /\ position' = [position EXCEPT ![s] = startTime]
       /\ chunks' = [chunks EXCEPT ![s] = [m \in Message |-> {}]]
       /\ starts' = starts \cup {startTime}
  BY DEF MakeServerStreamRequest
<1>1. Typed'
  BY DEF StreamInv, Typed
<1>2. Live' = {s}
  BY DEF StreamInv, Typed, Live
<1>3. Alone'
  BY <1>2, SubscriptionAssumption DEF Alone
<1>4. Reading(s)'
  <2>1. position'[s] = startTime'
    BY DEF StreamInv, Typed
  <2>2. \A m \in Message : chunks'[s][m] = Between(m, startTime, startTime')
    <3>1. \A m \in Message : Between(m, startTime, startTime') = {}
      BY ChunksFinite DEF StreamInv, Typed, Between
    <3>. QED  BY <3>1 DEF StreamInv, Typed
  <2>3. startTime \in starts' /\ startTime <= startTime'
    BY DEF StreamInv, Typed
  <2>. QED  BY <2>1, <2>2, <2>3 DEF Reading
<1>5. HeardInTime'
  BY DEF StreamInv, HeardInTime
<1>6. OnlySplitMessagesLost'
  BY DEF StreamInv, OnlySplitMessagesLost, Passed, Split, BeforeStart
<1>. QED  BY <1>1, <1>2, <1>3, <1>4, <1>5, <1>6 DEF StreamInv

\* Streams are cancelled, or end.
LEMMA LosesStream ==
  ASSUME StreamInv, Typed', Alone', Live' \subseteq Live,
         UNCHANGED <<startTime, position, chunks, heard, starts>>
  PROVE  StreamInv'
<1>1. \A s \in Live' : Reading(s)'
  BY DEF StreamInv, Reading, Heard
<1>2. HeardInTime'
  BY DEF StreamInv, HeardInTime
<1>3. OnlySplitMessagesLost'
  BY DEF StreamInv, OnlySplitMessagesLost, Passed, Split, BeforeStart
<1>. QED  BY <1>1, <1>2, <1>3 DEF StreamInv

LEMMA UnsubscribeStep ==
  ASSUME StreamInv, NEW h \in Handle, Unsubscribe(h)
  PROVE  StreamInv'
<1>. DEFINE s == call[h]
<1>1. state' = [state EXCEPT ![s] = IF state[s] = "open" THEN "cancelled" ELSE state[s]]
  BY DEF Unsubscribe
<1>2. state \in [Stream -> {"unused", "open", "cancelled", "over"}]
  BY DEF StreamInv, Typed
<1>3. \A t \in Stream : state'[t] = state[t] \/ (state[t] = "open" /\ state'[t] = "cancelled")
  BY <1>1, <1>2
<1>4. state' \in [Stream -> {"unused", "open", "cancelled", "over"}]
  BY <1>1, <1>2
<1>5. Live' = Live
  BY <1>2, <1>3 DEF Live
<1>6. UNCHANGED <<handle, timers, startTime, position, chunks, heard, starts>>
  BY DEF Unsubscribe, query, told
<1>7. Typed'
  BY <1>4, <1>6 DEF StreamInv, Typed
<1>8. Alone'
  BY <1>5, <1>6 DEF StreamInv, Alone
<1>. QED  BY <1>5, <1>6, <1>7, <1>8, LosesStream

LEMMA EndStep ==
  ASSUME StreamInv, NEW s \in Stream, Complete(s) \/ HandleError(s)
  PROVE  StreamInv'
<1>1. s \in Live
  BY DEF Complete, HandleError, Live
<1>2. state' = [state EXCEPT ![s] = "over"]
  BY DEF Complete, HandleError
<1>3. Live' = {} /\ handle # None /\ timers = 0 /\ timers \in Nat
  BY <1>1, <1>2 DEF StreamInv, Typed, Alone, Live
<1>4. /\ timers' \in {timers, timers + 1}
      /\ UNCHANGED <<handle, startTime, position, chunks, heard, starts>>
  BY DEF Complete, HandleError, Scheduled, subscription, query
<1>5. Typed'
  BY <1>2, <1>3, <1>4 DEF StreamInv, Typed
<1>6. Alone'
  BY <1>3, <1>4 DEF Alone
<1>. QED  BY <1>3, <1>4, <1>5, <1>6, LosesStream

-----------------------------------------------------------------------------
(* A response is read. *)

\* The position read, its message, and what was collected before.
LEMMA ReadsOn ==
  ASSUME StreamInv, NEW s \in Stream, HandleMessage(s)
  PROVE  /\ s \in Live /\ Live' = Live /\ \A t \in Live : t = s
         /\ position[s] = startTime /\ startTime \in DOMAIN Topic /\ startTime \in Nat
         /\ startTime' = startTime + 1 /\ position' = [position EXCEPT ![s] = startTime + 1]
         /\ Topic[startTime] \in Message /\ startTime \in Chunks(Topic[startTime])
         /\ UNCHANGED <<handle, timers, state, starts>>
<1>1. state[s] = "open" /\ state' = state
  BY DEF HandleMessage
<1>2. s \in Live /\ Live' = Live /\ \A t \in Live : t = s
  BY <1>1 DEF Live, StreamInv, Alone
<1>3. position[s] = startTime
  BY <1>2 DEF StreamInv, Reading
<1>4. startTime \in DOMAIN Topic
  BY <1>3 DEF HandleMessage
<1>5. Topic[startTime] \in Message /\ startTime \in Chunks(Topic[startTime])
  BY <1>4, TopicAssumption DEF Chunks
<1>6. startTime \in Nat
  BY DEF StreamInv, Typed
<1>7. startTime' = startTime + 1 /\ position' = [position EXCEPT ![s] = startTime + 1]
  BY <1>3 DEF HandleMessage, StartAfter
<1>. QED  BY <1>1, <1>2, <1>3, <1>4, <1>5, <1>6, <1>7 DEF HandleMessage, subscription

\* The message just read was not heard before, so the stream has collected its
\* chunks since the start time t.
LEMMA NotHeardYet ==
  ASSUME StreamInv, NEW m \in Message, startTime \in Chunks(m)
  PROVE  ~Heard(m)
<1>1. SUFFICES ASSUME NEW i \in DOMAIN heard, heard[i] = m PROVE FALSE
  BY DEF Heard
<1>2. startTime <= CompletedAt[m] /\ CompletedAt[m] < startTime /\ CompletedAt[m] \in Chunks(m)
  BY <1>1 DEF StreamInv, HeardInTime, IsLast
<1>3. startTime \in Nat /\ CompletedAt[m] \in Nat
  BY <1>2, ChunksFinite
<1>. QED  BY <1>2, <1>3

LEMMA Collects ==
  ASSUME StreamInv, NEW s \in Stream, HandleMessage(s), NEW m, m = Topic[startTime],
         NEW t \in starts, t <= startTime, chunks[s][m] = Between(m, t, startTime)
  PROVE  Collected(s, startTime) = Between(m, t, startTime + 1)
<1>1. startTime \in Nat /\ startTime \in Chunks(m) /\ m \in Message
  BY ReadsOn
<1>2. t \in Nat /\ Chunks(m) \subseteq Nat
  BY <1>1, ChunksFinite DEF StreamInv, Typed
<1>3. Between(m, t, startTime + 1) = Between(m, t, startTime) \cup {startTime}
  BY <1>1, <1>2 DEF Between
<1>. QED  BY <1>3 DEF Collected

LEMMA HandleMessageStep ==
  ASSUME StreamInv, NEW s \in Stream, HandleMessage(s), NEW p, p = startTime, NEW m, m = Topic[p]
  PROVE  StreamInv' /\ [Feed!Next]_heard
<1>1. /\ s \in Live /\ Live' = Live /\ \A u \in Live : u = s
      /\ position[s] = p /\ p \in Nat /\ startTime' = p + 1
      /\ position' = [position EXCEPT ![s] = p + 1]
      /\ m \in Message /\ p \in Chunks(m) /\ p # 0
      /\ UNCHANGED <<handle, timers, state, starts>>
  BY ReadsOn, ChunksFinite
<1>2. PICK t \in starts :
        /\ t <= p
        /\ \A n \in Message : chunks[s][n] = Between(n, t, p) \/ (chunks[s][n] = {} /\ Heard(n))
  BY <1>1 DEF StreamInv, Reading
<1>3. chunks[s][m] = Between(m, t, p)
  BY <1>1, <1>2, NotHeardYet
<1>4. Collected(s, p) = Between(m, t, p + 1)
  BY <1>1, <1>2, <1>3, Collects
<1>5. t \in Nat /\ \A n \in Message : Chunks(n) \subseteq Nat
  BY ChunksFinite DEF StreamInv, Typed
<1>6. \A n \in Message \ {m} : p \notin Chunks(n)
  BY DEF Chunks
<1>7. \A n \in Message \ {m} : Between(n, t, p + 1) = Between(n, t, p)
  BY <1>1, <1>5, <1>6 DEF Between
<1>8. Between(m, t, p + 1) \subseteq Chunks(m) /\ Chunks(m) \subseteq DOMAIN Topic
  BY DEF Between, Chunks
<1>9. chunks \in [Stream -> [Message -> SUBSET DOMAIN Topic]] /\ heard \in Seq(Message)
  BY DEF StreamInv, Typed
<1>10. \A n \in Message \ {m} : Passed(n)' => Passed(n)
  BY <1>1, <1>5, <1>6 DEF Passed
<1>11. \A n \in Message : Split(n)' = Split(n) /\ BeforeStart(n)' = BeforeStart(n)
  BY <1>1 DEF Split, BeforeStart
<1>12. CASE IsWhole(s, p)
  <2>1. chunks' = [chunks EXCEPT ![s][m] = {}] /\ heard' = Append(heard, m)
    BY <1>1, <1>12 DEF HandleMessage
  <2>2. Between(m, t, p + 1) = Chunks(m) /\ Cardinality(Chunks(m)) = Total[m]
    BY <1>1, <1>4, <1>8, <1>12, WholeIsAll DEF IsWhole
  <2>3. IsLast(m, p)
    BY <1>1, <1>5, <2>2 DEF IsLast, Between
  <2>4. CompletedAt[m] = p
    BY <1>1, <2>2, <2>3, LastCompletes
  <2>5. /\ heard' \in Seq(Message) /\ Len(heard') = Len(heard) + 1 /\ Len(heard) \in Nat
        /\ \A i \in DOMAIN heard : i \in DOMAIN heard' /\ heard'[i] = heard[i]
        /\ heard'[Len(heard) + 1] = m
        /\ DOMAIN heard' = DOMAIN heard \cup {Len(heard) + 1}
    BY <1>1, <1>9, <2>1
  <2>6. Heard(m)' /\ \A n \in Message : Heard(n) => Heard(n)'
    BY <2>5 DEF Heard
  <2>7. HeardInTime'
    <3>1. SUFFICES ASSUME NEW i \in DOMAIN heard'
                   PROVE  IsLast(heard'[i], CompletedAt[heard'[i]]) /\ CompletedAt[heard'[i]] < p + 1
      BY <1>1 DEF HeardInTime, IsLast
    <3>2. CASE i = Len(heard) + 1
      BY <1>1, <2>3, <2>4, <2>5, <3>2
    <3>3. CASE i \in DOMAIN heard
      <4>1. heard'[i] = heard[i] /\ heard[i] \in Message
        BY <1>9, <2>5, <3>3
      <4>2. IsLast(heard[i], CompletedAt[heard[i]]) /\ CompletedAt[heard[i]] < p
        BY <3>3 DEF StreamInv, HeardInTime
      <4>3. CompletedAt[heard[i]] \in Nat
        BY <1>5, <4>1, <4>2 DEF IsLast
      <4>. QED  BY <1>1, <4>1, <4>2, <4>3
    <3>. QED  BY <2>5, <3>2, <3>3
  <2>8. Feed!Next
    <3>1. \A i \in DOMAIN heard : CompletedAt[heard[i]] < CompletedAt[m]
      BY <2>4 DEF StreamInv, HeardInTime
    <3>. QED  BY <1>1, <2>1, <2>4, <3>1 DEF Feed!Next, Feed!Hear
  <2>9. \A n \in Message : chunks'[s][n] = Between(n, t, p + 1) \/ (chunks'[s][n] = {} /\ Heard(n)')
    BY <1>1, <1>2, <1>7, <1>9, <2>1, <2>6
  <2>10. chunks' \in [Stream -> [Message -> SUBSET DOMAIN Topic]]
    BY <1>1, <1>9, <2>1
  <2>11. OnlySplitMessagesLost'
    BY <1>10, <1>11, <2>6 DEF StreamInv, OnlySplitMessagesLost, Heard
  <2>12. Typed' /\ Alone'
    <3>1. heard' \in Seq(Message) /\ startTime' \in Nat /\ position' \in [Stream -> Nat]
      BY <1>1, <2>5 DEF StreamInv, Typed
    <3>2. Typed'
      BY <1>1, <2>10, <3>1 DEF StreamInv, Typed
    <3>. QED  BY <1>1, <3>2 DEF StreamInv, Alone
  <2>13. Reading(s)'
    BY <1>1, <1>2, <2>9 DEF StreamInv, Typed, Reading
  <2>. QED  BY <1>1, <2>7, <2>8, <2>11, <2>12, <2>13 DEF StreamInv
<1>13. CASE ~IsWhole(s, p)
  <2>1. chunks' = [chunks EXCEPT ![s][m] = Between(m, t, p + 1)] /\ heard' = heard
    BY <1>1, <1>4, <1>13 DEF HandleMessage
  <2>2. \A n \in Message : Heard(n)' = Heard(n)
    BY <2>1 DEF Heard
  <2>3. HeardInTime'
    <3>1. \A i \in DOMAIN heard : CompletedAt[heard[i]] \in Nat
      BY <1>5, <1>9 DEF StreamInv, HeardInTime, IsLast
    <3>. QED  BY <1>1, <2>1, <3>1 DEF StreamInv, HeardInTime, IsLast
  <2>4. chunks' \in [Stream -> [Message -> SUBSET DOMAIN Topic]]
    BY <1>1, <1>8, <1>9, <2>1
  <2>5. \A n \in Message : chunks'[s][n] = Between(n, t, p + 1) \/ (chunks'[s][n] = {} /\ Heard(n)')
    BY <1>1, <1>2, <1>7, <1>9, <2>1, <2>2
  <2>6. Passed(m)' => Split(m)
    <3>1. SUFFICES ASSUME Passed(m)' PROVE Split(m)
      OBVIOUS
    <3>2. Cardinality(Chunks(m)) = Total[m] /\ \A q \in Chunks(m) : q < p + 1
      BY <1>1, <3>1 DEF Passed
    <3>3. Between(m, t, p + 1) # Chunks(m)
      BY <1>4, <1>13, <3>2 DEF IsWhole
    <3>4. \E q \in Chunks(m) : q < t
      BY <1>1, <1>5, <3>2, <3>3 DEF Between
    <3>. QED  BY <1>1, <1>2, <3>4 DEF Split
  <2>7. OnlySplitMessagesLost'
    BY <1>10, <1>11, <2>2, <2>6 DEF StreamInv, OnlySplitMessagesLost, Heard
  <2>8. Typed' /\ Alone'
    BY <1>1, <1>9, <2>1, <2>4 DEF StreamInv, Typed, Alone
  <2>9. Reading(s)'
    BY <1>1, <1>2, <2>5 DEF StreamInv, Typed, Reading
  <2>. QED  BY <1>1, <2>1, <2>3, <2>7, <2>8, <2>9 DEF StreamInv
<1>. QED  BY <1>12, <1>13

-----------------------------------------------------------------------------
LEMMA StreamStep ==
  ASSUME OneSubscription, StreamInv, [Next]_vars
  PROVE  StreamInv' /\ [Feed!Next]_heard
<1>1. ASSUME NEW h \in Handle, Subscribe(h)
      PROVE  StreamInv' /\ heard' = heard
  <2>1. handle = None
    BY <1>1 DEF OneSubscription, Subscribe, StreamInv, Typed
  <2>2. Live = {} /\ timers = 0
    BY <2>1 DEF StreamInv, Alone
  <2>. QED  BY <1>1, <2>2, OpensStream DEF Subscribe, query, told
<1>2. ASSUME Retry
      PROVE  StreamInv' /\ heard' = heard
  <2>1. timers = 1 /\ timers' = 0
    BY <1>2 DEF Retry, StreamInv, Typed, Alone
  <2>2. Live = {} /\ handle \in Handle
    BY <2>1 DEF StreamInv, Typed, Alone
  <2>. QED  BY <1>2, <2>1, <2>2, OpensStream DEF Retry, told
<1>3. ASSUME NEW h \in Handle, Unsubscribe(h)
      PROVE  StreamInv' /\ heard' = heard
  BY <1>3, UnsubscribeStep DEF Unsubscribe, told
<1>4. ASSUME NEW s \in Stream, Complete(s) \/ HandleError(s)
      PROVE  StreamInv' /\ heard' = heard
  BY <1>4, EndStep DEF Complete, HandleError
<1>5. CASE UNCHANGED vars
  <2>1. UNCHANGED <<handle, startTime, timers, state, position, chunks, heard, starts>>
    BY <1>5 DEF vars, subscription, query, streams, told
  <2>2. Typed' /\ Alone' /\ Live' = Live
    BY <2>1 DEF StreamInv, Typed, Alone, Live
  <2>. QED  BY <2>1, <2>2, LosesStream
<1>. QED  BY <1>1, <1>2, <1>3, <1>4, <1>5, HandleMessageStep DEF Next

\* The listener of a query that is subscribed once hears whole messages, each
\* at most once and in order (TopicMessageQuery.js, _handleMessage, with
\* _handleError and its retry).
THEOREM FeedsInOrderSafe ==
  ASSUME OneSubscription
  PROVE  Spec => FeedsInOrder
<1>1. Init => Feed!Init
  BY DEF Init, Feed!Init
<1>2. Init => StreamInv
  BY StreamInit
<1>3. StreamInv /\ [Next]_vars => StreamInv' /\ [Feed!Next]_heard
  BY StreamStep
<1>. QED  BY <1>1, <1>2, <1>3, PTL DEF Spec, FeedsInOrder, Feed!Spec

\* Only a stream that starts inside a message loses it (the same functions).
THEOREM OnlySplitMessagesLostSafe ==
  ASSUME OneSubscription
  PROVE  Spec => []OnlySplitMessagesLost
<1>1. Init => StreamInv
  BY StreamInit
<1>2. StreamInv /\ [Next]_vars => StreamInv'
  BY StreamStep
<1>3. StreamInv => OnlySplitMessagesLost
  BY DEF StreamInv
<1>. QED  BY <1>1, <1>2, <1>3, PTL DEF Spec

-----------------------------------------------------------------------------
(* However often the query is subscribed. *)

Attended ==
    /\ timers \in Nat
    /\ state \in [Stream -> {"unused", "open", "cancelled", "over"}]
    /\ NeverSilentlyDead

LEMMA AttendedStep == Attended /\ [Next]_vars => Attended'
<1>. SUFFICES ASSUME Attended, [Next]_vars PROVE Attended'
  OBVIOUS
<1>. USE DEF Attended, NeverSilentlyDead
<1>1. ASSUME NEW h, MakeServerStreamRequest(h), timers' \in Nat
      PROVE  Attended'
  <2>1. PICK s \in Stream : state' = [state EXCEPT ![s] = "open"]
    BY <1>1 DEF MakeServerStreamRequest
  <2>2. s \in Live'
    BY <2>1 DEF Live
  <2>. QED  BY <1>1, <2>1, <2>2
<1>2. ASSUME NEW h \in Handle, Unsubscribe(h)
      PROVE  Attended'
  <2>1. state' = [state EXCEPT ![call[h]] = IF state[call[h]] = "open" THEN "cancelled" ELSE state[call[h]]]
        /\ unsubscribed \subseteq unsubscribed' /\ UNCHANGED <<handle, timers, failed, completed>>
    BY <1>2 DEF Unsubscribe, query, told
  <2>2. Live' = Live
    BY <2>1 DEF Live
  <2>. QED  BY <2>1, <2>2
<1>3. ASSUME NEW s \in Stream, HandleMessage(s)
      PROVE  Attended'
  BY <1>3 DEF HandleMessage, subscription, Live
<1>4. ASSUME NEW s \in Stream, Complete(s)
      PROVE  Attended'
  BY <1>4 DEF Complete, query
<1>5. ASSUME NEW s \in Stream, HandleError(s)
      PROVE  Attended'
  BY <1>5 DEF HandleError, Scheduled, subscription
<1>6. CASE UNCHANGED vars
  BY <1>6 DEF vars, subscription, query, streams, told, Live
<1>. QED  BY <1>1, <1>2, <1>3, <1>4, <1>5, <1>6 DEF Next, Subscribe, Retry, query

\* A subscription never just stops: it has a stream or a timer unless its end
\* was reported or asked for (TopicMessageQuery.js, _handleError).
THEOREM NeverSilentlyDeadSafe == Spec => []NeverSilentlyDead
<1>1. Init => Attended
  BY DEF Init, Attended, NeverSilentlyDead
<1>2. Attended => NeverSilentlyDead
  BY DEF Attended
<1>. QED  BY <1>1, <1>2, AttendedStep, PTL DEF Spec

-----------------------------------------------------------------------------
(* Types. *)

LEMMA OpensTyped ==
  ASSUME TypeOK, NEW h, MakeServerStreamRequest(h)
  PROVE  /\ call' \in [Handle -> Stream \cup {None}]
         /\ state' \in [Stream -> {"unused", "open", "cancelled", "over"}]
         /\ position' \in [Stream -> Nat]
         /\ allowance' \in [Stream -> Nat \cup {Unlimited}]
         /\ chunks' \in [Stream -> [Message -> SUBSET DOMAIN Topic]]
         /\ starts' \subseteq Nat
<1>1. limit \in Nat /\ startTime \in Nat
  BY SubscriptionAssumption DEF TypeOK
<1>2. PICK s \in Stream :
         /\ state' = [state EXCEPT ![s] = "open"]
         /\ position' = [position EXCEPT ![s] = startTime]
         /\ allowance' = [allowance EXCEPT ![s] = Requested]
         /\ chunks' = [chunks EXCEPT ![s] = [m \in Message |-> {}]]
         /\ call' = [call EXCEPT ![h] = s]
         /\ starts' = starts \cup {startTime}
  BY DEF MakeServerStreamRequest
<1>3. Requested \in Nat \cup {Unlimited}
  BY <1>1 DEF Requested
<1>. QED  BY <1>1, <1>2, <1>3 DEF TypeOK

LEMMA MessageTyped ==
  ASSUME TypeOK, NEW s \in Stream, HandleMessage(s)
  PROVE  TypeOK'
<1>. DEFINE p == position[s]
            m == Topic[p]
<1>1. p \in DOMAIN Topic /\ p \in Nat /\ m \in Message /\ limit \in Nat /\ Limit \in Nat
  BY TopicAssumption, SubscriptionAssumption DEF HandleMessage, TypeOK
<1>2. /\ limit' = Remaining /\ startTime' = p + 1
      /\ position' = [position EXCEPT ![s] = p + 1]
      /\ allowance[s] # 0
      /\ allowance' = [allowance EXCEPT ![s] = IF @ = Unlimited THEN @ ELSE @ - 1]
      /\ UNCHANGED <<subscription, attempt, timers, state, failed, completed, starts>>
  BY DEF HandleMessage, StartAfter
<1>3. PICK C : (C = {} \/ C = Collected(s, p)) /\ chunks' = [chunks EXCEPT ![s][m] = C]
  BY DEF HandleMessage
<1>4. chunks' \in [Stream -> [Message -> SUBSET DOMAIN Topic]]
  BY <1>1, <1>3 DEF TypeOK, Collected
<1>5. heard' \in Seq(Message)
  <2>1. heard' = heard \/ heard' = Append(heard, m)
    BY DEF HandleMessage
  <2>2. heard \in Seq(Message)
    BY DEF TypeOK
  <2>. HIDE DEF m
  <2>. QED  BY <1>1, <2>1, <2>2
<1>6. allowance' \in [Stream -> Nat \cup {Unlimited}]
  <2>1. allowance[s] \in Nat \cup {Unlimited}
    BY DEF TypeOK
  <2>2. (IF allowance[s] = Unlimited THEN allowance[s] ELSE allowance[s] - 1) \in Nat \cup {Unlimited}
    BY <1>2, <2>1
  <2>. QED  BY <1>2, <2>2 DEF TypeOK
<1>7. limit' \in 0 .. Limit
  BY <1>1, <1>2 DEF Remaining, TypeOK
<1>. QED  BY <1>1, <1>2, <1>4, <1>5, <1>6, <1>7 DEF TypeOK, subscription

\* However often the query is subscribed: a handle cancels a stream that was
\* opened, retries are scheduled for attempts that were counted, and a limit is
\* never counted below 0.
THEOREM SubscriptionTypeOK == Spec => []TypeOK
<1>1. ASSUME Init PROVE TypeOK
  <2>1. /\ handle = None /\ unsubscribed = {} /\ call \in [Handle -> Stream \cup {None}]
        /\ state \in [Stream -> {"unused", "open", "cancelled", "over"}] /\ starts = {}
    BY <1>1 DEF Init
  <2>2. startTime \in Nat /\ limit \in 0 .. Limit /\ attempt \in 0 .. MaxAttempts /\ timers \in 0 .. attempt
    BY <1>1, SubscriptionAssumption DEF Init
  <2>3. position \in [Stream -> Nat] /\ allowance \in [Stream -> Nat \cup {Unlimited}]
    BY <1>1, SubscriptionAssumption DEF Init
  <2>4. chunks \in [Stream -> [Message -> SUBSET DOMAIN Topic]]
    BY <1>1 DEF Init
  <2>5. heard \in Seq(Message)
    <3>1. heard = <<>>
      BY <1>1 DEF Init
    <3>. QED  BY <3>1
  <2>6. failed \in BOOLEAN /\ completed \in BOOLEAN
    BY <1>1 DEF Init
  <2>. QED  BY <2>1, <2>2, <2>3, <2>4, <2>5, <2>6 DEF TypeOK
<1>2. ASSUME TypeOK, [Next]_vars PROVE TypeOK'
  <2>1. ASSUME NEW h \in Handle, Subscribe(h) PROVE TypeOK'
    BY <2>1, <1>2, OpensTyped DEF Subscribe, query, told, TypeOK
  <2>2. ASSUME NEW h \in Handle, Unsubscribe(h) PROVE TypeOK'
    <3>1. state' \in [Stream -> {"unused", "open", "cancelled", "over"}]
      BY <1>2, <2>2 DEF Unsubscribe, TypeOK
    <3>. QED  BY <1>2, <2>2, <3>1 DEF Unsubscribe, query, told, TypeOK
  <2>3. ASSUME NEW s \in Stream, HandleMessage(s) PROVE TypeOK'
    BY <1>2, <2>3, MessageTyped
  <2>4. ASSUME NEW s \in Stream, Complete(s) PROVE TypeOK'
    <3>1. state' \in [Stream -> {"unused", "open", "cancelled", "over"}]
      BY <1>2, <2>4 DEF Complete, TypeOK
    <3>. QED  BY <1>2, <2>4, <3>1 DEF Complete, subscription, query, TypeOK
  <2>5. ASSUME NEW s \in Stream, HandleError(s) PROVE TypeOK'
    <3>1. state' \in [Stream -> {"unused", "open", "cancelled", "over"}]
      BY <1>2, <2>5 DEF HandleError, TypeOK
    <3>2. attempt' \in 0 .. MaxAttempts /\ timers' \in 0 .. attempt'
      BY <1>2, <2>5, SubscriptionAssumption DEF HandleError, TypeOK, MayRetry, Scheduled
    <3>3. failed' = failed \/ failed' = TRUE
      BY <2>5 DEF HandleError
    <3>4. failed' \in BOOLEAN
      BY <1>2, <3>3 DEF TypeOK
    <3>. QED  BY <1>2, <2>5, <3>1, <3>2, <3>4 DEF HandleError, subscription, TypeOK
  <2>6. ASSUME Retry PROVE TypeOK'
    <3>1. timers' \in 0 .. attempt
      BY <1>2, <2>6, SubscriptionAssumption DEF Retry, TypeOK
    <3>. QED  BY <1>2, <2>6, <3>1, OpensTyped DEF Retry, told, TypeOK
  <2>7. CASE UNCHANGED vars
    BY <1>2, <2>7 DEF vars, subscription, query, streams, told, TypeOK
  <2>. QED  BY <1>2, <2>1, <2>2, <2>3, <2>4, <2>5, <2>6, <2>7 DEF Next
<1>. QED  BY <1>1, <1>2, PTL DEF Spec
=============================================================================
