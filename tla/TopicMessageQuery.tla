-------------------------- MODULE TopicMessageQuery --------------------------
(***************************************************************************)
(* A topic subscription: src/src/topic/TopicMessageQuery.js, its           *)
(* SubscriptionHandle.js and the stream callbacks of                       *)
(* src/src/channel/NodeMirrorChannel.js.                                   *)
(*                                                                         *)
(* The query object keeps one start time, limit and attempt counter for    *)
(* all its streams; each stream keeps the chunks it has collected (`list'  *)
(* in _makeServerStreamRequest).  A stream delivers data, completes, or    *)
(* fails, in which case a timer may open the next one.  Each callback runs *)
(* to completion.                                                          *)
(*                                                                         *)
(* Abstractions.  Topic lists, by position, the message each of the        *)
(* responses of the mirror node belongs to; its position stands for the    *)
(* consensus timestamp, so plusNanos(1) is the next position.  Timers fire *)
(* in any order and after any time.  The error is retryable or not at      *)
(* will.  A listener that throws changes nothing but whom is told.  The    *)
(* mirror node (external) serves a stream from the start time it asked     *)
(* for, in order, up to its limit; 0 and null ask for all responses.  No   *)
(* data arrives on a stream that was cancelled.  The client has a mirror   *)
(* node to offer: nothing marks one unhealthy.                             *)
(***************************************************************************)
EXTENDS Integers, Sequences, FiniteSets

CONSTANTS
    Message,
    Topic,        \* the responses of the topic, in consensus order
    Total,        \* Total[m]: the chunks m was split into (chunkInfo.total)
    Handle,       \* subscription handles; one for each call of subscribe
    Stream,       \* bound: streams that may be opened
    StartAt,      \* _startTime before the first message
    Limit,        \* _limit
    HasEnd,       \* an end time after the last response was set
    MaxAttempts,  \* _maxAttempts
    None

Chunks(m) == {p \in DOMAIN Topic : Topic[p] = m}

ASSUME TopicAssumption ==
    /\ Topic \in Seq(Message)
    /\ Total \in [Message -> Nat \ {0}]
    /\ \A m \in Message : Cardinality(Chunks(m)) <= Total[m]
ASSUME SubscriptionAssumption ==
    /\ StartAt \in Nat \ {0} /\ Limit \in Nat /\ MaxAttempts \in Nat
    /\ HasEnd \in BOOLEAN
    /\ None \notin Handle /\ None \notin Stream

Unlimited == -1

VARIABLES
    handle,        \* _handle
    unsubscribed,  \* handles whose _unsubscribed is set
    call,          \* the stream a handle cancels (SubscriptionHandle._call)
    startTime,     \* _startTime
    limit,         \* _limit
    attempt,       \* _attempt
    timers,        \* retry timers pending
    state,         \* of each stream: unused, open, cancelled, over
    position,      \* next response of the stream
    allowance,     \* responses the mirror node still serves on the stream
    chunks,        \* `list' of the stream: message -> responses collected
    heard,         \* history: messages passed to the listener
    failed,        \* history: the error handler was told of a lost stream
    completed,     \* history: the completion handler was called
    starts         \* history: start times asked for

subscription == <<handle, unsubscribed, call>>
query == <<startTime, limit, attempt, timers>>
streams == <<state, position, allowance, chunks>>
told == <<heard, failed, completed>>
vars == <<subscription, query, streams, told, starts>>

Init ==
    /\ handle = None
    /\ unsubscribed = {}
    /\ call = [h \in Handle |-> None]
    /\ startTime = StartAt
    /\ limit = Limit
    /\ attempt = 0
    /\ timers = 0
    /\ state = [s \in Stream |-> "unused"]
    /\ position = [s \in Stream |-> StartAt]
    /\ allowance = [s \in Stream |-> 0]
    /\ chunks = [s \in Stream |-> [m \in Message |-> {}]]
    /\ heard = <<>>
    /\ failed = FALSE
    /\ completed = FALSE
    /\ starts = {}

-----------------------------------------------------------------------------
\* _makeServerStreamRequest, on behalf of the current handle h.
Requested == IF limit = 0 THEN Unlimited ELSE limit

MakeServerStreamRequest(h) ==
    \E s \in Stream :
       /\ state[s] = "unused"
       /\ state' = [state EXCEPT ![s] = "open"]
       /\ position' = [position EXCEPT ![s] = startTime]
       /\ allowance' = [allowance EXCEPT ![s] = Requested]
       /\ chunks' = [chunks EXCEPT ![s] = [m \in Message |-> {}]]
       /\ call' = [call EXCEPT ![h] = s]
       /\ starts' = starts \cup {startTime}

\* subscribe does not look whether the query is subscribed already.
Subscribe(h) ==
    /\ h # handle /\ call[h] = None
    /\ handle' = h
    /\ MakeServerStreamRequest(h)
    /\ UNCHANGED <<unsubscribed, query, told>>

Unsubscribe(h) ==
    /\ call[h] # None
    /\ unsubscribed' = unsubscribed \cup {h}
    /\ state' = [state EXCEPT ![call[h]] = IF @ = "open" THEN "cancelled" ELSE @]
    /\ UNCHANGED <<handle, call, query, position, allowance, chunks, told, starts>>

-----------------------------------------------------------------------------
\* _handleMessage and _handleChunkedMessage for the next response of s.
SameStart(p) == p                                                  \* mutant
SkippedStart(p) == p + 2                                           \* mutant
StartAfter(p) == p + 1

Remaining == IF limit > 0 THEN limit - 1 ELSE limit

Collected(s, p) == chunks[s][Topic[p]] \cup {p}
IsWhole(s, p) == Cardinality(Collected(s, p)) = Total[Topic[p]]

HandleMessage(s) ==
    /\ state[s] = "open" /\ allowance[s] # 0
    /\ position[s] \in DOMAIN Topic
    /\ LET p == position[s]  m == Topic[p]
       IN  /\ limit' = Remaining
           /\ startTime' = StartAfter(p)
           /\ position' = [position EXCEPT ![s] = p + 1]
           /\ IF IsWhole(s, p)
              THEN /\ chunks' = [chunks EXCEPT ![s][m] = {}]
                   /\ heard' = Append(heard, m)
              ELSE /\ chunks' = [chunks EXCEPT ![s][m] = Collected(s, p)]
                   /\ UNCHANGED heard
    /\ allowance' = [allowance EXCEPT ![s] = IF @ = Unlimited THEN @ ELSE @ - 1]
    /\ UNCHANGED <<subscription, attempt, timers, state, failed, completed, starts>>

\* The status 0 of a stream that is served to its limit or to the end time.
Complete(s) ==
    /\ state[s] = "open"
    /\ allowance[s] = 0 \/ (HasEnd /\ position[s] \notin DOMAIN Topic)
    /\ state' = [state EXCEPT ![s] = "over"]
    /\ completed' = TRUE
    /\ UNCHANGED <<subscription, query, position, allowance, chunks, heard, failed, starts>>

NotScheduled == timers                                             \* mutant
Scheduled == timers + 1
MayRetry == attempt < MaxAttempts

\* _handleError, of a stream that broke or whose cancellation is reported.
HandleError(s) ==
    /\ state[s] \in {"open", "cancelled"}
    /\ state' = [state EXCEPT ![s] = "over"]
    /\ \/ /\ handle \in unsubscribed
          /\ UNCHANGED <<attempt, timers, failed>>
       \/ /\ handle \notin unsubscribed /\ MayRetry
          /\ attempt' = attempt + 1 /\ timers' = Scheduled
          /\ UNCHANGED failed
       \/ /\ handle \notin unsubscribed
          /\ failed' = TRUE
          /\ UNCHANGED <<attempt, timers>>
    /\ UNCHANGED <<subscription, startTime, limit, position, allowance, chunks, heard, completed, starts>>

\* The timer does not look whether its subscription was ended meanwhile.
Retry ==
    /\ timers > 0
    /\ timers' = timers - 1
    /\ MakeServerStreamRequest(handle)
    /\ UNCHANGED <<handle, unsubscribed, startTime, limit, attempt, told>>

-----------------------------------------------------------------------------
Next ==
    \/ \E h \in Handle : Subscribe(h) \/ Unsubscribe(h)
    \/ \E s \in Stream : HandleMessage(s) \/ Complete(s) \/ HandleError(s)
    \/ Retry

Spec == Init /\ [][Next]_vars

\* The event loop runs timers, the mirror node serves what was asked for, and
\* a cancelled stream reports it.
FairSpec ==
    /\ Spec /\ WF_vars(Retry)
    /\ \A s \in Stream : /\ WF_vars(HandleMessage(s)) /\ WF_vars(Complete(s))
                         /\ WF_vars(state[s] = "cancelled" /\ HandleError(s))

-----------------------------------------------------------------------------
(* Properties. *)

Live == {s \in Stream : state[s] \in {"open", "cancelled"}}

TypeOK ==
    /\ handle \in Handle \cup {None}
    /\ unsubscribed \subseteq Handle
    /\ call \in [Handle -> Stream \cup {None}]
    /\ startTime \in Nat /\ limit \in 0 .. Limit
    /\ attempt \in 0 .. MaxAttempts
    /\ timers \in 0 .. attempt
    /\ state \in [Stream -> {"unused", "open", "cancelled", "over"}]
    /\ position \in [Stream -> Nat]
    /\ allowance \in [Stream -> Nat \cup {Unlimited}]
    /\ chunks \in [Stream -> [Message -> SUBSET DOMAIN Topic]]
    /\ heard \in Seq(Message)
    /\ failed \in BOOLEAN /\ completed \in BOOLEAN
    /\ starts \subseteq Nat

\* The listener of a query that was subscribed once hears whole messages, each
\* at most once, in the topic's order, through any number of lost streams.
CompletedAt ==
    [m \in Message |-> IF Cardinality(Chunks(m)) = Total[m]
                       THEN CHOOSE p \in Chunks(m) : \A q \in Chunks(m) : q <= p
                       ELSE 0]
Feed == INSTANCE TopicFeed
FeedsInOrder == Feed!Spec

\* A message the subscription has read past is missing only if some stream
\* started between two of its chunks: nothing else loses a message.
Passed(m) == Cardinality(Chunks(m)) = Total[m] /\ \A p \in Chunks(m) : p < startTime
Split(m) == \E t \in starts, p, q \in Chunks(m) : p < t /\ t <= q
BeforeStart(m) == \A p \in Chunks(m) : p < StartAt
OnlySplitMessagesLost ==
    \A m \in Message :
       Passed(m) => (\E i \in DOMAIN heard : heard[i] = m) \/ Split(m) \/ BeforeStart(m)

\* A subscription is never silently dead: it has a stream or a timer, unless
\* the application was told of its end or ended it.
NeverSilentlyDead ==
    handle # None => Live # {} \/ timers > 0 \/ failed \/ completed \/ handle \in unsubscribed

\* What the topic holds is read to the limit or the end, unless the
\* application is told of a failure or unsubscribes.
EventuallyRead ==
    (handle # None) ~> \/ startTime \notin DOMAIN Topic
                       \/ failed \/ completed \/ handle \in unsubscribed
=============================================================================
