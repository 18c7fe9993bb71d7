------------------------- MODULE ClientUpdateProofs -------------------------
(* Theorems about ClientUpdate, for any number of chains, books, attempts  *)
(* and changes of the period.                                              *)
EXTENDS ClientUpdate, WellFoundedInduction, TLAPS

-----------------------------------------------------------------------------
(* The first of the addresses still to send. *)

LEMMA Smallest ==
  ASSUME NEW S \in SUBSET Nat, S # {}
  PROVE  \E x \in S : \A y \in S : x <= y
<1> DEFINE R == OpToRel(<, Nat)
<1>1. IsWellFoundedOn(R, Nat)
  BY NatLessThanWellFounded
<1>2. \A x, y \in Nat : <<x, y>> \in R <=> x < y
  BY DEF OpToRel
<1> HIDE DEF R
<1>3. PICK x \in S : \A y \in S : ~(<<y, x>> \in R)
  BY <1>1, WFMin
<1>4. \A y \in S : ~(y < x)
  BY <1>2, <1>3
<1> QED
  BY <1>3, <1>4

LEMMA NodesPositive ==
  /\ Nodes \subseteq Nat /\ 0 \notin Nodes
  /\ \A v \in Version : Book[v] \subseteq Nodes
  /\ 1 \in Version
<1>1. \A v \in Version : Book[v] \in SUBSET (Nat \ {0})
  BY UpdateAssumption
<1>2. \A v \in Version : Book[v] \subseteq Nodes
  BY DEF Nodes
<1>3. Nodes \subseteq Nat \ {0}
  BY <1>1 DEF Nodes
<1>4. 1 \in Version
  BY UpdateAssumption DEF Version
<1> QED
  BY <1>2, <1>3, <1>4

-----------------------------------------------------------------------------
(* The inductive invariant. *)

\* While a client is closed and nobody is late, nothing is left that could act.
Stilled == shutdown /\ ~late =>
    network = {} /\ ~updating /\ \A c \in Chain : chains[c] = "none"

\* What was read of a book up to the cursor, and what was not there.
ReadSoFar(q) ==
    /\ q.version \in Version
    /\ q.addresses \subseteq UNION {Book[v] : v \in q.served}
    /\ \A n \in Nodes : n <= q.cursor /\ (\A v \in q.served : n \in Book[v]) => n \in q.addresses

Reading == query.state # "none" => ReadSoFar(query)

UpdateInv == TypeOK /\ OneUpdate /\ UpdatesNeverStop /\ Stilled /\ Reading /\ AppliedWasServed

QueryType == [state : {"none", "reading", "waiting", "failed", "lost"}, owner : Chain \cup {NoChain},
              version : Version \cup {0}, cursor : Nat, attempt : 0 .. Maximum,
              addresses : SUBSET Nodes, served : SUBSET Version]

LEMMA NoQueryTyped == NoQuery \in QueryType
BY UpdateAssumption DEF NoQuery, QueryType

-----------------------------------------------------------------------------
(* The address that comes next. *)

LEMMA FirstUnsent ==
  ASSUME UpdateInv, query.state = "reading"
  PROVE  /\ Source \in Version
         /\ Unsent \subseteq Nodes
         /\ Unsent # {} => First(Unsent) \in Unsent /\ \A n \in Unsent : First(Unsent) <= n
<1>1. Source \in Version
  BY DEF UpdateInv, TypeOK, Reading, ReadSoFar, Source
<1>2. Unsent \subseteq Nodes
  BY <1>1, NodesPositive DEF Unsent
<1>3. ASSUME Unsent # {} PROVE First(Unsent) \in Unsent /\ \A n \in Unsent : First(Unsent) <= n
  <2>1. Unsent \in SUBSET Nat
    BY <1>2, NodesPositive
  <2>2. \E x \in Unsent : \A y \in Unsent : x <= y
    BY <2>1, <1>3, Smallest
  <2> QED
    BY <2>2 DEF First
<1> QED
  BY <1>1, <1>2, <1>3

LEMMA ReceivedReads ==
  ASSUME UpdateInv, query.state = "reading", Unsent # {}
  PROVE  /\ Received \in QueryType /\ ReadSoFar(Received)
         /\ Received.state = "reading" /\ Received.owner = query.owner
         /\ Received.served = query.served \cup {Source}
         /\ Received.addresses = query.addresses \cup {First(Unsent)}
<1> DEFINE f == First(Unsent)
<1>1. query \in QueryType
  BY DEF UpdateInv, TypeOK, QueryType
<1>2. f \in Unsent /\ f \in Nodes /\ f \in Nat /\ Source \in Version /\ Unsent \subseteq Nodes
  BY FirstUnsent, NodesPositive
<1>3. \A n \in Unsent : f <= n
  BY FirstUnsent
<1>4. /\ Received.state = query.state /\ Received.owner = query.owner
      /\ Received.version = query.version /\ Received.cursor = f
      /\ Received.served = query.served \cup {Source}
      /\ Received.addresses = query.addresses \cup {f}
      /\ Received \in QueryType
  <2> HIDE DEF f
  <2>1. Received = [query EXCEPT !.cursor = f, !.addresses = @ \cup {f}, !.served = @ \cup {Source}]
    BY DEF Received, f
  <2> QED
    BY <2>1, <1>1, <1>2 DEF QueryType
<1>5. ReadSoFar(query)
  BY DEF UpdateInv, Reading
<1>6. f \in Book[Source]
  BY <1>2 DEF Unsent
<1>7. Received.addresses \subseteq UNION {Book[v] : v \in Received.served}
  BY <1>4, <1>5, <1>6 DEF ReadSoFar
<1>8. ASSUME NEW n \in Nodes, n <= f, \A v \in Received.served : n \in Book[v]
      PROVE  n \in Received.addresses
  <2>1. n \in Book[Source] /\ \A v \in query.served : n \in Book[v]
    BY <1>4, <1>8
  <2>2. CASE n > query.cursor
    <3>1. n \in Unsent
      BY <2>1, <2>2 DEF Unsent
    <3>2. f <= n /\ n \in Nat
      BY <3>1, <1>3, NodesPositive
    <3> QED
      BY <3>2, <1>2, <1>4, <1>8
  <2>3. CASE ~(n > query.cursor)
    <3>1. n <= query.cursor
      BY <2>3, <1>1, NodesPositive DEF QueryType
    <3> QED
      BY <3>1, <2>1, <1>4, <1>5 DEF ReadSoFar
  <2> QED
    BY <2>2, <2>3
<1> QED
  BY <1>4, <1>5, <1>7, <1>8 DEF ReadSoFar

-----------------------------------------------------------------------------
(* The inductive step, action by action. *)

LEMMA UpdateInit == Init => UpdateInv
<1> SUFFICES ASSUME Init PROVE UpdateInv
  OBVIOUS
<1>1. TypeOK
  <2>1. query \in QueryType
    BY NoQueryTyped DEF Init
  <2>2. timer \in Chain \cup {NoChain}
    BY DEF Init
  <2>3. chains \in [Chain -> {"none", "armed", "updating"}]
    BY DEF Init
  <2>4. network \subseteq Nodes /\ applied \in [nodes : SUBSET Nodes, served : SUBSET Version]
    BY NodesPositive DEF Init
  <2>5. latest \in Version /\ changes \in 0 .. MaxChanges
    BY NodesPositive, UpdateAssumption DEF Init
  <2>6. shutdown \in BOOLEAN /\ updating \in BOOLEAN /\ web \in BOOLEAN /\ mirrors \in BOOLEAN /\ late \in BOOLEAN
    BY DEF Init
  <2> QED
    BY <2>1, <2>2, <2>3, <2>4, <2>5, <2>6 DEF TypeOK, QueryType
<1>2. OneUpdate
  BY DEF Init, OneUpdate, NoQuery
<1>3. UpdatesNeverStop
  BY DEF Init, UpdatesNeverStop, Running
<1>4. Stilled /\ Reading
  BY DEF Init, Stilled, Reading, NoQuery
<1>5. AppliedWasServed
  BY DEF Init, AppliedWasServed
<1> QED
  BY <1>1, <1>2, <1>3, <1>4, <1>5 DEF UpdateInv

\* A query that starts for a chain, or for nobody.
LEMMA Started ==
  ASSUME UpdateInv, NEW owner \in Chain \cup {NoChain}, Start(owner)
  PROVE  /\ updating' = TRUE /\ query'.state # "none" /\ query'.owner = owner
         /\ query' \in QueryType /\ ReadSoFar(query')
<1>0. Begun \in {"reading", "failed", "lost"}
  BY DEF Begun
<1>1. query' = [NoQuery EXCEPT !.state = Begun, !.owner = owner, !.version = latest,
                               !.served = {latest}]
  BY DEF Start
<1>2. latest \in Version
  BY DEF UpdateInv, TypeOK
<1>3. /\ query'.state = Begun /\ query'.owner = owner /\ query'.version = latest
      /\ query'.cursor = 0 /\ query'.addresses = {} /\ query'.served = {latest}
  BY <1>1 DEF NoQuery
<1>4. query' \in QueryType
  BY <1>0, <1>1, <1>2, NoQueryTyped DEF QueryType
<1>5. ReadSoFar(query')
  BY <1>2, <1>3, NodesPositive DEF ReadSoFar
<1> QED
  BY <1>0, <1>3, <1>4, <1>5 DEF Start

LEMMA Rescheduled ==
  ASSUME UpdateInv, NEW c \in Chain \cup {NoChain}, Reschedule(c)
  PROVE  /\ chains' \in [Chain -> {"none", "armed", "updating"}]
         /\ timer' \in Chain \cup {NoChain}
         /\ \A d \in Chain \ {c} : chains'[d] = chains[d]
         /\ c \in Chain => chains'[c] # "updating" /\ (~shutdown => chains'[c] = "armed")
         /\ c = NoChain => chains' = chains /\ timer' = timer
         /\ shutdown => timer' = timer
BY UpdateAssumption DEF UpdateInv, TypeOK, Reschedule, GoesOn

\* What an update leaves behind when it ends.
LEMMA Finished ==
  ASSUME UpdateInv, query.state # "none", Finish, UNCHANGED shutdown
  PROVE  /\ chains' \in [Chain -> {"none", "armed", "updating"}]
         /\ timer' \in Chain \cup {NoChain}
         /\ query' \in QueryType /\ updating' = FALSE
         /\ OneUpdate' /\ UpdatesNeverStop' /\ Reading'
         /\ ~(shutdown /\ ~late)
<1>1. query.owner \in Chain \cup {NoChain}
  BY DEF UpdateInv, TypeOK
<1>2. Reschedule(query.owner) /\ query' = NoQuery /\ updating' = FALSE
  BY DEF Finish, Released
<1>3. \A c \in Chain : chains[c] = "updating" <=> query.owner = c
  BY DEF UpdateInv, OneUpdate
<1>4. OneUpdate'
  BY <1>1, <1>2, <1>3, Rescheduled DEF OneUpdate, NoQuery
<1>5. UpdatesNeverStop'
  <2>1. SUFFICES ASSUME timer' # NoChain, ~shutdown PROVE \E c \in Chain : chains'[c] # "none"
    BY DEF UpdatesNeverStop, Running
  <2>2. CASE query.owner = NoChain
    BY <2>1, <2>2, <1>1, <1>2, Rescheduled DEF UpdateInv, UpdatesNeverStop, Running
  <2>3. CASE query.owner \in Chain
    BY <2>1, <2>3, <1>2, Rescheduled
  <2> QED
    BY <1>1, <2>2, <2>3
<1>6. ~(shutdown /\ ~late)
  BY DEF UpdateInv, Stilled, OneUpdate
<1>7. Reading'
  BY <1>2 DEF Reading, NoQuery
<1> QED
  BY <1>1, <1>2, <1>4, <1>5, <1>6, <1>7, Rescheduled, NoQueryTyped

LEMMA FireKeeps ==
  ASSUME UpdateInv, NEW c \in Chain, Fire(c)
  PROVE  UpdateInv'
<1> USE DEF UpdateInv
<1>0. UNCHANGED <<changes, shutdown, network, web, mirrors, latest, applied, late>> /\ chains[c] = "armed"
  BY DEF Fire
<1>1. AppliedWasServed' /\ ~(shutdown /\ ~late)
  BY <1>0 DEF AppliedWasServed, Stilled
<1>2. CASE Idle
  <2>1. Start(c) /\ chains' = [chains EXCEPT ![c] = "updating"] /\ UNCHANGED timer /\ ~updating
    BY <1>2 DEF Fire, Idle
  <2>2. /\ updating' = TRUE /\ query'.state # "none" /\ query'.owner = c
        /\ query' \in QueryType /\ ReadSoFar(query')
    BY <2>1, Started
  <2>3. TypeOK'
    BY <1>0, <2>1, <2>2 DEF TypeOK, QueryType
  <2>4. OneUpdate'
    BY <2>1, <2>2 DEF OneUpdate, TypeOK
  <2>5. UpdatesNeverStop'
    BY <2>1 DEF UpdatesNeverStop, Running, TypeOK
  <2>6. Stilled' /\ Reading'
    BY <1>0, <1>1, <2>2 DEF Stilled, Reading, ReadSoFar
  <2> QED
    BY <1>1, <2>3, <2>4, <2>5, <2>6
<1>3. CASE ~Idle
  <2>1. Reschedule(c) /\ UNCHANGED <<updating, query>>
    BY <1>3 DEF Fire
  <2>2. /\ chains' \in [Chain -> {"none", "armed", "updating"}]
        /\ timer' \in Chain \cup {NoChain}
        /\ \A d \in Chain \ {c} : chains'[d] = chains[d]
        /\ chains'[c] # "updating" /\ (~shutdown => chains'[c] = "armed")
    BY <2>1, Rescheduled
  <2>3. TypeOK'
    BY <1>0, <2>1, <2>2 DEF TypeOK
  <2>4. OneUpdate'
    BY <1>0, <2>1, <2>2 DEF OneUpdate
  <2>5. UpdatesNeverStop'
    BY <1>0, <2>2 DEF UpdatesNeverStop, Running
  <2>6. Stilled' /\ Reading'
    BY <1>0, <1>1, <2>1 DEF Stilled, Reading, ReadSoFar
  <2> QED
    BY <1>1, <2>3, <2>4, <2>5, <2>6
<1> QED
  BY <1>2, <1>3

LEMMA RequestUpdateKeeps ==
  ASSUME UpdateInv, RequestUpdate
  PROVE  UpdateInv'
<1> USE DEF UpdateInv
<1>0. /\ UNCHANGED <<chains, timer, changes, shutdown, network, web, mirrors, latest, applied>>
      /\ late' = (late \/ shutdown) /\ Start(NoChain) /\ ~updating
  BY DEF RequestUpdate, Idle
<1>1. /\ updating' = TRUE /\ query'.state # "none" /\ query'.owner = NoChain
      /\ query' \in QueryType /\ ReadSoFar(query')
  BY <1>0, Started
<1>2. TypeOK'
  BY <1>0, <1>1 DEF TypeOK, QueryType
<1>3. OneUpdate'
  BY <1>0, <1>1, UpdateAssumption DEF OneUpdate, TypeOK
<1>4. UpdatesNeverStop' /\ AppliedWasServed'
  BY <1>0 DEF UpdatesNeverStop, Running, AppliedWasServed
<1>5. Stilled' /\ Reading'
  BY <1>0, <1>1 DEF Stilled, Reading, ReadSoFar
<1> QED
  BY <1>2, <1>3, <1>4, <1>5

LEMMA SetNetworkUpdatePeriodKeeps ==
  ASSUME UpdateInv, SetNetworkUpdatePeriod
  PROVE  UpdateInv'
<1> USE DEF UpdateInv
<1>1. PICK c \in Chain :
        /\ Cleared[c] = "none" /\ chains' = [Cleared EXCEPT ![c] = "armed"] /\ timer' = c
        /\ changes' = changes + 1 /\ changes < MaxChanges /\ late' = (late \/ shutdown)
        /\ UNCHANGED <<shutdown, updating, query, network, web, mirrors, latest, applied>>
  BY DEF SetNetworkUpdatePeriod
<1>2. /\ Cleared \in [Chain -> {"none", "armed", "updating"}]
      /\ \A d \in Chain : Cleared[d] = "updating" <=> chains[d] = "updating"
  BY DEF Cleared, TypeOK
<1>3. chains' \in [Chain -> {"none", "armed", "updating"}] /\ chains'[c] = "armed"
  BY <1>1, <1>2
<1>4. changes' \in 0 .. MaxChanges
  BY <1>1, UpdateAssumption DEF TypeOK
<1>5. TypeOK'
  BY <1>1, <1>3, <1>4 DEF TypeOK
<1>6. OneUpdate'
  BY <1>1, <1>2 DEF OneUpdate
<1>7. UpdatesNeverStop'
  BY <1>3 DEF UpdatesNeverStop, Running
<1>8. Stilled' /\ Reading' /\ AppliedWasServed'
  BY <1>1 DEF Stilled, Reading, ReadSoFar, AppliedWasServed
<1> QED
  BY <1>5, <1>6, <1>7, <1>8

LEMMA CloseKeeps ==
  ASSUME UpdateInv, Close
  PROVE  UpdateInv'
<1> USE DEF UpdateInv
<1>1. /\ network' = {} /\ shutdown' = TRUE /\ chains' = Cleared
      /\ late' = (late \/ updating \/ \E c \in Chain : Cleared[c] # "none")
      /\ UNCHANGED <<timer, changes, updating, query, web, mirrors, latest, applied>>
  BY DEF Close, Stopped
<1>2. /\ Cleared \in [Chain -> {"none", "armed", "updating"}]
      /\ \A d \in Chain : Cleared[d] = "updating" <=> chains[d] = "updating"
  BY DEF Cleared, TypeOK
<1>3. TypeOK'
  BY <1>1, <1>2 DEF TypeOK
<1>4. OneUpdate'
  BY <1>1, <1>2 DEF OneUpdate
<1>5. UpdatesNeverStop' /\ Stilled' /\ Reading' /\ AppliedWasServed'
  BY <1>1 DEF UpdatesNeverStop, Stilled, Reading, ReadSoFar, AppliedWasServed
<1> QED
  BY <1>3, <1>4, <1>5

LEMMA ReceiveKeeps ==
  ASSUME UpdateInv, Receive
  PROVE  UpdateInv'
<1> USE DEF UpdateInv
<1>1. /\ query.state = "reading" /\ Unsent # {}
      /\ query' = [Received EXCEPT !.attempt = IF web THEN 0 ELSE @]
      /\ UNCHANGED <<chains, timer, changes, shutdown, updating, network, web, mirrors, latest, applied,
                    late>>
  BY DEF Receive, LastPage
<1>2. /\ Received \in QueryType /\ ReadSoFar(Received)
      /\ Received.state = "reading" /\ Received.owner = query.owner
  BY <1>1, ReceivedReads
<1>3. /\ query' \in QueryType /\ query'.state = Received.state /\ query'.owner = Received.owner
      /\ query'.version = Received.version /\ query'.cursor = Received.cursor
      /\ query'.addresses = Received.addresses /\ query'.served = Received.served
  <2> DEFINE a == IF web THEN 0 ELSE Received.attempt
  <2>1. a \in 0 .. Maximum
    BY <1>2, UpdateAssumption DEF QueryType
  <2>2. query' = [Received EXCEPT !.attempt = a]
    BY <1>1
  <2> HIDE DEF a
  <2> QED
    BY <2>1, <2>2, <1>2 DEF QueryType
<1>4. TypeOK'
  BY <1>1, <1>3 DEF TypeOK, QueryType
<1>5. OneUpdate'
  BY <1>1, <1>2, <1>3 DEF OneUpdate
<1>6. UpdatesNeverStop' /\ Stilled' /\ AppliedWasServed'
  BY <1>1 DEF UpdatesNeverStop, Running, Stilled, AppliedWasServed
<1>7. Reading'
  BY <1>2, <1>3 DEF Reading, ReadSoFar
<1> QED
  BY <1>4, <1>5, <1>6, <1>7

LEMMA EndsKeeps ==
  ASSUME UpdateInv, Ends
  PROVE  UpdateInv'
<1> USE DEF UpdateInv
<1> DEFINE whole == IF Unsent = {} THEN [query EXCEPT !.served = @ \cup {Source}] ELSE Received
<1>1. /\ query.state = "reading" /\ (IF web THEN LastPage ELSE Unsent = {})
      /\ network' = whole.addresses
      /\ applied' = [nodes |-> whole.addresses, served |-> whole.served]
      /\ Finish /\ UNCHANGED <<changes, shutdown, web, mirrors, latest, late>>
  BY DEF Ends
<1>2. /\ chains' \in [Chain -> {"none", "armed", "updating"}]
      /\ timer' \in Chain \cup {NoChain}
      /\ query' \in QueryType /\ updating' = FALSE
      /\ OneUpdate' /\ UpdatesNeverStop' /\ Reading'
      /\ ~(shutdown /\ ~late)
  BY <1>1, Finished
<1>3. query \in QueryType /\ ReadSoFar(query)
  BY <1>1 DEF TypeOK, QueryType, Reading
<1>4. Source \in Version /\ Unsent \subseteq Nodes
  BY <1>1, FirstUnsent
<1>5. /\ whole.served = query.served \cup {Source}
      /\ whole.addresses \subseteq Nodes /\ whole.served \subseteq Version
      /\ whole.addresses = query.addresses \cup Unsent
  <2>1. CASE Unsent = {}
    BY <2>1, <1>3, <1>4 DEF QueryType
  <2>2. CASE Unsent # {}
    <3>1. /\ Received \in QueryType /\ Received.served = query.served \cup {Source}
          /\ Received.addresses = query.addresses \cup {First(Unsent)}
      BY <1>1, <2>2, ReceivedReads
    <3>2. Unsent = {First(Unsent)}
      BY <1>1, <2>2, FirstUnsent DEF LastPage
    <3> QED
      BY <2>2, <3>1, <3>2 DEF QueryType
  <2> QED
    BY <2>1, <2>2
<1> HIDE DEF whole
<1>6. TypeOK'
  BY <1>1, <1>2, <1>5 DEF TypeOK, QueryType
<1>7. \A n \in Nodes : (\A v \in whole.served : n \in Book[v]) => n \in whole.addresses
  <2>1. SUFFICES ASSUME NEW n \in Nodes, \A v \in whole.served : n \in Book[v], n \notin Unsent
                 PROVE  n \in query.addresses
    BY <1>5
  <2>2. n \in Book[Source] /\ \A v \in query.served : n \in Book[v]
    BY <1>5, <2>1
  <2>3. n <= query.cursor
    BY <2>1, <2>2, <1>3, NodesPositive DEF Unsent, QueryType
  <2> QED
    BY <2>2, <2>3, <1>3 DEF ReadSoFar
<1>8. whole.addresses \subseteq UNION {Book[v] : v \in whole.served}
  BY <1>3, <1>5 DEF ReadSoFar, Unsent
<1>9. AppliedWasServed'
  BY <1>1, <1>7, <1>8 DEF AppliedWasServed
<1>10. Stilled'
  BY <1>1, <1>2 DEF Stilled
<1> QED
  BY <1>2, <1>6, <1>9, <1>10

LEMMA FailsKeeps ==
  ASSUME UpdateInv, Fails
  PROVE  UpdateInv'
<1> USE DEF UpdateInv
<1>1. /\ query.state = "failed" /\ Finish
      /\ UNCHANGED <<changes, shutdown, network, web, mirrors, latest, applied, late>>
  BY DEF Fails
<1>2. /\ chains' \in [Chain -> {"none", "armed", "updating"}]
      /\ timer' \in Chain \cup {NoChain}
      /\ query' \in QueryType /\ updating' = FALSE
      /\ OneUpdate' /\ UpdatesNeverStop' /\ Reading'
      /\ ~(shutdown /\ ~late)
  BY <1>1, Finished
<1>3. TypeOK' /\ Stilled' /\ AppliedWasServed'
  BY <1>1, <1>2 DEF TypeOK, QueryType, Stilled, AppliedWasServed
<1> QED
  BY <1>2, <1>3

LEMMA BadLinkKeeps ==
  ASSUME UpdateInv, BadLink
  PROVE  UpdateInv'
<1> USE DEF UpdateInv
<1>1. /\ query.state = "reading" /\ Unsent # {} /\ query' = [Received EXCEPT !.state = "lost"]
      /\ UNCHANGED <<chains, timer, changes, shutdown, updating, network, web, mirrors, latest, applied,
                    late>>
  BY DEF BadLink, LastPage
<1>2. Received \in QueryType /\ ReadSoFar(Received) /\ Received.owner = query.owner
  BY <1>1, ReceivedReads
<1>3. /\ query' \in QueryType /\ query'.state = "lost" /\ query'.owner = query.owner
      /\ query'.version = Received.version /\ query'.cursor = Received.cursor
      /\ query'.addresses = Received.addresses /\ query'.served = Received.served
  BY <1>1, <1>2 DEF QueryType
<1>4. TypeOK'
  BY <1>1, <1>3 DEF TypeOK, QueryType
<1>5. OneUpdate' /\ UpdatesNeverStop' /\ Stilled' /\ AppliedWasServed'
  BY <1>1, <1>3 DEF OneUpdate, UpdatesNeverStop, Running, Stilled, AppliedWasServed
<1>6. Reading'
  BY <1>2, <1>3 DEF Reading, ReadSoFar
<1> QED
  BY <1>4, <1>5, <1>6

LEMMA SetMirrorNetworkKeeps ==
  ASSUME UpdateInv, SetMirrorNetwork
  PROVE  UpdateInv'
BY DEF SetMirrorNetwork, UpdateInv, TypeOK, OneUpdate, UpdatesNeverStop, Running, Stilled, Reading,
       ReadSoFar, AppliedWasServed

LEMMA BreaksKeeps ==
  ASSUME UpdateInv, NEW retryable \in BOOLEAN, Breaks(retryable)
  PROVE  UpdateInv'
<1> USE DEF UpdateInv
<1>1. query.state = "reading" /\ UNCHANGED <<changes, shutdown, network, web, mirrors, latest, applied, late>>
  BY DEF Breaks
<1>2. AppliedWasServed'
  BY <1>1 DEF AppliedWasServed
<1>3. CASE MayRetry /\ retryable
  <2>1. /\ query' = [query EXCEPT !.state = "waiting", !.attempt = @ + 1]
        /\ UNCHANGED <<chains, timer, updating>> /\ query.attempt < Maximum
    BY <1>3 DEF Breaks, MayRetry
  <2>2. query \in QueryType /\ query.attempt + 1 \in 0 .. Maximum
    BY <2>1, UpdateAssumption DEF TypeOK, QueryType
  <2>3. /\ query' \in QueryType /\ query'.state = "waiting" /\ query'.owner = query.owner
        /\ query'.version = query.version /\ query'.cursor = query.cursor
        /\ query'.addresses = query.addresses /\ query'.served = query.served
    BY <2>1, <2>2 DEF QueryType
  <2>4. TypeOK'
    BY <1>1, <2>1, <2>3 DEF TypeOK, QueryType
  <2>5. OneUpdate' /\ UpdatesNeverStop' /\ Stilled' /\ Reading'
    BY <1>1, <2>1, <2>3 DEF OneUpdate, UpdatesNeverStop, Running, Stilled, Reading, ReadSoFar
  <2> QED
    BY <1>2, <2>4, <2>5
<1>4. CASE ~(MayRetry /\ retryable)
  <2>1. Finish
    BY <1>4 DEF Breaks
  <2>2. /\ chains' \in [Chain -> {"none", "armed", "updating"}]
        /\ timer' \in Chain \cup {NoChain}
        /\ query' \in QueryType /\ updating' = FALSE
        /\ OneUpdate' /\ UpdatesNeverStop' /\ Reading'
        /\ ~(shutdown /\ ~late)
    BY <1>1, <2>1, Finished
  <2>3. TypeOK' /\ Stilled'
    BY <1>1, <2>2 DEF TypeOK, QueryType, Stilled
  <2> QED
    BY <1>2, <2>2, <2>3
<1> QED
  BY <1>3, <1>4

LEMMA RetryKeeps ==
  ASSUME UpdateInv, Retry
  PROVE  UpdateInv'
<1> USE DEF UpdateInv
<1> DEFINE next == IF web \/ mirrors THEN "reading" ELSE "lost"
<1>1. /\ query.state = "waiting" /\ query' = [Again EXCEPT !.state = next]
      /\ UNCHANGED <<chains, timer, changes, shutdown, updating, network, web, mirrors, latest, applied,
                    late>>
  BY DEF Retry
<1>2. query \in QueryType /\ latest \in Version /\ ReadSoFar(query)
  BY <1>1 DEF TypeOK, QueryType, Reading
<1>3. query' \in QueryType /\ query'.state # "none" /\ query'.owner = query.owner
  BY <1>1, <1>2 DEF Again, QueryType
<1> HIDE DEF next
<1>4. ReadSoFar(query')
  <2>1. CASE web
    BY <2>1, <1>1, <1>2 DEF Again, QueryType, ReadSoFar
  <2>2. CASE ~web
    <3>1. /\ query'.version = latest /\ query'.cursor = 0 /\ query'.addresses = query.addresses
          /\ query'.served = query.served \cup {latest}
      BY <2>2, <1>1, <1>2 DEF Again, QueryType
    <3>2. \A n \in Nodes : ~(n <= 0)
      <4> TAKE n \in Nodes
      <4>1. n \in Nat /\ n # 0
        BY NodesPositive
      <4> QED
        BY <4>1, SMT
    <3>3. query'.addresses \subseteq UNION {Book[v] : v \in query'.served}
      BY <3>1, <1>2 DEF ReadSoFar
    <3>4. query'.served # {} /\ web' = web
      BY <3>1, <1>1
    <3> QED
      BY <3>1, <3>2, <3>3, <3>4, <1>2 DEF ReadSoFar
  <2> QED
    BY <2>1, <2>2
<1>5. TypeOK'
  BY <1>1, <1>3 DEF TypeOK, QueryType
<1>6. OneUpdate' /\ UpdatesNeverStop' /\ Stilled' /\ Reading' /\ AppliedWasServed'
  BY <1>1, <1>3, <1>4 DEF OneUpdate, UpdatesNeverStop, Running, Stilled, Reading, ReadSoFar, AppliedWasServed
<1> QED
  BY <1>5, <1>6

LEMMA PublishKeeps ==
  ASSUME UpdateInv, Publish
  PROVE  UpdateInv'
<1> USE DEF UpdateInv
<1>1. /\ latest' = latest + 1 /\ latest < Versions
      /\ UNCHANGED <<chains, timer, changes, shutdown, updating, query, network, web, mirrors, applied, late>>
  BY DEF Publish
<1>2. latest' \in Version
  BY <1>1, UpdateAssumption DEF TypeOK, Version
<1>3. TypeOK'
  BY <1>1, <1>2 DEF TypeOK
<1> QED
  BY <1>1, <1>3 DEF OneUpdate, UpdatesNeverStop, Running, Stilled, Reading, ReadSoFar, AppliedWasServed

-----------------------------------------------------------------------------
(* Theorems. *)

LEMMA UpdateStep == UpdateInv /\ [Next]_vars => UpdateInv'
<1> SUFFICES ASSUME UpdateInv, [Next]_vars PROVE UpdateInv'
  OBVIOUS
<1>1. CASE UNCHANGED vars
  BY <1>1 DEF vars, UpdateInv, TypeOK, OneUpdate, UpdatesNeverStop, Running, Stilled, Reading,
              ReadSoFar, AppliedWasServed
<1>2. CASE Next
  BY <1>2, FireKeeps, RequestUpdateKeeps, SetNetworkUpdatePeriodKeeps, CloseKeeps, ReceiveKeeps,
     EndsKeeps, FailsKeeps, BadLinkKeeps, BreaksKeeps, RetryKeeps, PublishKeeps, SetMirrorNetworkKeeps DEF Next
<1> QED
  BY <1>1, <1>2

LEMMA UpdateSafe == Spec => []UpdateInv
BY UpdateInit, UpdateStep, PTL DEF Spec

\* The state is well typed: the retries of a query never exceed its maximum.
THEOREM UpdateTypeOK == Spec => []TypeOK
BY UpdateSafe, PTL DEF UpdateInv

\* The flag that admits an update is set exactly while its query is awaited,
\* however timers, requests, failures and close interleave: no query that ends
\* leaves it set, and one that is lost does.
THEOREM OneUpdateSafe == Spec => []OneUpdate
BY UpdateSafe, PTL DEF UpdateInv

\* No order of timers, failed updates and changed periods leaves a client that
\* is not closed without a timer or an update it awaits.
THEOREM UpdatesNeverStopSafe == Spec => []UpdatesNeverStop
BY UpdateSafe, PTL DEF UpdateInv

\* Whatever breaks and whatever is published meanwhile, the book applied lists
\* what all the books read listed and nothing that none of them did.
THEOREM AppliedWasServedSafe == Spec => []AppliedWasServed
BY UpdateSafe, PTL DEF UpdateInv

\* Nothing fills a closed client again but an update that was under way, a
\* second chain, or a later request.
THEOREM ClosedStaysEmptySafe == Spec => []ClosedStaysEmpty
<1>1. UpdateInv => ClosedStaysEmpty
  BY DEF UpdateInv, Stilled, ClosedStaysEmpty
<1> QED
  BY <1>1, UpdateSafe, PTL
=============================================================================
