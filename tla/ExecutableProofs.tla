-------------------------- MODULE ExecutableProofs --------------------------
(***************************************************************************)
(* Theorems for every value of the constants about the pool, which is      *)
(* ManagedNetwork, and about the requests that run over it, Executable.     *)
(* The requests' proofs rest on the pool's.                                *)
(***************************************************************************)
EXTENDS Executable, FiniteSetTheorems, SequenceTheorems, TLAPS

-----------------------------------------------------------------------------
(* The pool.                                                               *)

\* The pool's type and its map of keys, which only hold together: the map is
\* filtered by what removes members, and members are existing objects.
PoolInv == TypeOK /\ MappedAreMembers

LEMMA InitPool == Init => PoolInv
<1>. SUFFICES ASSUME Init PROVE PoolInv
  OBVIOUS
<1>1. now \in Epoch .. Horizon /\ earliestReadmitTime \in Nat
  BY BackoffAssumption, ClockAssumption DEF Init, Configured
<1>2. /\ transportSecurity \in BOOLEAN
      /\ minBackoff \in Configured /\ maxBackoff \in Configured
      /\ {minReadmitPeriod, maxReadmitPeriod} \subseteq ReadmitPeriods \cup {InitMinBackoff, InitMaxBackoff}
  BY DEF Init, Configured
<1>3. /\ created \in SUBSET Node
      /\ nodes \in SUBSET created /\ healthyNodes \in SUBSET created
      /\ openChannels \in SUBSET created
      /\ network \in [Account -> SUBSET created]
  BY DEF Init
<1>4. host \in [Node -> Host] /\ account \in [Node -> Account]
  BY BookAssumption DEF Init
<1>5. nodeMinBackoff \in [Node -> Configured] /\ nodeMaxBackoff \in [Node -> Configured]
  BY DEF Init, Configured
<1>6. currentBackoff \in [Node -> Nat] /\ readmitTime \in [Node -> Nat]
  BY BackoffAssumption, ClockAssumption DEF Init, Configured
<1>7. MappedAreMembers
  BY DEF Init, MappedAreMembers
<1>. QED  BY <1>1, <1>2, <1>3, <1>4, <1>5, <1>6, <1>7 DEF PoolInv, TypeOK

\* The numbers of a well-typed state.
LEMMA Numbers ==
  ASSUME TypeOK
  PROVE  /\ now \in Nat /\ Epoch <= now
         /\ minReadmitPeriod \in Nat /\ maxReadmitPeriod \in Nat
         /\ minReadmitPeriod < Epoch /\ maxReadmitPeriod < Epoch
         /\ \A n \in Node : /\ nodeMinBackoff[n] \in Nat /\ nodeMaxBackoff[n] \in Nat
                            /\ currentBackoff[n] \in Nat
                            /\ currentBackoff[n] \div 2 \in Nat
                            /\ currentBackoff[n] \div 2 <= currentBackoff[n]
<1>1. now \in Nat /\ Epoch <= now
  BY ClockAssumption DEF TypeOK
<1>2. /\ minReadmitPeriod \in Nat /\ maxReadmitPeriod \in Nat
      /\ minReadmitPeriod < Epoch /\ maxReadmitPeriod < Epoch
  BY BackoffAssumption, ClockAssumption DEF TypeOK, Configured
<1>3. ASSUME NEW n \in Node
      PROVE  nodeMinBackoff[n] \in Nat /\ nodeMaxBackoff[n] \in Nat /\ currentBackoff[n] \in Nat
  BY BackoffAssumption DEF TypeOK
<1>4. \A c \in Nat : c \div 2 \in Nat /\ c \div 2 <= c
  OBVIOUS
<1>. QED  BY <1>1, <1>2, <1>3, <1>4

\* The clamp of _readmitNodes compares an absolute time with durations: what
\* it returns is one of the periods, so it is in the past.
LEMMA ClampInPast ==
  ASSUME TypeOK, NEW t \in Nat, now <= t
  PROVE  /\ ClampReadmit(t) = maxReadmitPeriod
         /\ ClampReadmit(t) < Epoch
         /\ ClampReadmit(t) <= now
<1>1. /\ now \in Nat /\ Epoch <= now /\ Epoch \in Nat
      /\ minReadmitPeriod \in Nat /\ maxReadmitPeriod \in Nat
      /\ minReadmitPeriod < Epoch /\ maxReadmitPeriod < Epoch
  BY Numbers, ClockAssumption
<1>. QED  BY <1>1 DEF ClampReadmit, Smaller, Larger

LEMMA SeenAreLater ==
  ASSUME TypeOK, NEW seen \in SeenReadmitTimes, NEW t \in seen
  PROVE  t \in Nat /\ now <= t
<1>1. CASE healthyNodes = {}
  BY <1>1, ClockAssumption DEF SeenReadmitTimes, TypeOK
<1>2. CASE healthyNodes # {}
  <2>1. PICK w : /\ w \subseteq nodes
                 /\ seen = {Never} \cup {readmitTime[n] : n \in {m \in w : readmitTime[m] > now}}
    BY <1>2 DEF SeenReadmitTimes
  <2>2. w \subseteq Node
    BY <2>1 DEF TypeOK
  <2>3. CASE t = Never
    BY <2>3, ClockAssumption DEF TypeOK
  <2>4. CASE t # Never
    <3>1. PICK n \in w : readmitTime[n] > now /\ t = readmitTime[n]
      BY <2>1, <2>4
    <3>. QED  BY <3>1, <2>2, ClockAssumption DEF TypeOK
  <2>. QED  BY <2>3, <2>4
<1>. QED  BY <1>1, <1>2

\* Once the pool has readmitted, its throttle never holds a node back again.
LEMMA ReadmissionEndsThrottle ==
  ASSUME TypeOK, ReadmitNodes, earliestReadmitTime <= now
  PROVE  earliestReadmitTime' < Epoch /\ earliestReadmitTime' \in Nat
<1>1. ~(earliestReadmitTime > now)
  BY DEF TypeOK
<1>2. PICK seen \in SeenReadmitTimes : \E next \in seen : earliestReadmitTime' = ClampReadmit(next)
  BY <1>1 DEF ReadmitNodes
<1>3. PICK next \in seen : earliestReadmitTime' = ClampReadmit(next)
  BY <1>2
<1>4. next \in Nat /\ now <= next
  BY SeenAreLater
<1>. QED  BY <1>3, <1>4, Numbers, ClampInPast

LEMMA ReadmitNodesStep ==
  ASSUME TypeOK, ReadmitNodes
  PROVE  /\ healthyNodes' \subseteq created
         /\ earliestReadmitTime' \in Nat
         /\ \A n \in healthyNodes' \ healthyNodes : n \in nodes /\ readmitTime[n] <= now
<1>1. CASE earliestReadmitTime <= now
  BY <1>1, ReadmissionEndsThrottle DEF ReadmitNodes, TypeOK, Readmittable
<1>2. CASE ~(earliestReadmitTime <= now)
  BY <1>2 DEF ReadmitNodes, TypeOK
<1>. QED  BY <1>1, <1>2

\* What every lookup does to the state, whatever it returns.
LookedUp == ReadmitNodes /\ UNCHANGED <<now, settings, nodes, network, identity, backoff, openChannels>>

LEMMA LookupIsLookedUp == Lookup => LookedUp
  BY DEF Lookup, LookedUp, GetNode, GetNodeFails, GetNodes

-----------------------------------------------------------------------------
(* Every step preserves the type and the map. *)

LEMMA LookedUpPool == PoolInv /\ LookedUp => PoolInv'
<1>. SUFFICES ASSUME PoolInv, LookedUp PROVE PoolInv'
  OBVIOUS
<1>. USE DEF PoolInv
<1>1. healthyNodes' \subseteq created /\ earliestReadmitTime' \in Nat
  BY ReadmitNodesStep DEF LookedUp
<1>2. TypeOK'
  BY <1>1 DEF LookedUp, TypeOK, settings, identity, backoff
<1>3. MappedAreMembers'
  BY DEF LookedUp, MappedAreMembers, identity
<1>. QED  BY <1>2, <1>3

LEMMA BackOffPool == ASSUME PoolInv, NEW n \in created, BackOff(n) PROVE PoolInv'
<1>1. n \in Node
  BY DEF PoolInv, TypeOK
<1>2. nodeMaxBackoff[n] \in Nat /\ currentBackoff[n] \in Nat /\ now \in Nat
  BY <1>1, Numbers DEF PoolInv
<1>3. currentBackoff' \in [Node -> Nat] /\ readmitTime' \in [Node -> Nat]
  BY <1>2 DEF BackOff, NextBackoff, Smaller, PoolInv, TypeOK
<1>. QED  BY <1>3 DEF BackOff, PoolInv, TypeOK, MappedAreMembers, settings, identity, Deselect

LEMMA DecreasePool == ASSUME PoolInv, NEW n \in Node, DecreaseBackoff(n) PROVE PoolInv'
<1>1. nodeMinBackoff[n] \in Nat /\ currentBackoff[n] \div 2 \in Nat
  BY Numbers DEF PoolInv
<1>2. currentBackoff' \in [Node -> Nat]
  BY <1>1 DEF DecreaseBackoff, Recovered, Larger, PoolInv, TypeOK
<1>. QED  BY <1>2 DEF DecreaseBackoff, PoolInv, TypeOK, MappedAreMembers, settings, pool, identity

LEMMA UsePool == PoolInv /\ Use => PoolInv'
<1>. SUFFICES ASSUME PoolInv, NEW n \in Node,
                     GetChannel(n) \/ IncreaseBackoff(n) \/ DecreaseBackoff(n)
              PROVE  PoolInv'
  BY DEF Use
<1>1. CASE GetChannel(n)
  BY <1>1 DEF GetChannel, PoolInv, TypeOK, MappedAreMembers, settings, pool, identity, backoff
<1>2. CASE IncreaseBackoff(n)
  BY <1>2, BackOffPool DEF IncreaseBackoff
<1>3. CASE DecreaseBackoff(n)
  BY <1>3, DecreasePool
<1>. QED  BY <1>1, <1>2, <1>3

LEMMA SetNetworkPool == ASSUME PoolInv, NEW book \in Books, SetNetwork(book) PROVE PoolInv'
<1>. USE DEF PoolInv
<1>1. PICK fresh \in SUBSET (Node \ created) :
         \E place \in Bijection(fresh, Missing(book)) : Repopulate(book, fresh, place)
  BY DEF SetNetwork
<1>2. PICK place \in Bijection(fresh, Missing(book)) : Repopulate(book, fresh, place)
  BY <1>1
<1>3. \A n \in fresh : place[n] \in Host /\ book[place[n]] \in Account
  BY BookAssumption DEF Bijection, Injection, Missing
<1>4. host' \in [Node -> Host] /\ account' \in [Node -> Account]
  BY <1>2, <1>3 DEF Repopulate, TypeOK
<1>5. minBackoff \in Nat /\ InitMinBackoff \in Nat /\ InitMaxBackoff \in Configured /\ now \in Nat
  BY BackoffAssumption, ClockAssumption DEF TypeOK, Configured
<1>6. /\ currentBackoff' \in [Node -> Nat] /\ readmitTime' \in [Node -> Nat]
      /\ nodeMinBackoff' \in [Node -> Configured] /\ nodeMaxBackoff' \in [Node -> Configured]
  BY <1>2, <1>5 DEF Repopulate, TypeOK, Larger
<1>7. /\ created \subseteq created' /\ created' \subseteq Node
      /\ nodes' \subseteq created' /\ healthyNodes' \subseteq nodes'
      /\ network' = KeyMap(healthyNodes', account')
  BY <1>2 DEF Repopulate, TypeOK
<1>8. network' \in [Account -> SUBSET created'] /\ MappedAreMembers'
  BY <1>7 DEF KeyMap, MappedAreMembers
<1>. QED  BY <1>4, <1>6, <1>7, <1>8 DEF SetNetwork, TypeOK, settings, CloseChannels

LEMMA SetNetworkFailsPool == ASSUME PoolInv, NEW book \in Books, SetNetworkFails(book) PROVE PoolInv'
<1>1. PICK done \in SUBSET GetNodesToRemove(book), n \in GetNodesToRemove(book) :
        /\ nodes' = nodes \ done
        /\ network' = RemoveFromNetwork(done)
        /\ openChannels' = CloseChannels(done \cup {n})
        /\ UNCHANGED <<now, settings, earliestReadmitTime, healthyNodes, identity, backoff>>
  BY DEF SetNetworkFails
<1>2. TypeOK'
  BY <1>1 DEF PoolInv, TypeOK, RemoveFromNetwork, CloseChannels, settings, identity, backoff
<1>3. MappedAreMembers'
  BY <1>1 DEF PoolInv, MappedAreMembers, TypeOK, RemoveFromNetwork, identity
<1>. QED  BY <1>2, <1>3 DEF PoolInv

LEMMA SetTransportSecurityPool ==
  ASSUME PoolInv, NEW secure \in BOOLEAN, SetTransportSecurity(secure) PROVE PoolInv'
<1>. USE DEF PoolInv
<1>1. PICK fresh \in SUBSET (Node \ created) :
         \E original \in Bijection(fresh, nodes) : CloneMembers(fresh, original)
  BY DEF SetTransportSecurity
<1>2. PICK original \in Bijection(fresh, nodes) : CloneMembers(fresh, original)
  BY <1>1
<1>3. \A n \in fresh : original[n] \in Node
  BY DEF Bijection, Injection, TypeOK
<1>4. /\ host' \in [Node -> Host] /\ account' \in [Node -> Account]
      /\ nodeMinBackoff' \in [Node -> Configured] /\ nodeMaxBackoff' \in [Node -> Configured]
      /\ currentBackoff' \in [Node -> Nat] /\ readmitTime' \in [Node -> Nat]
  BY <1>2, <1>3 DEF CloneMembers, TypeOK
<1>5. /\ created \subseteq created' /\ created' \subseteq Node
      /\ nodes' \subseteq created' /\ healthyNodes' \subseteq nodes'
      /\ network' = KeyMap(nodes', account')
  BY <1>2 DEF CloneMembers, TypeOK
<1>6. network' \in [Account -> SUBSET created'] /\ MappedAreMembers'
  BY <1>5 DEF KeyMap, MappedAreMembers
<1>. QED  BY <1>4, <1>5, <1>6 DEF SetTransportSecurity, TypeOK, CloseChannels

LEMMA SettersPool ==
  ASSUME PoolInv,
         \/ \E b \in MinBackoffs : SetMinBackoff(b)
         \/ \E b \in MaxBackoffs : SetMaxBackoff(b)
         \/ \E p \in ReadmitPeriods : SetNodeMinReadmitPeriod(p) \/ SetNodeMaxReadmitPeriod(p)
  PROVE  PoolInv'
<1>. USE DEF PoolInv
<1>1. ASSUME NEW b \in MinBackoffs, SetMinBackoff(b) PROVE PoolInv'
  <2>1. b \in Configured /\ b \in Nat
    BY BackoffAssumption DEF Configured
  <2>2. currentBackoff' \in [Node -> Nat] /\ nodeMinBackoff' \in [Node -> Configured]
    BY <1>1, <2>1 DEF SetMinBackoff, Larger, TypeOK
  <2>. QED  BY <1>1, <2>1, <2>2 DEF SetMinBackoff, TypeOK, MappedAreMembers, pool, identity
<1>2. ASSUME NEW b \in MaxBackoffs, SetMaxBackoff(b) PROVE PoolInv'
  <2>1. b \in Configured /\ b \in Nat
    BY BackoffAssumption DEF Configured
  <2>2. currentBackoff' \in [Node -> Nat] /\ nodeMaxBackoff' \in [Node -> Configured]
    BY <1>2, <2>1 DEF SetMaxBackoff, Larger, TypeOK
  <2>. QED  BY <1>2, <2>1, <2>2 DEF SetMaxBackoff, TypeOK, MappedAreMembers, pool, identity
<1>3. ASSUME NEW p \in ReadmitPeriods, SetNodeMinReadmitPeriod(p) PROVE PoolInv'
  BY <1>3, ClockAssumption DEF SetNodeMinReadmitPeriod, TypeOK, MappedAreMembers, pool, identity, backoff
<1>4. ASSUME NEW p \in ReadmitPeriods, SetNodeMaxReadmitPeriod(p) PROVE PoolInv'
  BY <1>4 DEF SetNodeMaxReadmitPeriod, TypeOK, MappedAreMembers, pool, identity, backoff
<1>. QED  BY <1>1, <1>2, <1>3, <1>4

LEMMA NextPool == PoolInv /\ [Next]_netVars => PoolInv'
<1>. SUFFICES ASSUME PoolInv, [Next]_netVars PROVE PoolInv'
  OBVIOUS
<1>1. CASE Lookup
  BY <1>1, LookedUpPool, LookupIsLookedUp
<1>2. CASE Use
  BY <1>2, UsePool
<1>3. CASE Reconfigure
  <2>1. CASE Close
    BY <2>1 DEF Close, PoolInv, TypeOK, MappedAreMembers, settings, identity, backoff, CloseChannels
  <2>. QED  BY <1>3, <2>1, SetNetworkPool, SetNetworkFailsPool, SetTransportSecurityPool, SettersPool
            DEF Reconfigure
<1>4. CASE Tick
  BY <1>4, ClockAssumption DEF Tick, PoolInv, TypeOK, MappedAreMembers, settings, pool, identity, backoff
<1>5. CASE UNCHANGED netVars
  BY <1>5 DEF netVars, PoolInv, TypeOK, MappedAreMembers, settings, pool, identity, backoff
<1>. QED  BY <1>1, <1>2, <1>3, <1>4, <1>5 DEF Next

\* The state of a pool is always well typed, and a keyed lookup never finds a
\* node that has left the pool.
THEOREM PoolSafe == Spec => [](TypeOK /\ MappedAreMembers)
<1>. QED  BY InitPool, NextPool, PTL DEF Spec, PoolInv

\* Node objects are only ever added, and finitely many exist at any time: a
\* book has finitely many entries, and a port switch clones what exists.
LEMMA CreatedStep ==
  ASSUME PoolInv, [Next]_netVars
  PROVE  created \subseteq created' /\ (IsFiniteSet(created) => IsFiniteSet(created'))
<1>1. CASE created' = created
  BY <1>1
<1>2. ASSUME NEW book \in Books, SetNetwork(book)
      PROVE  created \subseteq created' /\ (IsFiniteSet(created) => IsFiniteSet(created'))
  <2>1. PICK fresh \in SUBSET (Node \ created) :
           \E place \in Bijection(fresh, Missing(book)) : Repopulate(book, fresh, place)
    BY <1>2 DEF SetNetwork
  <2>2. PICK place \in Bijection(fresh, Missing(book)) : Repopulate(book, fresh, place)
    BY <2>1
  <2>3. Missing(book) \subseteq DOMAIN book /\ IsFiniteSet(DOMAIN book)
    BY BookAssumption DEF Missing
  <2>4. IsFiniteSet(Missing(book)) /\ place \in Injection(fresh, Missing(book))
    BY <2>3, FS_Subset DEF Bijection
  <2>5. IsFiniteSet(fresh)
    BY <2>4, FS_Injection
  <2>. QED  BY <2>2, <2>5, FS_Union DEF Repopulate
<1>3. ASSUME NEW secure \in BOOLEAN, SetTransportSecurity(secure)
      PROVE  created \subseteq created' /\ (IsFiniteSet(created) => IsFiniteSet(created'))
  <2>1. PICK fresh \in SUBSET (Node \ created) :
           \E original \in Bijection(fresh, nodes) : CloneMembers(fresh, original)
    BY <1>3 DEF SetTransportSecurity
  <2>2. PICK original \in Bijection(fresh, nodes) : CloneMembers(fresh, original)
    BY <2>1
  <2>3. ASSUME IsFiniteSet(created) PROVE IsFiniteSet(fresh)
    <3>1. IsFiniteSet(nodes) /\ original \in Injection(fresh, nodes)
      BY <2>3, FS_Subset DEF PoolInv, TypeOK, Bijection
    <3>. QED  BY <3>1, FS_Injection
  <2>. QED  BY <2>2, <2>3, FS_Union DEF CloneMembers
<1>4. CASE Lookup
  BY <1>1, <1>4, LookupIsLookedUp DEF LookedUp, identity
<1>5. CASE Use
  BY <1>1, <1>5 DEF Use, GetChannel, IncreaseBackoff, BackOff, DecreaseBackoff, identity
<1>6. CASE Reconfigure
  BY <1>1, <1>2, <1>3, <1>6 DEF Reconfigure, SetNetworkFails, Close, SetMinBackoff, SetMaxBackoff,
     SetNodeMinReadmitPeriod, SetNodeMaxReadmitPeriod, identity
<1>7. CASE Tick \/ UNCHANGED netVars
  BY <1>1, <1>7 DEF Tick, netVars, identity
<1>. QED  BY <1>4, <1>5, <1>6, <1>7 DEF Next

-----------------------------------------------------------------------------
(* Waits stay within what was configured. *)

LEMMA Configuring ==
  ASSUME NEW c \in Nat, NEW b \in Configured
  PROVE  /\ WithinConfigured(b)
         /\ WithinConfigured(c) => /\ WithinConfigured(Larger(c, b))
                                   /\ WithinConfigured(Smaller(2 * c, b))
                                   /\ WithinConfigured(Larger(c \div 2, b))
<1>1. b \in Nat
  BY BackoffAssumption
<1>2. WithinConfigured(b)
  BY <1>1 DEF WithinConfigured
<1>3. ASSUME WithinConfigured(c) PROVE WithinConfigured(Larger(c, b))
  BY <1>1, <1>2, <1>3 DEF Larger
<1>4. ASSUME WithinConfigured(c) PROVE WithinConfigured(Smaller(2 * c, b))
  <2>1. PICK low \in Configured : low <= c
    BY <1>4 DEF WithinConfigured
  <2>2. low \in Nat /\ (2 * c <= b => low <= 2 * c)
    BY <2>1, BackoffAssumption
  <2>. QED  BY <1>1, <1>2, <2>2 DEF WithinConfigured, Smaller
<1>5. ASSUME WithinConfigured(c) PROVE WithinConfigured(Larger(c \div 2, b))
  <2>1. PICK high \in Configured : c <= high
    BY <1>5 DEF WithinConfigured
  <2>2. high \in Nat /\ c \div 2 \in Nat /\ c \div 2 <= high
    BY <2>1, BackoffAssumption
  <2>. QED  BY <1>1, <1>2, <2>1, <2>2 DEF WithinConfigured, Larger
<1>. QED  BY <1>2, <1>3, <1>4, <1>5

LEMMA InitBackoff == Init => BackoffWithinConfigured
<1>1. InitMinBackoff \in Configured /\ InitMinBackoff \in Nat
  BY BackoffAssumption DEF Configured
<1>. QED  BY <1>1, Configuring DEF Init, BackoffWithinConfigured

LEMMA BackoffStep == TypeOK /\ BackoffWithinConfigured /\ [Next]_netVars => BackoffWithinConfigured'
<1>. SUFFICES ASSUME TypeOK, BackoffWithinConfigured, [Next]_netVars,
                     NEW n \in Node
              PROVE  WithinConfigured(currentBackoff'[n])
  BY DEF BackoffWithinConfigured
<1>. USE DEF BackoffWithinConfigured
<1>1. /\ currentBackoff[n] \in Nat /\ WithinConfigured(currentBackoff[n])
      /\ nodeMinBackoff[n] \in Configured /\ nodeMaxBackoff[n] \in Configured
      /\ currentBackoff \in [Node -> Nat]
  BY DEF TypeOK
<1>2. CASE currentBackoff' = currentBackoff
  BY <1>1, <1>2
<1>3. ASSUME NEW m \in Node, IncreaseBackoff(m) PROVE WithinConfigured(currentBackoff'[n])
  BY <1>1, <1>3, Configuring DEF IncreaseBackoff, BackOff, NextBackoff
<1>4. ASSUME NEW m \in Node, DecreaseBackoff(m) PROVE WithinConfigured(currentBackoff'[n])
  BY <1>1, <1>4, Configuring DEF DecreaseBackoff, Recovered
<1>5. ASSUME NEW book \in Books, SetNetwork(book) PROVE WithinConfigured(currentBackoff'[n])
  <2>1. PICK fresh \in SUBSET (Node \ created) :
           \E place \in Bijection(fresh, Missing(book)) : Repopulate(book, fresh, place)
    BY <1>5 DEF SetNetwork
  <2>2. currentBackoff' = [m \in Node |-> IF m \in fresh THEN Larger(InitMinBackoff, minBackoff)
                                          ELSE currentBackoff[m]]
    BY <2>1 DEF Repopulate
  <2>3. InitMinBackoff \in Configured /\ minBackoff \in Configured
    BY DEF TypeOK, Configured
  <2>4. WithinConfigured(Larger(InitMinBackoff, minBackoff))
    BY <2>3, Configuring, BackoffAssumption DEF Larger
  <2>. QED  BY <1>1, <2>2, <2>4
<1>6. ASSUME NEW secure \in BOOLEAN, SetTransportSecurity(secure)
      PROVE  WithinConfigured(currentBackoff'[n])
  <2>1. PICK fresh \in SUBSET (Node \ created) :
           \E original \in Bijection(fresh, nodes) : CloneMembers(fresh, original)
    BY <1>6 DEF SetTransportSecurity
  <2>2. PICK original \in Bijection(fresh, nodes) : CloneMembers(fresh, original)
    BY <2>1
  <2>3. \A m \in fresh : original[m] \in Node
    BY DEF Bijection, Injection, TypeOK
  <2>. QED  BY <1>1, <2>2, <2>3 DEF CloneMembers
<1>7. ASSUME NEW b \in Configured, SetMinBackoff(b) \/ SetMaxBackoff(b)
      PROVE  WithinConfigured(currentBackoff'[n])
  BY <1>1, <1>7, Configuring DEF SetMinBackoff, SetMaxBackoff
<1>8. CASE Lookup
  BY <1>2, <1>8, LookupIsLookedUp DEF LookedUp, backoff
<1>9. CASE Use
  BY <1>2, <1>3, <1>4, <1>9 DEF Use, GetChannel, backoff
<1>10. CASE Reconfigure
  <2>1. \A b \in MinBackoffs \cup MaxBackoffs : b \in Configured
    BY DEF Configured
  <2>2. CASE \E book \in Books : SetNetworkFails(book)
    BY <1>2, <2>2 DEF SetNetworkFails, backoff
  <2>3. CASE Close \/ \E p \in ReadmitPeriods : SetNodeMinReadmitPeriod(p) \/ SetNodeMaxReadmitPeriod(p)
    BY <1>2, <2>3 DEF Close, SetNodeMinReadmitPeriod, SetNodeMaxReadmitPeriod, backoff
  <2>. QED  BY <1>5, <1>6, <1>7, <1>10, <2>1, <2>2, <2>3 DEF Reconfigure
<1>11. CASE Tick \/ UNCHANGED netVars
  BY <1>2, <1>11 DEF Tick, netVars, backoff
<1>. QED  BY <1>8, <1>9, <1>10, <1>11 DEF Next

\* However failures, recoveries, setters, updates and port switches are
\* ordered, a node never waits less or longer than some configured backoff.
THEOREM BackoffSafe == Spec => []BackoffWithinConfigured
<1>1. PoolInv => TypeOK
  BY DEF PoolInv
<1>. QED  BY <1>1, InitPool, NextPool, InitBackoff, BackoffStep, PTL DEF Spec

-----------------------------------------------------------------------------
(* Who may be selected, and who leaves. *)

\* Every step that makes a node selectable finds its readmit time passed,
\* except a switch of transport security.
LEMMA EnteringStep ==
  ASSUME TypeOK, [Next]_netVars, NEW n \in healthyNodes' \ healthyNodes
  PROVE  readmitTime'[n] <= now' \/ transportSecurity' # transportSecurity
<1>1. CASE Lookup
  <2>1. readmitTime[n] <= now
    BY <1>1, LookupIsLookedUp, ReadmitNodesStep DEF LookedUp
  <2>. QED  BY <1>1, <2>1, LookupIsLookedUp DEF LookedUp, backoff
<1>2. CASE Use
  BY <1>2 DEF Use, GetChannel, IncreaseBackoff, BackOff, DecreaseBackoff, Recovered, pool, Deselect
<1>3. ASSUME NEW book \in Books, SetNetwork(book) PROVE readmitTime'[n] <= now'
  <2>1. PICK fresh \in SUBSET (Node \ created) :
           \E place \in Bijection(fresh, Missing(book)) : Repopulate(book, fresh, place)
    BY <1>3 DEF SetNetwork
  <2>2. /\ n \in Node /\ (n \in fresh \/ IsHealthy(n))
        /\ readmitTime' = [m \in Node |-> IF m \in fresh THEN now ELSE readmitTime[m]]
    BY <2>1 DEF Repopulate, TypeOK
  <2>. QED  BY <1>3, <2>2, Numbers DEF SetNetwork, IsHealthy
<1>4. CASE Reconfigure
  BY <1>3, <1>4 DEF Reconfigure, SetNetworkFails, SetTransportSecurity, Close, SetMinBackoff,
       SetMaxBackoff, SetNodeMinReadmitPeriod, SetNodeMaxReadmitPeriod, pool, CloseChannels
<1>5. CASE Tick \/ UNCHANGED netVars
  BY <1>5 DEF Tick, netVars, pool
<1>. QED  BY <1>1, <1>2, <1>4, <1>5 DEF Next

\* A node is offered to requests again only when its backoff has run out.
THEOREM NoEarlyReadmissionSafe == Spec => NoEarlyReadmission
<1>1. PoolInv /\ [Next]_netVars =>
        [ \A n \in healthyNodes' \ healthyNodes :
             readmitTime'[n] <= now' \/ transportSecurity' # transportSecurity ]_netVars
  BY EnteringStep DEF PoolInv
<1>. QED  BY <1>1, InitPool, NextPool, PTL DEF Spec, NoEarlyReadmission

LEMMA NextSelectable ==
  ASSUME ~SwitchesTransport, TypeOK, SelectableAreHealthy, [Next]_netVars
  PROVE  SelectableAreHealthy'
<1>. SUFFICES ASSUME NEW n \in healthyNodes' PROVE readmitTime'[n] <= now'
  BY DEF SelectableAreHealthy, IsHealthy
<1>1. now' \in Nat /\ now <= now'
  <2>1. CASE Tick
    BY <2>1, Numbers DEF Tick
  <2>2. CASE now' = now
    BY <2>2, Numbers
  <2>3. CASE Lookup \/ Use
    BY <2>2, <2>3, LookupIsLookedUp DEF LookedUp, Use, GetChannel, IncreaseBackoff, BackOff, DecreaseBackoff, Recovered
  <2>4. CASE Reconfigure
    BY <2>2, <2>4 DEF Reconfigure, SetNetwork, SetNetworkFails, SetTransportSecurity, Close,
       SetMinBackoff, SetMaxBackoff, SetNodeMinReadmitPeriod, SetNodeMaxReadmitPeriod
  <2>5. CASE UNCHANGED netVars
    BY <2>2, <2>5 DEF netVars
  <2>. QED  BY <2>1, <2>3, <2>4, <2>5 DEF Next
<1>2. transportSecurity' = transportSecurity
  BY LookupIsLookedUp
     DEF Next, LookedUp, Use, GetChannel, IncreaseBackoff, BackOff, DecreaseBackoff, Recovered, Reconfigure, SetNetwork,
         SetNetworkFails, Close, SetMinBackoff, SetMaxBackoff, SetNodeMinReadmitPeriod,
         SetNodeMaxReadmitPeriod, Tick, netVars, settings
<1>3. CASE n \notin healthyNodes
  BY <1>2, <1>3, EnteringStep
<1>4. CASE n \in healthyNodes
  <2>1. n \in Node /\ readmitTime[n] \in Nat /\ readmitTime[n] <= now /\ now \in Nat
    BY <1>4, Numbers DEF TypeOK, SelectableAreHealthy, IsHealthy
  <2>2. CASE readmitTime'[n] = readmitTime[n]
    BY <1>1, <2>1, <2>2
  <2>3. ASSUME NEW m \in Node, IncreaseBackoff(m) PROVE readmitTime'[n] = readmitTime[n]
    BY <2>1, <2>3 DEF IncreaseBackoff, BackOff, TypeOK, Deselect
  <2>4. ASSUME NEW book \in Books, SetNetwork(book) PROVE readmitTime'[n] = readmitTime[n]
    BY <1>4, <2>1, <2>4 DEF SetNetwork, Repopulate, TypeOK
  <2>5. CASE Lookup
    BY <2>2, <2>5, LookupIsLookedUp DEF LookedUp, backoff
  <2>6. CASE Use
    BY <2>2, <2>3, <2>6 DEF Use, GetChannel, DecreaseBackoff, Recovered, backoff
  <2>7. CASE Reconfigure
    BY <2>2, <2>4, <2>7 DEF Reconfigure, SetNetworkFails, Close, SetMinBackoff, SetMaxBackoff,
       SetNodeMinReadmitPeriod, SetNodeMaxReadmitPeriod, backoff
  <2>8. CASE Tick \/ UNCHANGED netVars
    BY <2>2, <2>8 DEF Tick, netVars, backoff
  <2>. QED  BY <2>5, <2>6, <2>7, <2>8 DEF Next
<1>. QED  BY <1>3, <1>4

\* As long as the application does not switch transport security, an unkeyed
\* lookup never returns a node that is backing off.
THEOREM SelectableSafe == ~SwitchesTransport /\ Spec => []SelectableAreHealthy
<1>. SUFFICES ASSUME ~SwitchesTransport PROVE Spec => []SelectableAreHealthy
  OBVIOUS
<1>1. Init => SelectableAreHealthy
  BY DEF Init, SelectableAreHealthy
<1>2. PoolInv /\ SelectableAreHealthy /\ [Next]_netVars => SelectableAreHealthy'
  BY NextSelectable DEF PoolInv
<1>. QED  BY <1>1, <1>2, InitPool, NextPool, PTL DEF Spec

\* No way out of the pool leaves a channel open behind the node that left.
THEOREM LeaversAreClosedSafe == Spec => LeaversAreClosed
<1>1. PoolInv /\ [Next]_netVars => [openChannels' \cap (nodes \ nodes') = {}]_netVars
  <2>. SUFFICES ASSUME PoolInv, [Next]_netVars PROVE openChannels' \cap (nodes \ nodes') = {}
    OBVIOUS
  <2>1. CASE nodes' = nodes
    BY <2>1
  <2>2. ASSUME NEW book \in Books, SetNetwork(book) PROVE openChannels' \cap (nodes \ nodes') = {}
    <3>1. nodes \ nodes' \subseteq GetNodesToRemove(book)
      BY <2>2 DEF SetNetwork, Repopulate
    <3>. QED  BY <2>2, <3>1 DEF SetNetwork, CloseChannels
  <2>3. ASSUME NEW book \in Books, SetNetworkFails(book)
        PROVE  openChannels' \cap (nodes \ nodes') = {}
    BY <2>3 DEF SetNetworkFails, CloseChannels
  <2>4. CASE Lookup
    BY <2>1, <2>4, LookupIsLookedUp DEF LookedUp
  <2>5. CASE Use
    BY <2>1, <2>5 DEF Use, GetChannel, IncreaseBackoff, BackOff, DecreaseBackoff, Recovered, pool, Deselect
  <2>6. CASE Reconfigure
    BY <2>1, <2>2, <2>3, <2>6 DEF Reconfigure, SetTransportSecurity, Close, SetMinBackoff,
       SetMaxBackoff, SetNodeMinReadmitPeriod, SetNodeMaxReadmitPeriod, pool, CloseChannels
  <2>7. CASE Tick \/ UNCHANGED netVars
    BY <2>1, <2>7 DEF Tick, netVars, pool
  <2>. QED  BY <2>4, <2>5, <2>6, <2>7 DEF Next
<1>. QED  BY <1>1, InitPool, NextPool, PTL DEF Spec, LeaversAreClosed

-----------------------------------------------------------------------------
(* The retry loop keeps the contract of RetryContract. *)

\* How far a request is in each phase.  A call is counted once, when it is
\* sent, and an attempt sends at most one.
Progress(r) ==
    /\ phase[r] \in {"new", "setup"} => attempt[r] = 0 /\ calls[r] = 0
    /\ phase[r] = "loop" => calls[r] < attempt[r]
    /\ phase[r] = "build" => calls[r] < attempt[r] /\ attempt[r] <= MaxAttempts
    /\ phase[r] \in {"sent", "updating", "delay"} => calls[r] <= attempt[r]
    /\ outcome[r] = Pending <=> phase[r] # "done"

LoopInv ==
    /\ phase \in [Request -> Phases]
    /\ attempt \in [Request -> Nat]
    /\ calls \in [Request -> Nat]
    /\ outcome \in [Request -> Answers \cup Failures \cup {Pending}]
    /\ \A r \in Request : Progress(r)

LEMMA LoopInit == ExecInit => LoopInv
  BY DEF ExecInit, LoopInv, Progress, Phases

\* Each way to leave an await, as it changes the counters of one request.
LEMMA FinishLoop ==
  ASSUME LoopInv, NEW r \in Request, NEW how \in Answers \cup Failures, Finish(r, how)
  PROVE  LoopInv'
<1>1. how # Pending
  BY DEF Answers, Failures, Pending
<1>. QED  BY <1>1 DEF LoopInv, Progress, Finish, Goto, Phases, history

LEMMA ContinueLoop ==
  ASSUME LoopInv, NEW r \in Request, Continue(r), UNCHANGED <<outcome, calls>>,
         phase[r] \notin {"new", "done"}
  PROVE  LoopInv'
BY DEF LoopInv, Progress, Continue, NextAttempt, Phases

LEMMA PickLoop ==
  ASSUME LoopInv, NEW r \in Request, Trying(r), Goto(r, "build"), UNCHANGED <<attempt, outcome, calls>>
  PROVE  LoopInv'
BY LimitAssumption DEF LoopInv, Progress, Trying, InLoop, Exhausted, Goto, Phases

LEMMA SendLoop ==
  ASSUME LoopInv, NEW r \in Request, Send(r)
  PROVE  LoopInv'
<1>1. /\ phase[r] = "build"
      /\ phase' = [phase EXCEPT ![r] = "sent"]
      /\ calls' = [calls EXCEPT ![r] = @ + 1]
      /\ attempt' = attempt /\ outcome' = outcome
  BY DEF Send, At, Goto
<1>2. /\ phase \in [Request -> Phases] /\ calls \in [Request -> Nat] /\ attempt \in [Request -> Nat]
      /\ calls[r] < attempt[r] /\ attempt[r] <= MaxAttempts /\ outcome[r] = Pending
  BY <1>1 DEF LoopInv, Progress
<1>3. /\ calls'[r] = calls[r] + 1 /\ phase'[r] = "sent"
      /\ \A q \in Request \ {r} : calls'[q] = calls[q] /\ phase'[q] = phase[q]
  BY <1>1, <1>2
<1>4. calls' \in [Request -> Nat]
  BY <1>1, <1>2
<1>5. phase' \in [Request -> Phases]
  BY <1>1, <1>2 DEF Phases
<1>6. ASSUME NEW q \in Request \ {r} PROVE Progress(q)'
  BY <1>1, <1>3 DEF LoopInv, Progress
<1>7. calls'[r] <= attempt'[r]
  BY <1>1, <1>2, <1>3
<1>8. Progress(r)'
  BY <1>1, <1>2, <1>3, <1>7 DEF Progress
<1>. QED  BY <1>1, <1>4, <1>5, <1>6, <1>8 DEF LoopInv

LEMMA GotoLoop ==
  ASSUME LoopInv, NEW r \in Request, NEW p \in {"updating", "delay"}, Goto(r, p),
         UNCHANGED <<attempt, outcome, calls>>, phase[r] \in {"build", "sent", "updating"}
  PROVE  LoopInv'
BY DEF LoopInv, Progress, Goto, Phases

LEMMA LoopStep ==
  ASSUME LoopInv, NEW r \in Request, Execute(r) \/ Step(r)
  PROVE  LoopInv'
<1>. USE DEF Failures
<1>1. CASE Execute(r)
  BY <1>1 DEF LoopInv, Progress, Execute, At, Goto, Phases, history
<1>2. CASE SetupFails(r)
  BY <1>2, FinishLoop DEF SetupFails
<1>3. CASE Validate(r)
  <2>1. CASE Continue(r) /\ UNCHANGED <<outcome, history>>
    BY <1>3, <2>1, ContinueLoop DEF Validate, At, history
  <2>. QED  BY <1>3, <2>1, FinishLoop DEF Validate
<1>4. CASE StopTrying(r)
  BY <1>4, FinishLoop DEF StopTrying
<1>5. CASE SkipNode(r)
  BY <1>5, ContinueLoop DEF SkipNode, Trying, InLoop, history
<1>6. CASE PickNode(r)
  <2>1. Trying(r) /\ Goto(r, "build") /\ UNCHANGED <<attempt, outcome, calls>>
    BY <1>6 DEF PickNode
  <2>. QED  BY <2>1, PickLoop
<1>7. CASE PickNodeFails(r)
  BY <1>7, FinishLoop DEF PickNodeFails
<1>8. CASE PickAnyNode(r)
  <2>1. CASE Goto(r, "build") /\ UNCHANGED <<attempt, outcome, calls>>
    BY <1>8, <2>1, PickLoop DEF PickAnyNode
  <2>. QED  BY <1>8, <2>1, FinishLoop DEF PickAnyNode
<1>9. CASE SignerFails(r)
  BY <1>9, FinishLoop DEF SignerFails
<1>10. CASE Send(r)
  BY <1>10, SendLoop
<1>11. CASE HandleUnhealthyNode(r)
  <2>1. CASE Goto(r, "delay") /\ UNCHANGED <<attempt, outcome, history>>
    BY <1>11, <2>1, GotoLoop DEF HandleUnhealthyNode, At, history
  <2>2. CASE Continue(r) /\ UNCHANGED <<outcome, history>>
    BY <1>11, <2>2, ContinueLoop DEF HandleUnhealthyNode, At, history
  <2>. QED  BY <1>11, <2>1, <2>2, FinishLoop DEF HandleUnhealthyNode
<1>12. CASE CallFails(r)
  BY <1>12, ContinueLoop DEF CallFails, At, history
<1>13. CASE CallRejected(r)
  BY <1>13, FinishLoop DEF CallRejected
<1>14. CASE AnswerEnds(r)
  <2>1. PICK how \in Answers : Finish(r, how)
    BY <1>14 DEF AnswerEnds
  <2>. QED  BY <2>1, FinishLoop
<1>15. CASE AnswerRetries(r)
  BY <1>15, GotoLoop DEF AnswerRetries, Answered, At, history
<1>16. CASE WrongNode(r)
  BY <1>16, GotoLoop DEF WrongNode, Answered, At, history
<1>17. CASE Updated(r)
  BY <1>17, GotoLoop DEF Updated, At, history
<1>18. CASE Wake(r)
  BY <1>18, ContinueLoop DEF Wake, At, history
<1>. QED  BY <1>1, <1>2, <1>3, <1>4, <1>5, <1>6, <1>7, <1>8, <1>9, <1>10, <1>11, <1>12,
             <1>13, <1>14, <1>15, <1>16, <1>17, <1>18 DEF Step

LEMMA LoopIdle ==
  ASSUME LoopInv, UNCHANGED requestVars
  PROVE  LoopInv'
BY DEF LoopInv, Progress, requestVars, history

LEMMA LoopIsInvariant == ExecSpec => []LoopInv
<1>1. LoopInv /\ [ExecNext]_vars => LoopInv'
  BY LoopStep, LoopIdle DEF ExecNext, Configure, PassTime, vars
<1>. QED  BY LoopInit, <1>1, PTL DEF ExecSpec

Sent == {r \in Request : phase[r] = "sent"}

\* What a step of request r means for the contract.
Promised(r) ==
    \/ UNCHANGED <<outcome, Sent, calls>>
    \/ Contract!Call(r) \/ Contract!GiveUpCall(r)
    \/ \E how \in Answers \cup Failures : Contract!End(r, how)

\* How one phase change moves the set of outstanding calls.
LEMMA PhaseMoves ==
  ASSUME LoopInv, NEW r \in Request, NEW p \in Phases, phase' = [phase EXCEPT ![r] = p]
  PROVE  /\ p = "sent" => Sent' = Sent \cup {r}
         /\ p # "sent" => Sent' = Sent \ {r}
BY DEF LoopInv, Sent

LEMMA FinishPromised ==
  ASSUME LoopInv, NEW r \in Request, NEW how \in Answers \cup Failures, Finish(r, how),
         phase[r] # "done", how \in Answers => phase[r] = "sent"
  PROVE  Promised(r)
<1>1. outcome[r] = Pending
  BY DEF LoopInv, Progress
<1>2. Sent' = Sent \ {r}
  BY PhaseMoves DEF Finish, Goto, Phases
<1>3. Contract!End(r, how)
  BY <1>1, <1>2 DEF Finish, history, Contract!End, Sent
<1>. QED  BY <1>3 DEF Promised

LEMMA MovePromised ==
  ASSUME LoopInv, NEW r \in Request, NEW p \in Phases \ {"sent"}, phase' = [phase EXCEPT ![r] = p],
         UNCHANGED <<outcome, calls>>
  PROVE  Promised(r)
<1>1. Sent' = Sent \ {r}
  BY PhaseMoves
<1>2. CASE r \in Sent
  BY <1>1, <1>2 DEF Promised, Contract!GiveUpCall, Sent
<1>3. CASE r \notin Sent
  BY <1>1, <1>3 DEF Promised
<1>. QED  BY <1>2, <1>3

LEMMA SendPromised ==
  ASSUME LoopInv, NEW r \in Request, Send(r)
  PROVE  Promised(r)
<1>1. /\ phase[r] = "build"
      /\ phase' = [phase EXCEPT ![r] = "sent"]
      /\ calls' = [calls EXCEPT ![r] = @ + 1]
      /\ UNCHANGED outcome
  BY DEF Send, At, Goto
<1>2. outcome[r] = Pending /\ calls[r] < MaxAttempts
  BY <1>1, LimitAssumption DEF LoopInv, Progress
<1>3. Sent' = Sent \cup {r}
  BY <1>1, PhaseMoves DEF Phases
<1>4. Contract!Call(r)
  BY <1>1, <1>2, <1>3 DEF Contract!Call, Sent
<1>. QED  BY <1>4 DEF Promised

LEMMA StepPromised ==
  ASSUME LoopInv, NEW r \in Request, Execute(r) \/ Step(r)
  PROVE  Promised(r)
<1>1. CASE \E how \in Failures : Finish(r, how) /\ phase[r] # "done"
  <2>1. Failures \cap Answers = {}
    BY DEF Failures, Answers
  <2>. QED  BY <1>1, <2>1, FinishPromised
<1>2. CASE AnswerEnds(r)
  <2>1. PICK how \in Answers : Finish(r, how)
    BY <1>2 DEF AnswerEnds
  <2>2. phase[r] = "sent"
    BY <1>2 DEF AnswerEnds, Answered, At
  <2>. QED  BY <2>1, <2>2, FinishPromised
<1>3. CASE \E p \in Phases \ {"sent"} : phase' = [phase EXCEPT ![r] = p] /\ UNCHANGED <<outcome, calls>>
  BY <1>3, MovePromised
<1>4. CASE Send(r)
  BY <1>4, SendPromised
<1>5. ASSUME Execute(r) \/ SkipNode(r) \/ PickNode(r) \/ CallFails(r) \/ AnswerRetries(r)
             \/ WrongNode(r) \/ Updated(r) \/ Wake(r)
      PROVE  \E p \in Phases \ {"sent"} : phase' = [phase EXCEPT ![r] = p] /\ UNCHANGED <<outcome, calls>>
  BY <1>5 DEF Execute, SkipNode, PickNode, CallFails, AnswerRetries, WrongNode, Updated, Wake,
     Continue, Goto, history, Phases
<1>6. ASSUME SetupFails(r) \/ StopTrying(r) \/ PickNodeFails(r) \/ SignerFails(r) \/ CallRejected(r)
      PROVE  \E how \in Failures : Finish(r, how) /\ phase[r] # "done"
  BY <1>6 DEF SetupFails, StopTrying, PickNodeFails, SignerFails, CallRejected, Answered, At, Trying,
     InLoop, Failures
<1>7. ASSUME Validate(r) \/ PickAnyNode(r) \/ HandleUnhealthyNode(r)
      PROVE  \/ \E how \in Failures : Finish(r, how) /\ phase[r] # "done"
             \/ \E p \in Phases \ {"sent"} : phase' = [phase EXCEPT ![r] = p] /\ UNCHANGED <<outcome, calls>>
  BY <1>7 DEF Validate, PickAnyNode, HandleUnhealthyNode, At, Trying, InLoop, Continue, Goto, history,
     Phases, Failures
<1>. QED  BY <1>1, <1>2, <1>3, <1>4, <1>5, <1>6, <1>7 DEF Step

LEMMA ContractStep ==
  ASSUME LoopInv, [ExecNext]_vars
  PROVE  [Contract!Next]_(Contract!contractVars)
<1>1. CASE UNCHANGED requestVars
  BY <1>1 DEF requestVars, history, Contract!contractVars
<1>2. ASSUME NEW r \in Request, Execute(r) \/ Step(r)
      PROVE  [Contract!Next]_(Contract!contractVars)
  BY <1>2, StepPromised DEF Promised, Contract!Next, Contract!contractVars, Sent
<1>. QED  BY <1>1, <1>2 DEF ExecNext, Configure, PassTime, vars

\* Executable.execute keeps the promise of RetryContract: one call at a time,
\* MaxAttempts of them at most, one end, and an answer only from the call that
\* is outstanding.
THEOREM KeepsContractSafe == ExecSpec => KeepsContract
<1>1. ExecInit => Contract!Init
  BY DEF ExecInit, Contract!Init
<1>. QED  BY <1>1, LoopIsInvariant, ContractStep, PTL DEF ExecSpec, KeepsContract, Contract!Spec

-----------------------------------------------------------------------------
(* The state of the pool and of every request is well typed: the cursor of *)
(* a node list never leaves the list, no attempt is counted past the       *)
(* limit, and a request only holds nodes that exist.                       *)

\* What the phases add to the types.  A request under way holds a node that
\* was created, and has counted no attempt past the last; the cursor of a list
\* that is not yet filled stands at the beginning.
Standing(r) ==
    /\ phase[r] \in {"new", "setup"} => index[r] = 0 /\ attempt[r] = 0
    /\ phase[r] = "loop" => attempt[r] \in 1 .. MaxAttempts + 1
    /\ phase[r] \in {"build", "sent", "updating", "delay"} => attempt[r] \in 1 .. MaxAttempts
    /\ phase[r] \in {"build", "sent"} => held[r] \in created

RequestTypeOK ==
    /\ running \in Request \cup {Nobody}
    /\ phase \in [Request -> Phases]
    /\ list \in [Request -> Seq(Account)]
    /\ index \in [Request -> Nat]
    /\ valid \in [Request -> SUBSET Account]
    /\ attempt \in [Request -> 0 .. MaxAttempts + 1]
    /\ target \in [Request -> Account \cup {NoKey}]
    /\ start \in [Request -> Nat] /\ wakeAt \in [Request -> Nat]
    /\ outcome \in [Request -> Answers \cup Failures \cup {Pending}]
    /\ calls \in [Request -> Nat] /\ tried \in [Request -> SUBSET Account]
    /\ held \in [Request -> Node \cup {NoNode}]

InList(r) == list[r] = <<>> \/ index[r] < Len(list[r])

RequestInv ==
    /\ RequestTypeOK
    /\ \A r \in Request : InList(r) /\ Standing(r) /\ held[r] \in created \cup {NoNode}

ExecInv == PoolInv /\ IsFiniteSet(created) /\ RequestInv

LEMMA ExecInitInv == ExecInit => ExecInv
<1>. SUFFICES ASSUME ExecInit PROVE ExecInv
  OBVIOUS
<1>1. PoolInv
  BY InitPool DEF ExecInit
<1>2. IsFiniteSet(created)
  BY FS_EmptySet DEF ExecInit, Init
<1>3. RequestTypeOK
  BY RequestAssumption, LimitAssumption, ClockAssumption DEF ExecInit, RequestTypeOK, Phases
<1>4. ASSUME NEW r \in Request PROVE InList(r) /\ Standing(r) /\ held[r] \in created \cup {NoNode}
  <2>1. list[r] \in Seq(Account) /\ index[r] = 0
    BY <1>3, <1>4 DEF ExecInit, RequestTypeOK
  <2>2. InList(r)
    BY <2>1 DEF InList
  <2>3. Standing(r) /\ held[r] \in created \cup {NoNode}
    BY DEF ExecInit, Standing
  <2>. QED  BY <2>2, <2>3
<1>. QED  BY <1>1, <1>2, <1>3, <1>4 DEF ExecInv, RequestInv

LEMMA InvIsType == ExecInv => ExecTypeOK
<1>. SUFFICES ASSUME ExecInv PROVE ExecTypeOK
  OBVIOUS
<1>1. held \in [Request -> created \cup {NoNode}]
  BY DEF ExecInv, RequestInv, RequestTypeOK
<1>2. \A r \in Request : index[r] \in Nat /\ (list[r] = <<>> \/ index[r] < Len(list[r]))
  BY DEF ExecInv, RequestInv, RequestTypeOK, InList
<1>. QED  BY <1>1, <1>2 DEF ExecInv, PoolInv, RequestInv, RequestTypeOK, ExecTypeOK

\* The next position of a list is a position of the list.
LEMMA AdvancedInList ==
  ASSUME RequestInv, NEW r \in Request
  PROVE  /\ Advanced(r) \in Nat /\ (list[r] = <<>> \/ Advanced(r) < Len(list[r]))
         /\ list[r] # <<>> => Current(r) \in Account
<1>1. list[r] \in Seq(Account) /\ index[r] \in Nat /\ Len(list[r]) \in Nat
  BY DEF RequestInv, RequestTypeOK
<1>2. list[r] # <<>> => index[r] < Len(list[r])
  BY DEF RequestInv, InList
<1>3. list[r] # <<>> => Len(list[r]) > 0
  BY <1>1
<1>4. list[r] # <<>> => Current(r) \in Account
  BY <1>1, <1>2 DEF Current
<1>. QED  BY <1>1, <1>3, <1>4 DEF Advanced

\* A step of request r that leaves the pool's objects in place is judged by
\* what it does to r alone.
OnlyOf(r) ==
    \A q \in Request \ {r} :
       /\ phase'[q] = phase[q] /\ list'[q] = list[q] /\ index'[q] = index[q]
       /\ attempt'[q] = attempt[q] /\ held'[q] = held[q]

LEMMA OneRequest ==
  ASSUME RequestInv, created \subseteq created', NEW r \in Request, OnlyOf(r), RequestTypeOK',
         InList(r)', Standing(r)', held'[r] \in created' \cup {NoNode}
  PROVE  RequestInv'
<1>1. ASSUME NEW q \in Request \ {r}
      PROVE  InList(q)' /\ Standing(q)' /\ held'[q] \in created' \cup {NoNode}
  BY <1>1 DEF RequestInv, OnlyOf, InList, Standing
<1>. QED  BY <1>1 DEF RequestInv

LEMMA FinishTyped ==
  ASSUME RequestInv, created \subseteq created', NEW r \in Request, NEW how \in Answers \cup Failures,
         Finish(r, how)
  PROVE  RequestInv'
<1>1. RequestTypeOK'
  BY RequestAssumption, ClockAssumption
     DEF RequestInv, RequestTypeOK, Finish, Goto, Phases, nodeList, history
<1>2. OnlyOf(r)
  BY DEF RequestInv, RequestTypeOK, Finish, Goto, OnlyOf, nodeList
<1>3. InList(r)' /\ Standing(r)' /\ held'[r] = NoNode
  BY DEF RequestInv, RequestTypeOK, Finish, Goto, InList, Standing, nodeList
<1>. QED  BY <1>1, <1>2, <1>3, OneRequest

\* `continue', which may have advanced the list or started the clock.
LEMMA ContinueTyped ==
  ASSUME RequestInv, created \subseteq created', NEW r \in Request, Continue(r),
         attempt[r] \in 0 .. MaxAttempts,
         index' = index \/ index' = [index EXCEPT ![r] = Advanced(r)],
         start' \in [Request -> Nat],
         UNCHANGED <<list, valid, target, held, wakeAt, outcome, history>>
  PROVE  RequestInv'
<1>1. Advanced(r) \in Nat /\ (list[r] = <<>> \/ Advanced(r) < Len(list[r]))
  BY AdvancedInList
<1>2. attempt[r] + 1 \in 1 .. MaxAttempts + 1
  BY LimitAssumption
<1>3. index' \in [Request -> Nat] /\ attempt' \in [Request -> 0 .. MaxAttempts + 1]
  <2>1. index' \in [Request -> Nat]
    BY <1>1 DEF RequestInv, RequestTypeOK
  <2>2. attempt' \in [Request -> 0 .. MaxAttempts + 1]
    BY <1>2 DEF RequestInv, RequestTypeOK, Continue, NextAttempt
  <2>. QED  BY <2>1, <2>2
<1>4. RequestTypeOK'
  BY <1>3 DEF RequestInv, RequestTypeOK, Continue, Phases, history
<1>5. OnlyOf(r)
  BY DEF RequestInv, RequestTypeOK, Continue, OnlyOf
<1>6. InList(r)' /\ held'[r] \in created' \cup {NoNode}
  BY <1>1 DEF RequestInv, RequestTypeOK, InList
<1>7. Standing(r)'
  BY <1>2 DEF RequestInv, RequestTypeOK, Continue, NextAttempt, Standing
<1>. QED  BY <1>4, <1>5, <1>6, <1>7, OneRequest

\* The steps that end in an await: after a call was sent, or before a wait.
LEMMA AwaitTyped ==
  ASSUME RequestInv, created \subseteq created', NEW r \in Request,
         NEW p \in {"sent", "updating", "delay"}, Goto(r, p),
         phase[r] \in {"build", "sent", "updating"}, p = "sent" => phase[r] = "build",
         index' = index \/ index' = [index EXCEPT ![r] = Advanced(r)],
         wakeAt' \in [Request -> Nat], calls' \in [Request -> Nat],
         UNCHANGED <<list, valid, attempt, target, held, start, outcome, tried>>
  PROVE  RequestInv'
<1>1. Advanced(r) \in Nat /\ (list[r] = <<>> \/ Advanced(r) < Len(list[r]))
  BY AdvancedInList
<1>2. index' \in [Request -> Nat]
  BY <1>1 DEF RequestInv, RequestTypeOK
<1>3. RequestTypeOK'
  BY <1>2 DEF RequestInv, RequestTypeOK, Goto, Phases
<1>4. OnlyOf(r)
  BY DEF RequestInv, RequestTypeOK, Goto, OnlyOf
<1>5. InList(r)' /\ held'[r] \in created' \cup {NoNode}
  BY <1>1 DEF RequestInv, RequestTypeOK, InList
<1>6. attempt[r] \in 1 .. MaxAttempts /\ (p = "sent" => held[r] \in created)
  BY DEF RequestInv, Standing
<1>7. Standing(r)'
  BY <1>6 DEF RequestInv, RequestTypeOK, Goto, Standing
<1>. QED  BY <1>3, <1>4, <1>5, <1>7, OneRequest

LEMMA SetTimerTyped ==
  ASSUME RequestInv, now \in Nat, NEW r \in Request, NEW wait \in Nat, SetTimer(r, wait)
  PROVE  wakeAt' \in [Request -> Nat]
BY DEF RequestInv, RequestTypeOK, SetTimer

\* Every delay before a retry is a number of milliseconds: a retry follows an
\* attempt that was counted.
LEMMA DelayTyped ==
  ASSUME RequestInv, NEW r \in Request, phase[r] \in {"build", "sent", "updating"}
  PROVE  Delay(attempt[r]) \in Nat
<1>1. attempt[r] \in 1 .. MaxAttempts
  BY DEF RequestInv, Standing
<1>. QED  BY <1>1, LimitAssumption

-----------------------------------------------------------------------------
(* What a request does to the pool. *)

\* A request looks a node up and may open its channel, reports a failure or a
\* success of the node it holds, or leaves the pool alone.
Opened(n) ==
    /\ ReadmitNodes
    /\ UNCHANGED <<now, settings, nodes, network, identity, backoff>>
    /\ openChannels' = openChannels \cup {n}

LEMMA OpenedPool ==
  ASSUME PoolInv, NEW n \in created \cup healthyNodes', Opened(n)
  PROVE  PoolInv' /\ n \in created
<1>1. healthyNodes' \subseteq created /\ earliestReadmitTime' \in Nat
  BY ReadmitNodesStep DEF Opened, PoolInv
<1>2. TypeOK'
  BY <1>1 DEF Opened, PoolInv, TypeOK, settings, identity, backoff
<1>3. MappedAreMembers'
  BY DEF Opened, PoolInv, MappedAreMembers, identity
<1>. QED  BY <1>1, <1>2, <1>3 DEF PoolInv

LEMMA CandidatesExist ==
  ASSUME PoolInv, NEW key \in Account, NEW n \in Candidates(key)
  PROVE  n \in created
BY NoKeyAssumption DEF PoolInv, TypeOK, Candidates

LEMMA WrongNodePool ==
  ASSUME ExecInv, NEW r \in Request, WrongNode(r)
  PROVE  PoolInv' /\ created' = created
<1>1. held[r] \in created /\ held[r] \in Node
  BY DEF WrongNode, Answered, At, ExecInv, RequestInv, Standing, PoolInv, TypeOK
<1>2. /\ nodeMaxBackoff[held[r]] \in Nat /\ nodeMinBackoff[held[r]] \in Nat
      /\ currentBackoff[held[r]] \div 2 \in Nat /\ now \in Nat
  BY <1>1, Numbers DEF ExecInv, PoolInv
<1>. DEFINE wait == Smaller(2 * Recovered(held[r]), nodeMaxBackoff[held[r]])
<1>3. wait \in Nat
  BY <1>2 DEF Smaller, Recovered, Larger
<1>4. /\ currentBackoff' = [currentBackoff EXCEPT ![held[r]] = wait]
      /\ readmitTime' = [readmitTime EXCEPT ![held[r]] = now + wait]
      /\ healthyNodes' = Deselect(held[r])
      /\ UNCHANGED <<now, settings, earliestReadmitTime, nodes, network, identity,
                     nodeMinBackoff, nodeMaxBackoff, openChannels>>
  BY DEF WrongNode
<1>. HIDE DEF wait
<1>5. now + wait \in Nat
  BY <1>2, <1>3
<1>6. currentBackoff' \in [Node -> Nat] /\ readmitTime' \in [Node -> Nat]
  BY <1>3, <1>4, <1>5 DEF ExecInv, PoolInv, TypeOK
<1>. QED  BY <1>4, <1>6 DEF ExecInv, PoolInv, TypeOK, MappedAreMembers, settings, identity, Deselect

LEMMA RequestPool ==
  ASSUME ExecInv, NEW r \in Request, Execute(r) \/ Step(r)
  PROVE  PoolInv' /\ created' = created
<1>. USE DEF ExecInv
<1>1. CASE UNCHANGED netVars
  BY <1>1 DEF netVars, PoolInv, TypeOK, MappedAreMembers, settings, pool, identity, backoff
<1>2. CASE LookedUp
  BY <1>2, LookedUpPool DEF LookedUp, identity
<1>3. CASE Execute(r)
  BY <1>1, <1>2, <1>3 DEF Execute, GetNodes, LookedUp
<1>4. CASE PickNode(r)
  <2>1. PICK n \in Candidates(Current(r)) : Opened(n)
    BY <1>4 DEF PickNode, Opened
  <2>2. Current(r) \in Account
    BY <1>4, AdvancedInList DEF PickNode
  <2>. QED  BY <2>1, <2>2, CandidatesExist, OpenedPool DEF Opened, identity
<1>5. CASE PickNodeFails(r)
  BY <1>2, <1>5 DEF PickNodeFails, LookedUp
<1>6. CASE PickAnyNode(r)
  <2>1. LookedUp \/ \E n \in healthyNodes' : Opened(n)
    BY <1>6 DEF PickAnyNode, LookedUp, Opened
  <2>. QED  BY <1>2, <2>1, OpenedPool DEF Opened, identity
<1>7. CASE CallFails(r)
  <2>1. held[r] \in created
    BY <1>7 DEF CallFails, At, RequestInv, Standing
  <2>. QED  BY <1>1, <1>7, <2>1, BackOffPool DEF CallFails, BackOff, identity
<1>8. CASE AnswerEnds(r) \/ AnswerRetries(r)
  <2>1. DecreaseBackoff(held[r]) /\ held[r] \in Node
    BY <1>8 DEF AnswerEnds, AnswerRetries, DecreaseBackoff, PoolInv, TypeOK
  <2>. QED  BY <2>1, DecreasePool DEF DecreaseBackoff, identity
<1>9. CASE WrongNode(r)
  BY <1>9, WrongNodePool
<1>10. CASE \/ SetupFails(r) \/ Validate(r) \/ StopTrying(r) \/ SkipNode(r) \/ SignerFails(r) \/ Send(r)
            \/ HandleUnhealthyNode(r) \/ CallRejected(r) \/ Updated(r) \/ Wake(r)
  BY <1>1, <1>10 DEF SetupFails, Validate, StopTrying, SkipNode, SignerFails, Send,
     HandleUnhealthyNode, CallRejected, Updated, Wake, netVars
<1>. QED  BY <1>3, <1>4, <1>5, <1>6, <1>7, <1>8, <1>9, <1>10 DEF Step

-----------------------------------------------------------------------------
(* Every step keeps a request well typed. *)

\* The list a request is executed with: the application's, cut to
\* MaxNodes, or the accounts of distinct healthy nodes.
LEMMA ListTyped ==
  ASSUME ExecInv, NEW r \in Request, Execute(r)
  PROVE  \E l \in Seq(Account) : list' = [list EXCEPT ![r] = l]
<1>1. CASE list' = [list EXCEPT ![r] = Trimmed(r)]
  <2>1. list[r] \in Seq(Account)
    BY DEF ExecInv, RequestInv, RequestTypeOK
  <2>2. ASSUME MaxNodes > 0, Len(list[r]) > MaxNodes
        PROVE  SubSeq(list[r], 1, MaxNodes) \in Seq(Account)
    <3>1. MaxNodes \in 1 .. Len(list[r])
      BY <2>1, <2>2, LimitAssumption
    <3>. QED  BY <2>1, <3>1, LimitAssumption
  <2>. QED  BY <1>1, <2>1, <2>2 DEF Trimmed
<1>2. CASE list[r] = <<>>
  <2>1. PICK chosen \in SUBSET Node : \E order \in Orders(chosen) :
                /\ GetNodes(NodesToUse, chosen)
                /\ list' = [list EXCEPT ![r] = order]
    BY <1>2 DEF Execute
  <2>2. PICK order \in Orders(chosen) : list' = [list EXCEPT ![r] = order]
    BY <2>1
  <2>3. chosen \subseteq created
    BY <2>1, ReadmitNodesStep DEF GetNodes, MostHealthyNodes, ExecInv, PoolInv
  <2>4. Cardinality(chosen) \in Nat
    BY <2>3, FS_Subset, FS_CardinalityType DEF ExecInv
  <2>5. order \in [1 .. Cardinality(chosen) -> Account]
    BY <2>2 DEF Orders, Bijection, Injection, ExecInv, PoolInv, TypeOK
  <2>6. order \in Seq(Account)
    BY <2>4, <2>5
  <2>. QED  BY <2>2, <2>6
<1>. QED  BY <1>1, <1>2 DEF Execute

LEMMA ExecuteTyped ==
  ASSUME ExecInv, created' = created, NEW r \in Request, Execute(r)
  PROVE  RequestInv'
<1>. USE DEF ExecInv
<1>1. PICK l \in Seq(Account) : list' = [list EXCEPT ![r] = l]
  BY ListTyped
<1>2. PICK accounts \in SUBSET Account : valid' = [valid EXCEPT ![r] = accounts]
  <2>1. {account[n] : n \in nodes} \subseteq Account
    BY DEF PoolInv, TypeOK
  <2>. QED  BY <2>1 DEF Execute
<1>3. /\ phase[r] = "new" /\ Goto(r, "setup")
      /\ UNCHANGED <<index, attempt, target, held, timing, outcome, history>>
  BY DEF Execute, At
<1>4. index[r] = 0 /\ attempt[r] = 0
  BY <1>3 DEF RequestInv, Standing
<1>5. RequestTypeOK'
  BY <1>1, <1>2, <1>3 DEF RequestInv, RequestTypeOK, Goto, Phases, timing, history
<1>6. OnlyOf(r)
  BY <1>1, <1>3 DEF RequestInv, RequestTypeOK, Goto, OnlyOf
<1>7. InList(r)' /\ held'[r] \in created' \cup {NoNode}
  <2>1. l = <<>> \/ 0 < Len(l)
    OBVIOUS
  <2>. QED  BY <1>1, <1>3, <1>4, <2>1 DEF RequestInv, RequestTypeOK, InList
<1>8. Standing(r)'
  BY <1>3, <1>4 DEF RequestInv, RequestTypeOK, Goto, Standing
<1>. QED  BY <1>5, <1>6, <1>7, <1>8, OneRequest

\* A node is picked for the current account of the list, or any node when the
\* list is empty: then its account becomes the list.
LEMMA PickTyped ==
  ASSUME ExecInv, created' = created, NEW r \in Request, Trying(r), Goto(r, "build"),
         NEW n \in created, NEW a \in Account,
         held' = [held EXCEPT ![r] = n], target' = [target EXCEPT ![r] = a],
         tried' = [tried EXCEPT ![r] = @ \cup {a}],
         \/ list' = list /\ (index' = index \/ index' = [index EXCEPT ![r] = Advanced(r)])
         \/ list' = [list EXCEPT ![r] = <<a>>] /\ index' = [index EXCEPT ![r] = 0],
         UNCHANGED <<valid, attempt, timing, outcome, calls>>
  PROVE  RequestInv'
<1>. USE DEF ExecInv
<1>1. phase[r] = "loop" /\ ~(attempt[r] > MaxAttempts)
  BY DEF Trying, InLoop, Exhausted
<1>2. attempt[r] \in 1 .. MaxAttempts
  BY <1>1, LimitAssumption DEF RequestInv, Standing
<1>3. Advanced(r) \in Nat /\ (list[r] = <<>> \/ Advanced(r) < Len(list[r]))
  BY AdvancedInList
<1>4. list' \in [Request -> Seq(Account)]
  <2>1. <<a>> \in Seq(Account)
    OBVIOUS
  <2>2. CASE list' = [list EXCEPT ![r] = <<a>>]
    BY <2>1, <2>2 DEF RequestInv, RequestTypeOK
  <2>. QED  BY <2>2 DEF RequestInv, RequestTypeOK
<1>5. index' \in [Request -> Nat]
  <2>1. CASE index' = [index EXCEPT ![r] = Advanced(r)]
    BY <1>3, <2>1 DEF RequestInv, RequestTypeOK
  <2>2. CASE index' = [index EXCEPT ![r] = 0]
    BY <2>2 DEF RequestInv, RequestTypeOK
  <2>. QED  BY <2>1, <2>2 DEF RequestInv, RequestTypeOK
<1>6. n \in Node
  BY DEF PoolInv, TypeOK
<1>7. RequestTypeOK'
  BY <1>4, <1>5, <1>6 DEF RequestInv, RequestTypeOK, Goto, Phases, timing
<1>8. OnlyOf(r)
  BY DEF RequestInv, RequestTypeOK, Goto, OnlyOf
<1>9. InList(r)'
  BY <1>3 DEF RequestInv, RequestTypeOK, InList
<1>10. Standing(r)' /\ held'[r] \in created'
  BY <1>2 DEF RequestInv, RequestTypeOK, Goto, Standing
<1>. QED  BY <1>7, <1>8, <1>9, <1>10, OneRequest

LEMMA SendTyped ==
  ASSUME ExecInv, created' = created, NEW r \in Request, Send(r)
  PROVE  RequestInv'
<1>. USE DEF ExecInv
<1>1. now \in Nat /\ GrpcDeadline \in Nat
  BY Numbers, LimitAssumption DEF PoolInv
<1>2. wakeAt' \in [Request -> Nat]
  BY <1>1, SetTimerTyped DEF Send
<1>3. calls' \in [Request -> Nat]
  BY DEF Send, RequestInv, RequestTypeOK
<1>4. /\ phase[r] = "build" /\ Goto(r, "sent")
      /\ index' = [index EXCEPT ![r] = Advanced(r)]
      /\ UNCHANGED <<list, valid, attempt, target, held, start, outcome, tried>>
  BY DEF Send, At
<1>. QED  BY <1>2, <1>3, <1>4, AwaitTyped

\* The steps that wait before the next attempt.
LEMMA WaitTyped ==
  ASSUME ExecInv, created' = created, NEW r \in Request, NEW p \in {"updating", "delay"}, Goto(r, p),
         phase[r] \in {"build", "sent", "updating"},
         wakeAt' = wakeAt \/ SetTimer(r, Delay(attempt[r])),
         UNCHANGED <<nodeList, attempt, target, held, start, outcome, history>>
  PROVE  RequestInv'
<1>. USE DEF ExecInv
<1>1. now \in Nat /\ Delay(attempt[r]) \in Nat
  BY Numbers, DelayTyped DEF PoolInv
<1>2. wakeAt' \in [Request -> Nat]
  <2>1. CASE SetTimer(r, Delay(attempt[r]))
    BY <1>1, <2>1, SetTimerTyped
  <2>. QED  BY <2>1 DEF RequestInv, RequestTypeOK
<1>3. calls' \in [Request -> Nat]
  BY DEF RequestInv, RequestTypeOK, history
<1>. QED  BY <1>2, <1>3, AwaitTyped DEF nodeList, history

LEMMA StepTyped ==
  ASSUME ExecInv, created' = created, NEW r \in Request, Execute(r) \/ Step(r)
  PROVE  RequestInv'
<1>. USE DEF ExecInv
<1>1. CASE \E how \in Answers \cup Failures : Finish(r, how)
  BY <1>1, FinishTyped
<1>2. \A f \in {"setup failed", "wrong nodes", "no node", "unhealthy", "signer failed",
                "call failed", "timeout", "exhausted"} : f \in Answers \cup Failures
  BY DEF Failures
<1>3. start' = start => start' \in [Request -> Nat]
  BY DEF RequestInv, RequestTypeOK
<1>4. CASE Execute(r)
  BY <1>4, ExecuteTyped
<1>5. CASE \/ SetupFails(r) \/ StopTrying(r) \/ PickNodeFails(r) \/ SignerFails(r) \/ CallRejected(r)
           \/ AnswerEnds(r)
  BY <1>1, <1>2, <1>5
     DEF SetupFails, StopTrying, PickNodeFails, SignerFails, CallRejected, AnswerEnds
<1>6. CASE Validate(r)
  <2>1. CASE Finish(r, "wrong nodes")
    BY <1>1, <1>2, <2>1
  <2>2. CASE Continue(r) /\ start' = [start EXCEPT ![r] = now]
             /\ UNCHANGED <<nodeList, target, held, wakeAt, outcome, history>>
    <3>1. attempt[r] = 0 /\ now \in Nat
      BY <1>6, Numbers DEF Validate, At, RequestInv, Standing, PoolInv
    <3>2. start' \in [Request -> Nat]
      BY <2>2, <3>1 DEF RequestInv, RequestTypeOK
    <3>. QED  BY <2>2, <3>1, <3>2, ContinueTyped, LimitAssumption DEF nodeList
  <2>. QED  BY <1>6, <2>1, <2>2 DEF Validate
<1>7. CASE SkipNode(r)
  <2>1. attempt[r] \in 0 .. MaxAttempts
    BY <1>7, LimitAssumption
       DEF SkipNode, Trying, InLoop, Exhausted, RequestInv, Standing
  <2>2. UNCHANGED <<list, valid, target, held, start, wakeAt, outcome, history>>
    BY <1>7 DEF SkipNode, timing
  <2>. QED  BY <1>3, <1>7, <2>1, <2>2, ContinueTyped DEF SkipNode
<1>8. CASE PickNode(r)
  <2>1. Current(r) \in Account
    BY <1>8, AdvancedInList DEF PickNode
  <2>2. PICK n \in Candidates(Current(r)) : held' = [held EXCEPT ![r] = n]
    BY <1>8 DEF PickNode
  <2>3. n \in created
    BY <2>1, <2>2, CandidatesExist
  <2>4. index' = index \/ index' = [index EXCEPT ![r] = Advanced(r)]
    <3>1. CASE r \in OnDemand
      BY <1>8, <3>1 DEF PickNode
    <3>2. CASE r \notin OnDemand
      BY <1>8, <3>2 DEF PickNode, RequestInv, RequestTypeOK
    <3>. QED  BY <3>1, <3>2
  <2>5. /\ Trying(r) /\ Goto(r, "build")
        /\ target' = [target EXCEPT ![r] = Current(r)]
        /\ tried' = [tried EXCEPT ![r] = @ \cup {Current(r)}]
        /\ UNCHANGED <<list, valid, attempt, timing, outcome, calls>>
    BY <1>8 DEF PickNode
  <2>. QED  BY <2>1, <2>2, <2>3, <2>4, <2>5, PickTyped
<1>9. CASE PickAnyNode(r)
  <2>1. CASE Finish(r, "no node")
    BY <1>1, <1>2, <2>1
  <2>2. ASSUME NEW n \in healthyNodes',
               held' = [held EXCEPT ![r] = n], list' = [list EXCEPT ![r] = <<account[n]>>],
               target' = [target EXCEPT ![r] = account[n]],
               tried' = [tried EXCEPT ![r] = @ \cup {account[n]}],
               index' = [index EXCEPT ![r] = 0], Goto(r, "build"),
               UNCHANGED <<valid, attempt, timing, outcome, calls>>
        PROVE  RequestInv'
    <3>1. ReadmitNodes /\ Trying(r)
      BY <1>9 DEF PickAnyNode
    <3>2. n \in created /\ account[n] \in Account
      BY <2>2, <3>1, ReadmitNodesStep DEF PoolInv, TypeOK
    <3>. QED  BY <2>2, <3>1, <3>2, PickTyped
  <2>. QED  BY <1>9, <2>1, <2>2 DEF PickAnyNode
<1>10. CASE Send(r)
  BY <1>10, SendTyped
<1>11. CASE HandleUnhealthyNode(r)
  <2>1. CASE SetTimer(r, Delay(attempt[r])) /\ Goto(r, "delay")
             /\ UNCHANGED <<nodeList, attempt, target, held, start, outcome, history>>
    BY <1>11, <2>1, WaitTyped DEF HandleUnhealthyNode, At
  <2>2. CASE Finish(r, "unhealthy")
    BY <1>1, <1>2, <2>2
  <2>3. CASE index' = [index EXCEPT ![r] = Advanced(r)] /\ Continue(r)
             /\ UNCHANGED <<list, valid, target, held, timing, outcome, history>>
    <3>1. attempt[r] \in 0 .. MaxAttempts
      BY <1>11, LimitAssumption DEF HandleUnhealthyNode, At, RequestInv, Standing
    <3>. QED  BY <1>3, <2>3, <3>1, ContinueTyped DEF timing
  <2>. QED  BY <1>11, <2>1, <2>2, <2>3 DEF HandleUnhealthyNode
<1>12. CASE CallFails(r) \/ Wake(r)
  <2>1. attempt[r] \in 0 .. MaxAttempts
    BY <1>12, LimitAssumption DEF CallFails, Wake, At, RequestInv, Standing
  <2>2. Continue(r) /\ UNCHANGED <<nodeList, target, held, timing, outcome, history>>
    BY <1>12 DEF CallFails, Wake
  <2>. QED  BY <1>3, <2>1, <2>2, ContinueTyped DEF nodeList, timing
<1>13. CASE AnswerRetries(r)
  BY <1>13, WaitTyped DEF AnswerRetries, Answered, At
<1>14. CASE WrongNode(r)
  BY <1>14, WaitTyped DEF WrongNode, Answered, At
<1>15. CASE Updated(r)
  BY <1>15, WaitTyped DEF Updated, At
<1>. QED  BY <1>4, <1>5, <1>6, <1>7, <1>8, <1>9, <1>10, <1>11, <1>12, <1>13, <1>14, <1>15 DEF Step

LEMMA NextInv == ExecInv /\ [ExecNext]_vars => ExecInv'
<1>. SUFFICES ASSUME ExecInv, [ExecNext]_vars PROVE ExecInv'
  OBVIOUS
<1>1. ASSUME NEW r \in Request, Execute(r) \/ Step(r) PROVE ExecInv'
  <2>1. PoolInv' /\ created' = created
    BY <1>1, RequestPool
  <2>. QED  BY <1>1, <2>1, StepTyped DEF ExecInv
<1>2. CASE [Next]_netVars /\ UNCHANGED requestVars
  <2>1. PoolInv' /\ created \subseteq created' /\ IsFiniteSet(created')
    BY <1>2, NextPool, CreatedStep DEF ExecInv
  <2>2. RequestInv'
    BY <1>2, <2>1 DEF ExecInv, RequestInv, RequestTypeOK, InList, Standing, requestVars, nodeList,
       timing, history
  <2>. QED  BY <2>1, <2>2 DEF ExecInv
<1>. QED  BY <1>1, <1>2 DEF ExecNext, Configure, PassTime, Next, vars

LEMMA ExecIsInvariant == ExecSpec => []ExecInv
  BY ExecInitInv, NextInv, PTL DEF ExecSpec

\* Whatever requests, failures, answers, address-book updates and settings come
\* in which order: the cursor of a node list never leaves the list, no attempt
\* is counted past the limit, and a request only holds nodes that exist.
THEOREM ExecTypeSafe == ExecSpec => []ExecTypeOK
  BY ExecIsInvariant, InvIsType, PTL

-----------------------------------------------------------------------------
(* Waits do not pile up.  When nodes move, _handleInvalidNodeAccountId     *)
(* backs a node off whether or not it was waiting, and the claim is false. *)

LEMMA ReconfigureKeepsWaits ==
  ASSUME PoolInv, Reconfigure \/ Tick, NEW n \in created
  PROVE  readmitTime'[n] = readmitTime[n]
<1>1. n \in Node
  BY DEF PoolInv, TypeOK
<1>2. ASSUME NEW book \in Books, SetNetwork(book) PROVE readmitTime'[n] = readmitTime[n]
  BY <1>1, <1>2 DEF SetNetwork, Repopulate
<1>3. ASSUME NEW secure \in BOOLEAN, SetTransportSecurity(secure) PROVE readmitTime'[n] = readmitTime[n]
  BY <1>1, <1>3 DEF SetTransportSecurity, CloneMembers
<1>. QED  BY <1>2, <1>3 DEF Reconfigure, SetNetworkFails, Close, SetMinBackoff, SetMaxBackoff,
          SetNodeMinReadmitPeriod, SetNodeMaxReadmitPeriod, Tick, backoff

LEMMA OnlyFailuresWait ==
  ASSUME ~NodesMove, ExecInv, [ExecNext]_vars, NEW n \in created, readmitTime'[n] # readmitTime[n]
  PROVE  IsHealthy(n)
<1>1. PICK r \in Request : Execute(r) \/ Step(r)
  BY ReconfigureKeepsWaits DEF ExecNext, Configure, PassTime, vars, netVars, backoff, ExecInv
<1>2. CallFails(r)
  BY <1>1 DEF Execute, GetNodes, Step, SetupFails, Validate, StopTrying, SkipNode, PickNode,
     PickNodeFails, PickAnyNode, SignerFails, Send, HandleUnhealthyNode, CallRejected, AnswerEnds,
     AnswerRetries, WrongNode, DecreaseBackoff, Updated, Wake, netVars, backoff
<1>3. held[r] \in Node /\ n \in Node
  BY <1>2 DEF CallFails, At, ExecInv, RequestInv, Standing, PoolInv, TypeOK
<1>4. BacksOff(r) /\ BackOff(held[r])
  BY <1>2 DEF CallFails, netVars, backoff
<1>5. n = held[r]
  BY <1>3, <1>4 DEF BackOff, ExecInv, PoolInv, TypeOK
<1>. QED  BY <1>4, <1>5 DEF BacksOff

\* As long as no node answers that it has moved, a failure extends the wait of
\* a node only when the node was not waiting: requests that fail at the same
\* node together back it off once.
THEOREM WaitsDoNotPileUpSafe == ~NodesMove /\ ExecSpec => WaitsDoNotPileUp
<1>. SUFFICES ASSUME ~NodesMove PROVE ExecSpec => WaitsDoNotPileUp
  OBVIOUS
<1>1. ExecInv /\ [ExecNext]_vars =>
        [ \A n \in created : readmitTime'[n] # readmitTime[n] => IsHealthy(n) ]_vars
  BY OnlyFailuresWait
<1>. QED  BY <1>1, ExecIsInvariant, PTL DEF ExecSpec, WaitsDoNotPileUp

-----------------------------------------------------------------------------
(* Every node has its turn.  A transaction that is signed on demand takes  *)
(* the node it signs for with List.next and skips the one after it; so the *)
(* claims are about requests whose list was signed for up front.           *)

Skipped(r, i) == valid[r] # {} /\ list[r][i] \notin valid[r]
HadTurn(r, i) == list[r][i] \in tried[r] \/ Skipped(r, i)

\* The accounts before the cursor had their turn, and a request that is being
\* built for a node has the cursor at that node.
TakesTurns(r) ==
    /\ \A i \in DOMAIN list[r] : i <= index[r] => HadTurn(r, i)
    /\ phase[r] = "build" => list[r] # <<>> /\ HadTurn(r, index[r] + 1)

LEMMA TurnsInit == ExecInit => \A r \in Request : TakesTurns(r)
<1>. SUFFICES ASSUME ExecInit, NEW r \in Request PROVE TakesTurns(r)
  OBVIOUS
<1>1. list[r] \in Seq(Account) /\ index[r] = 0 /\ phase[r] = "new"
  BY RequestAssumption DEF ExecInit
<1>. QED  BY <1>1 DEF TakesTurns

\* The cursor moves on only past an account that had its turn.
LEMMA AdvanceTurns ==
  ASSUME ExecInv, NEW r \in Request, TakesTurns(r), HadTurn(r, index[r] + 1),
         index' = [index EXCEPT ![r] = Advanced(r)], phase'[r] # "build",
         list'[r] = list[r], valid'[r] = valid[r], tried'[r] = tried[r]
  PROVE  TakesTurns(r)'
<1>1. list[r] \in Seq(Account) /\ index[r] \in Nat /\ index \in [Request -> Nat]
  BY DEF ExecInv, RequestInv, RequestTypeOK
<1>2. index'[r] = index[r] + 1 \/ index'[r] = 0
  BY <1>1 DEF Advanced
<1>. SUFFICES ASSUME NEW i \in DOMAIN list[r], i <= index'[r]
              PROVE  HadTurn(r, i)
  BY DEF TakesTurns, HadTurn, Skipped
<1>3. i <= index[r] \/ i = index[r] + 1
  BY <1>1, <1>2
<1>. QED  BY <1>3 DEF TakesTurns

LEMMA StayTurns ==
  ASSUME ExecInv, NEW r \in Request, TakesTurns(r),
         index'[r] = index[r], phase'[r] = "build" => phase[r] = "build",
         list'[r] = list[r], valid'[r] = valid[r], tried[r] \subseteq tried'[r]
  PROVE  TakesTurns(r)'
BY DEF TakesTurns, HadTurn, Skipped

LEMMA TurnsStep ==
  ASSUME OnDemand = {}, ExecInv, NEW q \in Request, TakesTurns(q), NEW r \in Request, Execute(r) \/ Step(r)
  PROVE  TakesTurns(q)'
<1>. USE DEF ExecInv, RequestInv, RequestTypeOK
<1>1. CASE q # r
  BY <1>1, StayTurns DEF Execute, Step, SetupFails, Validate, StopTrying, SkipNode, PickNode,
     PickNodeFails, PickAnyNode, SignerFails, Send, HandleUnhealthyNode, CallFails, CallRejected,
     AnswerEnds, AnswerRetries, WrongNode, Updated, Wake, Continue, Finish, Goto, nodeList, history
<1>. SUFFICES ASSUME q = r PROVE TakesTurns(r)'
  BY <1>1
<1>2. CASE Execute(r)
  <2>1. phase'[r] = "setup" /\ index'[r] = 0
    BY <1>2 DEF Execute, Goto, At, Standing
  <2>2. list' \in [Request -> Seq(Account)]
    BY <1>2, ExecuteTyped, RequestPool
  <2>3. \A i \in DOMAIN list'[r] : ~(i <= 0)
    BY <2>2
  <2>. QED  BY <2>1, <2>3 DEF TakesTurns
<1>3. CASE SkipNode(r)
  <2>1. HadTurn(r, index[r] + 1)
    BY <1>3 DEF SkipNode, Skips, Current, HadTurn, Skipped
  <2>. QED  BY <1>3, <2>1, AdvanceTurns DEF SkipNode, Continue, history
<1>4. CASE PickNode(r)
  <2>1. index'[r] = index[r] /\ tried'[r] = tried[r] \cup {list[r][index[r] + 1]} /\ list'[r] # <<>>
    BY <1>4 DEF PickNode, Current
  <2>. QED  BY <1>4, <2>1 DEF PickNode, TakesTurns, HadTurn, Skipped
<1>5. CASE Send(r)
  BY <1>5, AdvanceTurns DEF Send, At, Goto, TakesTurns
<1>6. CASE HandleUnhealthyNode(r)
  <2>1. CASE index' = [index EXCEPT ![r] = Advanced(r)] /\ Continue(r)
             /\ UNCHANGED <<list, valid, target, held, timing, outcome, history>>
    BY <1>6, <2>1, AdvanceTurns DEF HandleUnhealthyNode, At, Continue, TakesTurns, history
  <2>. QED  BY <1>6, <2>1, StayTurns DEF HandleUnhealthyNode, Finish, Goto, nodeList, history
<1>7. CASE PickAnyNode(r)
  BY <1>7, StayTurns DEF PickAnyNode, Finish, Goto, nodeList, history
<1>. QED  BY <1>2, <1>3, <1>4, <1>5, <1>6, <1>7, StayTurns DEF Step, SetupFails, Validate, StopTrying,
          PickNodeFails, SignerFails, CallFails, CallRejected, AnswerEnds, AnswerRetries, WrongNode,
          Updated, Wake, Continue, Finish, Goto, nodeList, history

LEMMA TurnsAreTaken == OnDemand = {} /\ ExecSpec => [](\A r \in Request : TakesTurns(r))
<1>. SUFFICES ASSUME OnDemand = {} PROVE ExecSpec => [](\A r \in Request : TakesTurns(r))
  OBVIOUS
<1>1. ASSUME ExecInv, \A r \in Request : TakesTurns(r), [ExecNext]_vars
      PROVE  (\A r \in Request : TakesTurns(r))'
  <2>1. CASE UNCHANGED requestVars
    BY <1>1, <2>1, StayTurns DEF requestVars, nodeList, history
  <2>2. ASSUME NEW r \in Request, Execute(r) \/ Step(r) PROVE \A q \in Request : TakesTurns(q)'
    BY <1>1, <2>2, TurnsStep
  <2>. QED  BY <1>1, <2>1, <2>2 DEF ExecNext, Configure, PassTime, vars
<1>. QED  BY <1>1, TurnsInit, ExecIsInvariant, PTL DEF ExecSpec

LEMMA GivingUp ==
  ASSUME ExecInv, \A q \in Request : TakesTurns(q), [ExecNext]_vars, NEW r \in Request,
         outcome'[r] = "unhealthy", outcome[r] # "unhealthy"
  PROVE  \A i \in DOMAIN list[r] : HadTurn(r, i)
<1>. USE DEF ExecInv, RequestInv, RequestTypeOK
<1>1. PICK q \in Request : Execute(q) \/ Step(q)
  BY DEF ExecNext, Configure, PassTime, vars, requestVars
<1>2. \E how : Finish(q, how)
  BY <1>1 DEF Execute, Step, SetupFails, Validate, StopTrying, SkipNode, PickNode,
     PickNodeFails, PickAnyNode, SignerFails, Send, HandleUnhealthyNode, CallFails, CallRejected,
     AnswerEnds, AnswerRetries, WrongNode, Updated, Wake
<1>3. PICK how : Finish(q, how)
  BY <1>2
<1>4. q = r /\ how = "unhealthy" /\ phase'[r] = "done"
  BY <1>3 DEF Finish, Goto
<1>5. outcome'[r] = "unhealthy" /\ Finish(r, "unhealthy")
  BY <1>3, <1>4
<1>6. HandleUnhealthyNode(r)
  BY <1>1, <1>4, <1>5 DEF Execute, Goto, Step, SetupFails, Validate, StopTrying, SkipNode, PickNode,
     PickNodeFails, PickAnyNode, SignerFails, Send, CallFails, CallRejected, Continue, Finish,
     AnswerEnds, Answers, AnswerRetries, WrongNode, Updated, Wake
<1>7. phase[r] = "build" /\ index[r] = Len(list[r]) - 1
  BY <1>4, <1>6 DEF HandleUnhealthyNode, At, Continue, Goto, IsLastNode
<1>8. list[r] \in Seq(Account) /\ index[r] \in Nat
  OBVIOUS
<1>9. \A i \in DOMAIN list[r] : i <= index[r] \/ i = index[r] + 1
  <2>. DEFINE n == Len(list[r])
              k == index[r]
  <2>1. DOMAIN list[r] = 1 .. n /\ n \in Nat /\ k \in Nat /\ k = n - 1
    BY <1>7, <1>8
  <2>. HIDE DEF n, k
  <2>2. \A i \in 1 .. n : i <= k \/ i = k + 1
    BY <2>1
  <2>. QED  BY <2>1, <2>2 DEF k
<1>. QED  BY <1>7, <1>9 DEF TakesTurns

\* A request whose list was signed for up front gives up with "all nodes are
\* unhealthy" only after every node of its list had its turn.
THEOREM GivesUpSafe == OnDemand = {} /\ ExecSpec => GivesUpAfterTryingAll
<1>. SUFFICES ASSUME OnDemand = {} PROVE ExecSpec => GivesUpAfterTryingAll
  OBVIOUS
<1>1. ExecInv /\ (\A r \in Request : TakesTurns(r)) /\ [ExecNext]_vars =>
        [ \A r \in Request : (outcome'[r] = "unhealthy" /\ outcome[r] # "unhealthy") =>
             \A i \in DOMAIN list[r] :
                list[r][i] \in tried[r] \/ (valid[r] # {} /\ list[r][i] \notin valid[r]) ]_vars
  BY GivingUp DEF HadTurn, Skipped
<1>. QED  BY <1>1, ExecIsInvariant, TurnsAreTaken, PTL DEF ExecSpec, GivesUpAfterTryingAll

-----------------------------------------------------------------------------
(* Retries move on, through a list that names no account twice.            *)

NamesNoAccountTwice == \A r \in Request : IsInjective(Given[r])

\* The cursor came from position p to where it is, over accounts it skipped.
CameFrom(r, p) ==
    \A j \in DOMAIN list[r] :
       (IF p <= index[r] THEN p < j /\ j <= index[r] ELSE p < j \/ j <= index[r]) => Skipped(r, j)

MovesOn(r) ==
    /\ phase[r] \in {"new", "setup"} => target[r] = NoKey
    /\ phase[r] = "build" => target[r] = Current(r)
    /\ phase[r] \in {"loop", "sent", "updating", "delay"} /\ target[r] # NoKey /\ ~WaitsForNode(r) =>
          \E p \in DOMAIN list[r] : list[r][p] = target[r] /\ CameFrom(r, p)

NoneTwice(r) == IsInjective(list[r]) /\ (phase[r] = "new" => list[r] = Given[r])

RotationInv == \A r \in Request : NoneTwice(r) /\ MovesOn(r) /\ TakesTurns(r)

LEMMA RotationInit == NamesNoAccountTwice /\ ExecInit => RotationInv
  BY TurnsInit DEF NamesNoAccountTwice, ExecInit, RotationInv, NoneTwice, MovesOn

LEMMA CutInjective ==
  ASSUME NEW l \in Seq(Account), NEW n \in Nat, n > 0, Len(l) > n, IsInjective(l)
  PROVE  IsInjective(SubSeq(l, 1, n))
<1>. DEFINE cut == SubSeq(l, 1, n)
<1>1. n \in 1 .. Len(l) /\ Len(l) \in Nat
  OBVIOUS
<1>2. \A i \in 1 .. n : l[i] \in Account
  BY <1>1
<1>3. Len(cut) = n /\ \A i \in 1 .. n : cut[i] = l[i]
  BY <1>2, SubSeqProperties
<1>4. DOMAIN cut = 1 .. n
  BY <1>1, <1>3
<1>. HIDE DEF cut
<1>5. IsInjective(cut)
  BY <1>1, <1>3, <1>4 DEF IsInjective
<1>. QED  BY <1>5 DEF cut

LEMMA NoneTwiceStep ==
  ASSUME OnDemand = {}, NamesNoAccountTwice, ExecInv, NEW q \in Request, NoneTwice(q),
         NEW r \in Request, Execute(r) \/ Step(r)
  PROVE  NoneTwice(q)'
<1>. USE DEF ExecInv, RequestInv, RequestTypeOK
<1>1. CASE list' = list /\ (phase'[q] = phase[q] \/ phase'[q] # "new")
  BY <1>1 DEF NoneTwice
<1>2. CASE Execute(r)
  <2>1. phase' = [phase EXCEPT ![r] = "setup"]
    BY <1>2 DEF Execute, Goto
  <2>2. CASE list' = [list EXCEPT ![r] = Trimmed(r)]
    <3>1. NoneTwice(r) => IsInjective(Trimmed(r))
      BY CutInjective, LimitAssumption DEF Trimmed, NoneTwice
    <3>. QED  BY <2>1, <2>2, <3>1 DEF NoneTwice
  <2>3. CASE list[r] = <<>>
    <3>1. PICK chosen \in SUBSET Node : \E order \in Orders(chosen) : list' = [list EXCEPT ![r] = order]
      BY <1>2, <2>3 DEF Execute
    <3>2. PICK order \in Orders(chosen) : list' = [list EXCEPT ![r] = order]
      BY <3>1
    <3>3. IsInjective(order)
      BY DEF Orders, Bijection, Injection
    <3>. QED  BY <2>1, <3>2, <3>3 DEF NoneTwice
  <2>. QED  BY <1>2, <2>2, <2>3 DEF Execute
<1>3. CASE Step(r)
  <2>1. list' = list /\ (\E p \in Phases \ {"new"} : phase' = [phase EXCEPT ![r] = p])
    BY <1>3 DEF Step, SetupFails, Validate, StopTrying, SkipNode, PickNode, PickNodeFails, PickAnyNode,
       SignerFails, Send, HandleUnhealthyNode, CallFails, CallRejected, AnswerEnds, AnswerRetries,
       WrongNode, Updated, Wake, Continue, Finish, Goto, nodeList, Phases
  <2>. QED  BY <1>1, <2>1
<1>. QED  BY <1>2, <1>3

\* One more position of the list is passed.
LEMMA AdvanceCameFrom ==
  ASSUME ExecInv, NEW r \in Request, NEW p \in DOMAIN list[r], CameFrom(r, p),
         p = index[r] + 1 \/ Skipped(r, index[r] + 1),
         index' = [index EXCEPT ![r] = Advanced(r)],
         list'[r] = list[r], valid'[r] = valid[r]
  PROVE  CameFrom(r, p)'
<1>1. list[r] \in Seq(Account) /\ index[r] \in Nat /\ index \in [Request -> Nat]
  BY DEF ExecInv, RequestInv, RequestTypeOK
<1>2. Len(list[r]) \in Nat /\ DOMAIN list[r] = 1 .. Len(list[r]) /\ index[r] < Len(list[r])
  BY <1>1 DEF ExecInv, RequestInv, InList
<1>3. index'[r] = (IF index[r] + 1 < Len(list[r]) THEN index[r] + 1 ELSE 0)
  BY <1>1 DEF Advanced
<1>. SUFFICES ASSUME NEW j \in DOMAIN list[r],
                     IF p <= index'[r] THEN p < j /\ j <= index'[r] ELSE p < j \/ j <= index'[r]
              PROVE  Skipped(r, j)
  BY DEF CameFrom, Skipped
<1>4. p # index[r] + 1
  BY <1>1, <1>2, <1>3
<1>5. j = index[r] + 1
      \/ (IF p <= index[r] THEN p < j /\ j <= index[r] ELSE p < j \/ j <= index[r])
  BY <1>1, <1>2, <1>3, <1>4
<1>. QED  BY <1>4, <1>5 DEF CameFrom

LEMMA StayMovesOn ==
  ASSUME ExecInv, NEW r \in Request, MovesOn(r), index'[r] = index[r], target'[r] = target[r],
         list'[r] = list[r], valid'[r] = valid[r],
         \/ phase'[r] = phase[r]
         \/ phase'[r] = "done"
         \/ phase[r] \in {"sent", "updating", "delay"} /\ phase'[r] \in {"loop", "updating", "delay"}
  PROVE  MovesOn(r)'
BY DEF MovesOn, CameFrom, Skipped, WaitsForNode, Current

LEMMA MovesOnStep ==
  ASSUME OnDemand = {}, ExecInv, NEW q \in Request, MovesOn(q), TakesTurns(q),
         NEW r \in Request, Execute(r) \/ Step(r)
  PROVE  MovesOn(q)'
<1>. USE DEF ExecInv, RequestInv, RequestTypeOK
<1>1. CASE q # r
  BY <1>1, StayMovesOn DEF Execute, Step, SetupFails, Validate, StopTrying, SkipNode, PickNode,
     PickNodeFails, PickAnyNode, SignerFails, Send, HandleUnhealthyNode, CallFails, CallRejected,
     AnswerEnds, AnswerRetries, WrongNode, Updated, Wake, Continue, Finish, Goto, nodeList, history
<1>. SUFFICES ASSUME q = r PROVE MovesOn(r)'
  BY <1>1
<1>2. CASE Execute(r)
  BY <1>2 DEF Execute, At, Goto, MovesOn
<1>3. CASE Validate(r)
  BY <1>3, NoKeyAssumption DEF Validate, At, Continue, Finish, Goto, MovesOn
<1>4. CASE SkipNode(r)
  <2>1. Skipped(r, index[r] + 1)
    BY <1>4 DEF SkipNode, Skips, Current, Skipped
  <2>2. /\ index' = [index EXCEPT ![r] = Advanced(r)]
        /\ list' = list /\ valid' = valid /\ target' = target
        /\ phase[r] = "loop" /\ phase'[r] = "loop"
    BY <1>4 DEF SkipNode, Trying, InLoop, Continue
  <2>. QED  BY <2>1, <2>2, AdvanceCameFrom DEF MovesOn, WaitsForNode
<1>5. CASE PickNode(r)
  BY <1>5 DEF PickNode, Goto, Current, MovesOn
<1>6. ASSUME phase[r] = "build", list[r] # <<>>,
             index' = [index EXCEPT ![r] = Advanced(r)], UNCHANGED <<list, valid, target>>,
             phase'[r] \in {"sent", "loop"}
      PROVE  MovesOn(r)'
  <2>1. list[r] \in Seq(Account) /\ index[r] \in Nat /\ index[r] < Len(list[r])
    BY <1>6 DEF InList
  <2>2. PICK p \in DOMAIN list[r] : p = index[r] + 1 /\ list[r][p] = target[r]
    BY <1>6, <2>1 DEF MovesOn, Current
  <2>3. CameFrom(r, p)'
    <3>1. index'[r] = (IF index[r] + 1 < Len(list[r]) THEN index[r] + 1 ELSE 0)
      BY <1>6 DEF Advanced
    <3>2. Len(list[r]) \in Nat /\ DOMAIN list[r] = 1 .. Len(list[r])
      BY <2>1
    <3>. QED  BY <1>6, <2>1, <2>2, <3>1, <3>2 DEF CameFrom
  <2>. QED  BY <1>6, <2>2, <2>3 DEF MovesOn
<1>7. CASE Send(r)
  BY <1>6, <1>7 DEF Send, At, Goto, TakesTurns
<1>8. CASE HandleUnhealthyNode(r)
  <2>1. CASE WaitsForNode(r) /\ Goto(r, "delay") /\ UNCHANGED <<nodeList, attempt, target, held, start, outcome, history>>
    BY <1>8, <2>1 DEF HandleUnhealthyNode, At, Goto, MovesOn, WaitsForNode, nodeList
  <2>2. CASE Finish(r, "unhealthy")
    BY <2>2, StayMovesOn DEF Finish, Goto, nodeList
  <2>3. CASE index' = [index EXCEPT ![r] = Advanced(r)] /\ Continue(r)
             /\ UNCHANGED <<list, valid, target, held, timing, outcome, history>>
    BY <1>6, <1>8, <2>3 DEF HandleUnhealthyNode, At, Continue, TakesTurns
  <2>. QED  BY <1>8, <2>1, <2>2, <2>3 DEF HandleUnhealthyNode
<1>9. CASE PickAnyNode(r)
  BY <1>9, StayMovesOn DEF PickAnyNode, Finish, Goto, nodeList
<1>. QED  BY <1>2, <1>3, <1>4, <1>5, <1>7, <1>8, <1>9, StayMovesOn DEF Step, SetupFails, StopTrying,
          PickNodeFails, SignerFails, CallFails, CallRejected, AnswerEnds, AnswerRetries, WrongNode,
          Answered, At, Updated, Wake, Continue, Finish, Goto, nodeList

LEMMA Rotates == OnDemand = {} /\ NamesNoAccountTwice /\ ExecSpec => []RotationInv
<1>. SUFFICES ASSUME OnDemand = {}, NamesNoAccountTwice PROVE ExecSpec => []RotationInv
  OBVIOUS
<1>1. ASSUME ExecInv, RotationInv, [ExecNext]_vars PROVE RotationInv'
  <2>1. CASE UNCHANGED requestVars
    <3>. SUFFICES ASSUME NEW q \in Request PROVE NoneTwice(q)' /\ MovesOn(q)' /\ TakesTurns(q)'
      BY DEF RotationInv
    <3>1. phase' = phase /\ list' = list /\ index' = index /\ valid' = valid /\ target' = target /\ tried' = tried
      BY <2>1 DEF requestVars, nodeList, history
    <3>. QED  BY <1>1, <3>1, StayTurns, StayMovesOn DEF RotationInv, NoneTwice
  <2>2. ASSUME NEW r \in Request, Execute(r) \/ Step(r) PROVE RotationInv'
    <3>. SUFFICES ASSUME NEW q \in Request PROVE NoneTwice(q)' /\ MovesOn(q)' /\ TakesTurns(q)'
      BY DEF RotationInv
    <3>1. NoneTwice(q) /\ MovesOn(q) /\ TakesTurns(q)
      BY <1>1 DEF RotationInv
    <3>. QED  BY <1>1, <2>2, <3>1, NoneTwiceStep, MovesOnStep, TurnsStep
  <2>. QED  BY <1>1, <2>1, <2>2 DEF ExecNext, Configure, PassTime, vars
<1>2. ExecInit => RotationInv
  BY RotationInit
<1>. QED  BY <1>1, <1>2, ExecIsInvariant, PTL DEF ExecSpec

LEMMA MovingOn ==
  ASSUME ExecInv, RotationInv, NEW r \in Request, PickNode(r)
  PROVE  \/ target'[r] # target[r]
         \/ WaitsForNode(r)
         \/ \A i \in DOMAIN list[r] : list[r][i] = target[r] \/ Skipped(r, i)
<1>. SUFFICES ASSUME target'[r] = target[r], ~WaitsForNode(r)
              PROVE  \A i \in DOMAIN list[r] : list[r][i] = target[r] \/ Skipped(r, i)
  OBVIOUS
<1>. USE DEF ExecInv, RequestInv, RequestTypeOK
<1>1. phase[r] = "loop" /\ list[r] # <<>> /\ target[r] = Current(r)
  BY DEF PickNode, Trying, InLoop
<1>2. Current(r) \in Account
  BY <1>1, AdvancedInList
<1>3. PICK p \in DOMAIN list[r] : list[r][p] = target[r] /\ CameFrom(r, p)
  BY <1>1, <1>2, NoKeyAssumption DEF RotationInv, MovesOn
<1>4. list[r] \in Seq(Account) /\ index[r] \in Nat /\ index[r] < Len(list[r])
  BY <1>1 DEF InList
<1>5. index[r] + 1 \in DOMAIN list[r]
  BY <1>4
<1>6. p = index[r] + 1
  BY <1>1, <1>3, <1>5 DEF Current, RotationInv, NoneTwice, IsInjective
<1>. QED  BY <1>3, <1>4, <1>6 DEF CameFrom

\* A retry looks up another account than the attempt before, unless no other
\* account of its list is valid or it waits for its only node.  It needs a list
\* that names no account twice: nothing in List or setNodeAccountIds sees to it.
THEOREM RetriesMoveOnSafe ==
  OnDemand = {} /\ NamesNoAccountTwice /\ ExecSpec => RetriesMoveOn
<1>. SUFFICES ASSUME OnDemand = {}, NamesNoAccountTwice PROVE ExecSpec => RetriesMoveOn
  OBVIOUS
<1>1. ExecInv /\ RotationInv /\ [ExecNext]_vars =>
        [ \A r \in Request : (PickNode(r) /\ attempt[r] > 1) =>
             \/ target'[r] # target[r]
             \/ WaitsForNode(r)
             \/ \A i \in DOMAIN list[r] :
                   list[r][i] = target[r] \/ (valid[r] # {} /\ list[r][i] \notin valid[r]) ]_vars
  BY MovingOn DEF Skipped
<1>. QED  BY <1>1, ExecIsInvariant, Rotates, PTL DEF ExecSpec, RetriesMoveOn
=============================================================================
