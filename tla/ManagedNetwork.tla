--------------------------- MODULE ManagedNetwork ---------------------------
(***************************************************************************)
(* The pool of nodes a client talks to: src/src/client/ManagedNetwork.js   *)
(* with src/src/ManagedNode.js, and its two subclasses Network.js          *)
(* (consensus nodes, keyed by account ID) and MirrorNetwork.js (mirror     *)
(* nodes, keyed by their own address).                                     *)
(*                                                                         *)
(* The pool keeps three collections of the same node objects: `nodes', the *)
(* members; `healthyNodes', the ones an unkeyed lookup may return; and     *)
(* `network', the map from a key to the nodes a keyed lookup may return.   *)
(* Each operation below runs to completion without an await, so it is one  *)
(* action; requests, timers and address-book updates interleave between    *)
(* them (module Executable).                                               *)
(*                                                                         *)
(* Abstractions.  A host stands for host and port: every port flips with   *)
(* transport security, in the nodes and in the address book alike          *)
(* (Network.js:58-74, 237-259).  Both lists are shuffled or drawn from at  *)
(* random, so they are sets, and an operation that walks one picks its     *)
(* order.  currentBackoff / 2 is rounded down; it is compared and doubled  *)
(* only.  useCount, lastUsed, cert and badGrpcStatusCount influence        *)
(* nothing: the last is initialised to 0 and never incremented, so the     *)
(* test in _removeDeadNodes (ManagedNetwork.js:125-137) never selects a    *)
(* node and the call is left out.                                          *)
(***************************************************************************)
EXTENDS Integers, FiniteSets, Functions

CONSTANTS
    Node,               \* node objects the pool may allocate in a behaviour
    Account,            \* keys: node account IDs, or mirror addresses
    Host,               \* addresses
    Books,              \* networks that may be set: functions Host -> Account
    IsMirror,           \* MirrorNetwork instead of Network
    SwitchesTransport,  \* the application calls setTransportSecurity
    InitMinBackoff, InitMaxBackoff,  \* 8 s and 1 h in the code
    MinBackoffs, MaxBackoffs,        \* values passed to setMin/MaxBackoff
    ReadmitPeriods,                  \* values passed to setNodeM*ReadmitPeriod
    Epoch,              \* Date.now() when the client is built
    Horizon,            \* bound: the last instant of a behaviour
    Never,              \* Number.MAX_SAFE_INTEGER
    NoKey               \* getNode() without an argument

Configured ==  \* every backoff a node can have been configured with
    {InitMinBackoff, InitMaxBackoff} \cup MinBackoffs \cup MaxBackoffs

ASSUME BookAssumption ==
    /\ Host # {} /\ Account # {}
    /\ \A book \in Books : /\ DOMAIN book \subseteq Host /\ IsFiniteSet(DOMAIN book)
                            /\ \A h \in DOMAIN book : book[h] \in Account
ASSUME FlagAssumption == IsMirror \in BOOLEAN /\ SwitchesTransport \in BOOLEAN
ASSUME BackoffAssumption == Configured \subseteq Nat
\* Date.now() counts from 1970; the longest period is an hour.
ASSUME ClockAssumption ==
    /\ Epoch \in Nat /\ Horizon \in Nat /\ Never \in Nat
    /\ Epoch <= Horizon /\ Horizon < Never
    /\ ReadmitPeriods \subseteq Nat
    /\ \A p \in ReadmitPeriods \cup {InitMinBackoff, InitMaxBackoff} : p < Epoch
ASSUME NoKeyAssumption == NoKey \notin Account

VARIABLES
    now,                  \* Date.now()
    transportSecurity,    \* _transportSecurity
    minBackoff,           \* the pool's _minBackoff and _maxBackoff
    maxBackoff,
    minReadmitPeriod,     \* _nodeMinReadmitPeriod
    maxReadmitPeriod,     \* _nodeMaxReadmitPeriod
    earliestReadmitTime,  \* _earliestReadmitTime
    nodes,                \* _nodes
    healthyNodes,         \* _healthyNodes
    network,              \* _network: key -> nodes, {} when the key is absent
    created,              \* node objects that exist
    host, account,        \* _address and key of a node object
    nodeMinBackoff,       \* ManagedNode._minBackoff, _maxBackoff,
    nodeMaxBackoff,       \*   _currentBackoff and _readmitTime
    currentBackoff,
    readmitTime,
    openChannels          \* node objects whose _channel is not null

settings == <<transportSecurity, minBackoff, maxBackoff, minReadmitPeriod, maxReadmitPeriod>>
pool == <<nodes, healthyNodes, network>>
identity == <<created, host, account>>
backoff == <<nodeMinBackoff, nodeMaxBackoff, currentBackoff, readmitTime>>
netVars == <<now, settings, earliestReadmitTime, pool, identity, backoff, openChannels>>

Smaller(a, b) == IF a <= b THEN a ELSE b
Larger(a, b) == IF a >= b THEN a ELSE b

Init ==
    /\ now = Epoch
    /\ transportSecurity = FALSE
    /\ minBackoff = InitMinBackoff /\ maxBackoff = InitMaxBackoff
    /\ minReadmitPeriod = InitMinBackoff /\ maxReadmitPeriod = InitMaxBackoff
    /\ earliestReadmitTime = Epoch + InitMinBackoff
    /\ nodes = {} /\ healthyNodes = {}
    /\ network = [a \in Account |-> {}]
    /\ created = {}
    /\ host = [n \in Node |-> CHOOSE h \in Host : TRUE]
    /\ account = [n \in Node |-> CHOOSE a \in Account : TRUE]
    /\ nodeMinBackoff = [n \in Node |-> InitMinBackoff]
    /\ nodeMaxBackoff = [n \in Node |-> InitMaxBackoff]
    /\ currentBackoff = [n \in Node |-> InitMinBackoff]
    /\ readmitTime = [n \in Node |-> Epoch]
    /\ openChannels = {}

-----------------------------------------------------------------------------
(* Health of one node. *)

IsHealthy(n) == readmitTime[n] <= now

NextBackoff(n) == Smaller(2 * currentBackoff[n], nodeMaxBackoff[n])

KeepSelectable(n) == healthyNodes                                  \* mutant
Deselect(n) == healthyNodes \ {n}

BackOff(n) ==
    /\ currentBackoff' = [currentBackoff EXCEPT ![n] = NextBackoff(n)]
    /\ readmitTime' = [readmitTime EXCEPT ![n] = now + NextBackoff(n)]
    /\ healthyNodes' = Deselect(n)
    /\ UNCHANGED <<now, settings, earliestReadmitTime, nodes, network, identity,
                   nodeMinBackoff, nodeMaxBackoff, openChannels>>

\* ManagedNetwork.increaseBackoff(node): a caller may hold a node that has
\* left the pool, so any existing object may be passed.
IncreaseBackoff(n) ==
    /\ n \in created
    /\ now + NextBackoff(n) <= Horizon                \* bound
    /\ BackOff(n)

Halved(n) == currentBackoff[n] \div 2                             \* mutant
Recovered(n) == Larger(currentBackoff[n] \div 2, nodeMinBackoff[n])

DecreaseBackoff(n) ==
    /\ n \in created
    /\ currentBackoff' = [currentBackoff EXCEPT ![n] = Recovered(n)]
    /\ UNCHANGED <<now, settings, earliestReadmitTime, pool, identity,
                   nodeMinBackoff, nodeMaxBackoff, readmitTime, openChannels>>

\* ManagedNode.getChannel: the channel is created on first use, also for a
\* node that was closed.
GetChannel(n) ==
    /\ n \in created
    /\ openChannels' = openChannels \cup {n}
    /\ UNCHANGED <<now, settings, earliestReadmitTime, pool, identity, backoff>>

-----------------------------------------------------------------------------
(* Selection. *)

\* The readmit times _readmitNodes has seen when it meets the first member
\* that is not in healthyNodes, for each order of the list `nodes'.
SeenReadmitTimes ==
    LET unlisted == nodes \ healthyNodes
        walked == IF unlisted = {} THEN {nodes}
                  ELSE {{first} \cup before : first \in unlisted,
                                              before \in SUBSET (nodes \cap healthyNodes)}
    IN  IF healthyNodes = {} THEN {{Never}}
        ELSE {{Never} \cup {readmitTime[n] : n \in {m \in w : readmitTime[m] > now}} : w \in walked}

\* The next readmission, an absolute time, is clamped between two durations.
UnclampedReadmit(time) == time                                     \* mutant
ClampReadmit(time) == Smaller(Larger(time, minReadmitPeriod), maxReadmitPeriod)

AllMembers == nodes                                                \* mutant
Readmittable == {n \in nodes : readmitTime[n] <= now}

ReadmitNodes ==
    \/ /\ earliestReadmitTime <= now
       /\ healthyNodes' = healthyNodes \cup Readmittable
       /\ \E seen \in SeenReadmitTimes : \E next \in seen :
             /\ \A t \in seen : next <= t
             /\ earliestReadmitTime' = ClampReadmit(next)
    \/ /\ earliestReadmitTime > now
       /\ UNCHANGED <<healthyNodes, earliestReadmitTime>>

\* What getNode may return once it has readmitted nodes: a node of the key,
\* or of any other key when the map has no entry for it.
Candidates(key) ==
    IF key = NoKey THEN healthyNodes
    ELSE IF network[key] # {} THEN network[key]
    ELSE UNION {network[a] : a \in Account}

GetNode(key, n) ==
    /\ ReadmitNodes
    /\ UNCHANGED <<now, settings, nodes, network, identity, backoff, openChannels>>
    /\ n \in Candidates(key)'

\* getNode throws: "failed to find a healthy working node" without a key, a
\* TypeError (randomNode is undefined) with one.
GetNodeFails(key) ==
    /\ ReadmitNodes
    /\ UNCHANGED <<now, settings, nodes, network, identity, backoff, openChannels>>
    /\ Candidates(key)' = {}

\* _getNumberOfMostHealthyNodes(count): random nodes with distinct keys.
MostHealthyNodes(count, chosen) ==
    /\ chosen \subseteq healthyNodes
    /\ \A m, n \in chosen : account[m] = account[n] => m = n
    /\ Cardinality(chosen) =
          Smaller(Smaller(count, Cardinality(healthyNodes)),
                  Cardinality({account[n] : n \in healthyNodes}))

GetNodes(count, chosen) ==
    /\ ReadmitNodes
    /\ UNCHANGED <<now, settings, nodes, network, identity, backoff, openChannels>>
    /\ MostHealthyNodes(count, chosen)'

-----------------------------------------------------------------------------
(* Membership. *)

\* MirrorNetwork passes a Map to Object.values, which has no own enumerable
\* properties: no address is found in the result and every node is removed.
GetNodesToRemove(book) ==
    IF IsMirror THEN nodes
    ELSE {n \in nodes : host[n] \notin DOMAIN book \/ book[host[n]] # account[n]}

\* _removeNodeFromNetwork reads `.length' of the entry of each node closed.
\* Some order of closing `removed' finds an entry every time ...
Closable(removed) == \A n \in removed : network[account[n]] # {}
\* ... or the entry of n is gone once `removed' are closed, and it throws.
ClosingFails(removed, n) == Closable(removed) /\ network[account[n]] \subseteq removed

KeepMapped(removed) == network                                     \* mutant
RemoveFromNetwork(removed) == [a \in Account |-> network[a] \ removed]

KeyMap(members, key) == [a \in Account |-> {n \in members : key[n] = a}]

\* ManagedNode.close of every node in `closed'.
LeaveOpen(closed) == openChannels                                  \* mutant
CloseChannels(closed) == openChannels \ closed

\* Entries of the book whose account or whose address no kept node has.
Missing(book) ==
    LET kept == nodes \ GetNodesToRemove(book)
    IN  {h \in DOMAIN book : ~ /\ book[h] \in {account[n] : n \in kept}
                               /\ h \in {host[n] : n \in kept}}

\* The kept nodes and new ones, created for the missing entries; the healthy
\* ones of both are selectable and mapped.
Repopulate(book, fresh, place) ==
    LET members == (nodes \ GetNodesToRemove(book)) \cup fresh
        healthy == {n \in members : n \in fresh \/ IsHealthy(n)}
    IN  /\ created' = created \cup fresh
        /\ host' = [n \in Node |-> IF n \in fresh THEN place[n] ELSE host[n]]
        /\ account' = [n \in Node |-> IF n \in fresh THEN book[place[n]] ELSE account[n]]
        /\ nodeMinBackoff' = [n \in Node |-> IF n \in fresh THEN minBackoff ELSE nodeMinBackoff[n]]
        /\ nodeMaxBackoff' = [n \in Node |-> IF n \in fresh THEN InitMaxBackoff ELSE nodeMaxBackoff[n]]
        /\ currentBackoff' = [n \in Node |-> IF n \in fresh THEN Larger(InitMinBackoff, minBackoff)
                                             ELSE currentBackoff[n]]
        /\ readmitTime' = [n \in Node |-> IF n \in fresh THEN now ELSE readmitTime[n]]
        /\ nodes' = members
        /\ healthyNodes' = healthy
        /\ network' = KeyMap(healthy, account')

SetNetwork(book) ==
    /\ Closable(GetNodesToRemove(book))
    /\ \E fresh \in SUBSET (Node \ created) : \E place \in Bijection(fresh, Missing(book)) :
          Repopulate(book, fresh, place)
    /\ openChannels' = CloseChannels(GetNodesToRemove(book))
    /\ UNCHANGED <<now, settings, earliestReadmitTime>>

\* The update throws while it closes n, with `done' already closed.
SetNetworkFails(book) ==
    \E done \in SUBSET GetNodesToRemove(book), n \in GetNodesToRemove(book) :
       /\ n \notin done
       /\ ClosingFails(done, n)
       /\ nodes' = nodes \ done
       /\ network' = RemoveFromNetwork(done)
       /\ openChannels' = CloseChannels(done \cup {n})
       /\ UNCHANGED <<now, settings, earliestReadmitTime, healthyNodes, identity, backoff>>

\* A clone takes its maximum backoff from the minimum of the original.
CloneMembers(fresh, original) ==
    LET Copied(field) == [n \in Node |-> IF n \in fresh THEN field[original[n]] ELSE field[n]]
    IN  /\ created' = created \cup fresh
        /\ host' = Copied(host)
        /\ account' = Copied(account)
        /\ nodeMinBackoff' = Copied(nodeMinBackoff)
        /\ nodeMaxBackoff' = [n \in Node |-> IF n \in fresh THEN nodeMinBackoff[original[n]]
                                             ELSE nodeMaxBackoff[n]]
        /\ currentBackoff' = Copied(currentBackoff)
        /\ readmitTime' = Copied(readmitTime)
        /\ nodes' = fresh
        /\ healthyNodes' = fresh
        /\ network' = KeyMap(fresh, account')

\* Network.setTransportSecurity: each member is closed and replaced by a clone
\* with the other port, and every clone is selectable and mapped.
SetTransportSecurity(secure) ==
    /\ transportSecurity # secure
    /\ \E fresh \in SUBSET (Node \ created) : \E original \in Bijection(fresh, nodes) :
          CloneMembers(fresh, original)
    /\ openChannels' = CloseChannels(nodes)
    /\ transportSecurity' = secure
    /\ UNCHANGED <<now, minBackoff, maxBackoff, minReadmitPeriod, maxReadmitPeriod, earliestReadmitTime>>

\* close(): healthyNodes keeps the closed nodes.
Close ==
    /\ nodes' = {}
    /\ network' = [a \in Account |-> {}]
    /\ openChannels' = CloseChannels(nodes)
    /\ UNCHANGED <<now, settings, earliestReadmitTime, healthyNodes, identity, backoff>>

-----------------------------------------------------------------------------
(* Settings. *)

SetMinBackoff(b) ==
    /\ minBackoff' = b
    /\ nodeMinBackoff' = [n \in Node |-> IF n \in nodes THEN b ELSE nodeMinBackoff[n]]
    /\ currentBackoff' = [n \in Node |-> IF n \in nodes THEN Larger(currentBackoff[n], b) ELSE currentBackoff[n]]
    /\ UNCHANGED <<now, transportSecurity, maxBackoff, minReadmitPeriod, maxReadmitPeriod,
                   earliestReadmitTime, pool, identity, nodeMaxBackoff, readmitTime, openChannels>>

\* The current backoff is raised to the maximum, not capped by it.
SetMaxBackoff(b) ==
    /\ maxBackoff' = b
    /\ nodeMaxBackoff' = [n \in Node |-> IF n \in nodes THEN b ELSE nodeMaxBackoff[n]]
    /\ currentBackoff' = [n \in Node |-> IF n \in nodes THEN Larger(currentBackoff[n], b) ELSE currentBackoff[n]]
    /\ UNCHANGED <<now, transportSecurity, minBackoff, minReadmitPeriod, maxReadmitPeriod,
                   earliestReadmitTime, pool, identity, nodeMinBackoff, readmitTime, openChannels>>

SetNodeMinReadmitPeriod(p) ==
    /\ now + p <= Horizon                             \* bound
    /\ minReadmitPeriod' = p
    /\ earliestReadmitTime' = now + p
    /\ UNCHANGED <<now, transportSecurity, minBackoff, maxBackoff, maxReadmitPeriod,
                   pool, identity, backoff, openChannels>>

SetNodeMaxReadmitPeriod(p) ==
    /\ maxReadmitPeriod' = p
    /\ UNCHANGED <<now, transportSecurity, minBackoff, maxBackoff, minReadmitPeriod,
                   earliestReadmitTime, pool, identity, backoff, openChannels>>

Tick ==
    /\ now < Horizon                                  \* bound
    /\ now' = now + 1
    /\ UNCHANGED <<settings, earliestReadmitTime, pool, identity, backoff, openChannels>>

-----------------------------------------------------------------------------
Lookup ==
    \/ \E key \in Account \cup {NoKey} : GetNodeFails(key) \/ \E n \in Node : GetNode(key, n)
    \/ \E count \in 1 .. Cardinality(Account) : \E chosen \in SUBSET Node : GetNodes(count, chosen)

\* No caller reports a failure of a mirror node to its pool.
Use ==
    \/ \E n \in Node : GetChannel(n) \/ (~IsMirror /\ (IncreaseBackoff(n) \/ DecreaseBackoff(n)))

Reconfigure ==
    \/ \E book \in Books : SetNetwork(book) \/ SetNetworkFails(book)
    \/ SwitchesTransport /\ \E secure \in BOOLEAN : SetTransportSecurity(secure)
    \/ \E b \in MinBackoffs : SetMinBackoff(b)
    \/ \E b \in MaxBackoffs : SetMaxBackoff(b)
    \/ \E p \in ReadmitPeriods : SetNodeMinReadmitPeriod(p) \/ SetNodeMaxReadmitPeriod(p)
    \/ Close

Next == Lookup \/ Use \/ Reconfigure \/ Tick

Spec == Init /\ [][Next]_netVars

\* Time passes, and an application that keeps issuing requests looks nodes up.
FairSpec == Spec /\ WF_netVars(Tick) /\ WF_netVars(Lookup)

-----------------------------------------------------------------------------
(* Properties. *)

TypeOK ==
    /\ now \in Epoch .. Horizon
    /\ transportSecurity \in BOOLEAN
    /\ minBackoff \in Configured /\ maxBackoff \in Configured
    /\ {minReadmitPeriod, maxReadmitPeriod} \subseteq ReadmitPeriods \cup {InitMinBackoff, InitMaxBackoff}
    /\ earliestReadmitTime \in Nat
    /\ created \in SUBSET Node
    /\ nodes \in SUBSET created /\ healthyNodes \in SUBSET created
    /\ network \in [Account -> SUBSET created]
    /\ host \in [Node -> Host] /\ account \in [Node -> Account]
    /\ nodeMinBackoff \in [Node -> Configured] /\ nodeMaxBackoff \in [Node -> Configured]
    /\ currentBackoff \in [Node -> Nat] /\ readmitTime \in [Node -> Nat]
    /\ openChannels \in SUBSET created

\* A keyed lookup only ever finds members, filed under their own key: whatever
\* updates, partial failures of updates, port switches and closes happened,
\* the map of ManagedNetwork.js never leads to a node that was removed.
MappedAreMembers == \A a \in Account : network[a] \subseteq {n \in nodes : account[n] = a}

\* The wait a failing node is given never falls outside the backoffs that were
\* configured, in whatever order failures, recoveries, setters and clones come.
WithinConfigured(wait) == \E low, high \in Configured : low <= wait /\ wait <= high
BackoffWithinConfigured == \A n \in Node : WithinConfigured(currentBackoff[n])

\* An unkeyed lookup never returns a node that is still backing off
\* (ManagedNetwork.js, increaseBackoff and _readmitNodes).
SelectableAreHealthy == \A n \in healthyNodes : IsHealthy(n)

\* A node comes back to the selectable nodes only once its readmit time has
\* passed; only a switch of transport security may put it back sooner.
NoEarlyReadmission ==
    [][ \A n \in healthyNodes' \ healthyNodes :
           readmitTime'[n] <= now' \/ transportSecurity' # transportSecurity ]_netVars

\* A node that leaves the pool leaves with its channel closed, by whichever of
\* the four ways out it goes (an update, a failing update, a port switch, close).
LeaversAreClosed == [][ openChannels' \cap (nodes \ nodes') = {} ]_netVars

\* Every member that backs off is offered again or leaves the pool, as long as
\* requests keep looking nodes up: the readmission throttle cannot starve it.
EventuallyReadmitted ==
    \A n \in Node : (n \in nodes /\ n \notin healthyNodes) ~> (n \in healthyNodes \/ n \notin nodes)
=============================================================================
