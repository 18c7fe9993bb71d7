---------------------------- MODULE ClientUpdate ----------------------------
(***************************************************************************)
(* How a client keeps its network up to date: the update timer, the flag   *)
(* that admits one update, close() (src/src/client/Client.js) and the      *)
(* query that fetches the address book, as a gRPC stream                   *)
(* (network/AddressBookQuery.js) or page by page over HTTP                 *)
(* (network/AddressBookQueryWeb.js).                                       *)
(*                                                                         *)
(* A chain is one timer and what becomes of it: it fires, awaits an        *)
(* update and sets the next timer.  `timer' is the chain of the timer      *)
(* object the client remembers in _timer, fired or not.                    *)
(*                                                                         *)
(* Abstractions.  Periods and delays are left out: a pending timer may     *)
(* fire at any time.  A book is the set of nodes it lists, which the       *)
(* mirror node serves by ID.  What the pool makes of an applied book is    *)
(* ManagedNetwork's SetNetwork; here the network is the set of its nodes.  *)
(***************************************************************************)
EXTENDS Naturals

CONSTANTS
    Chain,        \* bound: chains of timers at once
    Versions,     \* bound: address books published
    Book,         \* nodes of each version, numbered by ID
    Maximum,      \* maxAttempts
    MaxChanges,   \* bound: calls of setNetworkUpdatePeriod
    NoChain

Version == 1 .. Versions
Nodes == UNION {Book[v] : v \in Version}

ASSUME UpdateAssumption ==
    /\ NoChain \notin Chain /\ Chain # {}
    /\ Versions \in Nat \ {0} /\ Maximum \in Nat /\ MaxChanges \in Nat
    /\ Book \in [Version -> (SUBSET (Nat \ {0})) \ {{}}]

VARIABLES
    chains,     \* each chain: "none", "armed" or "updating"
    timer,      \* _timer
    changes,    \* the calls of setNetworkUpdatePeriod
    shutdown,   \* _isShutdown
    updating,   \* _isUpdatingNetwork
    query,      \* the address book query that updateNetwork awaits
    network,    \* nodes of _network
    web,        \* the client fetches pages
    mirrors,    \* the next mirror node is there, with an address that makes a URL
    latest,     \* external: the book the mirror node has
    applied,    \* history: the last book applied, and the versions it came from
    late        \* history: something may still fill a closed client

vars == <<chains, timer, changes, shutdown, updating, query, network, web, mirrors, latest, applied, late>>

Running(c) == chains[c] # "none"
NoQuery == [state |-> "none", owner |-> NoChain, version |-> 0, cursor |-> 0,
            attempt |-> 0, addresses |-> {}, served |-> {}]

\* scheduleNetworkUpdate is true or false.
Init ==
    /\ chains \in {[c \in Chain |-> IF c = t THEN "armed" ELSE "none"] : t \in Chain \cup {NoChain}}
    /\ timer = IF \E c \in Chain : Running(c) THEN CHOOSE c \in Chain : Running(c) ELSE NoChain
    /\ changes = 0
    /\ shutdown = FALSE
    /\ updating = FALSE
    /\ query = NoQuery
    /\ network = Book[1]
    /\ web \in BOOLEAN
    /\ mirrors \in BOOLEAN
    /\ latest = 1
    /\ applied = [nodes |-> Book[1], served |-> {1}]
    /\ late = FALSE

-----------------------------------------------------------------------------
(* The timer. *)

\* clearTimeout(_timer): nothing, when that timer has fired.
Cleared == [c \in Chain |-> IF c = timer /\ chains[c] = "armed" THEN "none" ELSE chains[c]]

\* _scheduleNetworkUpdate at the end of a callback.
Disarmed(c) == [chains EXCEPT ![c] = "none"]                       \* mutant
GoesOn(c) == [chains EXCEPT ![c] = IF shutdown THEN "none" ELSE "armed"]
Reschedule(c) ==
    IF c = NoChain THEN UNCHANGED <<chains, timer>>
    ELSE /\ chains' = GoesOn(c)
         /\ timer' = IF shutdown THEN timer ELSE c

\* updateNetwork: one at a time.  Without a mirror node to ask, a stream fails
\* at once; _makeFetchRequest throws where nothing rejects the promise of
\* execute, which never settles: the query is lost.
Admitted == TRUE                                                   \* mutant
Idle == ~updating
Begun == IF mirrors THEN "reading" ELSE IF web THEN "lost" ELSE "failed"
Start(owner) ==
    /\ updating' = TRUE
    /\ query' = [NoQuery EXCEPT !.state = Begun, !.owner = owner, !.version = latest,
                                !.served = {latest}]

Fire(c) ==
    /\ chains[c] = "armed"
    /\ IF Idle
       THEN /\ Start(c)
            /\ chains' = [chains EXCEPT ![c] = "updating"]
            /\ UNCHANGED timer
       ELSE /\ Reschedule(c)
            /\ UNCHANGED <<updating, query>>
    /\ UNCHANGED <<changes, shutdown, network, web, mirrors, latest, applied, late>>

\* A request that met INVALID_NODE_ACCOUNT, or the application.
RequestUpdate ==
    /\ Idle
    /\ Start(NoChain)
    /\ late' = (late \/ shutdown)
    /\ UNCHANGED <<chains, timer, changes, shutdown, network, web, mirrors, latest, applied>>

SetNetworkUpdatePeriod ==
    /\ changes < MaxChanges                                        \* bound
    /\ \E c \in Chain :
        /\ Cleared[c] = "none"                                     \* bound
        /\ chains' = [Cleared EXCEPT ![c] = "armed"]
        /\ timer' = c
        /\ changes' = changes + 1
        /\ late' = (late \/ shutdown)
        /\ UNCHANGED <<shutdown, updating, query, network, web, mirrors, latest, applied>>

LeftRunning == chains                                              \* mutant
Stopped == Cleared
Close ==
    /\ network' = {}
    /\ shutdown' = TRUE
    /\ chains' = Stopped
    /\ late' = (late \/ updating \/ \E c \in Chain : Cleared[c] # "none")
    /\ UNCHANGED <<timer, changes, updating, query, web, mirrors, latest, applied>>

-----------------------------------------------------------------------------
(* The address book. *)

\* What the mirror node has still to send: of the book a stream started with,
\* or of the book it has when a page is fetched.
Source == IF web THEN latest ELSE query.version
Unsent == {n \in Book[Source] : n > query.cursor}
LastPage == \A m, n \in Unsent : m = n
First(nodes) == CHOOSE n \in nodes : \A other \in nodes : n <= other
Received ==
    [query EXCEPT !.cursor = First(Unsent), !.addresses = @ \cup {First(Unsent)},
                  !.served = @ \cup {Source}]

\* An address of a stream, or a page that is not the last one.
Receive ==
    /\ query.state = "reading"
    /\ IF web THEN ~LastPage ELSE Unsent # {}
    /\ query' = [Received EXCEPT !.attempt = IF web THEN 0 ELSE @]
    /\ UNCHANGED <<chains, timer, changes, shutdown, updating, network, web, mirrors, latest, applied, late>>

\* The end of updateNetwork, whether it found a book or not.
KeepsFlag == updating                                              \* mutant
Released == FALSE
Finish ==
    /\ updating' = Released
    /\ query' = NoQuery
    /\ Reschedule(query.owner)

\* The stream ends, or the last page has arrived.
Ends ==
    /\ query.state = "reading"
    /\ IF web THEN LastPage ELSE Unsent = {}
    /\ LET whole == IF Unsent = {} THEN [query EXCEPT !.served = @ \cup {Source}] ELSE Received
       IN  /\ network' = whole.addresses
           /\ applied' = [nodes |-> whole.addresses, served |-> whole.served]
    /\ Finish
    /\ UNCHANGED <<changes, shutdown, web, mirrors, latest, late>>

\* There was no mirror node for the stream.
Fails ==
    /\ query.state = "failed"
    /\ Finish
    /\ UNCHANGED <<changes, shutdown, network, web, mirrors, latest, applied, late>>

\* A page arrives whose link to the next one is no URL: that throws, too.
BadLink ==
    /\ query.state = "reading" /\ web /\ ~LastPage
    /\ query' = [Received EXCEPT !.state = "lost"]
    /\ UNCHANGED <<chains, timer, changes, shutdown, updating, network, web, mirrors, latest, applied, late>>

\* A stream or a fetch fails: a retry after a delay, or the end of the update.
MayRetry == query.attempt < Maximum /\ ~shutdown
Breaks(retryable) ==
    /\ query.state = "reading"
    /\ IF MayRetry /\ retryable
       THEN /\ query' = [query EXCEPT !.state = "waiting", !.attempt = @ + 1]
            /\ UNCHANGED <<chains, timer, updating>>
       ELSE Finish
    /\ UNCHANGED <<changes, shutdown, network, web, mirrors, latest, applied, late>>

\* A new stream, from the beginning; or the same page again.  The addresses
\* received stay.  A timer starts the new stream: what that throws rejects
\* nothing either.
Emptied == [query EXCEPT !.addresses = {}]                         \* mutant
Again == IF web THEN query
         ELSE [query EXCEPT !.version = latest, !.cursor = 0, !.served = @ \cup {latest}]
Retry ==
    /\ query.state = "waiting"
    /\ query' = [Again EXCEPT !.state = IF web \/ mirrors THEN "reading" ELSE "lost"]
    /\ UNCHANGED <<chains, timer, changes, shutdown, updating, network, web, mirrors, latest, applied, late>>

Publish ==
    /\ latest < Versions                                           \* bound
    /\ latest' = latest + 1
    /\ UNCHANGED <<chains, timer, changes, shutdown, updating, query, network, web, mirrors, applied, late>>

\* setMirrorNetwork, to a list with or without a node that can be asked; or the
\* next node of a list that has both.
SetMirrorNetwork ==
    /\ mirrors' \in BOOLEAN
    /\ UNCHANGED <<chains, timer, changes, shutdown, updating, query, network, web, latest, applied, late>>

-----------------------------------------------------------------------------
Next ==
    \/ \E c \in Chain : Fire(c)
    \/ RequestUpdate
    \/ SetNetworkUpdatePeriod
    \/ Close
    \/ Receive \/ Ends \/ Fails \/ BadLink \/ Retry
    \/ Publish \/ SetMirrorNetwork
    \/ \E retryable \in BOOLEAN : Breaks(retryable)

\* The event loop runs timers and settles promises, and streams and fetches make
\* progress.
Fairness ==
    /\ \A c \in Chain : WF_vars(Fire(c))
    /\ WF_vars(Receive) /\ WF_vars(Ends) /\ WF_vars(Fails) /\ WF_vars(Retry)

Spec == Init /\ [][Next]_vars
FairSpec == Spec /\ Fairness

-----------------------------------------------------------------------------
(* Properties. *)

TypeOK ==
    /\ chains \in [Chain -> {"none", "armed", "updating"}]
    /\ timer \in Chain \cup {NoChain}
    /\ shutdown \in BOOLEAN /\ updating \in BOOLEAN /\ web \in BOOLEAN
    /\ mirrors \in BOOLEAN /\ late \in BOOLEAN
    /\ latest \in Version /\ changes \in 0 .. MaxChanges
    /\ query \in [state : {"none", "reading", "waiting", "failed", "lost"}, owner : Chain \cup {NoChain},
                  version : Version \cup {0}, cursor : Nat, attempt : 0 .. Maximum,
                  addresses : SUBSET Nodes, served : SUBSET Version]
    /\ network \subseteq Nodes
    /\ applied \in [nodes : SUBSET Nodes, served : SUBSET Version]

\* The flag is set exactly while updateNetwork awaits a query, a lost one for
\* ever, and a chain awaits at most that query: two updates never overlap, and
\* no failure that rejects the query leaves the flag set.
OneUpdate ==
    /\ updating <=> query.state # "none"
    /\ \A c \in Chain : chains[c] = "updating" <=> updating /\ query.owner = c

\* A client whose updates were ever scheduled and that is not closed has a timer
\* or awaits an update: setNetworkUpdatePeriod, updates that find another one
\* under way and updates that fail do not end the chain.  A chain that awaits a
\* lost query is counted, although it never goes on.
UpdatesNeverStop == timer # NoChain /\ ~shutdown => \E c \in Chain : Running(c)

\* The same over time: an update is always under way again, until the client is
\* closed or a query is lost.
UpdatesGoOn == [](timer # NoChain => <>(shutdown \/ updating))

\* An update, whoever asked for it, comes to its end: answered, failed at once,
\* given up after its retries.  Only a query that is lost keeps the flag set.
Lost == query.state = "lost"
UpdateEnds == updating ~> (~updating \/ Lost)

\* "This is the automatic network update promise that _eventually_ completes"
\* (Client.js, _scheduleNetworkUpdate).
UpdateCompletes == updating ~> ~updating

\* The book applied lists every node that all the books read listed, and no node
\* that none of them did, although streams broke and the book changed meanwhile.
AppliedWasServed ==
    /\ \A n \in Nodes : (\A v \in applied.served : n \in Book[v]) => n \in applied.nodes
    /\ applied.nodes \subseteq UNION {Book[v] : v \in applied.served}

\* A closed client's network stays empty unless an update was under way, a second
\* chain was running, or somebody asked for an update afterwards.
ClosedStaysEmpty == shutdown /\ ~late => network = {}
=============================================================================
