-------------------------- MODULE MCManagedNetwork --------------------------
(* Small instances of ManagedNetwork for TLC. *)
EXTENDS ManagedNetwork, TLC

CONSTANTS a1, a2, h1, h2

\* Consensus networks: both nodes, or one address that now serves the other
\* account.
BothNodes == h1 :> a1 @@ h2 :> a2
ConsensusBooks == {BothNodes, h1 :> a2}
OneBook == {BothNodes}
SingleBook == {h1 :> a1}

\* A mirror node is keyed by its address.
MirrorBooks == {h1 :> h1 @@ h2 :> h2, h2 :> h2}

Objects == Permutations(Node)

-----------------------------------------------------------------------------
(* What comments and the manual say of the pool; TLC refutes each of them. *)

\* src/client/ManagedNetwork.js:424-425, in getNode(key): a node taken through
\* the keys of the map "cannot be `undefined`".
KeyedLookupFindsNode == nodes # {} => \A a \in Account : Candidates(a) # {}

\* ManagedNetwork.js:266: "Remove nodes that are not in the new network".  An
\* update removes them, it does not throw on the way.
UpdatesComplete == [][ \A book \in Books : ~SetNetworkFails(book) ]_netVars

\* The same comment: nodes that are in the new network stay.
ListedNodesStay ==
    [][ \A book \in Books : SetNetwork(book) =>
           \A n \in nodes : (host[n] \in DOMAIN book /\ book[host[n]] = account[n]) => n \in nodes'
      ]_netVars
=============================================================================
