-------------------------- MODULE TransactionProofs --------------------------
(* Theorems about Transaction, for any number of nodes, keys, overlapping  *)
(* calls and transaction IDs.                                              *)
EXTENDS Transaction, SequenceTheorems, TLAPS

-----------------------------------------------------------------------------
(* The transaction.  What no theorem speaks of has values in some set U.   *)

SignedEntry == [node : Account, id : Nat, sigs : [Key -> Nat]]
Object(U) ==
    [nodeIds : Items(Account), ids : Items(Nat), signed : Items(SignedEntry), built : U,
     signerKeys : SUBSET Key, publicKeys : U, signers : U,
     signOnDemand : BOOLEAN, accountKnown : BOOLEAN, throttled : BOOLEAN, newest : Nat]

\* A node list that is set stays set, its index points into it, and bodies
\* follow it.
NodesOf(t) ==
    /\ t.signed.list # <<>> => t.nodeIds.list # <<>>
    /\ t.nodeIds.list # <<>> => t.nodeIds.index < Len(t.nodeIds.list)
Follows(t) ==
    \A i \in 1 .. Len(t.signed.list) : i <= Len(t.nodeIds.list) =>
        t.signed.list[i].node = t.nodeIds.list[i]
Sound(t) == NodesOf(t) /\ Follows(t) /\ \E U : t \in Object(U)

AlignedIn(t) ==
    /\ t.publicKeys \in Seq(Key) /\ t.signers \in Seq(Key \cup {Null})
    /\ Len(t.publicKeys) = Len(t.signers)
    /\ \A i \in 1 .. Len(t.signers) : t.signers[i] \in {Null, t.publicKeys[i]}

\* What most steps leave alone.
SameKeys(t, u) ==
    /\ u.signerKeys = t.signerKeys
    /\ u.publicKeys = t.publicKeys /\ u.signers = t.signers
IdStays(t, u) == t.ids.locked => u.ids.locked /\ u.ids.list = t.ids.list
NodesStay(t, u) == t.nodeIds.list # <<>> => u.nodeIds.list # <<>>
Leaves(t, u) == IdStays(t, u) /\ NodesStay(t, u)
RowsStay(t, u) ==
    /\ Len(u.signed.list) <= Len(t.signed.list)
    /\ \A i \in 1 .. Len(u.signed.list) : u.signed.list[i].sigs = t.signed.list[i].sigs

LEMMA NonEmpty ==
  ASSUME NEW S, NEW s \in Seq(S)
  PROVE  Len(s) \in Nat /\ (s # <<>> => Len(s) > 0) /\ (Len(s) > 0 => s # <<>>)
<1>1. Len(s) \in Nat
  BY LenProperties
<1>2. Len(s) = 0 => s = <<>>
  OBVIOUS
<1>3. s = <<>> => Len(s) = 0
  OBVIOUS
<1> QED
  BY <1>1, <1>2, <1>3

LEMMA UnsignedRows ==
  ASSUME NEW U, NEW t \in Object(U)
  PROVE  /\ Unsigned(t) \in Seq(SignedEntry)
         /\ Len(Unsigned(t)) = Len(t.nodeIds.list)
         /\ \A i \in 1 .. Len(t.nodeIds.list) : Unsigned(t)[i].node = t.nodeIds.list[i]
<1>1. t.nodeIds.list \in Seq(Account) /\ t.ids.list \in Seq(Nat)
  BY DEF Object, Items
<1>2. CurrentId(t) \in Nat
  BY <1>1, HeadTailProperties DEF CurrentId, IsEmpty
<1>3. NoSignature \in [Key -> Nat]
  BY DEF NoSignature
<1>4. /\ Len(t.nodeIds.list) \in Nat
      /\ \A i \in 1 .. Len(t.nodeIds.list) : t.nodeIds.list[i] \in Account
  BY <1>1, LenProperties
<1>5. \A i \in 1 .. Len(t.nodeIds.list) : Entry(t.nodeIds.list[i], CurrentId(t), NoSignature) \in SignedEntry
  BY <1>2, <1>3, <1>4 DEF Entry, SignedEntry
<1>6. Unsigned(t) \in [1 .. Len(t.nodeIds.list) -> SignedEntry]
  BY <1>5 DEF Unsigned
<1>7. Unsigned(t) \in Seq(SignedEntry) /\ Len(Unsigned(t)) = Len(t.nodeIds.list)
  BY <1>4, <1>6
<1> QED
  BY <1>7 DEF Unsigned, Entry

-----------------------------------------------------------------------------
(* Freezing. *)

LEMMA NewIdKeeps ==
  ASSUME NEW t, Sound(t)
  PROVE  LET u == WithNewId(t)
         IN  /\ Sound(u) /\ SameKeys(t, u) /\ Leaves(t, u)
             /\ u.signed = t.signed /\ u.signOnDemand = t.signOnDemand
<1>1. PICK U : t \in Object(U)
  BY DEF Sound
<1> DEFINE u == WithNewId(t)
<1>2. CASE t.ids.locked \/ ~t.accountKnown
  BY <1>2 DEF WithNewId, SameKeys, Leaves, IdStays, NodesStay
<1>3. CASE ~t.ids.locked /\ t.accountKnown
  <2>1. u = [t EXCEPT !.newest = t.newest + 1, !.ids.list = <<t.newest + 1>>]
    BY <1>1, <1>3 DEF WithNewId, Object
  <2>2. t.newest + 1 \in Nat /\ <<t.newest + 1>> \in Seq(Nat)
    BY <1>1 DEF Object
  <2>3. u \in Object(U)
    BY <1>1, <1>3, <2>2 DEF Object, Items, WithNewId
  <2>4. /\ u.nodeIds = t.nodeIds /\ u.signed = t.signed /\ u.signOnDemand = t.signOnDemand
        /\ SameKeys(t, u)
    BY <1>1, <2>1 DEF Object, SameKeys
  <2> QED
    BY <1>3, <2>3, <2>4 DEF Sound, NodesOf, Follows, Leaves, IdStays, NodesStay
<1> QED
  BY <1>2, <1>3

LEMMA NodesSet ==
  ASSUME NEW t, Sound(t), NEW client \in BOOLEAN
  PROVE  LET u == WithNodes(t, client)
         IN  /\ Sound(u) /\ SameKeys(t, u) /\ Leaves(t, u)
             /\ u.signed = t.signed /\ u.signOnDemand = t.signOnDemand
<1>1. PICK U : t \in Object(U)
  BY DEF Sound
<1> DEFINE u == WithNodes(t, client)
<1>2. CASE client /\ IsEmpty(t.nodeIds)
  <2>1. ClientNodes \in Seq(Account) /\ ClientNodes # <<>>
    BY TransactionAssumption
  <2>2. u = [t EXCEPT !.nodeIds = [list |-> ClientNodes, locked |-> t.nodeIds.locked, index |-> 0]]
    BY <1>1, <1>2, <2>1 DEF WithNodes, SetList
  <2>3. /\ u \in Object(U) /\ u.nodeIds.list = ClientNodes /\ u.nodeIds.index = 0
        /\ u.ids = t.ids /\ u.signed = t.signed /\ SameKeys(t, u) /\ u.signOnDemand = t.signOnDemand
    <3>1. [list |-> ClientNodes, locked |-> t.nodeIds.locked, index |-> 0] \in Items(Account)
      BY <1>1, <2>1 DEF Object, Items
    <3> QED
      BY <1>1, <2>2, <3>1 DEF Object, SameKeys
  <2>4. t.signed.list = <<>>
    BY <1>2 DEF Sound, NodesOf, IsEmpty
  <2>5. NodesOf(u) /\ Follows(u)
    BY <2>1, <2>3, <2>4, NonEmpty, EmptySeq DEF NodesOf, Follows
  <2> QED
    BY <2>1, <2>3, <2>5 DEF Sound, Leaves, IdStays, NodesStay
<1>3. CASE ~(client /\ IsEmpty(t.nodeIds))
  BY <1>3 DEF WithNodes, SameKeys, Leaves, IdStays, NodesStay
<1> QED
  BY <1>2, <1>3

LEMMA BuildKeeps ==
  ASSUME NEW t, Sound(t)
  PROVE  LET u == BuildSigned(t)
         IN  /\ Sound(u) /\ SameKeys(t, u) /\ Leaves(t, u)
             /\ ~Rebuilds(t) => u.signed = t.signed
             /\ u.signOnDemand = t.signOnDemand
<1>1. PICK U : t \in Object(U)
  BY DEF Sound
<1> DEFINE u == BuildSigned(t)
<1>2. CASE Rebuilds(t)
  <2>1. /\ Unsigned(t) \in Seq(SignedEntry) /\ Len(Unsigned(t)) = Len(t.nodeIds.list)
        /\ \A i \in 1 .. Len(t.nodeIds.list) : Unsigned(t)[i].node = t.nodeIds.list[i]
    BY <1>1, UnsignedRows
  <2>2. u = [t EXCEPT !.signed = [list |-> Unsigned(t), locked |-> t.signed.locked, index |-> 0]]
    BY <1>1, <1>2, <2>1 DEF BuildSigned, SetList
  <2>3. /\ u \in Object(U) /\ u.signed.list = Unsigned(t) /\ u.nodeIds = t.nodeIds /\ u.ids = t.ids
        /\ SameKeys(t, u) /\ u.signOnDemand = t.signOnDemand
    <3>1. [list |-> Unsigned(t), locked |-> t.signed.locked, index |-> 0] \in Items(SignedEntry)
      BY <1>1, <2>1 DEF Object, Items
    <3> QED
      BY <1>1, <2>2, <3>1 DEF Object, SameKeys
  <2>4. t.nodeIds.list \in Seq(Account)
    BY <1>1 DEF Object, Items
  <2>5. NodesOf(u)
    BY <2>1, <2>3, <2>4, NonEmpty DEF Sound, NodesOf
  <2>6. Follows(u)
    BY <2>1, <2>3 DEF Follows
  <2> QED
    BY <1>2, <2>3, <2>5, <2>6 DEF Sound, Leaves, IdStays, NodesStay
<1>3. CASE ~Rebuilds(t)
  BY <1>3 DEF BuildSigned, SameKeys, Leaves, IdStays, NodesStay
<1> QED
  BY <1>2, <1>3

LEMMA OptionsSet ==
  ASSUME NEW t, Sound(t), NEW client \in BOOLEAN, NEW demand \in BOOLEAN
  PROVE  LET u == WithOptions(t, client, demand)
         IN  /\ Sound(u) /\ SameKeys(t, u) /\ Leaves(t, u)
             /\ u.signed = t.signed /\ u.signOnDemand = demand
<1>1. PICK U : t \in Object(U)
  BY DEF Sound
<1> DEFINE u == WithOptions(t, client, demand)
<1>2. u \in Object(U)
  BY <1>1 DEF Object, WithOptions
<1>3. /\ SameKeys(t, u) /\ u.ids = t.ids /\ u.nodeIds = t.nodeIds
      /\ u.signed = t.signed /\ u.signOnDemand = demand
  BY <1>1 DEF Object, WithOptions, SameKeys
<1> QED
  BY <1>2, <1>3 DEF Sound, NodesOf, Follows, Leaves, IdStays, NodesStay

LEMMA Composed ==
  ASSUME NEW t, NEW u, NEW v, Leaves(t, u), Leaves(u, v), SameKeys(t, u), SameKeys(u, v)
  PROVE  Leaves(t, v) /\ SameKeys(t, v)
BY DEF Leaves, SameKeys, IdStays, NodesStay

LEMMA FreezeKeeps ==
  ASSUME NEW t, Sound(t), NEW client \in BOOLEAN, NEW demand \in BOOLEAN
  PROVE  LET u == FreezeWith(t, client, demand)
         IN  /\ Sound(u) /\ SameKeys(t, u) /\ Leaves(t, u) /\ u.signOnDemand = demand
             /\ ~Replaces(t, client, demand) => u.signed = t.signed
<1> DEFINE set == WithOptions(t, client, demand)
           with == WithNodes(set, client)
           named == WithNewId(with)
           built == BuildSigned(named)
<1>1. /\ Sound(set) /\ SameKeys(t, set) /\ Leaves(t, set)
      /\ set.signed = t.signed /\ set.signOnDemand = demand
  BY OptionsSet
<1> HIDE DEF set
<1>2. /\ Sound(with) /\ SameKeys(set, with) /\ Leaves(set, with)
      /\ with.signed = set.signed /\ with.signOnDemand = set.signOnDemand
  BY <1>1, NodesSet
<1> HIDE DEF with
<1>3. /\ Sound(named) /\ SameKeys(with, named) /\ Leaves(with, named)
      /\ named.signed = with.signed /\ named.signOnDemand = with.signOnDemand
  BY <1>2, NewIdKeeps
<1> HIDE DEF named
<1>4. /\ Sound(built) /\ SameKeys(named, built) /\ Leaves(named, built)
      /\ built.signOnDemand = named.signOnDemand
      /\ ~Rebuilds(named) => built.signed = named.signed
  BY <1>3, BuildKeeps
<1> HIDE DEF built
<1>5. SameKeys(t, named) /\ Leaves(t, named)
  BY <1>1, <1>2, <1>3, Composed
<1>6. SameKeys(t, built) /\ Leaves(t, built)
  BY <1>4, <1>5, Composed
<1>7. Rebuilds(named) <=> Rebuilds(t)
  BY <1>1, <1>2, <1>3 DEF Rebuilds
<1>8. FreezeWith(t, client, demand) =
        IF FreezeThrows(t, client) THEN set ELSE IF demand THEN named ELSE built
  BY DEF FreezeWith, set, with, named, built
<1>9. CASE FreezeThrows(t, client)
  BY <1>1, <1>8, <1>9
<1>10. CASE ~FreezeThrows(t, client) /\ demand
  BY <1>1, <1>2, <1>3, <1>5, <1>8, <1>10
<1>11. CASE ~FreezeThrows(t, client) /\ ~demand
  <2>1. FreezeWith(t, client, demand) = built
    BY <1>8, <1>11
  <2>2. ~Replaces(t, client, demand) => built.signed = t.signed
    BY <1>1, <1>2, <1>3, <1>4, <1>7, <1>11 DEF Replaces
  <2> QED
    BY <1>1, <1>2, <1>3, <1>4, <1>6, <2>1, <2>2
<1> QED
  BY <1>9, <1>10, <1>11

\* The state in which a method that freezes first goes on.
LEMMA FrozenKeeps ==
  ASSUME NEW t, Sound(t)
  PROVE  /\ Sound(Frozen(t)) /\ SameKeys(t, Frozen(t)) /\ Leaves(t, Frozen(t))
         /\ ~FreezesFirst(t) => Frozen(t).signed = t.signed
         /\ Frozen(t).signOnDemand = (IsFrozen(t) /\ t.signOnDemand)
<1>1. CASE IsFrozen(t)
  <2>1. t.signOnDemand \in BOOLEAN
    BY DEF Sound, Object
  <2> QED
    BY <1>1, <2>1 DEF Frozen, SameKeys, Leaves, IdStays, NodesStay
<1>2. CASE ~IsFrozen(t)
  <2>1. Frozen(t) = FreezeWith(t, FALSE, FALSE)
    BY <1>2 DEF Frozen
  <2>2. ~FreezesFirst(t) => ~Replaces(t, FALSE, FALSE)
    BY <1>2 DEF FreezesFirst, Replaces
  <2> QED
    BY <1>2, <2>1, <2>2, FreezeKeeps
<1> QED
  BY <1>1, <1>2

-----------------------------------------------------------------------------
(* Before a request is made. *)

LEMMA FirstOf ==
  ASSUME NEW S, NEW s \in Seq(S), MaxNodes > 0
  PROVE  /\ First(s) \in Seq(S)
         /\ Len(First(s)) = IF Len(s) < MaxNodes THEN Len(s) ELSE MaxNodes
         /\ \A i \in 1 .. Len(First(s)) : First(s)[i] = s[i]
<1> DEFINE n == IF Len(s) < MaxNodes THEN Len(s) ELSE MaxNodes
<1>1. n \in Nat /\ n <= Len(s) /\ Len(s) \in Nat /\ MaxNodes \in Nat
  BY LenProperties, TransactionAssumption
<1>2. \A i \in 1 .. n : s[i] \in S
  BY <1>1, ElementOfSeq
<1> HIDE DEF n
<1>3. /\ SubSeq(s, 1, n) \in Seq(S)
      /\ Len(SubSeq(s, 1, n)) = IF 1 <= n THEN n - 1 + 1 ELSE 0
      /\ \A i \in 1 .. n - 1 + 1 : SubSeq(s, 1, n)[i] = s[1 + i - 1]
  BY <1>1, <1>2, SubSeqProperties
<1>4. Len(SubSeq(s, 1, n)) = n /\ \A i \in 1 .. n : SubSeq(s, 1, n)[i] = s[i]
  BY <1>1, <1>3
<1>5. First(s) = SubSeq(s, 1, n)
  BY DEF First, n
<1> QED
  BY <1>3, <1>4, <1>5 DEF n

LEMMA TrimmedKeeps ==
  ASSUME NEW t, Sound(t)
  PROVE  LET u == Trimmed(t)
         IN  /\ Sound(u) /\ SameKeys(t, u) /\ Leaves(t, u) /\ RowsStay(t, u)
             /\ u.signOnDemand = t.signOnDemand
<1>1. PICK U : t \in Object(U)
  BY DEF Sound
<1> DEFINE u == Trimmed(t)
<1>2. /\ t.nodeIds.list \in Seq(Account) /\ t.signed.list \in Seq(SignedEntry)
      /\ t.signed.locked \in BOOLEAN
      /\ Len(t.nodeIds.list) \in Nat /\ Len(t.signed.list) \in Nat /\ MaxNodes \in Nat
  BY <1>1, LenProperties, TransactionAssumption DEF Object, Items
<1>3. CASE ~Excess(t)
  BY <1>2, <1>3 DEF Trimmed, SameKeys, Leaves, IdStays, NodesStay, RowsStay
<1>4. CASE Excess(t)
  <2>1. /\ MaxNodes > 0 /\ Len(t.nodeIds.list) > MaxNodes
    BY <1>4 DEF Excess
  <2> DEFINE nodes == [list |-> First(t.nodeIds.list), locked |-> TRUE, index |-> 0]
             rows == IF IsEmpty(t.ids) THEN <<>> ELSE First(t.signed.list)
             kept == IF t.signed.locked THEN t.signed ELSE SetList(t.signed, rows)
  <2>2. /\ First(t.nodeIds.list) \in Seq(Account) /\ Len(First(t.nodeIds.list)) = MaxNodes
        /\ \A i \in 1 .. MaxNodes : First(t.nodeIds.list)[i] = t.nodeIds.list[i]
    BY <1>2, <2>1, FirstOf
  <2>3. /\ rows \in Seq(SignedEntry) /\ Len(rows) <= Len(t.signed.list)
        /\ \A i \in 1 .. Len(rows) : rows[i] = t.signed.list[i]
    BY <1>2, <2>1, FirstOf, EmptySeq
  <2>4. /\ nodes \in Items(Account)
    BY <2>2 DEF Items
  <2>5. /\ kept \in Items(SignedEntry) /\ Len(kept.list) <= Len(t.signed.list)
        /\ \A i \in 1 .. Len(kept.list) : kept.list[i] = t.signed.list[i]
    <3>1. CASE t.signed.locked
      BY <1>1, <1>2, <3>1 DEF Object
    <3>2. CASE ~t.signed.locked
      <4> HIDE DEF rows
      <4>1. kept = [list |-> rows, locked |-> t.signed.locked, index |-> 0]
        BY <3>2 DEF SetList
      <4> QED
        BY <1>2, <2>3, <4>1 DEF Items
    <3> QED
      BY <3>1, <3>2
  <2>6. u = [t EXCEPT !.built = NoItems, !.nodeIds = nodes, !.signed = kept]
    BY <1>1, <1>4 DEF Trimmed, Object
  <2> HIDE DEF nodes, kept, rows, u
  <2>7. u \in Object(U \cup {NoItems})
    BY <1>1, <2>4, <2>5, <2>6 DEF Object
  <2>8. /\ u.nodeIds = nodes /\ u.signed = kept /\ u.ids = t.ids
        /\ SameKeys(t, u) /\ u.signOnDemand = t.signOnDemand
    BY <1>1, <2>6 DEF Object, SameKeys
  <2>9. nodes.list = First(t.nodeIds.list) /\ nodes.index = 0 /\ nodes.list # <<>>
    BY <1>2, <2>1, <2>2, EmptySeq DEF nodes
  <2>10. NodesOf(u)
    BY <1>2, <2>1, <2>2, <2>8, <2>9 DEF NodesOf
  <2>11. Follows(u)
    <3> SUFFICES ASSUME NEW i \in 1 .. Len(kept.list), i <= MaxNodes
                 PROVE  kept.list[i].node = First(t.nodeIds.list)[i]
      BY <2>2, <2>8, <2>9 DEF Follows
    <3>1. i \in 1 .. Len(t.signed.list) /\ i <= Len(t.nodeIds.list) /\ i \in 1 .. MaxNodes
      <4>1. kept.list \in Seq(SignedEntry)
        BY <2>5 DEF Items
      <4> QED
        BY <1>2, <2>1, <2>5, <4>1, LenProperties
    <3> QED
      BY <2>2, <2>5, <3>1 DEF Sound, Follows
  <2>12. RowsStay(t, u)
    BY <2>5, <2>8 DEF RowsStay
  <2> QED
    BY <2>7, <2>8, <2>9, <2>10, <2>11, <2>12 DEF u, Sound, Leaves, IdStays, NodesStay
<1> QED
  BY <1>3, <1>4

LEMMA ClientKeeps ==
  ASSUME NEW t, Sound(t)
  PROVE  LET u == WithClient(t)
         IN  /\ Sound(u) /\ SameKeys(t, u) /\ Leaves(t, u)
             /\ u.signed = t.signed /\ u.signOnDemand = t.signOnDemand
<1>1. PICK U : t \in Object(U)
  BY DEF Sound
<1> DEFINE u == WithClient(t)
<1>2. u \in Object(U)
  BY <1>1 DEF Object, WithClient
<1>3. /\ SameKeys(t, u) /\ u.ids = t.ids /\ u.nodeIds = t.nodeIds
      /\ u.signed = t.signed /\ u.signOnDemand = t.signOnDemand
  BY <1>1 DEF Object, WithClient, SameKeys
<1> QED
  BY <1>2, <1>3 DEF Sound, NodesOf, Follows, Leaves, IdStays, NodesStay

-----------------------------------------------------------------------------
(* The inductive invariant. *)

CallRecord(V) ==
    [pc : V, executes : V, key : V, at : V, attached : V, row : V, done : V, missing : V, expired : V]
IsCall(r) == \E V : r \in CallRecord(V)
CallsTyped ==
    /\ \E V : call \in [Caller -> V]
    /\ \A c \in Caller : IsCall(call[c])

\* A call that signs the rows it started with has at least as many to sign.
Ahead ==
    \A c \in Caller : call[c].pc = "signing" =>
        /\ call[c].key \in Key /\ call[c].at \in Nat /\ call[c].done \in Nat
        /\ call[c].attached => Len(tx.signed.list) <= call[c].done

HasNodes == \A c \in Caller : call[c].pc \in {"making", "sent"} => tx.nodeIds.list # <<>>

\* A row that lacks the signature of a registered key will get it from a call
\* that has not come to that row yet.
Pending(k, i) == \E c \in Caller : /\ call[c].pc = "signing" /\ call[c].attached
                                   /\ call[c].key = k /\ call[c].at < i
AllSigned == ~tx.signOnDemand =>
    \A i \in 1 .. Len(tx.signed.list) : \A k \in tx.signerKeys \ excused :
        k \in KeysIn(tx.signed.list[i].sigs) \/ Pending(k, i)

Inv == Sound(tx) /\ CallsTyped /\ Ahead /\ HasNodes /\ AllSigned /\ (removed \/ AlignedIn(tx))

LEMMA ObjectFields ==
  ASSUME NEW t, Sound(t)
  PROVE  /\ t.signed.list \in Seq(SignedEntry) /\ Len(t.signed.list) \in Nat
         /\ t.nodeIds.list \in Seq(Account) /\ Len(t.nodeIds.list) \in Nat
         /\ t.signerKeys \subseteq Key /\ t.signOnDemand \in BOOLEAN
<1>1. PICK U : t \in Object(U)
  BY DEF Sound
<1>2. t.signed.list \in Seq(SignedEntry) /\ t.nodeIds.list \in Seq(Account)
  BY <1>1 DEF Object, Items
<1> QED
  BY <1>1, <1>2, LenProperties DEF Object

LEMMA Updated ==
  ASSUME CallsTyped, NEW c \in Caller, NEW r, IsCall(r), call' = [call EXCEPT ![c] = r]
  PROVE  CallsTyped' /\ call'[c] = r /\ \A d \in Caller : d # c => call'[d] = call[d]
<1>1. PICK V : call \in [Caller -> V]
  BY DEF CallsTyped
<1>2. /\ call' \in [Caller -> V \cup {r}]
      /\ call'[c] = r /\ \A d \in Caller : d # c => call'[d] = call[d]
  BY <1>1
<1> QED
  BY <1>2 DEF CallsTyped

LEMMA IdleCall == IsCall(Idle) /\ Idle.pc = "idle" /\ Idle.at = 0
<1>1. Idle \in CallRecord({"idle", FALSE, Null, 0, {}})
  BY DEF Idle, CallRecord
<1> QED
  BY <1>1 DEF Idle, IsCall

LEMMA DetachedCall ==
  ASSUME NEW s, IsCall(s), NEW b
  PROVE  LET r == [s EXCEPT !.attached = b]
         IN  /\ IsCall(r) /\ r.pc = s.pc /\ r.key = s.key /\ r.at = s.at /\ r.done = s.done
             /\ r.attached = b
<1>1. PICK V : s \in CallRecord(V)
  BY DEF IsCall
<1>2. [s EXCEPT !.attached = b] \in CallRecord(V \cup {b})
  BY <1>1 DEF CallRecord
<1>3. LET r == [s EXCEPT !.attached = b]
      IN  r.pc = s.pc /\ r.key = s.key /\ r.at = s.at /\ r.done = s.done /\ r.attached = b
  BY <1>1 DEF CallRecord
<1> QED
  BY <1>2, <1>3 DEF IsCall

LEMMA DetachedCalls ==
  ASSUME CallsTyped, NEW replaced \in BOOLEAN
  PROVE  /\ \E V : DetachedIf(replaced) \in [Caller -> V]
         /\ \A c \in Caller : LET r == DetachedIf(replaced)[c]
                              IN  /\ IsCall(r) /\ r.pc = call[c].pc /\ r.key = call[c].key
                                  /\ r.at = call[c].at /\ r.done = call[c].done
                                  /\ r.attached => ~replaced /\ call[c].attached
<1>1. CASE ~replaced
  BY <1>1 DEF DetachedIf, CallsTyped
<1>2. CASE replaced
  <2>1. DetachedIf(replaced) = [c \in Caller |-> [call[c] EXCEPT !.attached = FALSE]]
    BY <1>2 DEF DetachedIf
  <2>2. \A c \in Caller : LET r == [call[c] EXCEPT !.attached = FALSE]
                          IN  /\ IsCall(r) /\ r.pc = call[c].pc /\ r.key = call[c].key
                              /\ r.at = call[c].at /\ r.done = call[c].done
                              /\ r.attached = FALSE
    BY DetachedCall DEF CallsTyped
  <2>3. DetachedIf(replaced) \in [Caller -> {[call[c] EXCEPT !.attached = FALSE] : c \in Caller}]
    BY <2>1
  <2> QED
    BY <2>1, <2>2, <2>3
<1> QED
  BY <1>1, <1>2

\* Steps that leave the rows and the keys alone, and let signing calls go on.
LEMMA QuietStep ==
  ASSUME Inv, Sound(tx'), Leaves(tx, tx'), SameKeys(tx, tx'), RowsStay(tx, tx'),
         tx'.signOnDemand = tx.signOnDemand, excused \subseteq excused', removed => removed',
         CallsTyped',
         \A d \in Caller : call'[d].pc = "signing" => call'[d] = call[d],
         \A d \in Caller : call[d].pc = "signing" => call'[d] = call[d] \/ call[d].key \in excused',
         \A d \in Caller : call'[d].pc \in {"making", "sent"} => tx'.nodeIds.list # <<>>
  PROVE  Inv' /\ IdStays(tx, tx')
<1>1. Len(tx.signed.list) \in Nat /\ Len(tx'.signed.list) \in Nat
  BY ObjectFields DEF Inv
<1>2. Ahead'
  <2> SUFFICES ASSUME NEW c \in Caller, call'[c].pc = "signing"
               PROVE  /\ call'[c].key \in Key /\ call'[c].at \in Nat /\ call'[c].done \in Nat
                      /\ call'[c].attached => Len(tx'.signed.list) <= call'[c].done
    BY DEF Ahead
  <2>1. call'[c] = call[c]
    OBVIOUS
  <2>2. /\ call[c].key \in Key /\ call[c].at \in Nat /\ call[c].done \in Nat
        /\ call[c].attached => Len(tx.signed.list) <= call[c].done
    BY <2>1 DEF Inv, Ahead
  <2>3. Len(tx'.signed.list) <= Len(tx.signed.list)
    BY DEF RowsStay
  <2> QED
    BY <1>1, <2>1, <2>2, <2>3
<1>3. HasNodes'
  BY DEF HasNodes
<1>4. AllSigned'
  <2> SUFFICES ASSUME ~tx.signOnDemand, NEW i \in 1 .. Len(tx'.signed.list),
                      NEW k \in tx.signerKeys \ excused'
               PROVE  k \in KeysIn(tx'.signed.list[i].sigs) \/ Pending(k, i)'
    BY DEF AllSigned, SameKeys
  <2>1. i \in 1 .. Len(tx.signed.list) /\ tx'.signed.list[i].sigs = tx.signed.list[i].sigs
    BY <1>1 DEF RowsStay
  <2>2. k \in KeysIn(tx.signed.list[i].sigs) \/ Pending(k, i)
    BY <2>1 DEF Inv, AllSigned
  <2>3. Pending(k, i) => Pending(k, i)'
    BY DEF Pending
  <2> QED
    BY <2>1, <2>2, <2>3
<1>5. removed' \/ AlignedIn(tx')
  BY DEF Inv, AlignedIn, SameKeys
<1> QED
  BY <1>2, <1>3, <1>4, <1>5 DEF Inv, Leaves

\* Steps after which no key is held to have signed.
LEMMA ExcusedStep ==
  ASSUME Inv, Sound(tx'), CallsTyped',
         \A d \in Caller : call'[d].pc = "signing" =>
             /\ call[d].pc = "signing" /\ call'[d].key = call[d].key
             /\ call'[d].at = call[d].at /\ call'[d].done = call[d].done
             /\ call'[d].attached =>
                  call[d].attached /\ Len(tx'.signed.list) <= Len(tx.signed.list),
         \A d \in Caller : call'[d].pc \in {"making", "sent"} => tx'.nodeIds.list # <<>>,
         \/ tx'.signOnDemand \/ tx'.signerKeys \subseteq excused'
         \/ tx'.signed.list = <<>>,
         removed' \/ AlignedIn(tx')
  PROVE  Inv'
<1>1. Len(tx.signed.list) \in Nat /\ Len(tx'.signed.list) \in Nat
  BY ObjectFields DEF Inv
<1>2. Ahead'
  BY <1>1 DEF Inv, Ahead
<1>3. HasNodes' /\ AllSigned'
  BY EmptySeq DEF HasNodes, AllSigned
<1> QED
  BY <1>2, <1>3 DEF Inv

LEMMA InvInit == Init => Inv
<1> SUFFICES ASSUME Init PROVE Inv
  OBVIOUS
<1>1. /\ CallsTyped /\ Ahead /\ HasNodes
  <2>1. \A c \in Caller : call[c] = Idle
    BY DEF Init
  <2>2. IsCall(Idle) /\ Idle.pc = "idle"
    BY IdleCall
  <2>3. call \in [Caller -> {Idle}]
    BY DEF Init
  <2> QED
    BY <2>1, <2>2, <2>3 DEF CallsTyped, Ahead, HasNodes
<1>2. CASE tx = New
  <2>1. New \in Object({NoItems, <<>>})
    <3>1. NoItems \in Items(Account) /\ NoItems \in Items(Nat) /\ NoItems \in Items(SignedEntry)
      BY EmptySeq DEF NoItems, Listed, Items
    <3> QED
      BY <3>1 DEF New, Object
  <2>2. /\ New.nodeIds.list = <<>> /\ New.signed.list = <<>> /\ New.publicKeys = <<>>
        /\ New.signers = <<>> /\ New.signerKeys = {}
    BY DEF New, NoItems, Listed
  <2>3. Sound(New)
    BY <2>1, <2>2, EmptySeq DEF Sound, NodesOf, Follows
  <2>4. AlignedIn(New)
    BY <2>2, EmptySeq DEF AlignedIn
  <2> QED
    BY <1>1, <1>2, <2>2, <2>3, <2>4 DEF Inv, AllSigned
<1>3. ASSUME NEW keys \in {<<>>} \cup {<<k>> : k \in Key}, tx = FromBytes(keys) PROVE Inv
  <2> DEFINE n == Len(ClientNodes)
             rows == [i \in 1 .. n |-> Entry(ClientNodes[i], 1, SignedBy(keys))]
             known == [i \in 1 .. n * Len(keys) |-> keys[((i - 1) % Len(keys)) + 1]]
             none == [i \in 1 .. Len(known) |-> Null]
  <2>1. /\ ClientNodes \in Seq(Account) /\ n \in Nat /\ n > 0
        /\ keys \in Seq(Key) /\ Len(keys) \in {0, 1}
    <3>1. ClientNodes \in Seq(Account) /\ n \in Nat /\ n > 0
      BY TransactionAssumption, NonEmpty
    <3>2. keys \in Seq(Key) /\ Len(keys) \in {0, 1}
      <4>1. CASE keys = <<>>
        BY <4>1, EmptySeq
      <4>2. CASE \E k \in Key : keys = <<k>>
        BY <4>2
      <4> QED
        BY <4>1, <4>2
    <3> QED
      BY <3>1, <3>2
  <2>2. /\ rows \in Seq(SignedEntry) /\ Len(rows) = n
        /\ \A i \in 1 .. n : /\ rows[i].node = ClientNodes[i] /\ rows[i].sigs = SignedBy(keys)
    <3>1. SignedBy(keys) \in [Key -> Nat]
      BY DEF SignedBy
    <3>2. \A i \in 1 .. n : Entry(ClientNodes[i], 1, SignedBy(keys)) \in SignedEntry
      BY <2>1, <3>1, ElementOfSeq DEF Entry, SignedEntry
    <3>3. rows \in [1 .. n -> SignedEntry]
      BY <3>2
    <3>4. rows \in Seq(SignedEntry) /\ Len(rows) = n
      BY <2>1, <3>3
    <3> QED
      BY <3>4 DEF Entry
  <2>3. known \in Seq(Key) /\ Len(known) \in Nat
    <3>1. CASE keys = <<>>
      <4>1. known \in [1 .. 0 -> Key]
        BY <2>1, <3>1
      <4> QED
        BY <4>1, LenProperties
    <3>2. CASE \E k \in Key : keys = <<k>>
      <4>1. PICK k \in Key : keys = <<k>>
        BY <3>2
      <4>2. Len(keys) = 1 /\ keys[1] = k
        BY <4>1
      <4>3. \A i \in 1 .. n : ((i - 1) % 1) + 1 = 1
        BY <2>1
      <4>4. known \in [1 .. n -> Key]
        BY <2>1, <4>2, <4>3
      <4> QED
        BY <2>1, <4>4, LenProperties
    <3> QED
      BY <3>1, <3>2
  <2>4. /\ none \in Seq(Key \cup {Null}) /\ Len(none) = Len(known)
        /\ \A i \in 1 .. Len(none) : none[i] = Null
    <3>1. none \in [1 .. Len(known) -> Key \cup {Null}]
      OBVIOUS
    <3> QED
      BY <2>3, <3>1
  <2>5. tx = [nodeIds |-> Listed(ClientNodes), ids |-> Listed(<<1>>),
              signed |-> Listed(rows), built |-> Listed(rows),
              signerKeys |-> ToSet(keys), publicKeys |-> known, signers |-> none,
              signOnDemand |-> FALSE, accountKnown |-> FALSE, throttled |-> FALSE, newest |-> 1]
    BY <1>3 DEF FromBytes, New
  <2> HIDE DEF rows, known, none
  <2>6. /\ Listed(ClientNodes) \in Items(Account) /\ Listed(<<1>>) \in Items(Nat)
        /\ Listed(rows) \in Items(SignedEntry) /\ ToSet(keys) \in SUBSET Key
    BY <2>1, <2>2, LenProperties DEF Listed, Items, ToSet
  <2>7. tx \in Object({Listed(rows), known, none})
    BY <2>5, <2>6 DEF Object
  <2>8. /\ tx.nodeIds.list = ClientNodes /\ tx.nodeIds.index = 0 /\ tx.signed.list = rows
        /\ tx.publicKeys = known /\ tx.signers = none /\ tx.signerKeys = ToSet(keys)
    BY <2>5 DEF Listed
  <2>9. Sound(tx)
    BY <2>1, <2>2, <2>7, <2>8 DEF Sound, NodesOf, Follows
  <2>10. AlignedIn(tx)
    BY <2>3, <2>4, <2>8 DEF AlignedIn
  <2>11. AllSigned
    <3>1. \A i \in 1 .. n : \A k \in ToSet(keys) : k \in KeysIn(rows[i].sigs)
      <4> TAKE i \in 1 .. n
      <4> TAKE k \in ToSet(keys)
      <4>1. k \in Key /\ SignedBy(keys)[k] = 1
        BY <2>6 DEF SignedBy
      <4> QED
        BY <2>2, <4>1 DEF KeysIn
    <3> QED
      BY <2>2, <2>8, <3>1 DEF AllSigned
  <2> QED
    BY <1>1, <2>9, <2>10, <2>11 DEF Inv
<1> QED
  BY <1>2, <1>3 DEF Init

-----------------------------------------------------------------------------
(* Steps that only lock lists, build entries or go on to the next node.    *)

Kept(t, u) ==
    /\ Sound(u) /\ SameKeys(t, u) /\ Leaves(t, u)
    /\ u.signed.list = t.signed.list /\ u.signOnDemand = t.signOnDemand

LEMMA KeptChain ==
  ASSUME NEW t, NEW u, NEW v, Kept(t, u), Kept(u, v)
  PROVE  Kept(t, v)
BY Composed DEF Kept

LEMMA KeptSelf == ASSUME NEW t, Sound(t) PROVE Kept(t, t)
BY DEF Kept, SameKeys, Leaves, IdStays, NodesStay

LEMMA KeptRows ==
  ASSUME NEW t, NEW u, Sound(t), Kept(t, u)
  PROVE  RowsStay(t, u)
<1>1. Len(t.signed.list) \in Nat
  BY ObjectFields
<1> QED
  BY <1>1 DEF Kept, RowsStay

LEMMA BuiltKeeps ==
  ASSUME NEW t, Sound(t), NEW b
  PROVE  Kept(t, [t EXCEPT !.built = b])
<1>1. PICK U : t \in Object(U)
  BY DEF Sound
<1> DEFINE u == [t EXCEPT !.built = b]
<1>2. u \in Object(U \cup {b})
  BY <1>1 DEF Object
<1>3. /\ SameKeys(t, u) /\ u.ids = t.ids /\ u.nodeIds = t.nodeIds
      /\ u.signed = t.signed /\ u.signOnDemand = t.signOnDemand
  BY <1>1 DEF Object, SameKeys
<1> QED
  BY <1>2, <1>3 DEF Kept, Sound, NodesOf, Follows, Leaves, IdStays, NodesStay

LEMMA LockNamesKeeps ==
  ASSUME NEW t, Sound(t)
  PROVE  Kept(t, LockNames(t))
<1>1. PICK U : t \in Object(U)
  BY DEF Sound
<1> DEFINE u == LockNames(t)
<1>2. SetLocked(t.ids) \in Items(Nat) /\ SetLocked(t.nodeIds) \in Items(Account)
  BY <1>1 DEF Object, Items, SetLocked
<1>3. /\ SetLocked(t.ids).list = t.ids.list /\ SetLocked(t.ids).locked = TRUE
      /\ SetLocked(t.nodeIds).list = t.nodeIds.list /\ SetLocked(t.nodeIds).index = t.nodeIds.index
  BY <1>1 DEF Object, Items, SetLocked
<1>4. u = [t EXCEPT !.ids = SetLocked(t.ids), !.nodeIds = SetLocked(t.nodeIds)]
  BY <1>1 DEF LockNames, Object
<1>5. u \in Object(U)
  BY <1>1, <1>2, <1>4 DEF Object
<1>6. /\ SameKeys(t, u) /\ u.ids = SetLocked(t.ids) /\ u.nodeIds = SetLocked(t.nodeIds)
      /\ u.signed = t.signed /\ u.signOnDemand = t.signOnDemand
  BY <1>1, <1>4 DEF Object, SameKeys
<1> QED
  BY <1>3, <1>5, <1>6 DEF Kept, Sound, NodesOf, Follows, Leaves, IdStays, NodesStay

LEMMA IdLocked ==
  ASSUME NEW t, Sound(t), NEW b \in BOOLEAN, t.ids.locked => b
  PROVE  Kept(t, [t EXCEPT !.ids.locked = b])
<1>1. PICK U : t \in Object(U)
  BY DEF Sound
<1> DEFINE u == [t EXCEPT !.ids.locked = b]
<1>2. u \in Object(U)
  BY <1>1 DEF Object, Items
<1>3. /\ SameKeys(t, u) /\ u.ids.list = t.ids.list /\ (t.ids.locked => u.ids.locked)
      /\ u.nodeIds = t.nodeIds
      /\ u.signed = t.signed /\ u.signOnDemand = t.signOnDemand
  BY <1>1 DEF Object, Items, SameKeys
<1> QED
  BY <1>2, <1>3 DEF Kept, Sound, NodesOf, Follows, Leaves, IdStays, NodesStay

LEMMA RowsLocked ==
  ASSUME NEW t, Sound(t)
  PROVE  Kept(t, [t EXCEPT !.signed.locked = TRUE])
<1>1. PICK U : t \in Object(U)
  BY DEF Sound
<1> DEFINE u == [t EXCEPT !.signed.locked = TRUE]
<1>2. u \in Object(U)
  BY <1>1 DEF Object, Items
<1>3. /\ SameKeys(t, u) /\ u.ids = t.ids /\ u.nodeIds = t.nodeIds
      /\ u.signed.list = t.signed.list /\ u.signOnDemand = t.signOnDemand
  BY <1>1 DEF Object, Items, SameKeys
<1> QED
  BY <1>2, <1>3 DEF Kept, Sound, NodesOf, Follows, Leaves, IdStays, NodesStay

LEMMA ClosedKeeps ==
  ASSUME NEW t, Sound(t)
  PROVE  Kept(t, Closed(t))
<1> DEFINE u == [t EXCEPT !.built = [t.built EXCEPT !.locked = TRUE]]
<1>1. Kept(t, u)
  BY BuiltKeeps
<1>2. Kept(u, [u EXCEPT !.signed.locked = TRUE])
  BY <1>1, RowsLocked DEF Kept
<1>3. Closed(t) = [u EXCEPT !.signed.locked = TRUE]
  <2>1. PICK U : t \in Object(U)
    BY DEF Sound
  <2> QED
    BY <2>1 DEF Closed, Object
<1> QED
  BY <1>1, <1>2, <1>3, KeptChain

LEMMA NextNodeKeeps ==
  ASSUME NEW t, Sound(t), t.nodeIds.list # <<>>
  PROVE  Kept(t, NextNode(t))
<1>1. PICK U : t \in Object(U)
  BY DEF Sound
<1> DEFINE n == Len(t.nodeIds.list)
           i == (t.nodeIds.index + 1) % n
           u == NextNode(t)
<1>2. n \in Nat /\ n > 0 /\ t.nodeIds.index \in Nat
  BY <1>1, NonEmpty DEF Object, Items
<1>3. i \in Nat /\ i < n
  BY <1>2
<1> HIDE DEF i
<1>4. Advance(t.nodeIds) = [t.nodeIds EXCEPT !.index = i]
  BY <1>1 DEF Advance, Object, Items, i
<1>5. /\ Advance(t.nodeIds) \in Items(Account)
      /\ Advance(t.nodeIds).list = t.nodeIds.list /\ Advance(t.nodeIds).index = i
  BY <1>1, <1>3, <1>4 DEF Object, Items
<1>6. u = [t EXCEPT !.nodeIds = Advance(t.nodeIds)]
  BY <1>1 DEF NextNode, Object
<1>7. u \in Object(U)
  BY <1>1, <1>5, <1>6 DEF Object
<1>8. /\ SameKeys(t, u) /\ u.ids = t.ids /\ u.nodeIds = Advance(t.nodeIds)
      /\ u.signed = t.signed /\ u.signOnDemand = t.signOnDemand
  BY <1>1, <1>6 DEF Object, SameKeys
<1> QED
  BY <1>3, <1>5, <1>7, <1>8 DEF Kept, Sound, NodesOf, Follows, Leaves, IdStays, NodesStay

\* Such a step of a call that is not signing rows, or of no call.
LEMMA KeptStep ==
  ASSUME Inv, Kept(tx, tx'), excused \subseteq excused', removed => removed', call' = call
  PROVE  Inv' /\ IdStays(tx, tx')
<1>1. RowsStay(tx, tx') /\ NodesStay(tx, tx')
  BY KeptRows DEF Inv, Kept, Leaves
<1>2. \A d \in Caller : call'[d].pc \in {"making", "sent"} => tx'.nodeIds.list # <<>>
  BY <1>1 DEF Inv, HasNodes, NodesStay
<1>3. CallsTyped'
  BY DEF Inv, CallsTyped
<1> QED
  BY <1>1, <1>2, <1>3, QuietStep DEF Kept

LEMMA KeptCallStep ==
  ASSUME Inv, Kept(tx, tx'), UNCHANGED <<excused, removed>>,
         NEW c \in Caller, call[c].pc # "signing", NEW r, IsCall(r), r.pc # "signing",
         r.pc \in {"making", "sent"} => tx.nodeIds.list # <<>>,
         call' = [call EXCEPT ![c] = r]
  PROVE  Inv' /\ IdStays(tx, tx')
<1>1. RowsStay(tx, tx') /\ NodesStay(tx, tx')
  BY KeptRows DEF Inv, Kept, Leaves
<1>2. CallsTyped' /\ call'[c] = r /\ \A d \in Caller : d # c => call'[d] = call[d]
  BY Updated DEF Inv
<1>3. \A d \in Caller : call'[d].pc \in {"making", "sent"} => tx'.nodeIds.list # <<>>
  BY <1>1, <1>2 DEF Inv, HasNodes, NodesStay
<1> QED
  BY <1>1, <1>2, <1>3, QuietStep DEF Kept

-----------------------------------------------------------------------------
(* Setters and freezing. *)

LEMMA SetNodeAccountIdsKeeps ==
  ASSUME Inv, NEW list \in GivenNodes, SetNodeAccountIds(list)
  PROVE  Inv' /\ IdStays(tx, tx')
<1>1. PICK U : tx \in Object(U)
  BY DEF Inv, Sound
<1>2. /\ tx.signed.list = <<>>
      /\ tx' = [tx EXCEPT !.nodeIds = SetLocked(SetList(@, list))]
      /\ UNCHANGED <<call, excused, removed>>
  BY DEF SetNodeAccountIds, HeldFrozen, IsFrozen, IsEmpty
<1>3. list \in Seq(Account) /\ list # <<>> /\ Len(list) > 0
  BY TransactionAssumption, NonEmpty
<1> DEFINE nodes == SetLocked(SetList(tx.nodeIds, list))
<1>4. nodes \in Items(Account) /\ nodes.list = list /\ nodes.index = 0
  <2>1. SetList(tx.nodeIds, list) \in Items(Account)
    BY <1>1, <1>3 DEF SetList, Object, Items
  <2>2. SetList(tx.nodeIds, list).list = list /\ SetList(tx.nodeIds, list).index = 0
    BY DEF SetList
  <2> QED
    BY <2>1, <2>2 DEF SetLocked, Items
<1> HIDE DEF nodes
<1>5. tx' = [tx EXCEPT !.nodeIds = nodes]
  BY <1>1, <1>2 DEF nodes, Object
<1>6. tx' \in Object(U)
  BY <1>1, <1>4, <1>5 DEF Object
<1>7. /\ SameKeys(tx, tx') /\ tx'.ids = tx.ids /\ tx'.nodeIds = nodes
      /\ tx'.signed = tx.signed /\ tx'.signOnDemand = tx.signOnDemand
  BY <1>1, <1>5 DEF Object, SameKeys
<1>8. NodesOf(tx') /\ Follows(tx')
  BY <1>2, <1>3, <1>4, <1>7, EmptySeq DEF NodesOf, Follows
<1>9. Kept(tx, tx')
  BY <1>3, <1>4, <1>6, <1>7, <1>8 DEF Kept, Sound, Leaves, IdStays, NodesStay
<1> QED
  BY <1>2, <1>9, KeptStep

LEMMA SetTransactionIdKeeps ==
  ASSUME Inv, SetTransactionId
  PROVE  Inv' /\ IdStays(tx, tx')
<1>1. PICK U : tx \in Object(U)
  BY DEF Inv, Sound
<1> DEFINE ids == SetLocked(SetList(tx.ids, <<tx.newest + 1>>))
<1>2. /\ ~tx.ids.locked
      /\ tx' = [tx EXCEPT !.newest = tx.newest + 1, !.ids = ids]
      /\ UNCHANGED <<call, excused, removed>>
  BY <1>1 DEF SetTransactionId, Object
<1>3. ids \in Items(Nat) /\ tx.newest + 1 \in Nat
  <2>1. SetList(tx.ids, <<tx.newest + 1>>) \in Items(Nat) /\ tx.newest + 1 \in Nat
    BY <1>1 DEF SetList, Object, Items
  <2> QED
    BY <2>1 DEF SetLocked, Items
<1> HIDE DEF ids
<1>4. tx' \in Object(U)
  BY <1>1, <1>2, <1>3 DEF Object
<1>5. /\ SameKeys(tx, tx') /\ tx'.nodeIds = tx.nodeIds
      /\ tx'.signed = tx.signed /\ tx'.signOnDemand = tx.signOnDemand
  BY <1>1, <1>2 DEF Object, SameKeys
<1>6. Kept(tx, tx')
  BY <1>2, <1>4, <1>5 DEF Inv, Kept, Sound, NodesOf, Follows, Leaves, IdStays, NodesStay
<1> QED
  BY <1>2, <1>6, KeptStep

LEMMA GetTransactionIdKeeps ==
  ASSUME Inv, GetTransactionId
  PROVE  Inv' /\ IdStays(tx, tx')
<1>1. Kept(tx, tx')
  BY IdLocked DEF GetTransactionId, Inv
<1> QED
  BY <1>1, KeptStep DEF GetTransactionId

LEMMA ReplacedByFreezing ==
  ASSUME Inv, NEW client \in BOOLEAN, NEW demand \in BOOLEAN,
         tx' = FreezeWith(tx, client, demand),
         call' = DetachedIf(Replaces(tx, client, demand)),
         excused' = excused \cup LostByFreezing(tx, client, demand), removed' = removed
  PROVE  Inv' /\ IdStays(tx, tx')
<1>1. /\ Sound(tx') /\ SameKeys(tx, tx') /\ Leaves(tx, tx') /\ tx'.signOnDemand = demand
      /\ ~Replaces(tx, client, demand) => tx'.signed = tx.signed
  BY FreezeKeeps DEF Inv
<1>2. Replaces(tx, client, demand) \in BOOLEAN
  BY DEF Replaces
<1>3. /\ \E V : call' \in [Caller -> V]
      /\ \A c \in Caller : /\ IsCall(call'[c]) /\ call'[c].pc = call[c].pc
                           /\ call'[c].key = call[c].key /\ call'[c].at = call[c].at
                           /\ call'[c].done = call[c].done
                           /\ call'[c].attached => ~Replaces(tx, client, demand) /\ call[c].attached
  BY <1>2, DetachedCalls DEF Inv
<1>4. CallsTyped'
  BY <1>3 DEF CallsTyped
<1>5. removed' \/ AlignedIn(tx')
  BY <1>1 DEF Inv, AlignedIn, SameKeys
<1>6. \A d \in Caller : call'[d].pc \in {"making", "sent"} => tx'.nodeIds.list # <<>>
  BY <1>1, <1>3 DEF Inv, HasNodes, Leaves, NodesStay
<1>7. Len(tx.signed.list) \in Nat /\ tx.signOnDemand \in BOOLEAN
  BY ObjectFields DEF Inv
<1>8. CASE demand \/ Replaces(tx, client, demand) \/ tx.signOnDemand
  <2>1. tx'.signOnDemand \/ tx'.signerKeys \subseteq excused'
    BY <1>1, <1>8 DEF LostByFreezing, SameKeys
  <2>2. \A d \in Caller : call'[d].attached => Len(tx'.signed.list) <= Len(tx.signed.list)
    BY <1>1, <1>3, <1>7
  <2>3. Inv'
    BY <1>1, <1>3, <1>4, <1>5, <1>6, <2>1, <2>2, ExcusedStep
  <2> QED
    BY <1>1, <2>3 DEF Leaves
<1>9. CASE ~demand /\ ~Replaces(tx, client, demand) /\ ~tx.signOnDemand
  <2>1. Kept(tx, tx')
    BY <1>1, <1>7, <1>9 DEF Kept
  <2>2. call' = call
    BY <1>9 DEF DetachedIf
  <2> QED
    BY <2>1, <2>2, KeptStep
<1> QED
  BY <1>8, <1>9

LEMMA FreezeStepKeeps ==
  ASSUME Inv, NEW client \in BOOLEAN, NEW demand \in BOOLEAN, Freeze(client, demand)
  PROVE  Inv' /\ IdStays(tx, tx')
BY ReplacedByFreezing DEF Freeze

-----------------------------------------------------------------------------
(* Bytes, and the attempts of an execution. *)

LEMMA BuiltListKeeps ==
  ASSUME NEW t, Sound(t), NEW b
  PROVE  Kept(t, [t EXCEPT !.built.list = b])
<1>1. PICK U : t \in Object(U)
  BY DEF Sound
<1>2. [t EXCEPT !.built.list = b] = [t EXCEPT !.built = [t.built EXCEPT !.list = b]]
  BY <1>1 DEF Object
<1> QED
  BY <1>2, BuiltKeeps

LEMMA BuildAllKeeps ==
  ASSUME NEW t, Sound(t)
  PROVE  Kept(t, BuildAll(t))
BY BuiltListKeeps DEF BuildAll

LEMMA ToBytesKeeps ==
  ASSUME Inv, ToBytes
  PROVE  Inv' /\ IdStays(tx, tx')
<1>1. CASE IsFrozen(tx)
  <2>1. Kept(tx, LockNames(tx)) /\ Sound(LockNames(tx))
    BY LockNamesKeeps DEF Inv, Kept
  <2>2. Kept(LockNames(tx), BuildAll(LockNames(tx)))
    BY <2>1, BuildAllKeeps
  <2>3. Kept(tx, tx')
    BY <1>1, <2>1, <2>2, KeptChain DEF ToBytes
  <2> QED
    BY <2>3, KeptStep DEF ToBytes
<1>2. CASE ~IsFrozen(tx)
  <2>1. \E b : tx' = [tx EXCEPT !.built = b]
    <3>1. PICK U : tx \in Object(U)
      BY DEF Inv, Sound
    <3>2. tx' = [tx EXCEPT !.built = SetList(tx.built,
             IF IsEmpty(tx.nodeIds) THEN <<Entry(Null, CurrentId(tx), NoSignature)>> ELSE Unsigned(tx))]
      BY <1>2, <3>1 DEF ToBytes, Object
    <3> QED
      BY <3>2
  <2>2. Kept(tx, tx')
    BY <2>1, BuiltKeeps DEF Inv
  <2> QED
    BY <2>2, KeptStep DEF ToBytes
<1> QED
  BY <1>1, <1>2

LEMMA CallStarts ==
  ASSUME NEW s, IsCall(s), NEW pc, NEW executes
  PROVE  /\ IsCall([s EXCEPT !.pc = pc, !.executes = executes])
         /\ LET r == [s EXCEPT !.pc = pc, !.executes = executes]
            IN  r.pc = pc
<1>1. PICK V : s \in CallRecord(V)
  BY DEF IsCall
<1>2. [s EXCEPT !.pc = pc, !.executes = executes] \in CallRecord(V \cup {pc, executes})
  BY <1>1 DEF CallRecord
<1>3. LET r == [s EXCEPT !.pc = pc, !.executes = executes]
      IN  r.pc = pc
  BY <1>1 DEF CallRecord
<1> QED
  BY <1>2, <1>3 DEF IsCall

LEMMA CallExpires ==
  ASSUME NEW s, IsCall(s), NEW expired
  PROVE  /\ IsCall([s EXCEPT !.expired = expired])
         /\ LET r == [s EXCEPT !.expired = expired]
            IN  r.pc = s.pc
<1>1. PICK V : s \in CallRecord(V)
  BY DEF IsCall
<1>2. [s EXCEPT !.expired = expired] \in CallRecord(V \cup {expired})
  BY <1>1 DEF CallRecord
<1>3. LET r == [s EXCEPT !.expired = expired]
      IN  r.pc = s.pc
  BY <1>1 DEF CallRecord
<1> QED
  BY <1>2, <1>3 DEF IsCall

LEMMA CallAsks ==
  ASSUME NEW s, IsCall(s), NEW key, NEW at, NEW row
  PROVE  /\ IsCall([s EXCEPT !.row = row, !.at = at, !.key = key])
         /\ LET r == [s EXCEPT !.row = row, !.at = at, !.key = key]
            IN  r.pc = s.pc
<1>1. PICK V : s \in CallRecord(V)
  BY DEF IsCall
<1>2. [s EXCEPT !.row = row, !.at = at, !.key = key] \in CallRecord(V \cup {key, at, row})
  BY <1>1 DEF CallRecord
<1>3. LET r == [s EXCEPT !.row = row, !.at = at, !.key = key]
      IN  r.pc = s.pc
  BY <1>1 DEF CallRecord
<1> QED
  BY <1>2, <1>3 DEF IsCall

LEMMA CallGoesOn ==
  ASSUME NEW s, IsCall(s), NEW at
  PROVE  /\ IsCall([s EXCEPT !.at = at])
         /\ LET r == [s EXCEPT !.at = at]
            IN  /\ r.pc = s.pc /\ r.key = s.key /\ r.attached = s.attached
                /\ r.done = s.done /\ r.at = at
<1>1. PICK V : s \in CallRecord(V)
  BY DEF IsCall
<1>2. [s EXCEPT !.at = at] \in CallRecord(V \cup {at})
  BY <1>1 DEF CallRecord
<1>3. LET r == [s EXCEPT !.at = at]
      IN  /\ r.pc = s.pc /\ r.key = s.key /\ r.attached = s.attached
                /\ r.done = s.done /\ r.at = at
  BY <1>1 DEF CallRecord
<1> QED
  BY <1>2, <1>3 DEF IsCall

LEMMA CallMoves ==
  ASSUME NEW s, IsCall(s), NEW pc
  PROVE  /\ IsCall([s EXCEPT !.pc = pc])
         /\ LET r == [s EXCEPT !.pc = pc]
            IN  r.pc = pc
<1>1. PICK V : s \in CallRecord(V)
  BY DEF IsCall
<1>2. [s EXCEPT !.pc = pc] \in CallRecord(V \cup {pc})
  BY <1>1 DEF CallRecord
<1>3. LET r == [s EXCEPT !.pc = pc]
      IN  r.pc = pc
  BY <1>1 DEF CallRecord
<1> QED
  BY <1>2, <1>3 DEF IsCall

LEMMA CallForms ==
  /\ IsCall(Idle) /\ Idle.pc = "idle"
  /\ IsCall(Attempt) /\ Attempt.pc = "attempt"
  /\ \A id : IsCall(AttemptAfter(id)) /\ AttemptAfter(id).pc = "attempt"
  /\ \A t, executes, done : /\ IsCall(Making(t, executes, done))
                            /\ Making(t, executes, done).pc = "making"
  /\ \A c, row, expected : /\ IsCall(Sent(c, row, expected))
                           /\ Sent(c, row, expected).pc = "sent"
  /\ \A t, k, executes : LET r == Signing(t, k, executes)
                         IN  /\ IsCall(r) /\ r.pc = "signing" /\ r.key = k /\ r.attached = TRUE
                             /\ r.done = Len(t.signed.list) /\ r.at = 0
<1>1. IsCall(Idle) /\ Idle.pc = "idle" /\ Idle.at = 0
  BY IdleCall
<1> HIDE DEF Idle
<1>2. IsCall(Attempt) /\ Attempt.pc = "attempt"
  BY <1>1, CallStarts DEF Attempt
<1> HIDE DEF Attempt
<1>3. \A id : IsCall(AttemptAfter(id)) /\ AttemptAfter(id).pc = "attempt"
  BY <1>2, CallExpires DEF AttemptAfter
<1>4. \A t, executes, done : /\ IsCall(Making(t, executes, done))
                             /\ Making(t, executes, done).pc = "making"
  <2> TAKE t, executes, done
  <2> DEFINE j == NextSigner(t, 1)
             row == Entry(t.nodeIds.list[t.nodeIds.index + 1], CurrentId(t), NoSignature)
             able == Able(t)
             key == IF j = 0 THEN Null ELSE t.publicKeys[j]
  <2>1. Making(t, executes, done) =
          [Idle EXCEPT !.pc = "making", !.executes = executes, !.done = done, !.at = j, !.row = row,
                       !.missing = able, !.key = key]
    BY DEF Making
  <2> HIDE DEF j, row, able, key
  <2>2. PICK V : Idle \in CallRecord(V)
    BY <1>1 DEF IsCall
  <2>3. Making(t, executes, done) \in CallRecord(V \cup {"making", executes, done, j, row, able, key})
    BY <2>1, <2>2 DEF CallRecord
  <2>4. Making(t, executes, done).pc = "making"
    BY <2>1, <2>2 DEF CallRecord
  <2> QED
    BY <2>3, <2>4 DEF IsCall
<1>5. \A c, row, expected : /\ IsCall(Sent(c, row, expected))
                            /\ Sent(c, row, expected).pc = "sent"
  <2> TAKE c, row, expected
  <2> DEFINE lacks == expected \ KeysIn(row.sigs)
             expired == call[c].expired
  <2>1. Sent(c, row, expected) =
          [Idle EXCEPT !.pc = "sent", !.executes = TRUE, !.row = row, !.expired = expired,
                       !.missing = lacks]
    BY DEF Sent
  <2> HIDE DEF lacks, expired
  <2>2. PICK V : Idle \in CallRecord(V)
    BY <1>1 DEF IsCall
  <2>3. Sent(c, row, expected) \in CallRecord(V \cup {"sent", TRUE, row, expired, lacks})
    BY <2>1, <2>2 DEF CallRecord
  <2>4. Sent(c, row, expected).pc = "sent"
    BY <2>1, <2>2 DEF CallRecord
  <2> QED
    BY <2>3, <2>4 DEF IsCall
<1>6. \A t, k, executes : LET r == Signing(t, k, executes)
                          IN  /\ IsCall(r) /\ r.pc = "signing" /\ r.key = k /\ r.attached = TRUE
                              /\ r.done = Len(t.signed.list) /\ r.at = 0
  <2> TAKE t, k, executes
  <2> DEFINE rows == Len(t.signed.list)
  <2>1. Signing(t, k, executes) =
          [Idle EXCEPT !.pc = "signing", !.key = k, !.executes = executes, !.attached = TRUE,
                       !.done = rows]
    BY DEF Signing
  <2> HIDE DEF rows
  <2>2. PICK V : Idle \in CallRecord(V)
    BY <1>1 DEF IsCall
  <2>3. Signing(t, k, executes) \in CallRecord(V \cup {"signing", k, executes, TRUE, rows})
    BY <2>1, <2>2 DEF CallRecord
  <2>4. LET r == Signing(t, k, executes)
        IN  r.pc = "signing" /\ r.key = k /\ r.attached = TRUE /\ r.done = rows /\ r.at = 0
    BY <1>1, <2>1, <2>2 DEF CallRecord
  <2> QED
    BY <2>3, <2>4 DEF IsCall, rows
<1> QED
  BY <1>1, <1>2, <1>3, <1>4, <1>5, <1>6

LEMMA Advanced ==
  ASSUME NEW t, Sound(t), t.nodeIds.list # <<>>
  PROVE  Kept(t, [t EXCEPT !.nodeIds = Advance(@)])
<1>1. NextNode(t) = [t EXCEPT !.nodeIds = Advance(@)]
  BY DEF NextNode
<1> QED
  BY <1>1, NextNodeKeeps

LEMMA UnchangedTx == Inv /\ tx' = tx => Kept(tx, tx')
BY KeptSelf DEF Inv

LEMMA AsksNextSignerKeeps ==
  ASSUME Inv, NEW c \in Caller, AsksNextSigner(c)
  PROVE  Inv' /\ IdStays(tx, tx')
<1> DEFINE row == Made(c)
           at == Following(c)
           key == tx.publicKeys[Following(c)]
           r == [call[c] EXCEPT !.row = row, !.at = at, !.key = key]
<1>1. call[c].pc = "making" /\ tx' = tx /\ UNCHANGED <<excused, removed>>
  BY DEF AsksNextSigner
<1>2. call' = [call EXCEPT ![c].row = row, ![c].at = at, ![c].key = key]
  BY DEF AsksNextSigner
<1>3. IsCall(call[c])
  BY DEF Inv, CallsTyped
<1> HIDE DEF row, at, key
<1>4. IsCall(r) /\ r.pc = "making"
  BY <1>1, <1>3, CallAsks
<1>5. call' = [call EXCEPT ![c] = r]
  BY <1>2 DEF Inv, CallsTyped
<1> HIDE DEF r
<1>6. tx.nodeIds.list # <<>>
  BY <1>1 DEF Inv, HasNodes
<1> QED
  BY <1>1, <1>4, <1>5, <1>6, UnchangedTx, KeptCallStep

LEMMA EndsCall ==
  ASSUME Inv, NEW c \in Caller, call[c].pc # "signing", call' = [call EXCEPT ![c] = Idle],
         Kept(tx, tx'), UNCHANGED <<excused, removed>>
  PROVE  Inv' /\ IdStays(tx, tx')
BY IdleCall, KeptCallStep

LEMMA PushesEntryKeeps ==
  ASSUME Inv, NEW c \in Caller, PushesEntry(c)
  PROVE  Inv' /\ IdStays(tx, tx')
<1> DEFINE pushed == [tx EXCEPT !.built.list = Append(@, Made(c))]
           done == call[c].done + 1
<1>1. call[c].pc = "making" /\ UNCHANGED <<excused, removed>> /\ tx.nodeIds.list # <<>>
  BY DEF PushesEntry, Inv, HasNodes
<1>2. CASE tx' = tx /\ call' = [call EXCEPT ![c] = Idle]
  BY <1>1, <1>2, UnchangedTx, EndsCall
<1>3. Kept(tx, pushed) /\ Sound(pushed)
  <2>1. PICK U : tx \in Object(U)
    BY DEF Inv, Sound
  <2>2. pushed = [tx EXCEPT !.built.list = Append(tx.built.list, Made(c))]
    BY <2>1 DEF Object
  <2> QED
    BY <2>2, BuiltListKeeps DEF Inv, Kept
<1> HIDE DEF pushed
<1>4. CASE tx' = NextNode(pushed) /\ call' = [call EXCEPT ![c] = Making(tx, FALSE, done)]
  <2>1. pushed.nodeIds.list # <<>>
    BY <1>1, <1>3 DEF Kept, Leaves, NodesStay
  <2>2. Kept(tx, tx')
    BY <1>3, <1>4, <2>1, NextNodeKeeps, KeptChain
  <2> QED
    BY <1>1, <1>4, <2>2, CallForms, KeptCallStep
<1>5. CASE tx' = Closed(pushed) /\ call' = [call EXCEPT ![c] = Idle]
  <2>1. Kept(tx, tx')
    BY <1>3, <1>5, ClosedKeeps, KeptChain
  <2> QED
    BY <1>1, <1>5, <2>1, EndsCall
<1> QED
  BY <1>2, <1>4, <1>5 DEF PushesEntry, pushed

LEMMA MakesRequestKeeps ==
  ASSUME Inv, NEW c \in Caller, MakesRequest(c)
  PROVE  Inv' /\ IdStays(tx, tx')
<1> DEFINE index == tx.nodeIds.index + 1
           throws == \/ index > Len(tx.signed.list)
                     \/ tx.built.locked /\ Len(tx.built.list) < index - 1
           row == tx.signed.list[index]
           expected == tx.signerKeys \ (excused \cup BeingSigned)
<1>1. call[c].pc = "attempt" /\ UNCHANGED <<excused, removed>>
  BY DEF MakesRequest
<1>2. CASE throws
  BY <1>1, <1>2, UnchangedTx, EndsCall DEF MakesRequest
<1>3. CASE ~throws
  <2>1. tx' = WithEntry(tx, index, row) /\ call' = [call EXCEPT ![c] = Sent(c, row, expected)]
    BY <1>3 DEF MakesRequest
  <2>2. tx.nodeIds.list # <<>>
    <3>1. Len(tx.signed.list) \in Nat /\ index \in Nat /\ index > 0
      <4>1. PICK U : tx \in Object(U)
        BY DEF Inv, Sound
      <4> QED
        BY <4>1, ObjectFields DEF Inv, Object, Items
    <3>2. Len(tx.signed.list) > 0
      BY <1>3, <3>1
    <3>3. tx.signed.list # <<>>
      BY <3>2, EmptySeq
    <3> QED
      BY <3>3 DEF Inv, Sound, NodesOf
  <2>3. Kept(tx, tx')
    BY <2>1, BuiltListKeeps DEF WithEntry, Inv
  <2> HIDE DEF row, expected
  <2> QED
    BY <1>1, <2>1, <2>2, <2>3, CallForms, KeptCallStep
<1> QED
  BY <1>2, <1>3

LEMMA StartsRequestKeeps ==
  ASSUME Inv, NEW c \in Caller, StartsRequest(c)
  PROVE  Inv' /\ IdStays(tx, tx')
<1> DEFINE making == Making(tx, TRUE, 0)
           r == [making EXCEPT !.expired = call[c].expired]
<1>1. /\ call[c].pc = "attempt" /\ tx.nodeIds.list # <<>> /\ tx' = NextNode(tx)
      /\ call' = [call EXCEPT ![c] = r] /\ UNCHANGED <<excused, removed>>
  BY DEF StartsRequest, IsEmpty
<1>2. IsCall(making) /\ making.pc = "making"
  <2>1. PICK executes : executes = TRUE
    OBVIOUS
  <2>2. making = Making(tx, executes, 0)
    BY <2>1
  <2>3. \A t, e, done : IsCall(Making(t, e, done)) /\ Making(t, e, done).pc = "making"
    BY CallForms
  <2> QED
    BY <2>2, <2>3
<1> HIDE DEF making
<1>3. IsCall(r) /\ r.pc = "making"
  BY <1>2, CallExpires
<1> HIDE DEF r
<1>4. Kept(tx, tx')
  BY <1>1, NextNodeKeeps DEF Inv
<1> QED
  BY <1>1, <1>3, <1>4, KeptCallStep

LEMMA SendsMadeKeeps ==
  ASSUME Inv, NEW c \in Caller, SendsMade(c)
  PROVE  Inv' /\ IdStays(tx, tx')
<1>1. /\ call[c].pc = "making" /\ tx' = tx /\ UNCHANGED <<excused, removed>>
      /\ call' = [call EXCEPT ![c] = Sent(c, Made(c), call[c].missing)]
  BY DEF SendsMade
<1>2. tx.nodeIds.list # <<>>
  BY <1>1 DEF Inv, HasNodes
<1> DEFINE row == Made(c)
           missing == call[c].missing
<1> HIDE DEF row, missing
<1> DEFINE r == Sent(c, row, missing)
<1>3. call' = [call EXCEPT ![c] = r]
  BY <1>1 DEF row, missing
<1>4. IsCall(r) /\ r.pc = "sent"
  <2>1. \A d, made, expected : IsCall(Sent(d, made, expected)) /\ Sent(d, made, expected).pc = "sent"
    BY CallForms
  <2> QED
    BY <2>1
<1> HIDE DEF r
<1> QED
  BY <1>1, <1>2, <1>3, <1>4, UnchangedTx, KeptCallStep

LEMMA RetriesKeeps ==
  ASSUME Inv, NEW c \in Caller, Retries(c)
  PROVE  Inv' /\ IdStays(tx, tx')
<1>1. /\ call[c].pc = "sent" /\ UNCHANGED <<excused, removed>>
      /\ tx' = [tx EXCEPT !.nodeIds = Advance(@)]
      /\ call' = [call EXCEPT ![c] = AttemptAfter(call[c].expired)]
  BY DEF Retries
<1>2. Kept(tx, tx')
  BY <1>1, Advanced DEF Inv, HasNodes
<1> DEFINE r == AttemptAfter(call[c].expired)
<1>3. IsCall(r) /\ r.pc = "attempt"
  BY CallForms
<1> HIDE DEF r
<1>4. call' = [call EXCEPT ![c] = r]
  BY <1>1 DEF r
<1> QED
  BY <1>1, <1>2, <1>3, <1>4, KeptCallStep

LEMMA ExpiresKeeps ==
  ASSUME Inv, NEW c \in Caller, Expires(c)
  PROVE  Inv' /\ IdStays(tx, tx')
<1>1. call[c].pc = "sent" /\ UNCHANGED <<excused, removed>> /\ tx.nodeIds.list # <<>>
  BY DEF Expires, Inv, HasNodes
<1>2. CASE tx.ids.locked
  BY <1>1, <1>2, UnchangedTx, EndsCall DEF Expires
<1>3. CASE ~tx.ids.locked
  <2> DEFINE named == WithNewId(tx)
             r == AttemptAfter(call[c].row.id)
  <2>1. Kept(tx, named)
    BY NewIdKeeps DEF Inv, Kept
  <2>2. tx' = [named EXCEPT !.nodeIds = Advance(@)] /\ call' = [call EXCEPT ![c] = r]
    BY <1>3 DEF Expires
  <2> HIDE DEF named
  <2>3. named.nodeIds.list # <<>> /\ Sound(named)
    BY <1>1, <2>1 DEF Kept, Leaves, NodesStay
  <2>4. Kept(tx, tx')
    BY <2>1, <2>2, <2>3, Advanced, KeptChain
  <2>5. IsCall(r) /\ r.pc = "attempt"
    BY CallForms
  <2> HIDE DEF r
  <2> QED
    BY <1>1, <2>2, <2>4, <2>5, KeptCallStep
<1> QED
  BY <1>2, <1>3

LEMMA GivesUpKeeps ==
  ASSUME Inv, NEW c \in Caller, GivesUp(c)
  PROVE  Inv' /\ IdStays(tx, tx')
BY UnchangedTx, EndsCall DEF GivesUp

LEMMA AcceptedKeeps ==
  ASSUME Inv, NEW c \in Caller, Accepted(c)
  PROVE  Inv' /\ IdStays(tx, tx')
<1> DEFINE r == [call[c] EXCEPT !.pc = "accepted"]
<1>1. /\ call[c].pc = "sent" /\ tx' = tx /\ UNCHANGED <<excused, removed>>
      /\ call' = [call EXCEPT ![c].pc = "accepted"]
  BY DEF Accepted
<1>2. IsCall(r) /\ r.pc = "accepted"
  BY CallMoves DEF Inv, CallsTyped
<1>3. call' = [call EXCEPT ![c] = r]
  BY <1>1 DEF Inv, CallsTyped
<1> HIDE DEF r
<1> QED
  BY <1>1, <1>2, <1>3, UnchangedTx, KeptCallStep

LEMMA RespondsKeeps ==
  ASSUME Inv, NEW c \in Caller, Responds(c)
  PROVE  Inv' /\ IdStays(tx, tx')
<1> DEFINE b == tx.ids.locked \/ ~IsEmpty(tx.ids)
<1>1. PICK U : tx \in Object(U)
  BY DEF Inv, Sound
<1>2. /\ call[c].pc = "accepted" /\ UNCHANGED <<excused, removed>>
      /\ call' = [call EXCEPT ![c] = Idle]
      /\ tx' = [tx EXCEPT !.ids.locked = @ \/ ~IsEmpty(tx.ids)]
  BY DEF Responds
<1>3. tx' = [tx EXCEPT !.ids.locked = b]
  BY <1>1, <1>2 DEF Object, Items
<1>4. b \in BOOLEAN /\ (tx.ids.locked => b)
  BY <1>1 DEF Object, Items
<1> HIDE DEF b
<1>5. Kept(tx, tx')
  BY <1>3, <1>4, IdLocked DEF Inv
<1> QED
  BY <1>2, <1>5, EndsCall

LEMMA SignerRejectsKeeps ==
  ASSUME Inv, NEW c \in Caller, SignerRejects(c)
  PROVE  Inv' /\ IdStays(tx, tx')
<1>1. /\ call' = [call EXCEPT ![c] = Idle] /\ tx' = tx /\ UNCHANGED removed
      /\ excused \subseteq excused' /\ (call[c].pc = "signing" => call[c].key \in excused')
  BY DEF SignerRejects
<1>2. CallsTyped' /\ call'[c] = Idle /\ \A d \in Caller : d # c => call'[d] = call[d]
  BY <1>1, Updated, IdleCall DEF Inv
<1>3. Kept(tx, tx')
  BY <1>1, UnchangedTx
<1>4. RowsStay(tx, tx')
  BY <1>3, KeptRows DEF Inv
<1>5. \A d \in Caller : call'[d].pc \in {"making", "sent"} => tx'.nodeIds.list # <<>>
  BY <1>1, <1>2, IdleCall DEF Inv, HasNodes
<1>6. \A d \in Caller : call'[d].pc = "signing" => call'[d] = call[d]
  BY <1>2, IdleCall
<1>7. \A d \in Caller : call[d].pc = "signing" => call'[d] = call[d] \/ call[d].key \in excused'
  BY <1>1, <1>2
<1> QED
  BY <1>1, <1>2, <1>3, <1>4, <1>5, <1>6, <1>7, QuietStep DEF Kept

-----------------------------------------------------------------------------
(* Freezing and rebuilding: the calls that sign rows are detached.         *)

LEMMA Detached ==
  ASSUME Inv, NEW replaced \in BOOLEAN
  PROVE  LET detached == DetachedIf(replaced)
         IN  /\ \E V : detached \in [Caller -> V]
             /\ \A d \in Caller : /\ IsCall(detached[d]) /\ detached[d].pc = call[d].pc
                                  /\ detached[d].key = call[d].key /\ detached[d].at = call[d].at
                                  /\ detached[d].done = call[d].done
                                  /\ detached[d].attached => ~replaced /\ call[d].attached
BY DetachedCalls DEF Inv

LEMMA ResetTransactionKeeps ==
  ASSUME Inv, ResetTransaction
  PROVE  Inv'
<1>1. PICK U : tx \in Object(U)
  BY DEF Inv, Sound
<1>2. /\ tx' = [tx EXCEPT !.newest = tx.newest + 1, !.throttled = TRUE, !.signed = NoItems,
                          !.ids = Listed(<<tx.newest + 1>>)]
      /\ call' = DetachedIf(TRUE) /\ excused' = tx.signerKeys /\ removed' = removed
  BY <1>1 DEF ResetTransaction, Object
<1>3. /\ NoItems \in Items(SignedEntry) /\ Listed(<<tx.newest + 1>>) \in Items(Nat)
      /\ tx.newest + 1 \in Nat /\ NoItems.list = <<>>
  <2>1. tx.newest + 1 \in Nat
    BY <1>1 DEF Object
  <2>2. <<tx.newest + 1>> \in Seq(Nat) /\ <<>> \in Seq(SignedEntry)
    BY <2>1, EmptySeq
  <2> QED
    BY <2>1, <2>2 DEF NoItems, Listed, Items
<1>4. tx' \in Object(U)
  BY <1>1, <1>2, <1>3 DEF Object
<1>5. /\ SameKeys(tx, tx') /\ tx'.nodeIds = tx.nodeIds /\ tx'.signed = NoItems
  BY <1>1, <1>2 DEF Object, SameKeys
<1>6. Sound(tx')
  BY <1>3, <1>4, <1>5, EmptySeq DEF Inv, Sound, NodesOf, Follows
<1>7. /\ \E V : call' \in [Caller -> V]
      /\ \A d \in Caller : /\ IsCall(call'[d]) /\ call'[d].pc = call[d].pc
                           /\ call'[d].key = call[d].key /\ call'[d].at = call[d].at
                           /\ call'[d].done = call[d].done
                           /\ ~call'[d].attached
  BY <1>2, Detached
<1>8. CallsTyped'
  BY <1>7 DEF CallsTyped
<1>9. \A d \in Caller : call'[d].pc \in {"making", "sent"} => tx'.nodeIds.list # <<>>
  BY <1>5, <1>7 DEF Inv, HasNodes
<1>10. removed' \/ AlignedIn(tx')
  BY <1>2, <1>5 DEF Inv, AlignedIn, SameKeys
<1>11. tx'.signed.list = <<>>
  BY <1>3, <1>5
<1> QED
  BY <1>6, <1>7, <1>8, <1>9, <1>10, <1>11, ExcusedStep

LEMMA ToBytesAsyncKeeps ==
  ASSUME Inv, NEW c \in Caller, ToBytesAsync(c)
  PROVE  Inv' /\ IdStays(tx, tx')
<1> DEFINE t == LockNames(tx)
           rows == BuildSigned(t)
<1>1. Kept(tx, t) /\ Sound(t) /\ t.signed = tx.signed
  <2>1. Kept(tx, t) /\ Sound(t)
    BY LockNamesKeeps DEF Inv, Kept
  <2>2. t.signed = tx.signed
    <3>1. PICK U : tx \in Object(U)
      BY DEF Inv, Sound
    <3> QED
      BY <3>1 DEF LockNames, Object
  <2> QED
    BY <2>1, <2>2
<1>2. /\ Sound(rows) /\ SameKeys(t, rows) /\ Leaves(t, rows)
      /\ ~Rebuilds(t) => rows.signed = t.signed
      /\ rows.signOnDemand = t.signOnDemand
  BY <1>1, BuildKeeps
<1>3. UNCHANGED <<excused, removed>>
  BY DEF ToBytesAsync
<1>4. CASE ~tx.signOnDemand
  <2>1. tx' = Closed(BuildAll(t)) /\ call' = call
    BY <1>4 DEF ToBytesAsync
  <2> HIDE DEF t
  <2>2. Kept(t, BuildAll(t)) /\ Sound(BuildAll(t))
    BY <1>1, BuildAllKeeps DEF Kept
  <2>3. Kept(tx, tx')
    BY <1>1, <2>1, <2>2, ClosedKeeps, KeptChain
  <2> QED
    BY <1>3, <2>1, <2>3, KeptStep
<1>5. CASE tx.signOnDemand
  <2> DEFINE freed == DetachedIf(Rebuilds(tx))
             r == Making(rows, FALSE, 0)
  <2>1. \/ tx' = Closed(rows) /\ call' = freed
        \/ /\ tx' = NextNode(rows) /\ call' = [freed EXCEPT ![c] = r]
           /\ rows.signed.list # <<>>
    BY <1>5 DEF ToBytesAsync, IsFrozen, IsEmpty
  <2>2. Rebuilds(tx) <=> Rebuilds(t)
    BY <1>1 DEF Rebuilds
  <2>3. /\ Leaves(tx, rows) /\ SameKeys(tx, rows) /\ rows.signOnDemand
        /\ ~Rebuilds(tx) => rows.signed = tx.signed
    BY <1>1, <1>2, <1>5, <2>2, Composed DEF Kept
  <2>4. Rebuilds(tx) \in BOOLEAN
    BY DEF Rebuilds
  <2> HIDE DEF t, rows
  <2>5. Kept(rows, tx') /\ (rows.signed.list # <<>> => rows.nodeIds.list # <<>>)
    <3>1. rows.signed.list # <<>> => rows.nodeIds.list # <<>>
      BY <1>2 DEF Sound, NodesOf
    <3>2. CASE tx' = Closed(rows)
      BY <1>2, <3>1, <3>2, ClosedKeeps
    <3>3. CASE tx' = NextNode(rows) /\ rows.signed.list # <<>>
      BY <1>2, <3>1, <3>3, NextNodeKeeps
    <3> QED
      BY <2>1, <3>2, <3>3
  <2>6. Sound(tx') /\ Leaves(tx, tx') /\ SameKeys(tx, tx') /\ tx'.signOnDemand
        /\ tx'.signed.list = rows.signed.list
    BY <2>3, <2>5, Composed DEF Kept
  <2>7. /\ \E V : freed \in [Caller -> V]
        /\ \A d \in Caller : /\ IsCall(freed[d]) /\ freed[d].pc = call[d].pc
                             /\ freed[d].key = call[d].key /\ freed[d].at = call[d].at
                             /\ freed[d].done = call[d].done
                             /\ freed[d].attached => ~Rebuilds(tx) /\ call[d].attached
    BY <2>4, Detached
  <2>8. IsCall(r) /\ r.pc = "making"
    <3>1. PICK executes : executes = FALSE
      OBVIOUS
    <3>2. \A u, e, done : IsCall(Making(u, e, done)) /\ Making(u, e, done).pc = "making"
      BY CallForms
    <3> QED
      BY <3>1, <3>2
  <2> HIDE DEF freed, r
  <2>9. \/ call' = freed
        \/ call' = [freed EXCEPT ![c] = r] /\ rows.signed.list # <<>>
    BY <2>1
  <2>10. \A d \in Caller : \/ call'[d] = freed[d]
                           \/ d = c /\ call'[d] = r /\ rows.signed.list # <<>>
    <3>1. PICK V : freed \in [Caller -> V]
      BY <2>7
    <3> QED
      BY <2>9, <3>1
  <2>11. CallsTyped'
    <3>1. PICK V : freed \in [Caller -> V]
      BY <2>7
    <3>2. call' \in [Caller -> V \cup {r}]
      BY <2>9, <3>1
    <3>3. \A d \in Caller : IsCall(call'[d])
      BY <2>7, <2>8, <2>10
    <3> QED
      BY <3>2, <3>3 DEF CallsTyped
  <2>12. \A d \in Caller : call'[d].pc = "signing" =>
             /\ call[d].pc = "signing" /\ call'[d].key = call[d].key
             /\ call'[d].at = call[d].at /\ call'[d].done = call[d].done
             /\ call'[d].attached => ~Rebuilds(tx) /\ call[d].attached
    BY <2>7, <2>8, <2>10
  <2>13. Len(tx.signed.list) \in Nat
    BY ObjectFields DEF Inv
  <2>14. \A d \in Caller : call'[d].pc \in {"making", "sent"} => tx'.nodeIds.list # <<>>
    <3>1. \A d \in Caller : call'[d].pc = call[d].pc \/ rows.nodeIds.list # <<>>
      BY <2>5, <2>7, <2>10
    <3>2. rows.nodeIds.list # <<>> => tx'.nodeIds.list # <<>>
      BY <2>5 DEF Kept, Leaves, NodesStay
    <3> QED
      BY <2>6, <3>1, <3>2 DEF Inv, HasNodes, Leaves, NodesStay
  <2>15. removed' \/ AlignedIn(tx')
    BY <1>3, <2>6 DEF Inv, AlignedIn, SameKeys
  <2>16. \A d \in Caller : call'[d].pc = "signing" /\ call'[d].attached =>
            Len(tx'.signed.list) <= Len(tx.signed.list)
    BY <2>3, <2>6, <2>12, <2>13
  <2>17. Inv'
    BY <2>6, <2>11, <2>12, <2>14, <2>15, <2>16, ExcusedStep
  <2> QED
    BY <2>6, <2>17 DEF Leaves
<1> QED
  BY <1>4, <1>5

-----------------------------------------------------------------------------
(* Signatures. *)

LEMMA RegisteredKeeps ==
  ASSUME NEW t, Sound(t), NEW k \in Key, NEW s \in {Null, k}
  PROVE  LET u == Registered(t, k, s)
         IN  /\ Sound(u) /\ Leaves(t, u) /\ u.signed = t.signed
             /\ u.signOnDemand = t.signOnDemand /\ u.signerKeys = t.signerKeys \cup {k}
             /\ AlignedIn(t) => AlignedIn(u)
<1>1. PICK U : t \in Object(U)
  BY DEF Sound
<1> DEFINE keys == Append(t.publicKeys, k)
           signers == Append(t.signers, s)
           all == t.signerKeys \cup {k}
           u == [t EXCEPT !.built = NoItems, !.signerKeys = all, !.publicKeys = keys, !.signers = signers]
<1>2. Registered(t, k, s) = u
  BY <1>1 DEF Registered, Object
<1>3. all \in SUBSET Key
  BY <1>1 DEF Object
<1>4. /\ u.ids = t.ids /\ u.nodeIds = t.nodeIds /\ u.signed = t.signed
      /\ u.signOnDemand = t.signOnDemand /\ u.signerKeys = all
      /\ u.publicKeys = keys /\ u.signers = signers
  BY <1>1 DEF Object
<1> HIDE DEF keys, signers, all
<1>5. u \in Object(U \cup {NoItems, keys, signers})
  BY <1>1, <1>3 DEF Object
<1> HIDE DEF u
<1>6. ASSUME AlignedIn(t) PROVE AlignedIn(u)
  <2> DEFINE n == Len(t.signers)
  <2>1. /\ t.publicKeys \in Seq(Key) /\ t.signers \in Seq(Key \cup {Null})
        /\ Len(t.publicKeys) = n /\ n \in Nat
        /\ \A i \in 1 .. n : t.signers[i] \in {Null, t.publicKeys[i]}
    BY <1>6, LenProperties DEF AlignedIn
  <2>2. /\ keys \in Seq(Key) /\ Len(keys) = n + 1 /\ keys[n + 1] = k
        /\ \A i \in 1 .. n : keys[i] = t.publicKeys[i]
    BY <2>1, AppendProperties DEF keys
  <2>3. /\ signers \in Seq(Key \cup {Null}) /\ Len(signers) = n + 1 /\ signers[n + 1] = s
        /\ \A i \in 1 .. n : signers[i] = t.signers[i]
    BY <2>1, AppendProperties DEF signers
  <2> HIDE DEF n
  <2>4. \A i \in 1 .. n + 1 : i \in 1 .. n \/ i = n + 1
    BY <2>1
  <2>5. \A i \in 1 .. n + 1 : signers[i] \in {Null, keys[i]}
    BY <2>1, <2>2, <2>3, <2>4
  <2> QED
    BY <1>4, <2>2, <2>3, <2>5 DEF AlignedIn
<1>7. Sound(u) /\ Leaves(t, u)
  BY <1>4, <1>5 DEF Sound, NodesOf, Follows, Leaves, IdStays, NodesStay
<1> QED
  BY <1>2, <1>4, <1>6, <1>7 DEF all

LEMMA SignWithKeeps ==
  ASSUME NEW t, Sound(t), NEW k \in Key
  PROVE  LET u == SignWith(t, k)
         IN  /\ Sound(u) /\ Leaves(t, u) /\ u.signed.list = t.signed.list
             /\ u.signOnDemand = t.signOnDemand /\ u.signerKeys = t.signerKeys \cup {k}
             /\ AlignedIn(t) => AlignedIn(u)
<1>1. CASE Known(t, k)
  <2>1. SignWith(t, k) = t /\ t.signerKeys = t.signerKeys \cup {k}
    BY <1>1 DEF SignWith, Known
  <2> QED
    BY <2>1 DEF Leaves, IdStays, NodesStay
<1>2. CASE ~Known(t, k)
  <2> DEFINE u == Registered(t, k, k)
  <2>1. /\ Sound(u) /\ Leaves(t, u) /\ u.signed = t.signed
        /\ u.signOnDemand = t.signOnDemand /\ u.signerKeys = t.signerKeys \cup {k}
        /\ AlignedIn(t) => AlignedIn(u)
    BY RegisteredKeeps
  <2>2. SignWith(t, k) = u \/ SignWith(t, k) = LockNames(u)
    BY <1>2 DEF SignWith
  <2> HIDE DEF u
  <2>3. Kept(u, LockNames(u))
    BY <2>1, LockNamesKeeps
  <2>4. AlignedIn(u) => AlignedIn(LockNames(u))
    BY <2>3 DEF Kept, SameKeys, AlignedIn
  <2> QED
    BY <2>1, <2>2, <2>3, <2>4 DEF Kept, SameKeys, Leaves, IdStays, NodesStay
<1> QED
  BY <1>1, <1>2

\* What execute does before it signs with the operator; `replaced' if it has
\* frozen the transaction and made new bodies.
Prepared(u, replaced) ==
    /\ Sound(u) /\ SameKeys(tx, u) /\ Leaves(tx, u)
    /\ replaced => tx.signerKeys \subseteq excused'
    /\ ~replaced => RowsStay(tx, u) /\ (u.signOnDemand \/ ~tx.signOnDemand)

\* One call, c, that was idle, goes on as r and may have registered k.
LEMMA StartStep ==
  ASSUME Inv, NEW u, NEW replaced \in BOOLEAN, Prepared(u, replaced),
         excused \subseteq excused', removed' = removed,
         NEW c \in Caller, NEW r, NEW k \in Key, r.pc \notin {"making", "sent"},
         CallsTyped', call'[c] = r, call[c].pc = "idle",
         \A d \in Caller : d # c => call'[d] = DetachedIf(replaced)[d],
         Sound(tx'), Leaves(u, tx'), tx'.signed.list = u.signed.list,
         tx'.signOnDemand = u.signOnDemand, AlignedIn(u) => AlignedIn(tx'),
         tx'.signerKeys = u.signerKeys \/ tx'.signerKeys = u.signerKeys \cup {k},
         r.pc = "signing" => /\ r.key = k /\ r.attached /\ r.at = 0
                             /\ r.done = Len(u.signed.list),
         tx'.signerKeys = u.signerKeys \/ tx'.signOnDemand \/ r.pc = "signing"
  PROVE  Inv' /\ IdStays(tx, tx')
<1>1. /\ Sound(u) /\ SameKeys(tx, u) /\ Leaves(tx, u)
      /\ replaced => tx.signerKeys \subseteq excused'
      /\ ~replaced => RowsStay(tx, u) /\ (u.signOnDemand \/ ~tx.signOnDemand)
  BY DEF Prepared
<1>2. Len(tx.signed.list) \in Nat /\ Len(u.signed.list) \in Nat
  BY <1>1, ObjectFields DEF Inv
<1>3. \A d \in Caller \ {c} :
        /\ call'[d].pc = call[d].pc /\ call'[d].key = call[d].key
        /\ call'[d].at = call[d].at /\ call'[d].done = call[d].done
        /\ call'[d].attached => ~replaced /\ call[d].attached
        /\ ~replaced => call'[d] = call[d]
  <2>1. ~replaced => DetachedIf(replaced) = call
    BY DEF DetachedIf
  <2> QED
    BY <2>1, Detached
<1>4. Ahead'
  <2> SUFFICES ASSUME NEW d \in Caller, call'[d].pc = "signing"
               PROVE  /\ call'[d].key \in Key /\ call'[d].at \in Nat /\ call'[d].done \in Nat
                      /\ call'[d].attached => Len(tx'.signed.list) <= call'[d].done
    BY DEF Ahead
  <2>1. CASE d = c
    BY <1>2, <2>1
  <2>2. CASE d # c
    BY <1>1, <1>2, <1>3, <2>2 DEF Inv, Ahead, RowsStay
  <2> QED
    BY <2>1, <2>2
<1>5. HasNodes'
  BY <1>1, <1>3 DEF Inv, HasNodes, Leaves, NodesStay
<1>6. AllSigned'
  <2> SUFFICES ASSUME ~tx'.signOnDemand, NEW i \in 1 .. Len(tx'.signed.list),
                      NEW j \in tx'.signerKeys \ excused'
               PROVE  j \in KeysIn(tx'.signed.list[i].sigs) \/ Pending(j, i)'
    BY DEF AllSigned
  <2>1. CASE j \notin tx.signerKeys
    <3>1. /\ j = k /\ call'[c].pc = "signing" /\ call'[c].attached
          /\ call'[c].key = j /\ call'[c].at < i
      BY <1>1, <1>2, <2>1 DEF SameKeys
    <3> QED
      BY <3>1 DEF Pending
  <2>2. CASE j \in tx.signerKeys
    <3>1. ~replaced /\ RowsStay(tx, u) /\ ~tx.signOnDemand
      BY <1>1, <2>2
    <3>2. i \in 1 .. Len(tx.signed.list) /\ tx'.signed.list[i].sigs = tx.signed.list[i].sigs
      BY <1>2, <3>1 DEF RowsStay
    <3>3. j \in KeysIn(tx.signed.list[i].sigs) \/ Pending(j, i)
      BY <2>2, <3>1, <3>2 DEF Inv, AllSigned
    <3>4. Pending(j, i) => Pending(j, i)'
      BY <1>3, <3>1 DEF Pending
    <3> QED
      BY <3>2, <3>3, <3>4
  <2> QED
    BY <2>1, <2>2
<1>7. removed' \/ AlignedIn(tx')
  BY <1>1 DEF Inv, AlignedIn, SameKeys
<1> QED
  BY <1>1, <1>4, <1>5, <1>6, <1>7 DEF Inv, Leaves, IdStays

LEMMA SignKeeps ==
  ASSUME Inv, NEW c \in Caller, NEW k \in Key, Sign(c, k)
  PROVE  Inv' /\ IdStays(tx, tx')
<1>1. /\ call[c] = Idle /\ ~Known(tx, k) /\ tx' = SignWith(tx, k)
      /\ call' = IF tx.signOnDemand THEN call ELSE [call EXCEPT ![c] = Signing(tx, k, FALSE)]
      /\ UNCHANGED <<excused, removed>>
  BY DEF Sign, Free
<1>2. /\ Sound(tx') /\ Leaves(tx, tx') /\ tx'.signed.list = tx.signed.list
      /\ tx'.signOnDemand = tx.signOnDemand /\ tx'.signerKeys = tx.signerKeys \cup {k}
      /\ AlignedIn(tx) => AlignedIn(tx')
  BY <1>1, SignWithKeeps DEF Inv
<1>3. PICK no \in BOOLEAN : ~no
  OBVIOUS
<1>4. Prepared(tx, no)
  BY <1>3, KeptSelf, KeptRows DEF Inv, Prepared, Kept
<1>5. \A d \in Caller : DetachedIf(no)[d] = call[d]
  BY <1>3 DEF DetachedIf
<1>6. call[c].pc = "idle"
  BY <1>1, IdleCall
<1>7. CASE tx.signOnDemand
  <2>1. call' = call /\ CallsTyped'
    BY <1>1, <1>7 DEF Inv, CallsTyped
  <2> QED
    BY <1>1, <1>2, <1>3, <1>4, <1>5, <1>6, <1>7, <2>1, StartStep
<1>8. CASE ~tx.signOnDemand
  <2> DEFINE r == Signing(tx, k, no)
  <2>1. call' = [call EXCEPT ![c] = r]
    BY <1>1, <1>3, <1>8
  <2>2. /\ IsCall(r) /\ r.pc = "signing" /\ r.key = k /\ r.attached = TRUE
        /\ r.done = Len(tx.signed.list) /\ r.at = 0
    BY CallForms
  <2> HIDE DEF r
  <2>3. CallsTyped' /\ call'[c] = r /\ \A d \in Caller : d # c => call'[d] = DetachedIf(no)[d]
    BY <1>5, <2>1, <2>2, Updated DEF Inv
  <2>4. r.pc \notin {"making", "sent"} /\ excused \subseteq excused' /\ removed' = removed
    BY <1>1, <2>2
  <2> QED
    BY <1>2, <1>4, <1>6, <2>2, <2>3, <2>4, StartStep
<1> QED
  BY <1>7, <1>8

\* execute up to its first await.
LEMMA ExecuteKeeps ==
  ASSUME Inv, NEW c \in Caller, NEW demand \in SignsOnDemand, Execute(c, demand)
  PROVE  Inv' /\ IdStays(tx, tx')
<1> DEFINE freezes == ~HeldFrozen(tx)
           frozen == IF freezes THEN FreezeWith(tx, TRUE, demand) ELSE tx
           trimmed == Trimmed(frozen)
           ready == WithClient(trimmed)
           replaced == freezes /\ Replaces(tx, TRUE, demand)
           left == DetachedIf(replaced)
<1>1. /\ call[c] = Idle /\ call[c].pc = "idle" /\ removed' = removed /\ demand \in BOOLEAN
      /\ replaced \in BOOLEAN
      /\ excused' = excused \cup (IF freezes THEN LostByFreezing(tx, TRUE, demand) ELSE {})
  BY IdleCall, TransactionAssumption DEF Execute, Free, HeldFrozen, Replaces
<1>2. \/ /\ tx' \in {frozen, trimmed, ready} /\ call' = left
      \/ /\ tx' = SignWith(ready, Operator)
         /\ call' = [left EXCEPT ![c] =
                        IF Known(ready, Operator) \/ ready.signOnDemand
                        THEN Attempt ELSE Signing(ready, Operator, TRUE)]
  BY DEF Execute
<1>3. Prepared(frozen, replaced)
  <2>1. CASE freezes
    <3>1. /\ Sound(frozen) /\ SameKeys(tx, frozen) /\ Leaves(tx, frozen)
          /\ frozen.signOnDemand = demand
          /\ ~Replaces(tx, TRUE, demand) => frozen.signed = tx.signed
      <4>1. PICK client \in BOOLEAN : client = TRUE
        OBVIOUS
      <4>2. /\ Sound(FreezeWith(tx, client, demand)) /\ SameKeys(tx, FreezeWith(tx, client, demand))
            /\ Leaves(tx, FreezeWith(tx, client, demand))
            /\ FreezeWith(tx, client, demand).signOnDemand = demand
            /\ ~Replaces(tx, client, demand) => FreezeWith(tx, client, demand).signed = tx.signed
        BY <1>1, FreezeKeeps DEF Inv
      <4> QED
        BY <2>1, <4>1, <4>2
    <3>2. replaced => tx.signerKeys \subseteq excused'
      BY <1>1, <2>1 DEF LostByFreezing
    <3>3. ~tx.signOnDemand
      BY <2>1 DEF HeldFrozen
    <3>4. Len(tx.signed.list) \in Nat
      BY ObjectFields DEF Inv
    <3>5. ~replaced => RowsStay(tx, frozen)
      <4>1. ~replaced => frozen.signed = tx.signed
        BY <2>1, <3>1
      <4> HIDE DEF frozen, replaced
      <4> QED
        BY <3>4, <4>1 DEF RowsStay
    <3> HIDE DEF frozen, replaced
    <3> QED
      BY <3>1, <3>2, <3>3, <3>5 DEF Prepared
  <2>2. CASE ~freezes
    <3>1. frozen = tx /\ ~replaced
      BY <2>2
    <3> HIDE DEF frozen, replaced
    <3> QED
      BY <3>1, KeptSelf, KeptRows DEF Inv, Kept, Prepared
  <2> QED
    BY <2>1, <2>2
<1> HIDE DEF freezes, frozen, replaced
<1>4. Prepared(trimmed, replaced)
  <2>1. /\ Sound(trimmed) /\ SameKeys(frozen, trimmed) /\ Leaves(frozen, trimmed)
        /\ RowsStay(frozen, trimmed) /\ trimmed.signOnDemand = frozen.signOnDemand
    BY <1>3, TrimmedKeeps DEF Prepared
  <2> HIDE DEF trimmed
  <2>2. SameKeys(tx, trimmed) /\ Leaves(tx, trimmed)
    BY <1>3, <2>1, Composed DEF Prepared
  <2>3. RowsStay(tx, frozen) => RowsStay(tx, trimmed)
    <3>1. /\ Len(tx.signed.list) \in Nat /\ Len(frozen.signed.list) \in Nat
          /\ Len(trimmed.signed.list) \in Nat
      BY <1>3, <2>1, ObjectFields DEF Inv, Prepared
    <3> QED
      BY <2>1, <3>1 DEF RowsStay
  <2> QED
    BY <1>3, <2>1, <2>2, <2>3 DEF Prepared
<1> HIDE DEF trimmed
<1>5. Prepared(ready, replaced)
  <2>1. /\ Sound(ready) /\ SameKeys(trimmed, ready) /\ Leaves(trimmed, ready)
        /\ ready.signed = trimmed.signed /\ ready.signOnDemand = trimmed.signOnDemand
    BY <1>4, ClientKeeps DEF Prepared
  <2> HIDE DEF ready
  <2>2. SameKeys(tx, ready) /\ Leaves(tx, ready)
    BY <1>4, <2>1, Composed DEF Prepared
  <2> QED
    BY <1>4, <2>1, <2>2 DEF Prepared, RowsStay
<1> HIDE DEF ready
<1>6. /\ \E V : left \in [Caller -> V]
      /\ \A d \in Caller : IsCall(left[d]) /\ left[d].pc = call[d].pc
  BY <1>1, Detached
<1>7. Operator \in Key
  BY TransactionAssumption
<1>8. CASE tx' \in {frozen, trimmed, ready} /\ call' = left
  <2>1. Prepared(tx', replaced)
    BY <1>3, <1>4, <1>5, <1>8
  <2>2. CallsTyped' /\ call'[c].pc = "idle"
    BY <1>1, <1>6, <1>8 DEF CallsTyped
  <2>3. \A d \in Caller : d # c => call'[d] = DetachedIf(replaced)[d]
    BY <1>8
  <2>4. Sound(tx') /\ Leaves(tx', tx')
    BY <2>1 DEF Prepared, Leaves, IdStays, NodesStay
  <2> HIDE DEF left
  <2>5. excused \subseteq excused'
    BY <1>1
  <2> QED
    BY <1>1, <1>7, <2>1, <2>2, <2>3, <2>4, <2>5, StartStep
<1>9. ASSUME NEW r, IsCall(r), r.pc \in {"attempt", "signing"},
             tx' = SignWith(ready, Operator), call' = [left EXCEPT ![c] = r],
             r.pc = "signing" => /\ r.key = Operator /\ r.attached /\ r.at = 0
                                 /\ r.done = Len(ready.signed.list),
             r.pc = "attempt" => Known(ready, Operator) \/ ready.signOnDemand
      PROVE  Inv' /\ IdStays(tx, tx')
  <2>1. /\ Sound(tx') /\ Leaves(ready, tx') /\ tx'.signed.list = ready.signed.list
        /\ tx'.signOnDemand = ready.signOnDemand
        /\ tx'.signerKeys = ready.signerKeys \cup {Operator}
        /\ AlignedIn(ready) => AlignedIn(tx')
    BY <1>5, <1>7, <1>9, SignWithKeeps DEF Prepared
  <2>2. CallsTyped' /\ call'[c] = r /\ \A d \in Caller : d # c => call'[d] = left[d]
    <3>1. PICK V : left \in [Caller -> V]
      BY <1>6
    <3>2. /\ call' \in [Caller -> V \cup {r}]
          /\ call'[c] = r /\ \A d \in Caller : d # c => call'[d] = left[d]
      BY <1>9, <3>1
    <3> QED
      BY <1>6, <1>9, <3>2 DEF CallsTyped
  <2>3. tx'.signerKeys = ready.signerKeys \/ tx'.signOnDemand \/ r.pc = "signing"
    BY <1>9, <2>1 DEF Known
  <2>4. excused \subseteq excused'
    BY <1>1
  <2> QED
    BY <1>1, <1>5, <1>7, <1>9, <2>1, <2>2, <2>3, <2>4, StartStep
<1>10. CASE /\ tx' = SignWith(ready, Operator)
            /\ call' = [left EXCEPT ![c] =
                        IF Known(ready, Operator) \/ ready.signOnDemand
                        THEN Attempt ELSE Signing(ready, Operator, TRUE)]
  <2> DEFINE r == Signing(ready, Operator, TRUE)
  <2>1. /\ IsCall(r) /\ r.pc = "signing" /\ r.key = Operator /\ r.attached = TRUE
        /\ r.done = Len(ready.signed.list) /\ r.at = 0
    <3>1. PICK executes : executes = TRUE
      OBVIOUS
    <3>2. LET q == Signing(ready, Operator, executes)
          IN  /\ IsCall(q) /\ q.pc = "signing" /\ q.key = Operator /\ q.attached = TRUE
              /\ q.done = Len(ready.signed.list) /\ q.at = 0
      BY CallForms
    <3> QED
      BY <3>1, <3>2
  <2>2. IsCall(Attempt) /\ Attempt.pc = "attempt"
    BY CallForms
  <2>3. CASE Known(ready, Operator) \/ ready.signOnDemand
    <3>1. call' = [left EXCEPT ![c] = Attempt]
      BY <1>10, <2>3
    <3> HIDE DEF left
    <3> QED
      BY <1>9, <1>10, <2>2, <2>3, <3>1
  <2>4. CASE ~(Known(ready, Operator) \/ ready.signOnDemand)
    <3>1. call' = [left EXCEPT ![c] = r]
      BY <1>10, <2>4
    <3> HIDE DEF left, r
    <3> QED
      BY <1>9, <1>10, <2>1, <3>1
  <2> QED
    BY <2>3, <2>4
<1> QED
  BY <1>2, <1>8, <1>10

LEMMA RowsReplaced ==
  ASSUME NEW t, Sound(t), NEW rows \in Seq(SignedEntry), Len(rows) = Len(t.signed.list),
         \A i \in 1 .. Len(rows) : rows[i].node = t.signed.list[i].node
  PROVE  LET u == [t EXCEPT !.signed.list = rows]
         IN  /\ Sound(u) /\ SameKeys(t, u) /\ Leaves(t, u)
             /\ u.signed.list = rows /\ u.signOnDemand = t.signOnDemand
<1>1. PICK U : t \in Object(U)
  BY DEF Sound
<1> DEFINE u == [t EXCEPT !.signed.list = rows]
<1>2. u \in Object(U)
  BY <1>1 DEF Object, Items
<1>3. /\ SameKeys(t, u) /\ u.ids = t.ids /\ u.nodeIds = t.nodeIds
      /\ u.signed.list = rows /\ u.signOnDemand = t.signOnDemand
  BY <1>1 DEF Object, Items, SameKeys
<1>4. rows # <<>> => t.signed.list # <<>>
  BY NonEmpty, ObjectFields, EmptySeq
<1> HIDE DEF u
<1>5. NodesOf(u)
  BY <1>3, <1>4 DEF Sound, NodesOf
<1>6. Follows(u)
  BY <1>3 DEF Sound, Follows
<1> QED
  BY <1>2, <1>3, <1>5, <1>6 DEF Sound, Leaves, IdStays, NodesStay, u

LEMMA MoreSignatures ==
  ASSUME NEW row \in SignedEntry, NEW k \in Key
  PROVE  /\ WithSignature(row, k) \in SignedEntry /\ WithSignature(row, k).node = row.node
         /\ k \in KeysIn(WithSignature(row, k).sigs)
         /\ \A j \in Key : j \in KeysIn(row.sigs) => j \in KeysIn(WithSignature(row, k).sigs)
<1> DEFINE sigs == [row.sigs EXCEPT ![k] = row.sigs[k] + 1]
<1>1. row.sigs \in [Key -> Nat]
  BY DEF SignedEntry
<1>2. WithSignature(row, k) = [row EXCEPT !.sigs = sigs]
  BY <1>1 DEF WithSignature, SignedEntry
<1>3. /\ sigs \in [Key -> Nat] /\ sigs[k] > 0
      /\ \A j \in Key : row.sigs[j] > 0 => sigs[j] > 0
  BY <1>1
<1> HIDE DEF sigs
<1> QED
  BY <1>2, <1>3 DEF SignedEntry, KeysIn

LEMMA SignsRowKeeps ==
  ASSUME Inv, NEW c \in Caller, SignsRow(c)
  PROVE  Inv' /\ IdStays(tx, tx')
<1> DEFINE at == call[c].at + 1
           k == call[c].key
           signs == call[c].attached /\ at <= Len(tx.signed.list)
           r == call'[c]
           ends == IF call[c].executes THEN Attempt ELSE Idle
<1>1. /\ call[c].pc = "signing" /\ UNCHANGED <<excused, removed>>
      /\ call' = [call EXCEPT ![c] = IF at < call[c].done THEN [@ EXCEPT !.at = at] ELSE ends]
  BY DEF SignsRow
<1>2. /\ k \in Key /\ call[c].at \in Nat /\ at \in Nat /\ at > 0 /\ call[c].done \in Nat
      /\ call[c].attached => Len(tx.signed.list) <= call[c].done
      /\ tx.signed.list \in Seq(SignedEntry) /\ Len(tx.signed.list) \in Nat
  BY <1>1, ObjectFields DEF Inv, Ahead
<1>3. /\ CallsTyped' /\ \A d \in Caller : d # c => call'[d] = call[d]
      /\ at < call[c].done => /\ r.pc = "signing" /\ r.key = k /\ r.attached = call[c].attached
                              /\ r.done = call[c].done /\ r.at = at
      /\ ~(at < call[c].done) => r.pc \in {"attempt", "idle"}
  <2> DEFINE on == [call[c] EXCEPT !.at = at]
  <2>1. /\ IsCall(on) /\ on.pc = "signing" /\ on.key = k /\ on.attached = call[c].attached
        /\ on.done = call[c].done /\ on.at = at
    BY <1>1, CallGoesOn DEF Inv, CallsTyped
  <2>2. IsCall(ends) /\ ends.pc \in {"attempt", "idle"}
    BY CallForms
  <2> HIDE DEF on, ends
  <2>3. CASE at < call[c].done
    <3>1. call' = [call EXCEPT ![c] = on]
      BY <1>1, <2>3 DEF on, Inv, CallsTyped
    <3> QED
      BY <2>1, <2>3, <3>1, Updated DEF Inv
  <2>4. CASE ~(at < call[c].done)
    <3>1. call' = [call EXCEPT ![c] = ends]
      BY <1>1, <2>4
    <3> QED
      BY <2>2, <2>4, <3>1, Updated DEF Inv
  <2> QED
    BY <2>3, <2>4
<1>4. /\ Sound(tx') /\ SameKeys(tx, tx') /\ Leaves(tx, tx')
      /\ tx'.signOnDemand = tx.signOnDemand /\ Len(tx'.signed.list) = Len(tx.signed.list)
      /\ \A i \in 1 .. Len(tx.signed.list) : \A j \in Key :
            j \in KeysIn(tx.signed.list[i].sigs) => j \in KeysIn(tx'.signed.list[i].sigs)
      /\ signs => k \in KeysIn(tx'.signed.list[at].sigs)
  <2>1. CASE ~signs
    <3>1. tx' = tx
      BY <2>1 DEF SignsRow
    <3>2. Kept(tx, tx')
      BY <3>1, UnchangedTx
    <3> HIDE DEF signs
    <3> QED
      BY <2>1, <3>1, <3>2 DEF Kept
  <2>2. CASE signs
    <3> DEFINE row == WithSignature(tx.signed.list[at], k)
               rows == [tx.signed.list EXCEPT ![at] = row]
    <3>1. tx' = [tx EXCEPT !.signed.list = rows]
      <4>1. PICK U : tx \in Object(U)
        BY DEF Inv, Sound
      <4>2. tx' = [tx EXCEPT !.signed.list[at] = WithSignature(@, k)]
        BY <2>2 DEF SignsRow
      <4> QED
        BY <4>1, <4>2 DEF Object, Items
    <3>2. at \in 1 .. Len(tx.signed.list) /\ tx.signed.list[at] \in SignedEntry
      BY <1>2, <2>2, ElementOfSeq
    <3>3. /\ row \in SignedEntry /\ row.node = tx.signed.list[at].node
          /\ k \in KeysIn(row.sigs)
          /\ \A j \in Key : j \in KeysIn(tx.signed.list[at].sigs) => j \in KeysIn(row.sigs)
      BY <1>2, <3>2, MoreSignatures
    <3> HIDE DEF row
    <3>4. /\ rows \in Seq(SignedEntry) /\ Len(rows) = Len(tx.signed.list)
          /\ rows[at] = row
          /\ \A i \in 1 .. Len(tx.signed.list) : i # at => rows[i] = tx.signed.list[i]
      BY <1>2, <3>2, <3>3, ExceptSeq
    <3> HIDE DEF rows
    <3>5. \A i \in 1 .. Len(rows) : rows[i].node = tx.signed.list[i].node
      BY <3>3, <3>4
    <3>6. /\ Sound(tx') /\ SameKeys(tx, tx') /\ Leaves(tx, tx')
          /\ tx'.signed.list = rows /\ tx'.signOnDemand = tx.signOnDemand
      BY <3>1, <3>4, <3>5, RowsReplaced DEF Inv
    <3> QED
      BY <3>3, <3>4, <3>6
  <2> QED
    BY <2>1, <2>2
<1> HIDE DEF r
<1>5. Ahead'
  <2> SUFFICES ASSUME NEW d \in Caller, call'[d].pc = "signing"
               PROVE  /\ call'[d].key \in Key /\ call'[d].at \in Nat /\ call'[d].done \in Nat
                      /\ call'[d].attached => Len(tx'.signed.list) <= call'[d].done
    BY DEF Ahead
  <2>1. CASE d = c
    BY <1>2, <1>3, <1>4, <2>1 DEF r
  <2>2. CASE d # c
    BY <1>3, <1>4, <2>2 DEF Inv, Ahead
  <2> QED
    BY <2>1, <2>2
<1>6. HasNodes'
  <2>1. \A d \in Caller : call'[d].pc \in {"making", "sent"} => call[d].pc \in {"making", "sent"}
    BY <1>3 DEF r
  <2>2. tx.nodeIds.list # <<>> => tx'.nodeIds.list # <<>>
    BY <1>4 DEF Leaves, NodesStay
  <2> QED
    BY <2>1, <2>2 DEF Inv, HasNodes
<1>7. AllSigned'
  <2> SUFFICES ASSUME ~tx.signOnDemand, NEW i \in 1 .. Len(tx.signed.list),
                      NEW j \in tx.signerKeys \ excused
               PROVE  j \in KeysIn(tx'.signed.list[i].sigs) \/ Pending(j, i)'
    BY <1>1, <1>4 DEF AllSigned, SameKeys
  <2>1. j \in Key
    BY ObjectFields DEF Inv
  <2>2. j \in KeysIn(tx.signed.list[i].sigs) \/ Pending(j, i)
    BY DEF Inv, AllSigned
  <2>3. CASE j \in KeysIn(tx.signed.list[i].sigs)
    BY <1>4, <2>1, <2>3
  <2>4. ASSUME NEW d \in Caller, d # c, call[d].pc = "signing", call[d].attached,
               call[d].key = j, call[d].at < i
        PROVE  Pending(j, i)'
    BY <1>3, <2>4 DEF Pending
  <2>5. CASE call[c].attached /\ k = j /\ call[c].at < i
    <3>1. at <= i /\ at <= Len(tx.signed.list) /\ i <= call[c].done
      BY <1>2, <2>5
    <3>2. CASE i = at
      BY <1>4, <2>5, <3>1, <3>2
    <3>3. CASE i # at
      <4>1. at < i /\ at < call[c].done
        BY <1>2, <3>1, <3>3
      <4> QED
        BY <1>3, <2>5, <4>1 DEF Pending, r
    <3> QED
      BY <3>2, <3>3
  <2> QED
    BY <2>2, <2>3, <2>4, <2>5 DEF Pending
<1>8. removed' \/ AlignedIn(tx')
  BY <1>1, <1>4 DEF Inv, AlignedIn, SameKeys
<1> QED
  BY <1>3, <1>4, <1>5, <1>6, <1>7, <1>8 DEF Inv, Leaves

\* A method that freezes first, and then gives every row signatures or takes
\* them away; what it does to the key k must be shown apart.
LEMMA FrozenStep ==
  ASSUME Inv, MayFreeze(tx), NEW k, Sound(tx'), Leaves(tx, tx'), removed' \/ AlignedIn(tx'),
         call' = DetachedIf(FreezesFirst(tx)),
         Len(tx'.signed.list) = Len(Frozen(tx).signed.list),
         tx'.signOnDemand = Frozen(tx).signOnDemand,
         \A j \in tx'.signerKeys \ excused' :
            \/ /\ j = k
               /\ \A i \in 1 .. Len(tx'.signed.list) : j \in KeysIn(tx'.signed.list[i].sigs)
            \/ /\ j \in Frozen(tx).signerKeys /\ j \notin excused \cup LostByFrozen(tx)
               /\ \A i \in 1 .. Len(tx'.signed.list) :
                     j \in KeysIn(Frozen(tx).signed.list[i].sigs) => j \in KeysIn(tx'.signed.list[i].sigs)
  PROVE  Inv' /\ IdStays(tx, tx')
<1> DEFINE t == Frozen(tx)
<1>1. /\ Sound(t) /\ SameKeys(tx, t)
      /\ ~FreezesFirst(tx) => t.signed = tx.signed
      /\ t.signOnDemand = (IsFrozen(tx) /\ tx.signOnDemand)
  BY FrozenKeeps DEF Inv
<1>2. FreezesFirst(tx) \in BOOLEAN
  BY DEF FreezesFirst, Rebuilds
<1>3. /\ \E V : call' \in [Caller -> V]
      /\ \A d \in Caller : /\ IsCall(call'[d]) /\ call'[d].pc = call[d].pc
                           /\ call'[d].key = call[d].key /\ call'[d].at = call[d].at
                           /\ call'[d].done = call[d].done
                           /\ call'[d].attached => ~FreezesFirst(tx) /\ call[d].attached
  BY <1>2, Detached
<1>4. CallsTyped'
  BY <1>3 DEF CallsTyped
<1>5. HasNodes'
  BY <1>3 DEF Inv, HasNodes, Leaves, NodesStay
<1>6. Len(tx.signed.list) \in Nat /\ Len(t.signed.list) \in Nat
  BY <1>1, ObjectFields DEF Inv
<1>7. Ahead'
  BY <1>1, <1>3, <1>6 DEF Inv, Ahead
<1>8. AllSigned'
  <2> SUFFICES ASSUME ~tx'.signOnDemand, NEW i \in 1 .. Len(tx'.signed.list),
                      NEW j \in tx'.signerKeys \ excused'
               PROVE  j \in KeysIn(tx'.signed.list[i].sigs) \/ Pending(j, i)'
    BY DEF AllSigned
  <2>1. ASSUME j \in t.signerKeys, j \notin excused \cup LostByFrozen(tx)
        PROVE  j \in KeysIn(t.signed.list[i].sigs) \/ Pending(j, i)'
    <3>1. CASE IsFrozen(tx)
      <4>1. t = tx /\ ~FreezesFirst(tx)
        BY <3>1 DEF Frozen, FreezesFirst
      <4>2. call' = call
        BY <4>1 DEF DetachedIf
      <4>3. ~tx.signOnDemand
        BY <1>1, <3>1
      <4>4. j \in KeysIn(tx.signed.list[i].sigs) \/ Pending(j, i)
        BY <2>1, <4>1, <4>3 DEF Inv, AllSigned
      <4> QED
        BY <4>1, <4>2, <4>4 DEF Pending
    <3>2. CASE ~IsFrozen(tx) /\ FreezesFirst(tx)
      <4>1. Replaces(tx, FALSE, FALSE)
        BY <3>2 DEF MayFreeze, FreezesFirst, Replaces
      <4>2. LostByFrozen(tx) = tx.signerKeys
        BY <3>2, <4>1 DEF LostByFrozen, LostByFreezing
      <4> QED
        BY <1>1, <2>1, <4>2 DEF SameKeys
    <3>3. CASE ~IsFrozen(tx) /\ ~FreezesFirst(tx)
      <4>1. t.signed.list = <<>>
        BY <1>1, <3>3 DEF IsFrozen, IsEmpty
      <4> HIDE DEF t
      <4>2. Len(t.signed.list) = 0
        BY <4>1, EmptySeq
      <4> QED
        BY <1>6, <4>2 DEF t
    <3> QED
      BY <3>1, <3>2, <3>3
  <2> QED
    BY <2>1
<1> QED
  BY <1>4, <1>5, <1>7, <1>8 DEF Inv, Leaves

LEMMA AddSignatureKeeps ==
  ASSUME Inv, NEW k \in Key, NEW n \in Nat, AddSignature(k, n)
  PROVE  Inv' /\ IdStays(tx, tx')
<1> DEFINE t == Frozen(tx)
           added == [i \in 1 .. Len(t.signed.list) |->
                        IF i <= n THEN WithSignature(t.signed.list[i], k) ELSE t.signed.list[i]]
           named == LockNames(t)
           cleared == [named EXCEPT !.built = NoItems]
           closed == [cleared EXCEPT !.signed.locked = TRUE]
           locked == [closed EXCEPT !.signed.list = added]
<1>1. /\ MayFreeze(tx) /\ n <= Len(t.signed.list)
      /\ call' = DetachedIf(FreezesFirst(tx))
      /\ excused' = excused \cup LostByFrozen(tx) /\ removed' = removed
  BY DEF AddSignature
<1>2. /\ Sound(t) /\ SameKeys(tx, t) /\ Leaves(tx, t)
      /\ t.signed.list \in Seq(SignedEntry) /\ Len(t.signed.list) \in Nat
      /\ t.signerKeys \subseteq Key
  BY FrozenKeeps, ObjectFields DEF Inv
<1>3. tx' = IF n = Len(t.signed.list) THEN Registered(locked, k, Null) ELSE locked
  <2>1. PICK U : t \in Object(U)
    BY <1>2 DEF Sound
  <2>2. locked = [LockNames(t) EXCEPT !.built = NoItems, !.signed.locked = TRUE, !.signed.list = added]
    <3> HIDE DEF t, added
    <3>1. PICK W : named \in Object(W)
      BY <1>2, LockNamesKeeps DEF Kept, Sound
    <3> QED
      BY <3>1 DEF Object, Items
  <2>3. tx' = IF n = Len(t.signed.list)
              THEN Registered([LockNames(t) EXCEPT !.built = NoItems, !.signed.locked = TRUE,
                                                   !.signed.list = added], k, Null)
              ELSE [LockNames(t) EXCEPT !.built = NoItems, !.signed.locked = TRUE, !.signed.list = added]
    BY DEF AddSignature
  <2> HIDE DEF locked
  <2> QED
    BY <2>2, <2>3
<1> HIDE DEF t
<1>4. /\ added \in Seq(SignedEntry) /\ Len(added) = Len(t.signed.list)
      /\ \A i \in 1 .. Len(t.signed.list) :
            /\ added[i].node = t.signed.list[i].node
            /\ i <= n => k \in KeysIn(added[i].sigs)
            /\ \A j \in Key : j \in KeysIn(t.signed.list[i].sigs) => j \in KeysIn(added[i].sigs)
  <2>1. \A i \in 1 .. Len(t.signed.list) :
          /\ t.signed.list[i] \in SignedEntry
          /\ WithSignature(t.signed.list[i], k) \in SignedEntry
          /\ WithSignature(t.signed.list[i], k).node = t.signed.list[i].node
          /\ k \in KeysIn(WithSignature(t.signed.list[i], k).sigs)
          /\ \A j \in Key : j \in KeysIn(t.signed.list[i].sigs) =>
                            j \in KeysIn(WithSignature(t.signed.list[i], k).sigs)
    BY <1>2, ElementOfSeq, MoreSignatures
  <2>2. added \in [1 .. Len(t.signed.list) -> SignedEntry]
    BY <2>1
  <2>3. added \in Seq(SignedEntry) /\ Len(added) = Len(t.signed.list)
    BY <1>2, <2>2
  <2> QED
    BY <2>1, <2>3
<1> HIDE DEF added
<1>5. /\ Kept(t, named) /\ Kept(named, cleared) /\ Kept(cleared, closed)
  <2>1. Kept(t, named)
    BY <1>2, LockNamesKeeps
  <2> HIDE DEF named
  <2>2. Kept(named, cleared)
    BY <2>1, BuiltKeeps DEF Kept
  <2> HIDE DEF cleared
  <2>3. Kept(cleared, closed)
    BY <2>2, RowsLocked DEF Kept
  <2> QED
    BY <2>1, <2>2, <2>3
<1> HIDE DEF named, cleared, closed
<1>6. Kept(t, closed)
  BY <1>5, KeptChain
<1>7. /\ Sound(locked) /\ SameKeys(closed, locked) /\ Leaves(closed, locked)
      /\ locked.signed.list = added /\ locked.signOnDemand = closed.signOnDemand
  BY <1>4, <1>6, RowsReplaced DEF Kept
<1> HIDE DEF locked
<1>8. /\ Sound(tx') /\ Leaves(locked, tx') /\ tx'.signed.list = added
      /\ tx'.signOnDemand = t.signOnDemand
      /\ tx'.signerKeys \subseteq locked.signerKeys \cup {k}
      /\ n # Len(t.signed.list) => tx'.signerKeys = locked.signerKeys
      /\ AlignedIn(locked) => AlignedIn(tx')
  <2>1. locked.signOnDemand = t.signOnDemand
    BY <1>6, <1>7 DEF Kept
  <2>2. CASE n = Len(t.signed.list)
    BY <1>3, <1>7, <2>1, <2>2, RegisteredKeeps
  <2>3. CASE n # Len(t.signed.list)
    BY <1>3, <1>7, <2>1, <2>3 DEF Leaves, IdStays, NodesStay
  <2> QED
    BY <2>2, <2>3
<1>9. SameKeys(t, locked) /\ Leaves(t, locked)
  BY <1>6, <1>7, Composed DEF Kept
<1>10. SameKeys(tx, locked) /\ Leaves(tx, locked)
  BY <1>2, <1>9, Composed
<1>11. Leaves(tx, tx')
  BY <1>8, <1>10 DEF Leaves, IdStays, NodesStay
<1>12. removed' \/ AlignedIn(tx')
  BY <1>1, <1>8, <1>10 DEF Inv, AlignedIn, SameKeys
<1>13. \A j \in tx'.signerKeys \ excused' :
          \/ j = k /\ \A i \in 1 .. Len(tx'.signed.list) : j \in KeysIn(tx'.signed.list[i].sigs)
          \/ /\ j \in t.signerKeys /\ j \notin excused \cup LostByFrozen(tx)
             /\ \A i \in 1 .. Len(tx'.signed.list) :
                   j \in KeysIn(t.signed.list[i].sigs) => j \in KeysIn(tx'.signed.list[i].sigs)
  <2> TAKE j \in tx'.signerKeys \ excused'
  <2>1. CASE j \in t.signerKeys
    BY <1>1, <1>2, <1>4, <1>8, <2>1
  <2>2. CASE j \notin t.signerKeys
    <3>1. j = k /\ n = Len(t.signed.list)
      BY <1>8, <1>9, <2>2 DEF SameKeys
    <3> QED
      BY <1>2, <1>4, <1>8, <3>1
  <2> QED
    BY <2>1, <2>2
<1> QED
  BY <1>1, <1>4, <1>8, <1>11, <1>12, <1>13, FrozenStep DEF t

LEMMA WithoutKeeps ==
  ASSUME NEW t, Sound(t), NEW k \in Key
  PROVE  LET u == Without(t, k)
         IN  /\ Sound(u) /\ Leaves(t, u) /\ Len(u.signed.list) = Len(t.signed.list)
             /\ u.signOnDemand = t.signOnDemand /\ u.signerKeys = t.signerKeys \ {k}
             /\ \A i \in 1 .. Len(t.signed.list) : \A j \in Key \ {k} :
                   j \in KeysIn(t.signed.list[i].sigs) => j \in KeysIn(u.signed.list[i].sigs)
<1> DEFINE list == t.signed.list
           rows == [i \in 1 .. Len(list) |-> [list[i] EXCEPT !.sigs[k] = 0]]
           keys == Remove(t.publicKeys, k)
           signers == IF t.signers = <<>> THEN t.signers ELSE Front(t.signers)
           rest == t.signerKeys \ {k}
           v == [t EXCEPT !.signed.list = rows]
           u == [v EXCEPT !.signerKeys = rest, !.publicKeys = keys, !.signers = signers]
<1>1. PICK U : t \in Object(U)
  BY DEF Sound
<1>2. Without(t, k) = u
  <2> HIDE DEF rows, keys, signers, rest
  <2>1. u = [t EXCEPT !.signed.list = rows, !.signerKeys = rest, !.publicKeys = keys, !.signers = signers]
    BY <1>1 DEF Object
  <2>2. Without(t, k) =
          [t EXCEPT !.signed.list = rows, !.signerKeys = rest, !.publicKeys = keys, !.signers = signers]
    BY <1>1 DEF Without, Object, rows, keys, signers, rest
  <2> QED
    BY <2>1, <2>2
<1>3. list \in Seq(SignedEntry) /\ Len(list) \in Nat /\ t.signerKeys \subseteq Key
  BY ObjectFields
<1> HIDE DEF list
<1>4. \A i \in 1 .. Len(list) :
        LET row == [list[i] EXCEPT !.sigs[k] = 0]
        IN  /\ row \in SignedEntry /\ row.node = list[i].node
            /\ \A j \in Key \ {k} : j \in KeysIn(list[i].sigs) => j \in KeysIn(row.sigs)
  <2> TAKE i \in 1 .. Len(list)
  <2> DEFINE row == [list[i] EXCEPT !.sigs[k] = 0]
  <2>1. list[i] \in SignedEntry
    BY <1>3, ElementOfSeq
  <2>2. /\ row \in SignedEntry /\ row.node = list[i].node
        /\ \A j \in Key \ {k} : row.sigs[j] = list[i].sigs[j]
    BY <2>1 DEF SignedEntry
  <2> QED
    BY <2>2 DEF KeysIn
<1>5. /\ rows \in Seq(SignedEntry) /\ Len(rows) = Len(list)
      /\ \A i \in 1 .. Len(list) :
            /\ rows[i].node = list[i].node
            /\ \A j \in Key \ {k} : j \in KeysIn(list[i].sigs) => j \in KeysIn(rows[i].sigs)
  <2>1. rows \in [1 .. Len(list) -> SignedEntry]
    BY <1>4
  <2>2. rows \in Seq(SignedEntry) /\ Len(rows) = Len(list)
    BY <1>3, <2>1
  <2> QED
    BY <1>4, <2>2
<1> HIDE DEF rows
<1>6. /\ Sound(v) /\ SameKeys(t, v) /\ Leaves(t, v)
      /\ v.signed.list = rows /\ v.signOnDemand = t.signOnDemand
  BY <1>5, RowsReplaced DEF list
<1>7. PICK W : v \in Object(W)
  BY <1>6 DEF Sound
<1>8. rest \in SUBSET Key
  BY <1>3
<1> HIDE DEF v, keys, signers, rest
<1>9. /\ u.ids = v.ids /\ u.nodeIds = v.nodeIds /\ u.signed = v.signed
      /\ u.signOnDemand = v.signOnDemand /\ u.signerKeys = rest
  BY <1>7 DEF Object
<1>10. u \in Object(W \cup {keys, signers})
  BY <1>7, <1>8 DEF Object
<1> HIDE DEF u
<1>11. Sound(u) /\ Leaves(t, u)
  BY <1>6, <1>9, <1>10 DEF Sound, NodesOf, Follows, Leaves, IdStays, NodesStay
<1> QED
  BY <1>2, <1>5, <1>6, <1>9, <1>11 DEF list, rest

LEMMA RemoveSignatureKeeps ==
  ASSUME Inv, NEW k \in Key, RemoveSignature(k)
  PROVE  Inv' /\ IdStays(tx, tx')
<1> DEFINE t == Frozen(tx)
           lost == LostByFrozen(tx)
<1>1. /\ MayFreeze(tx) /\ call' = DetachedIf(FreezesFirst(tx))
      /\ tx' = IF Known(t, k) THEN Without(t, k) ELSE t
      /\ excused' = (excused \cup lost) \ (IF Known(t, k) THEN {k} ELSE {})
      /\ removed' = (removed \/ Known(t, k))
  BY DEF RemoveSignature
<1>2. /\ Sound(t) /\ SameKeys(tx, t) /\ Leaves(tx, t) /\ t.signerKeys \subseteq Key
      /\ Len(t.signed.list) \in Nat
  BY FrozenKeeps, ObjectFields DEF Inv
<1> HIDE DEF t, lost
<1>3. CASE Known(t, k)
  <2>1. tx' = Without(t, k) /\ removed' /\ excused' = (excused \cup lost) \ {k}
    BY <1>1, <1>3
  <2>2. /\ Sound(tx') /\ Leaves(t, tx') /\ Len(tx'.signed.list) = Len(t.signed.list)
        /\ tx'.signOnDemand = t.signOnDemand /\ tx'.signerKeys = t.signerKeys \ {k}
        /\ \A i \in 1 .. Len(t.signed.list) : \A j \in Key \ {k} :
              j \in KeysIn(t.signed.list[i].sigs) => j \in KeysIn(tx'.signed.list[i].sigs)
    BY <1>2, <2>1, WithoutKeeps
  <2>3. Leaves(tx, tx')
    BY <1>2, <2>2 DEF Leaves, IdStays, NodesStay
  <2>4. \A j \in tx'.signerKeys \ excused' :
           /\ j \in t.signerKeys /\ j \notin excused \cup lost
           /\ \A i \in 1 .. Len(tx'.signed.list) :
                 j \in KeysIn(t.signed.list[i].sigs) => j \in KeysIn(tx'.signed.list[i].sigs)
    BY <1>2, <2>1, <2>2
  <2> QED
    BY <1>1, <2>1, <2>2, <2>3, <2>4, FrozenStep DEF t, lost
<1>4. CASE ~Known(t, k)
  <2>1. tx' = t /\ (removed => removed') /\ excused' = excused \cup lost
    BY <1>1, <1>4
  <2>2. removed' \/ AlignedIn(tx')
    BY <1>2, <2>1 DEF Inv, AlignedIn, SameKeys
  <2> QED
    BY <1>1, <1>2, <2>1, <2>2, FrozenStep DEF t, lost
<1> QED
  BY <1>3, <1>4

LEMMA RemoveAllSignaturesKeeps ==
  ASSUME Inv, RemoveAllSignatures
  PROVE  Inv' /\ IdStays(tx, tx')
<1> DEFINE t == Frozen(tx)
           list == t.signed.list
           rows == [i \in 1 .. Len(list) |-> [list[i] EXCEPT !.sigs = NoSignature]]
           v == [t EXCEPT !.signed.list = rows]
           u == [v EXCEPT !.signerKeys = {}, !.publicKeys = <<>>, !.signers = <<>>]
<1>1. /\ MayFreeze(tx) /\ call' = DetachedIf(FreezesFirst(tx))
      /\ tx' = [t EXCEPT !.signed.list = rows, !.signerKeys = {}, !.publicKeys = <<>>, !.signers = <<>>]
  BY DEF RemoveAllSignatures
<1>2. /\ Sound(t) /\ Leaves(tx, t) /\ list \in Seq(SignedEntry) /\ Len(list) \in Nat
  BY FrozenKeeps, ObjectFields DEF Inv
<1> HIDE DEF t
<1>3. PICK U : t \in Object(U)
  BY <1>2 DEF Sound
<1>4. tx' = u
  <2> HIDE DEF rows
  <2> QED
    BY <1>1, <1>3 DEF Object
<1>5. /\ rows \in Seq(SignedEntry) /\ Len(rows) = Len(list)
      /\ \A i \in 1 .. Len(list) : rows[i].node = list[i].node
  <2>1. \A i \in 1 .. Len(list) : list[i] \in SignedEntry
    BY <1>2, ElementOfSeq
  <2> HIDE DEF list
  <2>2. NoSignature \in [Key -> Nat]
    BY DEF NoSignature
  <2> HIDE DEF NoSignature
  <2>3. \A i \in 1 .. Len(list) : /\ [list[i] EXCEPT !.sigs = NoSignature] \in SignedEntry
                                  /\ [list[i] EXCEPT !.sigs = NoSignature].node = list[i].node
    BY <2>1, <2>2 DEF SignedEntry
  <2>4. rows \in [1 .. Len(list) -> SignedEntry]
    BY <2>3
  <2>5. rows \in Seq(SignedEntry) /\ Len(rows) = Len(list)
    BY <1>2, <2>4
  <2> QED
    BY <2>3, <2>5
<1> HIDE DEF rows
<1>6. /\ Sound(v) /\ Leaves(t, v) /\ v.signed.list = rows /\ v.signOnDemand = t.signOnDemand
  BY <1>2, <1>5, RowsReplaced
<1>7. PICK W : v \in Object(W)
  BY <1>6 DEF Sound
<1> HIDE DEF v
<1>8. /\ u.ids = v.ids /\ u.nodeIds = v.nodeIds /\ u.signed = v.signed
      /\ u.signOnDemand = v.signOnDemand /\ u.signerKeys = {}
      /\ u.publicKeys = <<>> /\ u.signers = <<>>
  BY <1>7 DEF Object
<1>9. u \in Object(W \cup {<<>>})
  BY <1>7 DEF Object
<1> HIDE DEF u
<1>10. Sound(u) /\ Leaves(v, u)
  BY <1>6, <1>8, <1>9 DEF Sound, NodesOf, Follows, Leaves, IdStays, NodesStay
<1>11. Leaves(tx, tx')
  BY <1>2, <1>4, <1>6, <1>10 DEF Leaves, IdStays, NodesStay
<1>12. AlignedIn(tx')
  BY <1>4, <1>8, EmptySeq DEF AlignedIn
<1> HIDE DEF list
<1>13. /\ Sound(tx') /\ Len(tx'.signed.list) = Len(list)
       /\ tx'.signOnDemand = t.signOnDemand /\ tx'.signerKeys = {}
  BY <1>4, <1>5, <1>6, <1>8, <1>10
<1> QED
  BY <1>1, <1>11, <1>12, <1>13, FrozenStep DEF t, list

-----------------------------------------------------------------------------
(* The theorems. *)

LEMMA ChangeKeeps ==
  ASSUME Inv, Change
  PROVE  Inv' /\ (ResetTransaction \/ IdStays(tx, tx'))
<1>1. PICK yes \in BOOLEAN, no \in BOOLEAN : yes = TRUE /\ no = FALSE
  OBVIOUS
<1>2. CASE \E list \in GivenNodes : SetNodeAccountIds(list)
  BY <1>2, SetNodeAccountIdsKeeps
<1>3. CASE SetTransactionId \/ GetTransactionId
  BY <1>3, SetTransactionIdKeeps, GetTransactionIdKeeps
<1>4. ASSUME NEW demand \in SignsOnDemand, Freeze(TRUE, demand)
      PROVE  Inv' /\ IdStays(tx, tx')
  <2>1. demand \in BOOLEAN /\ Freeze(yes, demand)
    BY <1>1, <1>4, TransactionAssumption
  <2> QED
    BY <2>1, FreezeStepKeeps
<1>5. CASE Freeze(FALSE, FALSE)
  <2>1. Freeze(no, no)
    BY <1>1, <1>5
  <2> QED
    BY <2>1, FreezeStepKeeps
<1>6. ASSUME NEW k \in Key, NEW n \in 0 .. Len(Frozen(tx).signed.list), AddSignature(k, n)
      PROVE  Inv' /\ IdStays(tx, tx')
  <2>1. n \in Nat
    OBVIOUS
  <2> QED
    BY <1>6, <2>1, AddSignatureKeeps
<1>7. CASE \E k \in Key : RemoveSignature(k)
  BY <1>7, RemoveSignatureKeeps
<1>8. CASE RemoveAllSignatures \/ ToBytes
  BY <1>8, RemoveAllSignaturesKeeps, ToBytesKeeps
<1>9. CASE ResetTransaction
  BY <1>9, ResetTransactionKeeps
<1> QED
  BY <1>2, <1>3, <1>4, <1>5, <1>6, <1>7, <1>8, <1>9 DEF Change

LEMMA InvStep ==
  ASSUME Inv, [Next]_vars
  PROVE  Inv' /\ (ResetTransaction \/ IdStays(tx, tx'))
<1>1. CASE Change
  BY <1>1, ChangeKeeps
<1>2. ASSUME NEW c \in Caller, Request(c)
      PROVE  Inv' /\ IdStays(tx, tx')
  BY <1>2, SignKeeps, ToBytesAsyncKeeps, ExecuteKeeps DEF Request
<1>3. ASSUME NEW c \in Caller, Continue(c)
      PROVE  Inv' /\ IdStays(tx, tx')
  <2>1. CASE SignsRow(c) \/ SignerRejects(c) \/ AsksNextSigner(c) \/ PushesEntry(c)
    BY <2>1, SignsRowKeeps, SignerRejectsKeeps, AsksNextSignerKeeps, PushesEntryKeeps
  <2>2. CASE MakesRequest(c) \/ StartsRequest(c) \/ SendsMade(c) \/ Retries(c)
    BY <2>2, MakesRequestKeeps, StartsRequestKeeps, SendsMadeKeeps, RetriesKeeps
  <2>3. CASE Expires(c) \/ GivesUp(c) \/ Accepted(c) \/ Responds(c)
    BY <2>3, ExpiresKeeps, GivesUpKeeps, AcceptedKeeps, RespondsKeeps
  <2> QED
    BY <1>3, <2>1, <2>2, <2>3 DEF Continue
<1>4. CASE UNCHANGED vars
  BY <1>4, UnchangedTx, KeptStep DEF vars
<1> QED
  BY <1>1, <1>2, <1>3, <1>4 DEF Next

LEMMA InvSafe == Spec => []Inv
<1>1. Inv /\ [Next]_vars => Inv'
  BY InvStep
<1> QED
  BY InvInit, <1>1, PTL DEF Spec

\* The i-th body is for the i-th node (_makeRequestAsync, _signTransaction).
THEOREM RowsFollowNodesSafe == Spec => []RowsFollowNodes
<1>1. Inv => RowsFollowNodes
  BY DEF Inv, Sound, Follows, RowsFollowNodes
<1> QED
  BY InvSafe, <1>1, PTL

\* The i-th signer is that of the i-th public key, until a signature is removed
\* (signWith, addSignature, removeSignature, clearAllSignatures).
THEOREM KeysAlignedSafe == Spec => []KeysAligned
<1>1. Inv => KeysAligned
  BY DEF Inv, AlignedIn, Aligned, KeysAligned
<1> QED
  BY InvSafe, <1>1, PTL

\* A key that the object believes has signed did sign every body, is doing so, or
\* lost its signatures in a known way.
THEOREM RegisteredHaveSignedSafe == Spec => []RegisteredHaveSigned
<1>1. ASSUME Inv PROVE RegisteredHaveSigned
  <2> SUFFICES ASSUME ~tx.signOnDemand, NEW row \in Rows, NEW k \in tx.signerKeys
               PROVE  k \in KeysIn(row.sigs) \cup excused \cup BeingSigned
    BY DEF RegisteredHaveSigned
  <2>1. PICK i \in 1 .. Len(tx.signed.list) : row = tx.signed.list[i]
    BY DEF Rows
  <2>2. k \in excused \/ k \in KeysIn(tx.signed.list[i].sigs) \/ Pending(k, i)
    BY <1>1 DEF Inv, AllSigned
  <2>3. Pending(k, i) => k \in BeingSigned
    BY DEF Pending, BeingSigned
  <2> QED
    BY <2>1, <2>2, <2>3
<1> QED
  BY InvSafe, <1>1, PTL

\* A locked transaction ID is never replaced, but by _resetTransaction.
THEOREM LockedIdStaysSafe == Spec => LockedIdStays
<1>1. Inv /\ [Next]_vars => [ResetTransaction \/ (tx.ids.locked => tx'.ids.list = tx.ids.list)]_vars
  BY InvStep DEF IdStays
<1> QED
  BY InvSafe, <1>1, PTL DEF Spec, LockedIdStays
=============================================================================
