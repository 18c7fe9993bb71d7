---------------------- MODULE TransactionSignatureProofs ----------------------
(* What Transaction promises of signatures, for any number of nodes, keys, *)
(* overlapping calls and transaction IDs: a body that is sent has them     *)
(* all, and a body has none twice.                                         *)
EXTENDS TransactionProofs, WellFoundedInduction

-----------------------------------------------------------------------------
(* The invariants. *)

\* A key gets its signature on the row a call is making if it has it, or if
\* the call has still to ask its signer.
Reaches(t, r, k) ==
    \/ k \in KeysIn(r.row.sigs)
    \/ \E i \in 1 .. Len(t.publicKeys) :
          0 < r.at /\ r.at <= i /\ t.publicKeys[i] = k /\ SignerAt(t, i) # Null
WillBeSigned(t, r) ==
    /\ \E node, id : r.row = Entry(node, id, r.row.sigs)
    /\ r.row.sigs \in [Key -> Nat]
    /\ r.at \in 0 .. Len(t.publicKeys)
    /\ r.key = IF r.at = 0 THEN Null ELSE t.publicKeys[r.at]
    /\ r.missing \subseteq Key
    /\ \A k \in r.missing : Reaches(t, r, k)
SentInv == removed \/
    /\ \A i \in 1 .. Len(tx.publicKeys) : tx.publicKeys[i] \in tx.signerKeys
    /\ \A c \in Caller : /\ call[c].pc = "making" => WillBeSigned(tx, call[c])
                         /\ call[c].pc = "sent" => call[c].missing = {}

\* A key that is not registered has signed nothing; one that is has one call
\* signing for it at most, and nothing where that call has not come to.
Attached(c) == call[c].pc = "signing" /\ call[c].attached
OnceInv == removed \/
    /\ \A c \in Caller : Attached(c) => call[c].key \in tx.signerKeys
    /\ \A c, d \in Caller :
          Attached(c) /\ Attached(d) /\ call[c].key = call[d].key => c = d \/ call[c].key \in halfAdded
    /\ \A i \in 1 .. Len(tx.signed.list) : \A k \in Key \ halfAdded :
          /\ tx.signed.list[i].sigs[k] <= 1
          /\ k \notin tx.signerKeys => tx.signed.list[i].sigs[k] = 0
          /\ \A c \in Caller : Attached(c) /\ call[c].key = k /\ call[c].at < i =>
                tx.signed.list[i].sigs[k] = 0

SignedInv == Inv /\ SentInv /\ OnceInv

\* What most steps do: they register one key at most, keep the rows or start
\* them anew, and let the calls in flight be.
Registers(t, u) ==
    \/ SameKeys(t, u)
    \/ \E k \in Key : \E s \in {Null, k} :
          /\ u.signerKeys = t.signerKeys \cup {k}
          /\ u.publicKeys = Append(t.publicKeys, k) /\ u.signers = Append(t.signers, s)
Blank(t) == \A i \in 1 .. Len(t.signed.list) : \A k \in Key : t.signed.list[i].sigs[k] = 0
RowsMove(t, u) == RowsStay(t, u) \/ Blank(u)
SameWork(r, s) ==
    /\ s.pc = r.pc /\ s.key = r.key /\ s.at = r.at /\ s.row = r.row /\ s.missing = r.missing
    /\ s.attached => r.attached
Ready(t, r) ==
    /\ r.pc = "making" => WillBeSigned(t, r)
    /\ r.pc = "sent" => r.missing = {}

-----------------------------------------------------------------------------
(* The public keys and their signers. *)

LEMMA Smallest ==
  ASSUME NEW S \in SUBSET Nat, S # {}
  PROVE  \E x \in S : \A y \in S : x <= y
<1> DEFINE R == OpToRel(<, Nat)
<1>1. IsWellFoundedOn(R, Nat)
  BY NatLessThanWellFounded
<1>2. \A x, y \in Nat : <<x, y>> \in R <=> x < y
  BY DEF OpToRel
<1> HIDE DEF R
<1>3. PICK x \in S : \A y \in S : ~(<<y, x>> \in R)
  BY <1>1, WFMin
<1>4. \A y \in S : ~(y < x)
  BY <1>2, <1>3
<1> QED
  BY <1>3, <1>4

\* The signer to ask next is the first that there is.
LEMMA NextSignerIsFirst ==
  ASSUME NEW t, AlignedIn(t), NEW j \in Nat \ {0}
  PROVE  LET n == NextSigner(t, j)
         IN  /\ n = 0 \/ n \in j .. Len(t.publicKeys)
             /\ \A i \in j .. Len(t.publicKeys) : SignerAt(t, i) # Null => n # 0 /\ n <= i
<1> DEFINE able == {i \in j .. Len(t.publicKeys) : SignerAt(t, i) # Null}
<1>1. Len(t.publicKeys) \in Nat
  BY LenProperties DEF AlignedIn
<1>2. able \in SUBSET Nat
  BY <1>1
<1>3. CASE able = {}
  <2>1. NextSigner(t, j) = 0
    BY <1>3 DEF NextSigner
  <2> QED
    BY <1>3, <2>1
<1>4. CASE able # {}
  <2>1. NextSigner(t, j) = CHOOSE i \in able : \A other \in able : i <= other
    BY <1>4 DEF NextSigner
  <2>2. \E i \in able : \A other \in able : i <= other
    BY <1>2, <1>4, Smallest
  <2>3. NextSigner(t, j) \in able /\ \A other \in able : NextSigner(t, j) <= other
    BY <2>1, <2>2
  <2>4. NextSigner(t, j) # 0
    BY <2>3
  <2> QED
    BY <2>3, <2>4
<1> QED
  BY <1>3, <1>4

LEMMA KeysOf ==
  ASSUME NEW t, AlignedIn(t)
  PROVE  /\ Len(t.publicKeys) \in Nat
         /\ \A i \in 1 .. Len(t.publicKeys) :
               /\ t.publicKeys[i] \in Key /\ t.publicKeys[i] # Null
               /\ SignerAt(t, i) = t.signers[i]
<1>1. /\ t.publicKeys \in Seq(Key) /\ Len(t.publicKeys) = Len(t.signers)
      /\ Len(t.publicKeys) \in Nat
  BY LenProperties DEF AlignedIn
<1>2. Null \notin Key
  BY TransactionAssumption
<1>3. \A i \in 1 .. Len(t.publicKeys) : t.publicKeys[i] \in Key
  BY <1>1, ElementOfSeq
<1>4. \A i \in 1 .. Len(t.publicKeys) : SignerAt(t, i) = t.signers[i]
  BY <1>1 DEF SignerAt
<1> QED
  BY <1>1, <1>2, <1>3, <1>4

\* Another key does not move those that are there.
LEMMA RegistersLast ==
  ASSUME NEW t, NEW u, AlignedIn(t), Registers(t, u)
  PROVE  /\ Len(t.publicKeys) <= Len(u.publicKeys) /\ Len(u.publicKeys) \in Nat
         /\ \A i \in 1 .. Len(t.publicKeys) :
               u.publicKeys[i] = t.publicKeys[i] /\ SignerAt(u, i) = SignerAt(t, i)
         /\ t.signerKeys \subseteq u.signerKeys
         /\ \A i \in 1 .. Len(u.publicKeys) :
               i \in 1 .. Len(t.publicKeys) \/ u.publicKeys[i] \in u.signerKeys
<1>1. /\ t.publicKeys \in Seq(Key) /\ t.signers \in Seq(Key \cup {Null})
      /\ Len(t.publicKeys) = Len(t.signers) /\ Len(t.publicKeys) \in Nat
  BY LenProperties DEF AlignedIn
<1>2. CASE SameKeys(t, u)
  <2>1. \A i \in 1 .. Len(t.publicKeys) : SignerAt(u, i) = SignerAt(t, i)
    BY <1>2 DEF SameKeys, SignerAt
  <2> QED
    BY <1>1, <1>2, <2>1 DEF SameKeys
<1>3. ASSUME NEW k \in Key, NEW s \in {Null, k}, u.signerKeys = t.signerKeys \cup {k},
             u.publicKeys = Append(t.publicKeys, k), u.signers = Append(t.signers, s)
      PROVE  /\ Len(t.publicKeys) <= Len(u.publicKeys) /\ Len(u.publicKeys) \in Nat
             /\ \A i \in 1 .. Len(t.publicKeys) :
                   u.publicKeys[i] = t.publicKeys[i] /\ SignerAt(u, i) = SignerAt(t, i)
             /\ \A i \in 1 .. Len(u.publicKeys) :
                   i \in 1 .. Len(t.publicKeys) \/ u.publicKeys[i] \in u.signerKeys
  <2> DEFINE n == Len(t.publicKeys)
  <2>1. /\ Len(u.publicKeys) = n + 1 /\ u.publicKeys[n + 1] = k
        /\ \A i \in 1 .. n : u.publicKeys[i] = t.publicKeys[i]
    BY <1>1, <1>3, AppendProperties
  <2>2. /\ Len(u.signers) = n + 1
        /\ \A i \in 1 .. n : u.signers[i] = t.signers[i]
    BY <1>1, <1>3, AppendProperties
  <2>3. n \in Nat /\ Len(t.signers) = n
    BY <1>1
  <2> HIDE DEF n
  <2>4. \A i \in 1 .. n : SignerAt(u, i) = SignerAt(t, i)
    BY <2>2, <2>3 DEF SignerAt
  <2>5. \A i \in 1 .. n + 1 : i \in 1 .. n \/ i = n + 1
    BY <2>3
  <2> QED
    BY <1>3, <2>1, <2>3, <2>4, <2>5 DEF n
<1> QED
  BY <1>2, <1>3 DEF Registers, SameKeys

-----------------------------------------------------------------------------
(* A row on its way. *)

LEMMA StillSigned ==
  ASSUME NEW t, NEW u, AlignedIn(t), Registers(t, u), NEW r, WillBeSigned(t, r)
  PROVE  WillBeSigned(u, r)
<1>1. /\ Len(t.publicKeys) <= Len(u.publicKeys) /\ Len(u.publicKeys) \in Nat
      /\ \A i \in 1 .. Len(t.publicKeys) :
            u.publicKeys[i] = t.publicKeys[i] /\ SignerAt(u, i) = SignerAt(t, i)
      /\ Len(t.publicKeys) \in Nat
  BY RegistersLast, KeysOf
<1>2. \A i \in 1 .. Len(t.publicKeys) : i \in 1 .. Len(u.publicKeys)
  BY <1>1
<1>3. \A k : Reaches(t, r, k) => Reaches(u, r, k)
  BY <1>1, <1>2 DEF Reaches
<1>4. r.at \in 0 .. Len(u.publicKeys) /\ (r.at # 0 => r.at \in 1 .. Len(t.publicKeys))
  BY <1>1 DEF WillBeSigned
<1> QED
  BY <1>1, <1>3, <1>4 DEF WillBeSigned

LEMMA SameBody ==
  ASSUME NEW t, NEW r, NEW s, SameWork(r, s), Ready(t, r)
  PROVE  Ready(t, s)
<1>1. \A k : Reaches(t, s, k) <=> Reaches(t, r, k)
  BY DEF Reaches, SameWork
<1>2. WillBeSigned(t, r) => WillBeSigned(t, s)
  BY <1>1 DEF WillBeSigned, SameWork
<1> QED
  BY <1>2 DEF Ready, SameWork

LEMMA StillReady ==
  ASSUME NEW t, NEW u, AlignedIn(t), Registers(t, u), NEW r, Ready(t, r)
  PROVE  Ready(u, r)
BY StillSigned DEF Ready

\* A row that is begun will get the signature of every key that has a signer.
LEMMA BegunRow ==
  ASSUME NEW t, AlignedIn(t), NEW executes, NEW done
  PROVE  LET r == Making(t, executes, done)
         IN  WillBeSigned(t, r) /\ r.pc = "making"
<1> DEFINE j == NextSigner(t, 1)
           node == t.nodeIds.list[t.nodeIds.index + 1]
           row == Entry(node, CurrentId(t), NoSignature)
           key == IF j = 0 THEN Null ELSE t.publicKeys[j]
           r == Making(t, executes, done)
<1>1. /\ r.pc = "making" /\ r.at = j /\ r.row = row /\ r.missing = Able(t) /\ r.key = key
  BY DEF Making, Idle
<1>2. row.sigs = NoSignature /\ NoSignature \in [Key -> Nat]
  BY DEF Entry, NoSignature
<1>3. /\ j = 0 \/ j \in 1 .. Len(t.publicKeys)
      /\ \A i \in 1 .. Len(t.publicKeys) : SignerAt(t, i) # Null => j # 0 /\ j <= i
  BY NextSignerIsFirst
<1>4. /\ Len(t.publicKeys) \in Nat
      /\ \A i \in 1 .. Len(t.publicKeys) : t.publicKeys[i] \in Key
  BY KeysOf
<1> HIDE DEF r, j
<1>5. r.at \in 0 .. Len(t.publicKeys)
  BY <1>1, <1>3, <1>4
<1>6. Able(t) \subseteq Key
  BY <1>4 DEF Able
<1>7. \A k \in Able(t) : Reaches(t, r, k)
  <2> SUFFICES ASSUME NEW i \in 1 .. Len(t.publicKeys), SignerAt(t, i) # Null
               PROVE  Reaches(t, r, t.publicKeys[i])
    BY DEF Able
  <2>1. 0 < r.at /\ r.at <= i
    BY <1>1, <1>3, <1>4
  <2> QED
    BY <2>1 DEF Reaches
<1> QED
  BY <1>1, <1>2, <1>5, <1>6, <1>7 DEF WillBeSigned, r

LEMMA OneMore ==
  ASSUME NEW f \in [Key -> Nat], NEW k \in Key
  PROVE  LET g == [f EXCEPT ![k] = @ + 1]
         IN  /\ g \in [Key -> Nat] /\ g[k] = f[k] + 1 /\ f[k] \in Nat
             /\ \A j \in Key \ {k} : g[j] = f[j]
OBVIOUS

\* When a signer answers, its key is done with, and the next is asked.
LEMMA AnsweredRow ==
  ASSUME NEW t, AlignedIn(t), NEW r, WillBeSigned(t, r),
         NEW made, made = IF r.key = Null THEN r.row ELSE WithSignature(r.row, r.key),
         NEW n, n = IF r.at = 0 THEN 0 ELSE NextSigner(t, r.at + 1)
  PROVE  /\ n = 0 => r.missing \ KeysIn(made.sigs) = {}
         /\ n # 0 => \A s : s.row = made /\ s.at = n /\ s.key = t.publicKeys[n]
                            /\ s.missing = r.missing => WillBeSigned(t, s)
<1>1. PICK node, id : r.row = Entry(node, id, r.row.sigs)
  BY DEF WillBeSigned
<1>2. /\ r.row.sigs \in [Key -> Nat] /\ r.missing \subseteq Key
      /\ r.at \in 0 .. Len(t.publicKeys)
      /\ r.key = IF r.at = 0 THEN Null ELSE t.publicKeys[r.at]
      /\ \A k \in r.missing : Reaches(t, r, k)
  BY DEF WillBeSigned
<1>3. /\ Len(t.publicKeys) \in Nat
      /\ \A i \in 1 .. Len(t.publicKeys) : t.publicKeys[i] \in Key /\ t.publicKeys[i] # Null
  BY KeysOf
<1>4. r.at # 0 => r.at \in 1 .. Len(t.publicKeys) /\ r.key = t.publicKeys[r.at] /\ r.key \in Key /\ r.key # Null
  BY <1>2, <1>3
<1>5. /\ \E a, b : made = Entry(a, b, made.sigs)
      /\ made.sigs \in [Key -> Nat]
      /\ \A k \in Key : k \in KeysIn(r.row.sigs) => k \in KeysIn(made.sigs)
      /\ r.at # 0 => r.key \in KeysIn(made.sigs)
  <2>1. CASE r.at = 0
    <3>1. made = r.row
      BY <1>2, <2>1
    <3> QED
      BY <1>1, <1>2, <2>1, <3>1
  <2>2. CASE r.at # 0
    <3> DEFINE sigs == [r.row.sigs EXCEPT ![r.key] = @ + 1]
    <3>1. made = Entry(node, id, sigs)
      <4>1. made = WithSignature(r.row, r.key)
        BY <1>4, <2>2
      <4>2. \A sg : WithSignature(Entry(node, id, sg), r.key) = Entry(node, id, [sg EXCEPT ![r.key] = @ + 1])
        BY DEF WithSignature, Entry
      <4> QED
        BY <1>1, <4>1, <4>2
    <3>2. made.sigs = sigs
      BY <3>1 DEF Entry
    <3>3. /\ sigs \in [Key -> Nat] /\ sigs[r.key] > 0
          /\ \A k \in Key : r.row.sigs[k] > 0 => sigs[k] > 0
      <4>1. /\ sigs \in [Key -> Nat] /\ sigs[r.key] = r.row.sigs[r.key] + 1
            /\ r.row.sigs[r.key] \in Nat
            /\ \A j \in Key \ {r.key} : sigs[j] = r.row.sigs[j]
        BY <1>2, <1>4, <2>2, OneMore
      <4> HIDE DEF sigs
      <4>2. sigs[r.key] > 0
        BY <4>1
      <4> QED
        BY <4>1, <4>2
    <3> HIDE DEF sigs
    <3> QED
      BY <1>4, <2>2, <3>1, <3>2, <3>3 DEF KeysIn
  <2> QED
    BY <2>1, <2>2
<1>6. CASE r.at = 0
  <2>1. n = 0 /\ \A k \in r.missing : k \in KeysIn(made.sigs)
    BY <1>2, <1>5, <1>6 DEF Reaches
  <2> QED
    BY <2>1
<1>7. CASE r.at # 0
  <2>1. n = NextSigner(t, r.at + 1) /\ r.at + 1 \in Nat \ {0}
    BY <1>2, <1>7
  <2>2. /\ n = 0 \/ n \in r.at + 1 .. Len(t.publicKeys)
        /\ \A i \in r.at + 1 .. Len(t.publicKeys) : SignerAt(t, i) # Null => n # 0 /\ n <= i
    BY <2>1, NextSignerIsFirst
  <2>3. ASSUME NEW k \in r.missing, k \notin KeysIn(made.sigs)
        PROVE  \E i \in 1 .. Len(t.publicKeys) :
                  n # 0 /\ n <= i /\ t.publicKeys[i] = k /\ SignerAt(t, i) # Null
    <3>1. k \in Key /\ k \notin KeysIn(r.row.sigs)
      BY <1>2, <1>5, <2>3
    <3>2. PICK i \in 1 .. Len(t.publicKeys) :
                  r.at <= i /\ t.publicKeys[i] = k /\ SignerAt(t, i) # Null
      BY <1>2, <3>1 DEF Reaches
    <3>3. i # r.at
      BY <1>4, <1>5, <1>7, <2>3, <3>2
    <3>4. i \in r.at + 1 .. Len(t.publicKeys)
      BY <1>2, <1>3, <3>2, <3>3
    <3> QED
      BY <2>2, <3>2, <3>4
  <2>4. n = 0 => r.missing \ KeysIn(made.sigs) = {}
    BY <2>3
  <2>5. ASSUME n # 0, NEW s, s.row = made, s.at = n, s.key = t.publicKeys[n], s.missing = r.missing
        PROVE  WillBeSigned(t, s)
    <3>1. 0 < n /\ n \in 1 .. Len(t.publicKeys)
      BY <1>2, <1>3, <2>2, <2>5
    <3>2. \A k \in s.missing : Reaches(t, s, k)
      BY <2>3, <2>5, <3>1 DEF Reaches
    <3> QED
      BY <1>2, <1>3, <1>5, <2>5, <3>1, <3>2 DEF WillBeSigned
  <2> QED
    BY <2>4, <2>5
<1> QED
  BY <1>6, <1>7

-----------------------------------------------------------------------------
(* Steps that keep the invariants. *)

LEMMA SentStep ==
  ASSUME Inv, SentInv, removed => removed', removed' \/ Registers(tx, tx'),
         \A d \in Caller : SameWork(call[d], call'[d]) \/ Ready(tx', call'[d])
  PROVE  SentInv'
<1> SUFFICES ASSUME ~removed'
             PROVE  /\ \A i \in 1 .. Len(tx'.publicKeys) : tx'.publicKeys[i] \in tx'.signerKeys
                    /\ \A d \in Caller : Ready(tx', call'[d])
  BY DEF SentInv, Ready
<1>1. AlignedIn(tx) /\ Registers(tx, tx')
  BY DEF Inv
<1>2. /\ \A i \in 1 .. Len(tx.publicKeys) : tx.publicKeys[i] \in tx.signerKeys
      /\ \A d \in Caller : Ready(tx, call[d])
  BY DEF SentInv, Ready
<1>3. \A i \in 1 .. Len(tx'.publicKeys) : tx'.publicKeys[i] \in tx'.signerKeys
  BY <1>1, <1>2, RegistersLast
<1>4. ASSUME NEW d \in Caller PROVE Ready(tx', call'[d])
  <2> SUFFICES ASSUME SameWork(call[d], call'[d])
               PROVE  Ready(tx', call'[d])
    OBVIOUS
  <2>1. Ready(tx', call[d])
    BY <1>1, <1>2, StillReady
  <2> QED
    BY <2>1, SameBody
<1> QED
  BY <1>3, <1>4

LEMMA RowNumbers ==
  ASSUME NEW t, Sound(t)
  PROVE  /\ Len(t.signed.list) \in Nat
         /\ \A i \in 1 .. Len(t.signed.list) : t.signed.list[i].sigs \in [Key -> Nat]
<1>1. t.signed.list \in Seq(SignedEntry) /\ Len(t.signed.list) \in Nat
  BY ObjectFields
<1>2. \A i \in 1 .. Len(t.signed.list) : t.signed.list[i] \in SignedEntry
  BY <1>1, ElementOfSeq
<1> QED
  BY <1>1, <1>2 DEF SignedEntry

\* What is known of the rows of tx, for rows that stay or start anew.
LEMMA RowsOnce ==
  ASSUME Inv, OnceInv, ~removed, NEW u, Sound(u), RowsMove(tx, u),
         NEW i \in 1 .. Len(u.signed.list), NEW k \in Key \ halfAdded
  PROVE  /\ u.signed.list[i].sigs[k] <= 1
         /\ k \notin tx.signerKeys => u.signed.list[i].sigs[k] = 0
         /\ \A d \in Caller : Attached(d) /\ call[d].key = k /\ call[d].at < i =>
               u.signed.list[i].sigs[k] = 0
<1>1. CASE Blank(u)
  BY <1>1 DEF Blank
<1>2. CASE RowsStay(tx, u)
  <2>1. Len(tx.signed.list) \in Nat /\ Len(u.signed.list) \in Nat
    BY RowNumbers DEF Inv
  <2>2. i \in 1 .. Len(tx.signed.list) /\ u.signed.list[i].sigs = tx.signed.list[i].sigs
    BY <1>2, <2>1 DEF RowsStay
  <2> QED
    BY <2>2 DEF OnceInv
<1> QED
  BY <1>1, <1>2 DEF RowsMove

LEMMA OnceStep ==
  ASSUME Inv, OnceInv, removed => removed', halfAdded' = halfAdded, Sound(tx'),
         removed' \/ (Registers(tx, tx') /\ RowsMove(tx, tx')),
         \A d \in Caller : SameWork(call[d], call'[d]) \/ ~Attached(d)'
  PROVE  OnceInv'
<1> SUFFICES ASSUME ~removed' PROVE OnceInv'
  BY DEF OnceInv
<1>1. AlignedIn(tx) /\ Registers(tx, tx') /\ RowsMove(tx, tx') /\ ~removed
  BY DEF Inv
<1>2. tx.signerKeys \subseteq tx'.signerKeys
  BY <1>1, RegistersLast
<1>3. \A d \in Caller : Attached(d)' =>
         Attached(d) /\ call'[d].key = call[d].key /\ call'[d].at = call[d].at
  BY DEF Attached, SameWork
<1>4. \A d \in Caller : Attached(d)' => call'[d].key \in tx'.signerKeys
  BY <1>1, <1>2, <1>3 DEF OnceInv
<1>5. \A c, d \in Caller :
         (Attached(c) /\ Attached(d) /\ call[c].key = call[d].key => c = d \/ call[c].key \in halfAdded)'
  BY <1>1, <1>3 DEF OnceInv
<1>6. ASSUME NEW i \in 1 .. Len(tx'.signed.list), NEW k \in Key \ halfAdded
      PROVE  /\ tx'.signed.list[i].sigs[k] <= 1
             /\ k \notin tx'.signerKeys => tx'.signed.list[i].sigs[k] = 0
             /\ \A d \in Caller : Attached(d)' /\ call'[d].key = k /\ call'[d].at < i =>
                   tx'.signed.list[i].sigs[k] = 0
  <2>1. /\ tx'.signed.list[i].sigs[k] <= 1
        /\ k \notin tx.signerKeys => tx'.signed.list[i].sigs[k] = 0
        /\ \A d \in Caller : Attached(d) /\ call[d].key = k /\ call[d].at < i =>
               tx'.signed.list[i].sigs[k] = 0
    BY <1>1, RowsOnce
  <2> QED
    BY <1>2, <1>3, <2>1
<1> QED
  BY <1>4, <1>5, <1>6 DEF OnceInv

\* Both at once, for the steps that begin no signing call.
LEMMA MildStep ==
  ASSUME SignedInv, removed => removed', halfAdded' = halfAdded, Sound(tx'),
         removed' \/ (Registers(tx, tx') /\ RowsMove(tx, tx')),
         \A d \in Caller : SameWork(call[d], call'[d]) \/ (Ready(tx', call'[d]) /\ ~Attached(d)')
  PROVE  (SentInv /\ OnceInv)'
BY SentStep, OnceStep DEF SignedInv

\* A call that leaves its rows goes on signing its own.
LEMMA LeftCalls ==
  ASSUME CallsTyped, NEW replaced \in BOOLEAN
  PROVE  \A d \in Caller : SameWork(call[d], DetachedIf(replaced)[d])
<1> TAKE d \in Caller
<1>1. CASE ~replaced
  <2>1. DetachedIf(replaced) = call
    BY <1>1 DEF DetachedIf
  <2> QED
    BY <2>1 DEF SameWork
<1>2. CASE replaced
  <2>1. DetachedIf(replaced)[d] = [call[d] EXCEPT !.attached = FALSE]
    BY <1>2 DEF DetachedIf
  <2>2. PICK V : call[d] \in CallRecord(V)
    BY DEF CallsTyped, IsCall
  <2>3. LET s == [call[d] EXCEPT !.attached = FALSE]
        IN  /\ s.pc = call[d].pc /\ s.key = call[d].key /\ s.at = call[d].at
            /\ s.row = call[d].row /\ s.missing = call[d].missing /\ s.attached = FALSE
    BY <2>2 DEF CallRecord
  <2> QED
    BY <2>1, <2>3 DEF SameWork
<1> QED
  BY <1>1, <1>2

LEMMA OneCallMoves ==
  ASSUME CallsTyped, NEW replaced \in BOOLEAN, NEW c \in Caller, NEW r,
         call' = [DetachedIf(replaced) EXCEPT ![c] = r]
  PROVE  call'[c] = r /\ \A d \in Caller : d # c => SameWork(call[d], call'[d])
<1>1. PICK V : DetachedIf(replaced) \in [Caller -> V]
  BY DetachedCalls
<1>2. call'[c] = r /\ \A d \in Caller : d # c => call'[d] = DetachedIf(replaced)[d]
  BY <1>1
<1> QED
  BY <1>2, LeftCalls

-----------------------------------------------------------------------------
(* Steps that leave the keys and the rows as they are. *)

Untouched == /\ SameKeys(tx, tx') /\ tx'.signed.list = tx.signed.list
             /\ UNCHANGED <<removed, halfAdded>>

LEMMA UntouchedMoves ==
  ASSUME SignedInv, Untouched
  PROVE  Registers(tx, tx') /\ RowsMove(tx, tx')
<1>1. Len(tx.signed.list) \in Nat
  BY RowNumbers DEF SignedInv, Inv
<1>2. RowsStay(tx, tx')
  BY <1>1 DEF Untouched, RowsStay
<1> QED
  BY <1>2 DEF Untouched, Registers, RowsMove

LEMMA UntouchedStep ==
  ASSUME SignedInv, Inv', Untouched, call' = call
  PROVE  (SentInv /\ OnceInv)'
<1>1. \A d \in Caller : SameWork(call[d], call'[d])
  BY DEF SameWork
<1> QED
  BY <1>1, UntouchedMoves, MildStep DEF Inv, Untouched

LEMMA UntouchedCallStep ==
  ASSUME SignedInv, Inv', Untouched, NEW c \in Caller, NEW r, IsCall(r),
         call' = [call EXCEPT ![c] = r], r.pc # "signing", Ready(tx', r)
  PROVE  (SentInv /\ OnceInv)'
<1>1. call'[c] = r /\ \A d \in Caller : d # c => call'[d] = call[d]
  BY Updated DEF SignedInv, Inv
<1>2. \A d \in Caller : SameWork(call[d], call'[d]) \/ (Ready(tx', call'[d]) /\ ~Attached(d)')
  BY <1>1 DEF SameWork, Attached
<1> QED
  BY <1>2, UntouchedMoves, MildStep DEF Inv, Untouched

LEMMA ObjectHas ==
  SignedInv => \E U : tx \in Object(U)
BY DEF SignedInv, Inv, Sound

LEMMA SettersSign ==
  ASSUME SignedInv, Inv',
         (\E list \in GivenNodes : SetNodeAccountIds(list)) \/ SetTransactionId \/ GetTransactionId
  PROVE  (SentInv /\ OnceInv)'
<1>1. PICK U : tx \in Object(U)
  BY ObjectHas
<1>2. ASSUME NEW list \in GivenNodes, SetNodeAccountIds(list) PROVE Untouched /\ call' = call
  BY <1>1, <1>2 DEF SetNodeAccountIds, Untouched, SameKeys, Object
<1>3. CASE SetTransactionId
  <2>1. Untouched /\ call' = call
    BY <1>1, <1>3 DEF SetTransactionId, Untouched, SameKeys, Object
  <2> QED
    BY <2>1, UntouchedStep
<1>4. CASE GetTransactionId
  <2>1. Untouched /\ call' = call
    BY <1>1, <1>4 DEF GetTransactionId, Untouched, SameKeys, Object
  <2> QED
    BY <2>1, UntouchedStep
<1> QED
  BY <1>2, <1>3, <1>4, UntouchedStep

LEMMA ToBytesSigns ==
  ASSUME SignedInv, Inv', ToBytes
  PROVE  (SentInv /\ OnceInv)'
<1>1. PICK U : tx \in Object(U)
  BY ObjectHas
<1>2. \/ tx' = BuildAll(LockNames(tx))
      \/ \E b : tx' = [tx EXCEPT !.built = b]
  BY DEF ToBytes
<1>3. CASE tx' = BuildAll(LockNames(tx))
  <2>1. Kept(tx, LockNames(tx))
    BY LockNamesKeeps DEF SignedInv, Inv
  <2>2. Kept(tx, tx')
    BY <1>3, <2>1, BuildAllKeeps, KeptChain DEF Kept
  <2>3. Untouched /\ call' = call
    BY <2>2 DEF ToBytes, Kept, Untouched
  <2> QED
    BY <2>3, UntouchedStep
<1>4. ASSUME NEW b, tx' = [tx EXCEPT !.built = b] PROVE Untouched /\ call' = call
  BY <1>1, <1>4 DEF ToBytes, Untouched, SameKeys, Object
<1> QED
  BY <1>2, <1>3, <1>4, UntouchedStep

LEMMA SignerRejectsSigns ==
  ASSUME SignedInv, Inv', NEW c \in Caller, SignerRejects(c)
  PROVE  (SentInv /\ OnceInv)'
<1>1. Untouched /\ call' = [call EXCEPT ![c] = Idle]
  BY DEF SignerRejects, Untouched, SameKeys
<1>2. IsCall(Idle) /\ Idle.pc = "idle"
  BY CallForms
<1> QED
  BY <1>1, <1>2, UntouchedCallStep DEF Ready

LEMMA GivesUpSigns ==
  ASSUME SignedInv, Inv', NEW c \in Caller, GivesUp(c)
  PROVE  (SentInv /\ OnceInv)'
<1>1. Untouched /\ call' = [call EXCEPT ![c] = Idle]
  BY DEF GivesUp, Untouched, SameKeys
<1>2. IsCall(Idle) /\ Idle.pc = "idle"
  BY CallForms
<1> QED
  BY <1>1, <1>2, UntouchedCallStep DEF Ready

LEMMA RetriesSigns ==
  ASSUME SignedInv, Inv', NEW c \in Caller, Retries(c)
  PROVE  (SentInv /\ OnceInv)'
<1>1. PICK U : tx \in Object(U)
  BY ObjectHas
<1> DEFINE r == AttemptAfter(call[c].expired)
<1>2. Untouched /\ call' = [call EXCEPT ![c] = r]
  BY <1>1 DEF Retries, Untouched, SameKeys, Object
<1>3. IsCall(r) /\ r.pc = "attempt"
  BY CallForms
<1> HIDE DEF r
<1> QED
  BY <1>2, <1>3, UntouchedCallStep DEF Ready

LEMMA ExpiresSigns ==
  ASSUME SignedInv, Inv', NEW c \in Caller, Expires(c)
  PROVE  (SentInv /\ OnceInv)'
<1>1. CASE tx.ids.locked
  <2>1. Untouched /\ call' = [call EXCEPT ![c] = Idle]
    BY <1>1 DEF Expires, Untouched, SameKeys
  <2>2. IsCall(Idle) /\ Idle.pc = "idle"
    BY CallForms
  <2> QED
    BY <2>1, <2>2, UntouchedCallStep DEF Ready
<1>2. CASE ~tx.ids.locked
  <2> DEFINE r == AttemptAfter(call[c].row.id)
             t == WithNewId(tx)
  <2>1. Sound(t) /\ SameKeys(tx, t) /\ t.signed = tx.signed
    BY NewIdKeeps DEF SignedInv, Inv
  <2>2. tx' = [t EXCEPT !.nodeIds = Advance(@)] /\ call' = [call EXCEPT ![c] = r]
        /\ UNCHANGED <<removed, halfAdded>>
    BY <1>2 DEF Expires
  <2>3. IsCall(r) /\ r.pc = "attempt"
    BY CallForms
  <2> HIDE DEF t, r
  <2>4. PICK U : t \in Object(U)
    BY <2>1 DEF Sound
  <2>5. SameKeys(t, tx') /\ tx'.signed = t.signed
    BY <2>2, <2>4 DEF SameKeys, Object
  <2>6. Untouched
    BY <2>1, <2>2, <2>5 DEF Untouched, SameKeys
  <2> QED
    BY <2>2, <2>3, <2>6, UntouchedCallStep DEF Ready
<1> QED
  BY <1>1, <1>2

LEMMA AcceptedSigns ==
  ASSUME SignedInv, Inv', NEW c \in Caller, Accepted(c)
  PROVE  (SentInv /\ OnceInv)'
<1> DEFINE r == [call[c] EXCEPT !.pc = "accepted"]
<1>1. Untouched /\ call' = [call EXCEPT ![c] = r]
  BY DEF Accepted, Untouched, SameKeys
<1>2. IsCall(r) /\ r.pc = "accepted"
  BY CallMoves DEF SignedInv, Inv, CallsTyped
<1> HIDE DEF r
<1> QED
  BY <1>1, <1>2, UntouchedCallStep DEF Ready

LEMMA RespondsSigns ==
  ASSUME SignedInv, Inv', NEW c \in Caller, Responds(c)
  PROVE  (SentInv /\ OnceInv)'
<1>1. PICK U : tx \in Object(U)
  BY ObjectHas
<1>2. Untouched /\ call' = [call EXCEPT ![c] = Idle]
  BY <1>1 DEF Responds, Untouched, SameKeys, Object
<1>3. IsCall(Idle) /\ Idle.pc = "idle"
  BY CallForms
<1> QED
  BY <1>2, <1>3, UntouchedCallStep DEF Ready

-----------------------------------------------------------------------------
(* Rows made signature by signature, and bodies that are sent. *)

LEMMA TakenBack == removed' => (SentInv /\ OnceInv)'
BY DEF SentInv, OnceInv

\* What is known of a row that is being made.
LEMMA RowMade ==
  ASSUME SignedInv, ~removed, NEW c \in Caller, call[c].pc = "making"
  PROVE  /\ AlignedIn(tx) /\ WillBeSigned(tx, call[c])
         /\ Following(c) = 0 => call[c].missing \ KeysIn(Made(c).sigs) = {}
         /\ Following(c) # 0 =>
               \A s : s.row = Made(c) /\ s.at = Following(c) /\ s.key = tx.publicKeys[Following(c)]
                      /\ s.missing = call[c].missing => WillBeSigned(tx, s)
<1>1. AlignedIn(tx) /\ WillBeSigned(tx, call[c])
  BY DEF SignedInv, Inv, SentInv
<1>2. PICK r : r = call[c]
  OBVIOUS
<1>3. PICK made : made = Made(c)
  OBVIOUS
<1>4. PICK n : n = Following(c)
  OBVIOUS
<1>5. /\ made = IF r.key = Null THEN r.row ELSE WithSignature(r.row, r.key)
      /\ n = IF r.at = 0 THEN 0 ELSE NextSigner(tx, r.at + 1)
  BY <1>2, <1>3, <1>4 DEF Made, Following
<1>6. /\ n = 0 => r.missing \ KeysIn(made.sigs) = {}
      /\ n # 0 => \A s : s.row = made /\ s.at = n /\ s.key = tx.publicKeys[n]
                         /\ s.missing = r.missing => WillBeSigned(tx, s)
  BY <1>1, <1>2, <1>5, AnsweredRow
<1> QED
  BY <1>1, <1>2, <1>3, <1>4, <1>6

LEMMA AsksNextSignerSigns ==
  ASSUME SignedInv, Inv', NEW c \in Caller, AsksNextSigner(c)
  PROVE  (SentInv /\ OnceInv)'
<1> DEFINE key == tx.publicKeys[Following(c)]
           r == [call[c] EXCEPT !.row = Made(c), !.at = Following(c), !.key = key]
<1>1. PICK V : call[c] \in CallRecord(V)
  BY DEF SignedInv, Inv, CallsTyped, IsCall
<1>2. /\ r.pc = call[c].pc /\ r.row = Made(c) /\ r.at = Following(c) /\ r.key = key
      /\ r.missing = call[c].missing
  BY <1>1 DEF CallRecord
<1>3. IsCall(r)
  BY CallAsks DEF SignedInv, Inv, CallsTyped
<1>4. call' = [call EXCEPT ![c] = r] /\ Untouched /\ tx' = tx
  <2>1. call' = [call EXCEPT ![c].row = Made(c), ![c].at = Following(c), ![c].key = key]
    BY DEF AsksNextSigner
  <2>2. PICK W : call \in [Caller -> W]
    BY DEF SignedInv, Inv, CallsTyped
  <2>3. call' = [call EXCEPT ![c] = r]
    BY <2>1, <2>2
  <2> QED
    BY <2>3 DEF AsksNextSigner, Untouched, SameKeys
<1>5. call[c].pc = "making" /\ Following(c) # 0
  BY DEF AsksNextSigner
<1> HIDE DEF r
<1>6. CASE removed
  BY <1>4, <1>6, TakenBack DEF Untouched
<1>7. CASE ~removed
  <2>1. WillBeSigned(tx, r)
    BY <1>2, <1>5, <1>7, RowMade DEF key
  <2>2. Ready(tx', r) /\ r.pc # "signing"
    BY <1>2, <1>4, <1>5, <2>1 DEF Ready
  <2> QED
    BY <1>3, <1>4, <2>2, UntouchedCallStep
<1> QED
  BY <1>6, <1>7

\* A call that goes on with a new row.
LEMMA BeginsRow ==
  ASSUME SignedInv, Inv', Untouched, NEW c \in Caller, NEW executes, NEW done, NEW r,
         IsCall(r), r.pc = "making", SameWork(Making(tx, executes, done), r),
         call' = [call EXCEPT ![c] = r]
  PROVE  (SentInv /\ OnceInv)'
<1>1. CASE removed
  BY <1>1, TakenBack DEF Untouched
<1>2. CASE ~removed
  <2>1. AlignedIn(tx)
    BY <1>2 DEF SignedInv, Inv
  <2>2. Ready(tx, Making(tx, executes, done))
    BY <2>1, BegunRow DEF Ready
  <2>3. Ready(tx, r)
    BY <2>2, SameBody
  <2>4. Ready(tx', r)
    BY <2>1, <2>3, UntouchedMoves, StillReady
  <2> QED
    BY <2>4, UntouchedCallStep
<1> QED
  BY <1>1, <1>2

LEMMA StartsRequestSigns ==
  ASSUME SignedInv, Inv', NEW c \in Caller, StartsRequest(c)
  PROVE  (SentInv /\ OnceInv)'
<1>1. PICK executes, done : executes = TRUE /\ done = 0
  OBVIOUS
<1> DEFINE making == Making(tx, executes, done)
           r == [making EXCEPT !.expired = call[c].expired]
<1>2. tx' = NextNode(tx) /\ call' = [call EXCEPT ![c] = r] /\ UNCHANGED <<removed, halfAdded>>
      /\ tx.nodeIds.list # <<>>
  BY <1>1 DEF StartsRequest, IsEmpty
<1>3. Untouched
  BY <1>2, NextNodeKeeps DEF SignedInv, Inv, Kept, Untouched
<1>4. IsCall(making) /\ making.pc = "making"
  BY CallForms
<1>5. PICK V : making \in CallRecord(V)
  BY <1>4 DEF IsCall
<1>6. IsCall(r) /\ r.pc = "making" /\ SameWork(making, r)
  <2>1. IsCall(r)
    BY <1>4, CallExpires
  <2> HIDE DEF making
  <2>2. SameWork(making, r)
    BY <1>5 DEF SameWork, CallRecord
  <2> QED
    BY <1>4, <2>1, <2>2 DEF SameWork
<1> HIDE DEF r
<1> QED
  BY <1>2, <1>3, <1>6, BeginsRow

LEMMA PushesEntrySigns ==
  ASSUME SignedInv, Inv', NEW c \in Caller, PushesEntry(c)
  PROVE  (SentInv /\ OnceInv)'
<1> DEFINE pushed == [tx EXCEPT !.built.list = Append(tx.built.list, Made(c))]
<1>1. PICK executes : executes = FALSE
  OBVIOUS
<1>2. PICK done : done = call[c].done + 1
  OBVIOUS
<1> DEFINE r == Making(tx, executes, done)
<1>3. /\ tx' \in {tx, NextNode(pushed), Closed(pushed)}
      /\ call' = [call EXCEPT ![c] = Idle] \/ call' = [call EXCEPT ![c] = r]
      /\ UNCHANGED <<removed, halfAdded>>
  <2>1. call' = [call EXCEPT ![c] = Idle] \/ call' = [call EXCEPT ![c] = r]
    BY <1>1, <1>2 DEF PushesEntry
  <2>2. PICK U : tx \in Object(U)
    BY ObjectHas
  <2>3. pushed = [tx EXCEPT !.built.list = Append(@, Made(c))]
    BY <2>2 DEF Object
  <2> QED
    BY <2>1, <2>3 DEF PushesEntry
<1>4. SameKeys(tx, tx') /\ tx'.signed.list = tx.signed.list
  <2>1. PICK U : tx \in Object(U)
    BY ObjectHas
  <2>2. SameKeys(tx, pushed) /\ pushed.signed = tx.signed
    BY <2>1 DEF Object, SameKeys
  <2>3. PICK W : pushed \in Object(W)
    <3>1. pushed = [tx EXCEPT !.built = [tx.built EXCEPT !.list = Append(tx.built.list, Made(c))]]
      BY <2>1 DEF Object
    <3>2. pushed \in Object(U \cup {[tx.built EXCEPT !.list = Append(tx.built.list, Made(c))]})
      BY <2>1, <3>1 DEF Object
    <3> QED
      BY <3>2
  <2> HIDE DEF pushed
  <2>4. SameKeys(pushed, NextNode(pushed)) /\ NextNode(pushed).signed = pushed.signed
    BY <2>3 DEF NextNode, SameKeys, Object
  <2>5. SameKeys(pushed, Closed(pushed)) /\ Closed(pushed).signed.list = pushed.signed.list
    <3>1. pushed.signed \in Items(SignedEntry)
      BY <2>3 DEF Object
    <3> QED
      BY <2>3, <3>1 DEF Closed, SameKeys, Object, Items
  <2> QED
    BY <1>3, <2>2, <2>4, <2>5 DEF SameKeys
<1>5. Untouched
  BY <1>3, <1>4 DEF Untouched
<1>6. CASE call' = [call EXCEPT ![c] = Idle]
  <2>1. IsCall(Idle) /\ Idle.pc = "idle"
    BY CallForms
  <2> QED
    BY <1>5, <1>6, <2>1, UntouchedCallStep DEF Ready
<1>7. CASE call' = [call EXCEPT ![c] = r]
  <2>1. IsCall(r) /\ r.pc = "making"
    BY CallForms
  <2> HIDE DEF pushed
  <2>2. SameWork(Making(tx, executes, done), r)
    BY DEF SameWork
  <2> HIDE DEF r
  <2> QED
    BY <1>5, <1>7, <2>1, <2>2, BeginsRow
<1> QED
  BY <1>3, <1>6, <1>7

LEMMA SentCall ==
  ASSUME NEW c, NEW row, NEW expected
  PROVE  /\ IsCall(Sent(c, row, expected)) /\ Sent(c, row, expected).pc = "sent"
         /\ Sent(c, row, expected).missing = expected \ KeysIn(row.sigs)
<1>1. Sent(c, row, expected).missing = expected \ KeysIn(row.sigs)
  BY DEF Sent, Idle
<1> QED
  BY <1>1, CallForms

LEMMA SendsMadeSigns ==
  ASSUME SignedInv, Inv', NEW c \in Caller, SendsMade(c)
  PROVE  (SentInv /\ OnceInv)'
<1>1. PICK made : made = Made(c)
  OBVIOUS
<1>2. PICK expected : expected = call[c].missing
  OBVIOUS
<1> DEFINE r == Sent(c, made, expected)
<1>3. Untouched /\ call' = [call EXCEPT ![c] = r] /\ call[c].pc = "making" /\ Following(c) = 0
  BY <1>1, <1>2 DEF SendsMade, Untouched, SameKeys
<1>4. IsCall(r) /\ r.pc = "sent" /\ r.missing = expected \ KeysIn(made.sigs)
  BY SentCall
<1> HIDE DEF r
<1>5. CASE removed
  BY <1>3, <1>5, TakenBack DEF Untouched
<1>6. CASE ~removed
  <2>1. Ready(tx', r)
    BY <1>1, <1>2, <1>3, <1>4, <1>6, RowMade DEF Ready
  <2> QED
    BY <1>3, <1>4, <2>1, UntouchedCallStep
<1> QED
  BY <1>5, <1>6

\* The row of a transaction that is not signed on demand has every signature
\* of a registered key, with the exceptions RegisteredHaveSigned names.
LEMMA MakesRequestSigns ==
  ASSUME SignedInv, Inv', NEW c \in Caller, MakesRequest(c)
  PROVE  (SentInv /\ OnceInv)'
<1> DEFINE index == tx.nodeIds.index + 1
<1>1. PICK row : row = tx.signed.list[index]
  OBVIOUS
<1>2. PICK expected : expected = tx.signerKeys \ (excused \cup BeingSigned)
  OBVIOUS
<1> DEFINE r == Sent(c, row, expected)
<1>3. \/ /\ call' = [call EXCEPT ![c] = Idle] /\ tx' = tx
      \/ /\ ~tx.signOnDemand /\ ~(index > Len(tx.signed.list))
         /\ tx' = WithEntry(tx, index, row) /\ call' = [call EXCEPT ![c] = r]
  BY <1>1, <1>2 DEF MakesRequest
<1>4. UNCHANGED <<removed, halfAdded>>
  BY DEF MakesRequest
<1>5. CASE call' = [call EXCEPT ![c] = Idle] /\ tx' = tx
  <2>1. Untouched
    BY <1>4, <1>5 DEF Untouched, SameKeys
  <2>2. IsCall(Idle) /\ Idle.pc = "idle"
    BY CallForms
  <2> QED
    BY <1>5, <2>1, <2>2, UntouchedCallStep DEF Ready
<1>6. CASE /\ ~tx.signOnDemand /\ ~(index > Len(tx.signed.list))
           /\ tx' = WithEntry(tx, index, row) /\ call' = [call EXCEPT ![c] = r]
  <2>1. PICK U : tx \in Object(U)
    BY ObjectHas
  <2>2. index \in 1 .. Len(tx.signed.list)
    <3>1. Len(tx.signed.list) \in Nat
      BY ObjectFields DEF SignedInv, Inv
    <3>2. tx.nodeIds.index \in Nat
      BY <2>1 DEF Object, Items
    <3> QED
      BY <1>6, <3>1, <3>2
  <2>3. Untouched
    <3>1. SameKeys(tx, tx') /\ tx'.signed.list = tx.signed.list
      BY <1>6, <2>1 DEF WithEntry, SameKeys, Object
    <3> QED
      BY <1>4, <3>1 DEF Untouched
  <2>4. IsCall(r) /\ r.pc = "sent" /\ r.missing = expected \ KeysIn(row.sigs)
    BY SentCall
  <2>9. row = tx.signed.list[index]
    BY <1>1
  <2> HIDE DEF r, index
  <2>5. \A k \in tx.signerKeys \ excused : k \in KeysIn(row.sigs) \/ Pending(k, index)
    BY <1>6, <2>2, <2>9 DEF SignedInv, Inv, AllSigned
  <2>6. \A k : Pending(k, index) => k \in BeingSigned
    BY DEF Pending, BeingSigned
  <2>7. r.missing = {}
    <3>1. r.missing = (tx.signerKeys \ (excused \cup BeingSigned)) \ KeysIn(row.sigs)
      BY <1>2, <2>4
    <3> QED
      BY <2>5, <2>6, <3>1
  <2>8. Ready(tx', r)
    BY <2>4, <2>7 DEF Ready
  <2> QED
    BY <1>6, <2>3, <2>4, <2>8, UntouchedCallStep
<1> QED
  BY <1>3, <1>5, <1>6

-----------------------------------------------------------------------------
(* Steps that may start the rows anew. *)

LEMMA UnsignedBlank ==
  ASSUME NEW t, Sound(t), NEW u, u.signed.list = Unsigned(t)
  PROVE  Blank(u)
<1>1. PICK U : t \in Object(U)
  BY DEF Sound
<1>2. Len(Unsigned(t)) = Len(t.nodeIds.list)
  BY <1>1, UnsignedRows
<1>3. \A i \in 1 .. Len(t.nodeIds.list) : Unsigned(t)[i].sigs = NoSignature
  BY DEF Unsigned, Entry
<1>4. \A k \in Key : NoSignature[k] = 0
  BY DEF NoSignature
<1> QED
  BY <1>2, <1>3, <1>4 DEF Blank

LEMMA BuildBlank ==
  ASSUME NEW t, Sound(t), Rebuilds(t)
  PROVE  Blank(BuildSigned(t))
<1>1. PICK U : t \in Object(U)
  BY DEF Sound
<1>2. BuildSigned(t).signed.list = Unsigned(t)
  BY <1>1 DEF BuildSigned, SetList, Object
<1> QED
  BY <1>2, UnsignedBlank

LEMMA FreezeMoves ==
  ASSUME NEW t, Sound(t), NEW client \in BOOLEAN, NEW demand \in BOOLEAN
  PROVE  RowsMove(t, FreezeWith(t, client, demand))
<1> DEFINE set == WithOptions(t, client, demand)
           with == WithNodes(set, client)
           named == WithNewId(with)
<1>1. Len(t.signed.list) \in Nat
  BY ObjectFields
<1>2. CASE ~Replaces(t, client, demand)
  BY <1>1, <1>2, FreezeKeeps DEF RowsMove, RowsStay
<1>3. CASE Replaces(t, client, demand)
  <2>1. Sound(set) /\ set.signed = t.signed
    BY OptionsSet
  <2> HIDE DEF set
  <2>2. Sound(with) /\ with.signed = set.signed
    BY <2>1, NodesSet
  <2> HIDE DEF with
  <2>3. Sound(named) /\ named.signed = with.signed
    BY <2>2, NewIdKeeps
  <2> HIDE DEF named
  <2>4. FreezeWith(t, client, demand) = BuildSigned(named)
    BY <1>3 DEF FreezeWith, Replaces, set, with, named
  <2>5. Rebuilds(named)
    BY <1>3, <2>1, <2>2, <2>3 DEF Replaces, Rebuilds
  <2> QED
    BY <2>3, <2>4, <2>5, BuildBlank DEF RowsMove
<1> QED
  BY <1>2, <1>3

LEMMA FrozenMoves ==
  ASSUME NEW t, Sound(t)
  PROVE  RowsMove(t, Frozen(t))
<1>1. Len(t.signed.list) \in Nat
  BY ObjectFields
<1>2. PICK no \in BOOLEAN : no = FALSE
  OBVIOUS
<1>3. RowsMove(t, FreezeWith(t, no, no))
  BY FreezeMoves
<1>4. CASE IsFrozen(t)
  BY <1>1, <1>4 DEF Frozen, RowsMove, RowsStay
<1>5. CASE ~IsFrozen(t)
  <2>1. Frozen(t) = FreezeWith(t, no, no)
    BY <1>2, <1>5 DEF Frozen
  <2> QED
    BY <1>3, <2>1
<1> QED
  BY <1>4, <1>5

LEMMA DetachingStep ==
  ASSUME SignedInv, Inv', UNCHANGED <<removed, halfAdded>>, SameKeys(tx, tx'), RowsMove(tx, tx'),
         NEW replaced \in BOOLEAN, call' = DetachedIf(replaced)
  PROVE  (SentInv /\ OnceInv)'
<1>1. \A d \in Caller : SameWork(call[d], call'[d])
  BY LeftCalls DEF SignedInv, Inv
<1>2. Registers(tx, tx')
  BY DEF Registers
<1> QED
  BY <1>1, <1>2, MildStep DEF Inv

LEMMA FreezeSigns ==
  ASSUME SignedInv, Inv', NEW client \in BOOLEAN, NEW demand \in BOOLEAN, Freeze(client, demand)
  PROVE  (SentInv /\ OnceInv)'
<1>1. /\ tx' = FreezeWith(tx, client, demand) /\ UNCHANGED <<removed, halfAdded>>
      /\ call' = DetachedIf(Replaces(tx, client, demand))
  BY DEF Freeze
<1>2. SameKeys(tx, tx') /\ RowsMove(tx, tx')
  BY <1>1, FreezeKeeps, FreezeMoves DEF SignedInv, Inv
<1>3. Replaces(tx, client, demand) \in BOOLEAN
  BY DEF Replaces
<1> QED
  BY <1>1, <1>2, <1>3, DetachingStep

LEMMA ResetTransactionSigns ==
  ASSUME SignedInv, Inv', ResetTransaction
  PROVE  (SentInv /\ OnceInv)'
<1>1. PICK U : tx \in Object(U)
  BY ObjectHas
<1>2. PICK yes \in BOOLEAN : yes = TRUE
  OBVIOUS
<1>3. SameKeys(tx, tx') /\ tx'.signed = NoItems
  BY <1>1 DEF ResetTransaction, SameKeys, Object
<1>4. NoItems.list = <<>>
  BY DEF NoItems, Listed
<1>5. Blank(tx')
  BY <1>3, <1>4, EmptySeq DEF Blank
<1>6. call' = DetachedIf(yes) /\ UNCHANGED <<removed, halfAdded>>
  BY <1>2 DEF ResetTransaction
<1> QED
  BY <1>3, <1>5, <1>6, DetachingStep DEF RowsMove

LEMMA ToBytesAsyncSigns ==
  ASSUME SignedInv, Inv', NEW c \in Caller, ToBytesAsync(c)
  PROVE  (SentInv /\ OnceInv)'
<1> DEFINE t == LockNames(tx)
           rows == BuildSigned(t)
<1>1. Kept(tx, t) /\ Sound(t)
  BY LockNamesKeeps DEF SignedInv, Inv, Kept
<1>2. /\ Sound(rows) /\ SameKeys(t, rows)
      /\ ~Rebuilds(t) => rows.signed = t.signed
  BY <1>1, BuildKeeps
<1>3. Rebuilds(t) => Blank(rows)
  BY <1>1, BuildBlank
<1>4. UNCHANGED <<removed, halfAdded>>
  BY DEF ToBytesAsync
<1>5. CASE ~tx.signOnDemand
  <2>1. tx' = Closed(BuildAll(t)) /\ call' = call
    BY <1>5 DEF ToBytesAsync
  <2> HIDE DEF t
  <2>2. Kept(t, BuildAll(t)) /\ Sound(BuildAll(t))
    BY <1>1, BuildAllKeeps DEF Kept
  <2>3. Kept(tx, tx')
    BY <1>1, <2>1, <2>2, ClosedKeeps, KeptChain
  <2>4. Untouched
    BY <1>4, <2>3 DEF Kept, Untouched
  <2> QED
    BY <2>1, <2>4, UntouchedStep
<1>6. CASE tx.signOnDemand
  <2>1. PICK executes : executes = FALSE
    OBVIOUS
  <2>2. PICK done : done = 0
    OBVIOUS
  <2> DEFINE replaced == Rebuilds(tx)
             r == Making(rows, executes, done)
  <2>3. \/ tx' = Closed(rows) /\ call' = DetachedIf(replaced)
        \/ /\ tx' = NextNode(rows) /\ call' = [DetachedIf(replaced) EXCEPT ![c] = r]
           /\ rows.signed.list # <<>>
    BY <1>6, <2>1, <2>2 DEF ToBytesAsync, IsFrozen, IsEmpty
  <2>4. replaced \in BOOLEAN
    BY DEF Rebuilds
  <2> HIDE DEF t, rows, replaced
  <2>5. SameKeys(tx, rows) /\ RowsMove(tx, rows)
    <3>1. Len(tx.signed.list) \in Nat
      BY ObjectFields DEF SignedInv, Inv
    <3> QED
      BY <1>1, <1>2, <1>3, <3>1 DEF Kept, SameKeys, RowsMove, RowsStay
  <2>6. Kept(rows, tx')
    <3>1. rows.signed.list # <<>> => rows.nodeIds.list # <<>>
      BY <1>2 DEF Sound, NodesOf
    <3> QED
      BY <1>2, <2>3, <3>1, ClosedKeeps, NextNodeKeeps
  <2>7. SameKeys(tx, tx') /\ RowsMove(tx, tx')
    BY <2>5, <2>6 DEF Kept, SameKeys, RowsMove, RowsStay, Blank
  <2>8. CASE call' = DetachedIf(replaced)
    BY <1>4, <2>4, <2>7, <2>8, DetachingStep
  <2>9. CASE call' = [DetachedIf(replaced) EXCEPT ![c] = r]
    <3>1. IsCall(r) /\ r.pc = "making"
      BY CallForms
    <3>2. CASE removed
      BY <1>4, <3>2, TakenBack
    <3>3. CASE ~removed
      <4>1. AlignedIn(rows)
        BY <2>5, <3>3 DEF SignedInv, Inv, AlignedIn, SameKeys
      <4>2. WillBeSigned(rows, r)
        BY <4>1, BegunRow
      <4>3. Registers(rows, tx') /\ Registers(tx, tx')
        BY <2>6, <2>7 DEF Kept, Registers
      <4> HIDE DEF r
      <4>4. Ready(tx', r)
        BY <3>1, <4>1, <4>2, <4>3, StillReady DEF Ready
      <4>5. call'[c] = r /\ \A d \in Caller : d # c => SameWork(call[d], call'[d])
        BY <2>4, <2>9, OneCallMoves DEF SignedInv, Inv
      <4>6. \A d \in Caller : SameWork(call[d], call'[d]) \/ (Ready(tx', call'[d]) /\ ~Attached(d)')
        BY <3>1, <4>4, <4>5 DEF Attached
      <4> QED
        BY <1>4, <2>7, <4>3, <4>6, MildStep DEF Inv
    <3> QED
      BY <3>2, <3>3
  <2> QED
    BY <2>3, <2>8, <2>9
<1> QED
  BY <1>5, <1>6

-----------------------------------------------------------------------------
(* Signatures that are added and taken back. *)

LEMMA RemoveSignatureSigns ==
  ASSUME SignedInv, Inv', NEW k \in Key, RemoveSignature(k)
  PROVE  (SentInv /\ OnceInv)'
<1> DEFINE t == Frozen(tx)
           replaced == FreezesFirst(tx)
<1>1. /\ removed' = (removed \/ Known(t, k)) /\ call' = DetachedIf(replaced)
      /\ Known(t, k) \/ (tx' = t /\ halfAdded' = halfAdded)
  BY DEF RemoveSignature
<1>2. SameKeys(tx, t) /\ RowsMove(tx, t)
  BY FrozenKeeps, FrozenMoves DEF SignedInv, Inv
<1>3. replaced \in BOOLEAN
  BY DEF FreezesFirst
<1> HIDE DEF t, replaced
<1>4. CASE Known(t, k)
  BY <1>1, <1>4, TakenBack
<1>5. CASE ~Known(t, k)
  <2>1. tx' = t /\ UNCHANGED halfAdded /\ (removed' <=> removed)
    BY <1>1, <1>5
  <2>2. \A d \in Caller : SameWork(call[d], call'[d])
    BY <1>1, <1>3, LeftCalls DEF SignedInv, Inv
  <2> QED
    BY <1>2, <2>1, <2>2, MildStep DEF Inv, Registers
<1> QED
  BY <1>4, <1>5

\* Where no key is registered, no public key is, and nothing is taken back.
LEMMA NoKeys ==
  ASSUME SignedInv, ~removed, tx.signerKeys = {}
  PROVE  tx.publicKeys = <<>> /\ tx.signers = <<>>
<1>1. /\ tx.publicKeys \in Seq(Key) /\ tx.signers \in Seq(Key \cup {Null})
      /\ Len(tx.publicKeys) = Len(tx.signers)
  BY DEF SignedInv, Inv, AlignedIn
<1>2. \A i \in 1 .. Len(tx.publicKeys) : tx.publicKeys[i] \in {}
  BY DEF SignedInv, SentInv
<1>3. Len(tx.publicKeys) \in Nat
  BY <1>1, LenProperties
<1>4. ~(Len(tx.publicKeys) > 0)
  <2> SUFFICES ASSUME Len(tx.publicKeys) > 0 PROVE FALSE
    OBVIOUS
  <2>1. 1 \in 1 .. Len(tx.publicKeys)
    BY <1>3
  <2> QED
    BY <1>2, <2>1
<1> QED
  BY <1>1, <1>4, NonEmpty

LEMMA RemoveAllSignaturesSigns ==
  ASSUME SignedInv, Inv', RemoveAllSignatures
  PROVE  (SentInv /\ OnceInv)'
<1> DEFINE t == Frozen(tx)
           replaced == FreezesFirst(tx)
           blank == [i \in 1 .. Len(t.signed.list) |-> [t.signed.list[i] EXCEPT !.sigs = NoSignature]]
<1>1. /\ tx' = [t EXCEPT !.signed.list = blank, !.signerKeys = {}, !.publicKeys = <<>>, !.signers = <<>>]
      /\ removed' = (removed \/ tx.signerKeys # {})
      /\ call' = DetachedIf(replaced) /\ halfAdded' = {}
  BY DEF RemoveAllSignatures
<1>2. replaced \in BOOLEAN
  BY DEF FreezesFirst
<1>3. Sound(t)
  BY FrozenKeeps DEF SignedInv, Inv
<1> SUFFICES ASSUME ~removed' PROVE (SentInv /\ OnceInv)'
  BY TakenBack
<1>4. ~removed /\ tx.signerKeys = {}
  BY <1>1
<1>5. tx.publicKeys = <<>> /\ tx.signers = <<>>
  BY <1>4, NoKeys
<1>6. \A d \in Caller : SameWork(call[d], call'[d])
  BY <1>1, <1>2, LeftCalls DEF SignedInv, Inv
<1>7. Len(blank) = Len(t.signed.list) /\ \A i \in 1 .. Len(t.signed.list) : blank[i].sigs = NoSignature
  <2>1. t.signed.list \in Seq(SignedEntry) /\ Len(t.signed.list) \in Nat
    BY <1>3, ObjectFields
  <2>2. \A i \in 1 .. Len(t.signed.list) : t.signed.list[i] \in SignedEntry
    BY <2>1, ElementOfSeq
  <2>3. \A i \in 1 .. Len(t.signed.list) : [t.signed.list[i] EXCEPT !.sigs = NoSignature].sigs = NoSignature
    BY <2>2 DEF SignedEntry
  <2> QED
    BY <2>1, <2>3
<1>8. /\ tx'.signerKeys = {} /\ tx'.publicKeys = <<>> /\ tx'.signers = <<>>
      /\ tx'.signed.list = blank
  <2>1. PICK U : t \in Object(U)
    BY <1>3 DEF Sound
  <2>2. t.signed \in Items(SignedEntry)
    BY <2>1 DEF Object
  <2> HIDE DEF t, blank
  <2> QED
    BY <1>1, <2>1, <2>2 DEF Object, Items
<1>9. SameKeys(tx, tx')
  BY <1>4, <1>5, <1>8 DEF SameKeys
<1>10. Blank(tx')
  <2>1. \A k \in Key : NoSignature[k] = 0
    BY DEF NoSignature
  <2> HIDE DEF t, blank
  <2> QED
    BY <1>7, <1>8, <2>1 DEF Blank
<1>11. SentInv'
  BY <1>4, <1>6, <1>9, SentStep DEF SignedInv, Registers
<1>12. \A d \in Caller : ~Attached(d)'
  BY <1>4, <1>6 DEF SignedInv, OnceInv, SameWork, Attached
<1>13. OnceInv'
  BY <1>10, <1>12 DEF OnceInv, Blank
<1> QED
  BY <1>11, <1>13

\* addSignature, whole or half-way.
LEMMA AddSignatureSigns ==
  ASSUME SignedInv, Inv', NEW k \in Key, NEW n \in Nat, AddSignature(k, n)
  PROVE  (SentInv /\ OnceInv)'
<1> DEFINE t == Frozen(tx)
           replaced == FreezesFirst(tx)
           added == [i \in 1 .. Len(t.signed.list) |->
                        IF i <= n THEN WithSignature(t.signed.list[i], k) ELSE t.signed.list[i]]
           locked == [LockNames(t) EXCEPT !.built = NoItems, !.signed.locked = TRUE, !.signed.list = added]
<1>1. /\ ~Known(tx, k) /\ n <= Len(t.signed.list)
      /\ tx' = IF n = Len(t.signed.list) THEN Registered(locked, k, Null) ELSE locked
      /\ call' = DetachedIf(replaced) /\ removed' = removed
      /\ halfAdded' = IF n = Len(t.signed.list) THEN halfAdded ELSE halfAdded \cup {k}
  BY DEF AddSignature
<1>2. replaced \in BOOLEAN
  BY DEF FreezesFirst
<1>3. Sound(t) /\ SameKeys(tx, t) /\ RowsMove(tx, t)
  BY FrozenKeeps, FrozenMoves DEF SignedInv, Inv
<1> SUFFICES ASSUME ~removed PROVE (SentInv /\ OnceInv)'
  BY <1>1, TakenBack
<1>4. \A d \in Caller : SameWork(call[d], call'[d])
  BY <1>1, <1>2, LeftCalls DEF SignedInv, Inv
<1>5. PICK U : t \in Object(U)
  BY <1>3 DEF Sound
<1>6. /\ t.signed.list \in Seq(SignedEntry) /\ Len(t.signed.list) \in Nat
      /\ \A i \in 1 .. Len(t.signed.list) : t.signed.list[i] \in SignedEntry
  BY <1>3, ObjectFields, ElementOfSeq
<1>7. /\ Len(added) = Len(t.signed.list)
      /\ \A i \in 1 .. Len(t.signed.list) : \A j \in Key :
            added[i].sigs[j] = IF j = k /\ i <= n THEN t.signed.list[i].sigs[j] + 1
                               ELSE t.signed.list[i].sigs[j]
  <2>1. Len(added) = Len(t.signed.list)
    BY <1>6
  <2>2. ASSUME NEW row \in SignedEntry, NEW j \in Key
        PROVE  WithSignature(row, k).sigs[j] = IF j = k THEN row.sigs[j] + 1 ELSE row.sigs[j]
    <3>1. row.sigs \in [Key -> Nat]
      BY DEF SignedEntry
    <3>2. WithSignature(row, k).sigs = [row.sigs EXCEPT ![k] = @ + 1]
      BY DEF WithSignature, SignedEntry
    <3> QED
      BY <3>1, <3>2, OneMore
  <2>3. ASSUME NEW i \in 1 .. Len(t.signed.list), NEW j \in Key
        PROVE  added[i].sigs[j] = IF j = k /\ i <= n THEN t.signed.list[i].sigs[j] + 1
                                  ELSE t.signed.list[i].sigs[j]
    <3>1. added[i] = IF i <= n THEN WithSignature(t.signed.list[i], k) ELSE t.signed.list[i]
      OBVIOUS
    <3>2. t.signed.list[i] \in SignedEntry
      BY <1>6
    <3> HIDE DEF added, t
    <3> QED
      BY <2>2, <3>1, <3>2
  <2> QED
    BY <2>1, <2>3
<1>8. /\ SameKeys(t, locked) /\ locked.signed.list = added
  <2>1. t.signed \in Items(SignedEntry)
    BY <1>5 DEF Object
  <2> HIDE DEF t, added
  <2> QED
    BY <1>5, <2>1 DEF LockNames, SameKeys, Object, Items
<1>9. /\ Registers(tx, tx') /\ tx'.signed.list = added
      /\ n = Len(t.signed.list) => k \in tx'.signerKeys
  <2>1. \E f, g : locked = [f EXCEPT !.built = NoItems, !.signed = g] /\ f \in Object(U)
    <3>1. SetLocked(t.ids) \in Items(Nat) /\ SetLocked(t.nodeIds) \in Items(Account)
      BY <1>5 DEF Object, Items, SetLocked
    <3>2. LockNames(t) \in Object(U)
      BY <1>5, <3>1 DEF LockNames, Object
    <3> QED
      BY <3>2
  <2>2. CASE n = Len(t.signed.list)
    <3>1. tx' = Registered(locked, k, Null)
      BY <1>1, <2>2
    <3> HIDE DEF t, added, locked
    <3>2. /\ tx'.signerKeys = locked.signerKeys \cup {k}
          /\ tx'.publicKeys = Append(locked.publicKeys, k) /\ tx'.signers = Append(locked.signers, Null)
          /\ tx'.signed = locked.signed
      BY <2>1, <3>1 DEF Registered, Object
    <3> QED
      BY <1>3, <1>8, <3>2 DEF Registers, SameKeys
  <2>3. CASE n # Len(t.signed.list)
    <3>1. tx' = locked
      BY <1>1, <2>3
    <3> HIDE DEF t, added, locked
    <3> QED
      BY <1>3, <1>8, <2>3, <3>1 DEF Registers, SameKeys
  <2> QED
    BY <2>2, <2>3
<1> HIDE DEF t, added, locked, replaced
<1>10. SentInv'
  BY <1>1, <1>4, <1>9, SentStep DEF SignedInv
<1>11. AlignedIn(tx) /\ tx.signerKeys \subseteq tx'.signerKeys
  BY <1>9, RegistersLast DEF SignedInv, Inv
<1>12. \A d \in Caller : Attached(d)' =>
          /\ Attached(d) /\ call'[d].key = call[d].key /\ call'[d].at = call[d].at
          /\ call[d].key \in tx.signerKeys /\ call[d].key # k
  BY <1>1, <1>4 DEF SignedInv, OnceInv, SameWork, Attached, Known
<1>13. ASSUME NEW i \in 1 .. Len(tx'.signed.list), NEW j \in Key \ halfAdded'
       PROVE  /\ tx'.signed.list[i].sigs[j] <= 1
              /\ j \notin tx'.signerKeys => tx'.signed.list[i].sigs[j] = 0
              /\ \A d \in Caller : Attached(d)' /\ call'[d].key = j /\ call'[d].at < i =>
                    tx'.signed.list[i].sigs[j] = 0
  <2>1. i \in 1 .. Len(t.signed.list) /\ j \in Key \ halfAdded
    BY <1>1, <1>7, <1>9
  <2>2. /\ t.signed.list[i].sigs[j] <= 1
        /\ j \notin tx.signerKeys => t.signed.list[i].sigs[j] = 0
        /\ \A d \in Caller : Attached(d) /\ call[d].key = j /\ call[d].at < i =>
              t.signed.list[i].sigs[j] = 0
    BY <1>3, <2>1, RowsOnce DEF SignedInv
  <2>3. CASE j # k
    <3>1. tx'.signed.list[i].sigs[j] = t.signed.list[i].sigs[j]
      BY <1>7, <1>9, <2>1, <2>3
    <3> QED
      BY <1>11, <1>12, <2>2, <3>1
  <2>4. CASE j = k
    <3>1. n = Len(t.signed.list) /\ k \notin tx.signerKeys
      BY <1>1, <2>4 DEF Known
    <3>2. k \in tx'.signerKeys /\ t.signed.list[i].sigs[j] = 0
      BY <1>9, <2>2, <2>4, <3>1
    <3>3. tx'.signed.list[i].sigs[j] <= 1
      BY <1>7, <1>9, <2>1, <3>2
    <3> QED
      BY <1>12, <2>4, <3>2, <3>3
  <2> QED
    BY <2>3, <2>4
<1>14. halfAdded \subseteq halfAdded'
  BY <1>1
<1>15. \A c, d \in Caller : Attached(c)' /\ Attached(d)' /\ call'[c].key = call'[d].key =>
          c = d \/ call'[c].key \in halfAdded'
  BY <1>12, <1>14 DEF SignedInv, OnceInv
<1>16. \A c \in Caller : Attached(c)' => call'[c].key \in tx'.signerKeys
  BY <1>11, <1>12
<1>17. OnceInv'
  BY <1>13, <1>15, <1>16 DEF OnceInv
<1> QED
  BY <1>10, <1>17

-----------------------------------------------------------------------------
(* Calls that sign rows. *)

\* A signature for one row: no other call signs that key, and this one has not
\* been at the row before.
LEMMA SignsRowSigns ==
  ASSUME SignedInv, Inv', NEW c \in Caller, SignsRow(c)
  PROVE  (SentInv /\ OnceInv)'
<1> DEFINE at == call[c].at + 1
           k == call[c].key
           signs == call[c].attached /\ at <= Len(tx.signed.list)
           r == call'[c]
           ends == IF call[c].executes THEN Attempt ELSE Idle
<1>1. /\ call[c].pc = "signing" /\ UNCHANGED <<halfAdded, removed>>
      /\ call' = [call EXCEPT ![c] = IF at < call[c].done THEN [@ EXCEPT !.at = at] ELSE ends]
  BY DEF SignsRow
<1> SUFFICES ASSUME ~removed PROVE (SentInv /\ OnceInv)'
  BY <1>1, TakenBack
<1>2. /\ k \in Key /\ call[c].at \in Nat /\ at \in Nat /\ at > 0
      /\ tx.signed.list \in Seq(SignedEntry) /\ Len(tx.signed.list) \in Nat
      /\ Inv
  BY <1>1, ObjectFields DEF SignedInv, Inv, Ahead
<1>3. /\ \A d \in Caller : d # c => call'[d] = call[d]
      /\ r.pc = "signing" => /\ r.key = k /\ r.attached = call[c].attached /\ r.at = at
      /\ r.pc \in {"signing", "attempt", "idle"}
  <2> DEFINE on == [call[c] EXCEPT !.at = at]
  <2>1. /\ IsCall(on) /\ on.pc = "signing" /\ on.key = k /\ on.attached = call[c].attached
        /\ on.at = at
    <3>1. IsCall(call[c])
      BY <1>2 DEF Inv, CallsTyped
    <3> HIDE DEF at
    <3> QED
      BY <1>1, <3>1, CallGoesOn
  <2>2. IsCall(ends) /\ ends.pc \in {"attempt", "idle"}
    BY CallForms
  <2> HIDE DEF on, ends
  <2>3. CASE at < call[c].done
    <3>1. call' = [call EXCEPT ![c] = on]
      BY <1>1, <1>2, <2>3 DEF on, Inv, CallsTyped
    <3> QED
      BY <1>2, <2>1, <3>1, Updated DEF Inv
  <2>4. CASE ~(at < call[c].done)
    <3>1. call' = [call EXCEPT ![c] = ends]
      BY <1>1, <2>4
    <3> QED
      BY <1>2, <2>2, <3>1, Updated DEF Inv
  <2> QED
    BY <2>3, <2>4
<1> HIDE DEF r
<1>4. SameKeys(tx, tx')
  <2>1. PICK U : tx \in Object(U)
    BY ObjectHas
  <2> QED
    BY <2>1 DEF SignsRow, SameKeys, Object
<1>5. /\ Len(tx'.signed.list) = Len(tx.signed.list)
      /\ \A i \in 1 .. Len(tx.signed.list) : \A j \in Key :
            tx'.signed.list[i].sigs[j] = IF signs /\ i = at /\ j = k THEN tx.signed.list[i].sigs[j] + 1
                                         ELSE tx.signed.list[i].sigs[j]
  <2>1. CASE ~signs
    <3>1. tx' = tx
      BY <2>1 DEF SignsRow
    <3> HIDE DEF signs
    <3> QED
      BY <2>1, <3>1
  <2>2. CASE signs
    <3> DEFINE row == WithSignature(tx.signed.list[at], k)
               rows == [tx.signed.list EXCEPT ![at] = row]
    <3>1. tx'.signed.list = rows
      <4>1. PICK U : tx \in Object(U)
        BY ObjectHas
      <4>2. tx' = [tx EXCEPT !.signed.list[at] = WithSignature(@, k)]
        BY <2>2 DEF SignsRow
      <4> QED
        BY <4>1, <4>2 DEF Object, Items
    <3>2. at \in 1 .. Len(tx.signed.list) /\ tx.signed.list[at] \in SignedEntry
      BY <1>2, <2>2, ElementOfSeq
    <3>3. /\ row \in SignedEntry
          /\ \A j \in Key : row.sigs[j] = IF j = k THEN tx.signed.list[at].sigs[j] + 1
                                          ELSE tx.signed.list[at].sigs[j]
      <4>1. PICK old \in SignedEntry : old = tx.signed.list[at]
        BY <3>2
      <4>2. PICK key \in Key : key = k
        BY <1>2
      <4>3. old.sigs \in [Key -> Nat]
        BY DEF SignedEntry
      <4>4. WithSignature(old, key).sigs = [old.sigs EXCEPT ![key] = @ + 1]
        BY DEF WithSignature, SignedEntry
      <4>5. \A j \in Key : WithSignature(old, key).sigs[j] = IF j = key THEN old.sigs[j] + 1 ELSE old.sigs[j]
        BY <4>3, <4>4, OneMore
      <4>6. WithSignature(old, key) \in SignedEntry
        BY MoreSignatures
      <4> HIDE DEF k, at, signs
      <4> QED
        BY <4>1, <4>2, <4>5, <4>6
    <3> HIDE DEF row
    <3>4. /\ Len(rows) = Len(tx.signed.list) /\ rows[at] = row
          /\ \A i \in 1 .. Len(tx.signed.list) : i # at => rows[i] = tx.signed.list[i]
      BY <1>2, <3>2, <3>3, ExceptSeq
    <3> HIDE DEF rows, k, at, signs
    <3> QED
      BY <2>2, <3>1, <3>3, <3>4
  <2> QED
    BY <2>1, <2>2
<1>6. SentInv'
  <2>1. \A d \in Caller : SameWork(call[d], call'[d]) \/ Ready(tx', call'[d])
    BY <1>3 DEF SameWork, Ready, r
  <2> QED
    BY <1>1, <1>2, <1>4, <2>1, SentStep DEF SignedInv, Registers
<1>7. \A d \in Caller : Attached(d)' =>
         /\ Attached(d) /\ call'[d].key = call[d].key
         /\ d = c => call'[d].at = at
         /\ d # c => call'[d].at = call[d].at
  <2>1. Attached(c)' => Attached(c) /\ call'[c].key = call[c].key /\ call'[c].at = at
    BY <1>1, <1>3 DEF Attached, r
  <2> QED
    BY <1>3, <2>1 DEF Attached
<1>8. tx'.signerKeys = tx.signerKeys /\ halfAdded' = halfAdded /\ OnceInv /\ Inv
  BY <1>1, <1>4 DEF SameKeys, SignedInv
<1>9. ASSUME NEW i \in 1 .. Len(tx'.signed.list), NEW j \in Key \ halfAdded
      PROVE  /\ tx'.signed.list[i].sigs[j] <= 1
             /\ j \notin tx'.signerKeys => tx'.signed.list[i].sigs[j] = 0
             /\ \A d \in Caller : Attached(d)' /\ call'[d].key = j /\ call'[d].at < i =>
                   tx'.signed.list[i].sigs[j] = 0
  <2>1. i \in 1 .. Len(tx.signed.list) /\ i \in Nat
    BY <1>2, <1>5
  <2>2. /\ tx.signed.list[i].sigs[j] <= 1
        /\ j \notin tx.signerKeys => tx.signed.list[i].sigs[j] = 0
        /\ \A d \in Caller : Attached(d) /\ call[d].key = j /\ call[d].at < i =>
              tx.signed.list[i].sigs[j] = 0
    BY <1>8, <2>1 DEF OnceInv
  <2>3. CASE signs /\ i = at /\ j = k
    <3>1. Attached(c) /\ call[c].key = j /\ call[c].at < i
      BY <1>1, <1>2, <2>3 DEF Attached
    <3>2. tx'.signed.list[i].sigs[j] = 1
      <4>1. tx'.signed.list[i].sigs[j] = tx.signed.list[i].sigs[j] + 1
        BY <1>5, <2>1, <2>3
      <4>2. tx.signed.list[i].sigs[j] = 0
        BY <2>2, <3>1
      <4> QED
        BY <4>1, <4>2
    <3>3. j \in tx'.signerKeys
      BY <1>8, <3>1 DEF OnceInv
    <3>4. \A d \in Caller : Attached(d)' /\ call'[d].key = j => d = c
      BY <1>7, <1>8, <3>1 DEF OnceInv
    <3>5. ~(at < i)
      BY <1>2, <2>3
    <3> QED
      BY <1>7, <3>2, <3>3, <3>4, <3>5
  <2>4. CASE ~(signs /\ i = at /\ j = k)
    <3>1. tx'.signed.list[i].sigs[j] = tx.signed.list[i].sigs[j]
      BY <1>5, <2>1, <2>4
    <3>2. at < i => call[c].at < i
      BY <1>2, <2>1
    <3> HIDE DEF signs, at, k
    <3> QED
      BY <1>7, <1>8, <2>2, <3>1, <3>2
  <2> QED
    BY <2>3, <2>4
<1> HIDE DEF signs, at, k
<1>10. \A d, e \in Caller : Attached(d)' /\ Attached(e)' /\ call'[d].key = call'[e].key =>
          d = e \/ call'[d].key \in halfAdded'
  BY <1>7, <1>8 DEF OnceInv
<1>11. \A d \in Caller : Attached(d)' => call'[d].key \in tx'.signerKeys
  BY <1>7, <1>8 DEF OnceInv
<1>12. OnceInv'
  BY <1>8, <1>9, <1>10, <1>11 DEF OnceInv
<1> QED
  BY <1>6, <1>12

\* A call that begins to sign a key that was not registered before.
LEMMA BeginsSigning ==
  ASSUME SignedInv, Inv', UNCHANGED <<removed, halfAdded>>, NEW c \in Caller, NEW k \in Key,
         k \notin tx.signerKeys, k \in tx'.signerKeys, Registers(tx, tx'), RowsMove(tx, tx'),
         call'[c].pc = "signing", call'[c].key = k,
         \A d \in Caller : d # c => SameWork(call[d], call'[d])
  PROVE  (SentInv /\ OnceInv)'
<1> SUFFICES ASSUME ~removed PROVE (SentInv /\ OnceInv)'
  BY TakenBack
<1>1. SentInv'
  <2>1. \A d \in Caller : SameWork(call[d], call'[d]) \/ Ready(tx', call'[d])
    BY DEF Ready
  <2> QED
    BY <2>1, SentStep DEF SignedInv
<1>2. tx.signerKeys \subseteq tx'.signerKeys /\ Sound(tx')
  BY RegistersLast DEF SignedInv, Inv
<1>3. \A d \in Caller : Attached(d)' /\ d # c =>
         /\ Attached(d) /\ call'[d].key = call[d].key /\ call'[d].at = call[d].at
         /\ call[d].key \in tx.signerKeys /\ call[d].key # k
  BY DEF Attached, SameWork, SignedInv, OnceInv
<1>4. ASSUME NEW i \in 1 .. Len(tx'.signed.list), NEW j \in Key \ halfAdded
      PROVE  /\ tx'.signed.list[i].sigs[j] <= 1
             /\ j \notin tx'.signerKeys => tx'.signed.list[i].sigs[j] = 0
             /\ \A d \in Caller : Attached(d)' /\ call'[d].key = j /\ call'[d].at < i =>
                   tx'.signed.list[i].sigs[j] = 0
  <2>1. /\ tx'.signed.list[i].sigs[j] <= 1
        /\ j \notin tx.signerKeys => tx'.signed.list[i].sigs[j] = 0
        /\ \A d \in Caller : Attached(d) /\ call[d].key = j /\ call[d].at < i =>
              tx'.signed.list[i].sigs[j] = 0
    BY <1>2, RowsOnce DEF SignedInv
  <2> QED
    BY <1>2, <1>3, <2>1
<1>5. \A d, e \in Caller : Attached(d)' /\ Attached(e)' /\ call'[d].key = call'[e].key =>
          d = e \/ call'[d].key \in halfAdded'
  BY <1>3 DEF SignedInv, OnceInv
<1>6. \A d \in Caller : Attached(d)' => call'[d].key \in tx'.signerKeys
  BY <1>2, <1>3
<1> QED
  BY <1>1, <1>4, <1>5, <1>6 DEF OnceInv

LEMMA SignWithRegisters ==
  ASSUME NEW t, Sound(t), NEW k \in Key
  PROVE  Registers(t, SignWith(t, k))
<1>1. CASE Known(t, k)
  BY <1>1 DEF SignWith, Registers, SameKeys
<1>2. CASE ~Known(t, k)
  <2> DEFINE u == Registered(t, k, k)
  <2>1. PICK U : t \in Object(U)
    BY DEF Sound
  <2>2. /\ u.signerKeys = t.signerKeys \cup {k}
        /\ u.publicKeys = Append(t.publicKeys, k) /\ u.signers = Append(t.signers, k)
    BY <2>1 DEF Registered, Object
  <2>3. Sound(u)
    BY RegisteredKeeps
  <2>4. SignWith(t, k) = u \/ SignWith(t, k) = LockNames(u)
    BY <1>2 DEF SignWith
  <2> HIDE DEF u
  <2>5. SameKeys(u, LockNames(u))
    BY <2>3, LockNamesKeeps DEF Kept
  <2>6. SameKeys(u, SignWith(t, k))
    BY <2>4, <2>5 DEF SameKeys
  <2> QED
    BY <2>2, <2>6 DEF Registers, SameKeys
<1> QED
  BY <1>1, <1>2

LEMMA SignSigns ==
  ASSUME SignedInv, Inv', NEW c \in Caller, NEW k \in Key, Sign(c, k)
  PROVE  (SentInv /\ OnceInv)'
<1>1. /\ ~Known(tx, k) /\ tx' = SignWith(tx, k) /\ UNCHANGED <<removed, halfAdded>>
      /\ call' = IF tx.signOnDemand THEN call ELSE [call EXCEPT ![c] = Signing(tx, k, FALSE)]
  BY DEF Sign
<1>2. Sound(tx) /\ Len(tx.signed.list) \in Nat
  BY ObjectFields DEF SignedInv, Inv
<1>3. /\ tx'.signed.list = tx.signed.list /\ k \in tx'.signerKeys /\ Registers(tx, tx')
  BY <1>1, <1>2, SignWithKeeps, SignWithRegisters
<1>4. RowsMove(tx, tx')
  BY <1>2, <1>3 DEF RowsMove, RowsStay
<1>5. CASE tx.signOnDemand
  <2>1. call' = call
    BY <1>1, <1>5
  <2>2. \A d \in Caller : SameWork(call[d], call'[d])
    BY <2>1 DEF SameWork
  <2> QED
    BY <1>1, <1>3, <1>4, <2>2, MildStep DEF Inv
<1>6. CASE ~tx.signOnDemand
  <2>1. PICK no : no = FALSE
    OBVIOUS
  <2> DEFINE r == Signing(tx, k, no)
  <2>2. call' = [call EXCEPT ![c] = r]
    BY <1>1, <1>6, <2>1
  <2>3. IsCall(r) /\ r.pc = "signing" /\ r.key = k
    BY CallForms
  <2> HIDE DEF r
  <2>4. call'[c] = r /\ \A d \in Caller : d # c => SameWork(call[d], call'[d])
    BY <2>2, <2>3, Updated DEF SignedInv, Inv, SameWork
  <2>5. k \notin tx.signerKeys
    BY <1>1 DEF Known
  <2> QED
    BY <1>1, <1>3, <1>4, <2>3, <2>4, <2>5, BeginsSigning
<1> QED
  BY <1>5, <1>6

LEMMA ExecuteSigns ==
  ASSUME SignedInv, Inv', NEW c \in Caller, NEW demand \in SignsOnDemand, Execute(c, demand)
  PROVE  (SentInv /\ OnceInv)'
<1> DEFINE freezes == ~HeldFrozen(tx)
           frozen == IF freezes THEN FreezeWith(tx, TRUE, demand) ELSE tx
           trimmed == Trimmed(frozen)
           ready == WithClient(trimmed)
           replaced == freezes /\ Replaces(tx, TRUE, demand)
           left == DetachedIf(replaced)
<1>1. /\ UNCHANGED <<removed, halfAdded>> /\ demand \in BOOLEAN /\ replaced \in BOOLEAN
  BY TransactionAssumption DEF Execute, HeldFrozen, Replaces
<1>2. \/ /\ tx' \in {frozen, trimmed, ready} /\ call' = left
      \/ /\ tx' = SignWith(ready, Operator)
         /\ call' = [left EXCEPT ![c] =
                        IF Known(ready, Operator) \/ ready.signOnDemand
                        THEN Attempt ELSE Signing(ready, Operator, TRUE)]
  BY DEF Execute
<1>3. Len(tx.signed.list) \in Nat /\ Sound(tx)
  BY ObjectFields DEF SignedInv, Inv
<1>4. Sound(frozen) /\ SameKeys(tx, frozen) /\ RowsMove(tx, frozen)
  <2>1. PICK client \in BOOLEAN : client = TRUE
    OBVIOUS
  <2> DEFINE new == FreezeWith(tx, client, demand)
  <2>2. Sound(new) /\ SameKeys(tx, new) /\ RowsMove(tx, new)
    BY <1>1, <1>3, FreezeKeeps, FreezeMoves
  <2>3. frozen = new \/ frozen = tx
    BY <2>1
  <2> HIDE DEF new, frozen
  <2>4. SameKeys(tx, tx) /\ RowsMove(tx, tx)
    BY <1>3 DEF SameKeys, RowsMove, RowsStay
  <2> QED
    BY <1>3, <2>2, <2>3, <2>4
<1> HIDE DEF freezes, frozen, replaced
<1>5. Sound(trimmed) /\ SameKeys(tx, trimmed) /\ RowsMove(tx, trimmed)
  <2>1. /\ Sound(trimmed) /\ SameKeys(frozen, trimmed) /\ RowsStay(frozen, trimmed)
    BY <1>4, TrimmedKeeps
  <2> HIDE DEF trimmed
  <2>2. Len(frozen.signed.list) \in Nat /\ Len(trimmed.signed.list) \in Nat
    BY <1>4, <2>1, ObjectFields
  <2>3. \A i \in 1 .. Len(trimmed.signed.list) : i \in 1 .. Len(frozen.signed.list)
    BY <2>1, <2>2 DEF RowsStay
  <2>4. ASSUME RowsStay(tx, frozen) PROVE RowsStay(tx, trimmed)
    <3>1. Len(trimmed.signed.list) <= Len(tx.signed.list)
      BY <1>3, <2>1, <2>2, <2>4 DEF RowsStay
    <3> QED
      BY <2>1, <2>3, <2>4, <3>1 DEF RowsStay
  <2>5. Blank(frozen) => Blank(trimmed)
    BY <2>1, <2>3 DEF RowsStay, Blank
  <2> QED
    BY <1>4, <2>1, <2>4, <2>5 DEF SameKeys, RowsMove
<1> HIDE DEF trimmed
<1>6. Sound(ready) /\ SameKeys(tx, ready) /\ RowsMove(tx, ready)
  <2>1. Sound(ready) /\ SameKeys(trimmed, ready) /\ ready.signed = trimmed.signed
    BY <1>5, ClientKeeps
  <2> HIDE DEF ready
  <2> QED
    BY <1>5, <2>1 DEF SameKeys, RowsMove, RowsStay, Blank
<1> HIDE DEF ready
<1>7. CASE tx' \in {frozen, trimmed, ready} /\ call' = left
  BY <1>1, <1>4, <1>5, <1>6, <1>7, DetachingStep
<1>8. CASE /\ tx' = SignWith(ready, Operator)
           /\ call' = [left EXCEPT ![c] =
                        IF Known(ready, Operator) \/ ready.signOnDemand
                        THEN Attempt ELSE Signing(ready, Operator, TRUE)]
  <2>1. Operator \in Key
    BY TransactionAssumption
  <2>2. /\ tx'.signed.list = ready.signed.list /\ Operator \in tx'.signerKeys
        /\ Registers(ready, tx')
    BY <1>6, <1>8, <2>1, SignWithKeeps, SignWithRegisters
  <2>3. Registers(tx, tx') /\ RowsMove(tx, tx')
    BY <1>6, <2>2 DEF Registers, SameKeys, RowsMove, RowsStay, Blank
  <2>4. CASE Known(ready, Operator) \/ ready.signOnDemand
    <3>1. call' = [left EXCEPT ![c] = Attempt]
      BY <1>8, <2>4
    <3>2. Attempt.pc = "attempt"
      BY CallForms
    <3>3. call'[c] = Attempt /\ \A d \in Caller : d # c => SameWork(call[d], call'[d])
      BY <1>1, <3>1, OneCallMoves DEF SignedInv, Inv
    <3>4. \A d \in Caller : SameWork(call[d], call'[d]) \/ (Ready(tx', call'[d]) /\ ~Attached(d)')
      BY <3>2, <3>3 DEF Ready, Attached
    <3> QED
      BY <1>1, <2>3, <3>4, MildStep DEF Inv
  <2>5. CASE ~(Known(ready, Operator) \/ ready.signOnDemand)
    <3>1. PICK yes : yes = TRUE
      OBVIOUS
    <3> DEFINE r == Signing(ready, Operator, yes)
    <3>2. call' = [left EXCEPT ![c] = r]
      BY <1>8, <2>5, <3>1
    <3>3. r.pc = "signing" /\ r.key = Operator
      BY CallForms
    <3> HIDE DEF r
    <3>4. call'[c] = r /\ \A d \in Caller : d # c => SameWork(call[d], call'[d])
      BY <1>1, <3>2, OneCallMoves DEF SignedInv, Inv
    <3>5. Operator \notin tx.signerKeys
      BY <1>6, <2>5 DEF Known, SameKeys
    <3> QED
      BY <1>1, <2>1, <2>2, <2>3, <3>3, <3>4, <3>5, BeginsSigning
  <2> QED
    BY <2>4, <2>5
<1> QED
  BY <1>2, <1>7, <1>8

-----------------------------------------------------------------------------
(* The theorems. *)

LEMMA SignedInit == Init => SentInv /\ OnceInv
<1> SUFFICES ASSUME Init PROVE SentInv /\ OnceInv
  OBVIOUS
<1>1. \A c \in Caller : call[c].pc = "idle"
  BY IdleCall DEF Init
<1>2. CASE tx = New
  <2>1. New.publicKeys = <<>> /\ New.signed.list = <<>>
    BY DEF New, NoItems, Listed
  <2>2. \A i \in 1 .. Len(New.publicKeys) : New.publicKeys[i] \in New.signerKeys
    BY <2>1, EmptySeq
  <2>3. \A i \in 1 .. Len(New.signed.list) : FALSE
    BY <2>1, EmptySeq
  <2> QED
    BY <1>1, <1>2, <2>2, <2>3 DEF SentInv, OnceInv, Attached
<1>3. ASSUME NEW keys \in {<<>>} \cup {<<k>> : k \in Key}, tx = FromBytes(keys)
      PROVE  SentInv /\ OnceInv
  <2> DEFINE n == Len(ClientNodes)
             rows == [i \in 1 .. n |-> Entry(ClientNodes[i], 1, SignedBy(keys))]
             known == [i \in 1 .. n * Len(keys) |-> keys[((i - 1) % Len(keys)) + 1]]
  <2>1. /\ n \in Nat
        /\ tx.publicKeys = known /\ tx.signerKeys = ToSet(keys) /\ tx.signed.list = rows
    BY <1>3, TransactionAssumption, LenProperties DEF FromBytes, New, Listed
  <2>2. \A i \in 1 .. Len(known) : known[i] \in ToSet(keys)
    <3>1. CASE keys = <<>>
      <4>1. Len(keys) = 0
        BY <3>1
      <4>2. Len(known) = 0
        BY <2>1, <4>1
      <4> HIDE DEF known
      <4> QED
        BY <4>2
    <3>2. ASSUME NEW k \in Key, keys = <<k>> PROVE \A i \in 1 .. Len(known) : known[i] \in ToSet(keys)
      <4>1. Len(keys) = 1 /\ keys[1] = k
        BY <3>2
      <4>2. k \in ToSet(keys)
        BY <4>1 DEF ToSet
      <4>3. Len(known) = n
        BY <2>1, <4>1
      <4>4. \A i \in 1 .. n : known[i] = k
        <5>1. \A i \in 1 .. n : ((i - 1) % 1) + 1 = 1 /\ i \in 1 .. n * 1
          BY <2>1
        <5> QED
          BY <4>1, <5>1
      <4> QED
        BY <4>2, <4>3, <4>4
    <3> QED
      BY <3>1, <3>2
  <2>3. /\ Len(rows) = n
        /\ \A i \in 1 .. n : \A k \in Key : rows[i].sigs[k] = IF k \in ToSet(keys) THEN 1 ELSE 0
    <3>1. Len(rows) = n
      BY <2>1
    <3>2. \A i \in 1 .. n : rows[i].sigs = SignedBy(keys)
      BY DEF Entry
    <3> QED
      BY <3>1, <3>2 DEF SignedBy
  <2> HIDE DEF rows, known
  <2> QED
    BY <1>1, <2>1, <2>2, <2>3 DEF SentInv, OnceInv, Attached
<1> QED
  BY <1>2, <1>3 DEF Init

LEMMA ChangeSigns ==
  ASSUME SignedInv, Inv', Change
  PROVE  (SentInv /\ OnceInv)'
<1>1. PICK yes \in BOOLEAN, no \in BOOLEAN : yes = TRUE /\ no = FALSE
  OBVIOUS
<1>2. CASE (\E list \in GivenNodes : SetNodeAccountIds(list)) \/ SetTransactionId \/ GetTransactionId
  BY <1>2, SettersSign
<1>3. ASSUME NEW demand \in SignsOnDemand, Freeze(TRUE, demand)
      PROVE  (SentInv /\ OnceInv)'
  <2>1. demand \in BOOLEAN /\ Freeze(yes, demand)
    BY <1>1, <1>3, TransactionAssumption
  <2> QED
    BY <2>1, FreezeSigns
<1>4. CASE Freeze(FALSE, FALSE)
  <2>1. Freeze(no, no)
    BY <1>1, <1>4
  <2> QED
    BY <2>1, FreezeSigns
<1>5. ASSUME NEW k \in Key, NEW n \in 0 .. Len(Frozen(tx).signed.list), AddSignature(k, n)
      PROVE  (SentInv /\ OnceInv)'
  <2>1. n \in Nat
    OBVIOUS
  <2> QED
    BY <1>5, <2>1, AddSignatureSigns
<1>6. CASE \E k \in Key : RemoveSignature(k)
  BY <1>6, RemoveSignatureSigns
<1>7. CASE RemoveAllSignatures \/ ToBytes
  BY <1>7, RemoveAllSignaturesSigns, ToBytesSigns
<1>8. CASE ResetTransaction
  BY <1>8, ResetTransactionSigns
<1> QED
  BY <1>2, <1>3, <1>4, <1>5, <1>6, <1>7, <1>8 DEF Change

LEMMA SignedStep ==
  ASSUME SignedInv, [Next]_vars
  PROVE  SignedInv'
<1>1. Inv'
  BY InvStep DEF SignedInv
<1>2. CASE Change
  BY <1>1, <1>2, ChangeSigns DEF SignedInv
<1>3. ASSUME NEW c \in Caller, Request(c) PROVE SignedInv'
  <2>1. CASE \E k \in Key : Sign(c, k)
    BY <1>1, <2>1, SignSigns DEF SignedInv
  <2>2. CASE ToBytesAsync(c)
    BY <1>1, <2>2, ToBytesAsyncSigns DEF SignedInv
  <2>3. CASE \E demand \in SignsOnDemand : Execute(c, demand)
    BY <1>1, <2>3, ExecuteSigns DEF SignedInv
  <2> QED
    BY <1>3, <2>1, <2>2, <2>3 DEF Request
<1>4. ASSUME NEW c \in Caller, Continue(c) PROVE SignedInv'
  <2>1. CASE SignsRow(c) \/ SignerRejects(c) \/ AsksNextSigner(c) \/ PushesEntry(c)
    BY <1>1, <2>1, SignsRowSigns, SignerRejectsSigns, AsksNextSignerSigns, PushesEntrySigns DEF SignedInv
  <2>2. CASE MakesRequest(c) \/ StartsRequest(c) \/ SendsMade(c) \/ Retries(c)
    BY <1>1, <2>2, MakesRequestSigns, StartsRequestSigns, SendsMadeSigns, RetriesSigns DEF SignedInv
  <2>3. CASE Expires(c) \/ GivesUp(c) \/ Accepted(c) \/ Responds(c)
    BY <1>1, <2>3, ExpiresSigns, GivesUpSigns, AcceptedSigns, RespondsSigns DEF SignedInv
  <2> QED
    BY <1>4, <2>1, <2>2, <2>3 DEF Continue
<1>5. CASE UNCHANGED vars
  <2>1. Untouched /\ call' = call
    BY <1>5 DEF vars, Untouched, SameKeys
  <2> QED
    BY <1>1, <2>1, UntouchedStep DEF SignedInv
<1> QED
  BY <1>2, <1>3, <1>4, <1>5 DEF Next

LEMMA SignedSafe == Spec => []SignedInv
<1>1. Init => SignedInv
  BY InvInit, SignedInit DEF SignedInv
<1>2. SignedInv /\ [Next]_vars => SignedInv'
  BY SignedStep
<1> QED
  BY <1>1, <1>2, PTL DEF Spec

\* A body that is sent carries the signature of every key registered when it
\* was built, with the exceptions RegisteredHaveSigned names.
THEOREM SentIsSignedSafe == Spec => []SentIsSigned
<1>1. SignedInv => SentIsSigned
  BY DEF SignedInv, SentInv, SentIsSigned
<1> QED
  BY SignedSafe, <1>1, PTL

\* No body has two signatures of a key (signWith, addSignature), unless
\* addSignature threw half-way or a signature was taken back.
THEOREM OneSignatureSafe == Spec => []OneSignature
<1>1. SignedInv => OneSignature
  BY DEF SignedInv, OnceInv, OneSignature, Rows
<1> QED
  BY SignedSafe, <1>1, PTL
=============================================================================
