--------------------- MODULE TransactionFieldsProofs ---------------------
(***************************************************************************)
(* Proofs about the fields of a transaction, for every class.  What the    *)
(* proofs need of the table of classes is one predicate, Tabled, which is   *)
(* checked entry by entry; everything after it speaks of any class with    *)
(* such an entry.                                                          *)
(***************************************************************************)
EXTENDS TransactionFields, FiniteSetTheorems, TLAPS

Contents == {Null, Zero, One, Two, Preset}

\* The five contents of a field differ.
LEMMA ContentsDiffer ==
    /\ Null # Zero /\ Null # One /\ Null # Two /\ Null # Preset
    /\ Zero # One /\ Zero # Two /\ Zero # Preset
    /\ One # Two /\ One # Preset /\ Two # Preset
<1>1. ASSUME NEW a, NEW b, NEW c, NEW d
      PROVE  Cardinality({a, b, c, d}) < 5
  <2>1. ASSUME NEW S, IsFiniteSet(S), NEW x
        PROVE  /\ IsFiniteSet(S \union {x})
               /\ Cardinality(S \union {x}) \in Nat
               /\ Cardinality(S \union {x}) <= Cardinality(S) + 1
    <3>1. /\ IsFiniteSet(S \union {x})
          /\ \/ Cardinality(S \union {x}) = Cardinality(S)
             \/ Cardinality(S \union {x}) = Cardinality(S) + 1
      BY <2>1, FS_AddElement
    <3>2. Cardinality(S) \in Nat
      BY <2>1, FS_CardinalityType
    <3> QED
      BY <3>1, <3>2
  <2> DEFINE B == {a} \union {b}
             C == B \union {c}
             D == C \union {d}
  <2>2. IsFiniteSet({a}) /\ Cardinality({a}) = 1
    BY FS_Singleton
  <2>3. IsFiniteSet(B) /\ Cardinality(B) \in Nat /\ Cardinality(B) <= Cardinality({a}) + 1
    BY <2>1, <2>2
  <2>4. IsFiniteSet(C) /\ Cardinality(C) \in Nat /\ Cardinality(C) <= Cardinality(B) + 1
    BY <2>1, <2>3
  <2>5. Cardinality(D) \in Nat /\ Cardinality(D) <= Cardinality(C) + 1
    BY <2>1, <2>4
  <2>6. D = {a, b, c, d}
    OBVIOUS
  <2> HIDE DEF B, C, D
  <2>7. Cardinality(D) <= 4
    BY <2>2, <2>3, <2>4, <2>5
  <2> QED
    BY <2>5, <2>6, <2>7
<1>2. Cardinality({Null, Zero, One, Two, Preset}) = 5
  BY FieldsAssumption
<1>3. ASSUME NEW a, NEW b, NEW c, NEW d, {Null, Zero, One, Two, Preset} = {a, b, c, d}
      PROVE  FALSE
  <2>1. Cardinality({a, b, c, d}) < 5
    BY <1>1
  <2>2. Cardinality({a, b, c, d}) = 5
    BY <1>2, <1>3
  <2> QED
    BY <2>1, <2>2
<1>4. Null # Zero /\ Null # One /\ Null # Two /\ Null # Preset
  <2>1. Null = Zero => {Null, Zero, One, Two, Preset} = {Zero, One, Two, Preset}
    OBVIOUS
  <2>2. Null = One => {Null, Zero, One, Two, Preset} = {Zero, One, Two, Preset}
    OBVIOUS
  <2>3. Null = Two => {Null, Zero, One, Two, Preset} = {Zero, One, Two, Preset}
    OBVIOUS
  <2>4. Null = Preset => {Null, Zero, One, Two, Preset} = {Zero, One, Two, Preset}
    OBVIOUS
  <2> QED
    BY <2>1, <2>2, <2>3, <2>4, <1>3
<1>5. Zero # One /\ Zero # Two /\ Zero # Preset
  <2>1. Zero = One => {Null, Zero, One, Two, Preset} = {Null, One, Two, Preset}
    OBVIOUS
  <2>2. Zero = Two => {Null, Zero, One, Two, Preset} = {Null, One, Two, Preset}
    OBVIOUS
  <2>3. Zero = Preset => {Null, Zero, One, Two, Preset} = {Null, One, Two, Preset}
    OBVIOUS
  <2> QED
    BY <2>1, <2>2, <2>3, <1>3
<1>6. One # Two /\ One # Preset /\ Two # Preset
  <2>1. One = Two => {Null, Zero, One, Two, Preset} = {Null, Zero, Two, Preset}
    OBVIOUS
  <2>2. One = Preset => {Null, Zero, One, Two, Preset} = {Null, Zero, Two, Preset}
    OBVIOUS
  <2>3. Two = Preset => {Null, Zero, One, Two, Preset} = {Null, Zero, One, Preset}
    OBVIOUS
  <2> QED
    BY <2>1, <2>2, <2>3, <1>3
<1> QED
  BY <1>4, <1>5, <1>6

----------------------------------------------------------------------------
(* What the proofs need of a class t with the entry T.                     *)

\* fields read as they are written, and written as they are
Ordinary(T) ==
    T.kept \ (T.flat \union T.unread \union T.dropsZero \union T.wrapped
                \union T.truthy \union T.unwritten)

\* members of a oneof clear each other, and nothing else sets them
OneofsGuarded(t, T) ==
    t \notin KnownBoth =>
      \A p \in T.ties :
        /\ p[1] # p[2]
        /\ {p[1], p[2]} \subseteq T.kept
        /\ {p[1], p[2]} \intersect T.flat = {}
        /\ {p[1], p[2]} \intersect
             (T.truthy \union T.preset \union T.blanks \union T.fills \union T.fallsBack) = {}
        /\ <<p[1], p[2]>> \in T.clears
        /\ <<p[2], p[1]>> \in T.clears

\* what changes in a frozen transaction is named
OpenKnown(t, T) ==
    /\ \A f \in T.open \union T.openLists \union T.blanks \union T.fallsBack :
         <<t, f>> \in KnownOpen
    /\ \A f \in T.open : \A g : <<f, g>> \notin T.clears

\* what bytes lose, add or take for something else is named
LossesKnown(t, T) ==
    /\ \A f \in T.unread : <<t, f>> \in LostWhenSet /\ f \notin T.preset
    /\ \A f \in T.unwritten : f \in T.flat /\ <<t, f>> \in LostWhenSet \intersect KnownDrift
    /\ \A f \in T.dropsZero \union T.wrapped : f \notin T.flat /\ <<t, f>> \in LostWhenZero
    /\ \A f \in T.truthy :
         /\ <<t, f>> \in LostWhenZero \intersect AddedWhenAbsent \intersect KnownDrift
         /\ f \in T.kept
         /\ f \notin T.flat \union T.adds \union T.edits
                        \union T.preset \union T.fills \union T.fallsBack
         /\ \A g : <<g, f>> \notin T.clears
    /\ \A f \in T.preset :
         /\ f \in T.kept
         /\ f \notin T.flat
         /\ <<t, f>> \in AddedWhenAbsent
         /\ \A g \in T.kept \union T.flat : <<g, f>> \in T.clears => g \in Ordinary(T)

Tabled(t, T) == OneofsGuarded(t, T) /\ OpenKnown(t, T) /\ LossesKnown(t, T)

\* A class that treats its fields in no special way.
LEMMA PlainTabled ==
    ASSUME NEW t, NEW kept, NEW flat
    PROVE  Tabled(t, Carries(kept, flat))
<1>1. LET T == Carries(kept, flat)
      IN  /\ T.ties = {} /\ T.open = {} /\ T.openLists = {} /\ T.blanks = {}
          /\ T.fallsBack = {} /\ T.unread = {} /\ T.unwritten = {} /\ T.dropsZero = {}
          /\ T.wrapped = {} /\ T.truthy = {} /\ T.preset = {}
  BY DEF Carries, Plain
<1> QED
  BY <1>1 DEF Tabled, OneofsGuarded, OpenKnown, LossesKnown

\* Every class has such an entry.
LEMMA SpecialTabled ==
    /\ Tabled("Transaction", Transaction)
    /\ Tabled("AccountCreate", AccountCreate)
    /\ Tabled("AccountUpdate", AccountUpdate)
    /\ Tabled("Transfer", Transfer)
    /\ Tabled("ContractCreate", ContractCreate)
    /\ Tabled("ContractUpdate", ContractUpdate)
    /\ Tabled("ContractDelete", ContractDelete)
    /\ Tabled("FileCreate", FileCreate)
    /\ Tabled("FileUpdate", FileUpdate)
    /\ Tabled("NodeCreate", NodeCreate)
    /\ Tabled("NodeUpdate", NodeUpdate)
    /\ Tabled("NodeDelete", NodeDelete)
    /\ Tabled("RegisteredNodeUpdate", RegisteredNodeUpdate)
    /\ Tabled("ScheduleCreate", ScheduleCreate)
    /\ Tabled("Batch", Batch)
    /\ Tabled("Freeze", Freeze)
    /\ Tabled("SystemDelete", SystemDelete)
    /\ Tabled("SystemUndelete", SystemUndelete)
    /\ Tabled("Prng", Prng)
    /\ Tabled("TokenCreate", TokenCreate)
    /\ Tabled("TokenUpdate", TokenUpdate)
    /\ Tabled("TokenUpdateNfts", TokenUpdateNfts)
    /\ Tabled("TopicCreate", TopicCreate)
    /\ Tabled("TopicUpdate", TopicUpdate)
<1> USE DEF Tabled, OneofsGuarded, OpenKnown, LossesKnown, Ordinary, Carries, Plain, Either,
            KnownBoth, KnownOpen, LostWhenSet, LostWhenZero, AddedWhenAbsent, KnownDrift
<1>1. Tabled("Transaction", Transaction)
  BY DEF Transaction
<1>2. Tabled("AccountCreate", AccountCreate)
  BY DEF AccountCreate
<1>3. Tabled("AccountUpdate", AccountUpdate)
  BY DEF AccountUpdate
<1>4. Tabled("Transfer", Transfer)
  BY DEF Transfer
<1>5. Tabled("ContractCreate", ContractCreate)
  BY DEF ContractCreate
<1>6. Tabled("ContractUpdate", ContractUpdate)
  BY DEF ContractUpdate
<1>7. Tabled("ContractDelete", ContractDelete)
  BY DEF ContractDelete
<1>8. Tabled("FileCreate", FileCreate)
  BY DEF FileCreate
<1>9. Tabled("FileUpdate", FileUpdate)
  BY DEF FileUpdate
<1>10. Tabled("NodeCreate", NodeCreate)
  BY DEF NodeCreate
<1>11. Tabled("NodeUpdate", NodeUpdate)
  BY DEF NodeUpdate
<1>12. Tabled("NodeDelete", NodeDelete)
  BY DEF NodeDelete
<1>13. Tabled("RegisteredNodeUpdate", RegisteredNodeUpdate)
  BY DEF RegisteredNodeUpdate
<1>14. Tabled("ScheduleCreate", ScheduleCreate)
  BY DEF ScheduleCreate
<1>15. Tabled("Batch", Batch)
  BY DEF Batch
<1>16. Tabled("Freeze", Freeze)
  BY DEF Freeze
<1>17. Tabled("SystemDelete", SystemDelete)
  BY DEF SystemDelete
<1>18. Tabled("SystemUndelete", SystemUndelete)
  BY DEF SystemUndelete
<1>19. Tabled("Prng", Prng)
  BY DEF Prng
<1>20. Tabled("TokenCreate", TokenCreate)
  BY DEF TokenCreate
<1>21. Tabled("TokenUpdate", TokenUpdate)
  BY DEF TokenUpdate
<1>22. Tabled("TokenUpdateNfts", TokenUpdateNfts)
  BY DEF TokenUpdateNfts
<1>23. Tabled("TopicCreate", TopicCreate)
  BY DEF TopicCreate
<1>24. Tabled("TopicUpdate", TopicUpdate)
  BY DEF TopicUpdate
<1> QED
  BY <1>1, <1>2, <1>3, <1>4, <1>5, <1>6, <1>7, <1>8, <1>9, <1>10, <1>11, <1>12, <1>13, <1>14, <1>15, <1>16, <1>17, <1>18, <1>19, <1>20, <1>21, <1>22, <1>23, <1>24

LEMMA ClassesTabled == \A t \in DOMAIN Types : Tabled(t, Types[t])
<1> SUFFICES ASSUME NEW t \in DOMAIN Types PROVE Tabled(t, Types[t])
  OBVIOUS
<1>1. CASE t = "Transaction"
  BY <1>1, SpecialTabled DEF Types
<1>2. CASE t = "AccountCreate"
  BY <1>2, SpecialTabled DEF Types
<1>3. CASE t = "AccountUpdate"
  BY <1>3, SpecialTabled DEF Types
<1>4. CASE t = "AccountDelete"
  BY <1>4, PlainTabled DEF Types, AccountDelete
<1>5. CASE t = "AccountAllowanceApprove"
  BY <1>5, PlainTabled DEF Types, AccountAllowanceApprove
<1>6. CASE t = "AccountAllowanceDelete"
  BY <1>6, PlainTabled DEF Types, AccountAllowanceDelete
<1>7. CASE t = "LiveHashAdd"
  BY <1>7, PlainTabled DEF Types, LiveHashAdd
<1>8. CASE t = "LiveHashDelete"
  BY <1>8, PlainTabled DEF Types, LiveHashDelete
<1>9. CASE t = "Transfer"
  BY <1>9, SpecialTabled DEF Types
<1>10. CASE t = "ContractCreate"
  BY <1>10, SpecialTabled DEF Types
<1>11. CASE t = "ContractUpdate"
  BY <1>11, SpecialTabled DEF Types
<1>12. CASE t = "ContractDelete"
  BY <1>12, SpecialTabled DEF Types
<1>13. CASE t = "ContractExecute"
  BY <1>13, PlainTabled DEF Types, ContractExecute
<1>14. CASE t = "Ethereum"
  BY <1>14, PlainTabled DEF Types, Ethereum
<1>15. CASE t = "HookStore"
  BY <1>15, PlainTabled DEF Types, HookStore
<1>16. CASE t = "FileCreate"
  BY <1>16, SpecialTabled DEF Types
<1>17. CASE t = "FileUpdate"
  BY <1>17, SpecialTabled DEF Types
<1>18. CASE t = "FileDelete"
  BY <1>18, PlainTabled DEF Types, FileDelete
<1>19. CASE t = "FileAppend"
  BY <1>19, PlainTabled DEF Types, FileAppend
<1>20. CASE t = "NodeCreate"
  BY <1>20, SpecialTabled DEF Types
<1>21. CASE t = "NodeUpdate"
  BY <1>21, SpecialTabled DEF Types
<1>22. CASE t = "NodeDelete"
  BY <1>22, SpecialTabled DEF Types
<1>23. CASE t = "RegisteredNodeCreate"
  BY <1>23, PlainTabled DEF Types, RegisteredNodeCreate
<1>24. CASE t = "RegisteredNodeUpdate"
  BY <1>24, SpecialTabled DEF Types
<1>25. CASE t = "RegisteredNodeDelete"
  BY <1>25, PlainTabled DEF Types, RegisteredNodeDelete
<1>26. CASE t = "ScheduleCreate"
  BY <1>26, SpecialTabled DEF Types
<1>27. CASE t = "ScheduleDelete"
  BY <1>27, PlainTabled DEF Types, ScheduleDelete
<1>28. CASE t = "ScheduleSign"
  BY <1>28, PlainTabled DEF Types, ScheduleSign
<1>29. CASE t = "Batch"
  BY <1>29, SpecialTabled DEF Types
<1>30. CASE t = "Freeze"
  BY <1>30, SpecialTabled DEF Types
<1>31. CASE t = "SystemDelete"
  BY <1>31, SpecialTabled DEF Types
<1>32. CASE t = "SystemUndelete"
  BY <1>32, SpecialTabled DEF Types
<1>33. CASE t = "Prng"
  BY <1>33, SpecialTabled DEF Types
<1>34. CASE t = "TokenCreate"
  BY <1>34, SpecialTabled DEF Types
<1>35. CASE t = "TokenUpdate"
  BY <1>35, SpecialTabled DEF Types
<1>36. CASE t = "TokenDelete"
  BY <1>36, PlainTabled DEF Types, TokenDelete
<1>37. CASE t = "TokenPause"
  BY <1>37, PlainTabled DEF Types, TokenPause
<1>38. CASE t = "TokenUnpause"
  BY <1>38, PlainTabled DEF Types, TokenUnpause
<1>39. CASE t = "TokenFreeze"
  BY <1>39, PlainTabled DEF Types, TokenFreeze
<1>40. CASE t = "TokenUnfreeze"
  BY <1>40, PlainTabled DEF Types, TokenUnfreeze
<1>41. CASE t = "TokenGrantKyc"
  BY <1>41, PlainTabled DEF Types, TokenGrantKyc
<1>42. CASE t = "TokenRevokeKyc"
  BY <1>42, PlainTabled DEF Types, TokenRevokeKyc
<1>43. CASE t = "TokenAssociate"
  BY <1>43, PlainTabled DEF Types, TokenAssociate
<1>44. CASE t = "TokenDissociate"
  BY <1>44, PlainTabled DEF Types, TokenDissociate
<1>45. CASE t = "TokenMint"
  BY <1>45, PlainTabled DEF Types, TokenMint
<1>46. CASE t = "TokenBurn"
  BY <1>46, PlainTabled DEF Types, TokenBurn
<1>47. CASE t = "TokenWipe"
  BY <1>47, PlainTabled DEF Types, TokenWipe
<1>48. CASE t = "TokenFeeScheduleUpdate"
  BY <1>48, PlainTabled DEF Types, TokenFeeScheduleUpdate
<1>49. CASE t = "TokenUpdateNfts"
  BY <1>49, SpecialTabled DEF Types
<1>50. CASE t = "TokenReject"
  BY <1>50, PlainTabled DEF Types, TokenReject
<1>51. CASE t = "TokenAirdrop"
  BY <1>51, PlainTabled DEF Types, TokenAirdrop
<1>52. CASE t = "TokenCancelAirdrop"
  BY <1>52, PlainTabled DEF Types, TokenCancelAirdrop
<1>53. CASE t = "TokenClaimAirdrop"
  BY <1>53, PlainTabled DEF Types, TokenClaimAirdrop
<1>54. CASE t = "TopicCreate"
  BY <1>54, SpecialTabled DEF Types
<1>55. CASE t = "TopicUpdate"
  BY <1>55, SpecialTabled DEF Types
<1>56. CASE t = "TopicDelete"
  BY <1>56, PlainTabled DEF Types, TopicDelete
<1>57. CASE t = "TopicMessageSubmit"
  BY <1>57, PlainTabled DEF Types, TopicMessageSubmit
<1> QED
  BY <1>1, <1>2, <1>3, <1>4, <1>5, <1>6, <1>7, <1>8, <1>9, <1>10, <1>11, <1>12, <1>13, <1>14, <1>15, <1>16, <1>17, <1>18, <1>19, <1>20, <1>21, <1>22, <1>23, <1>24, <1>25, <1>26, <1>27, <1>28, <1>29, <1>30, <1>31, <1>32, <1>33, <1>34, <1>35, <1>36, <1>37, <1>38, <1>39, <1>40, <1>41, <1>42, <1>43, <1>44, <1>45, <1>46, <1>47, <1>48, <1>49, <1>50, <1>51, <1>52, <1>53, <1>54, <1>55, <1>56, <1>57 DEF Types

----------------------------------------------------------------------------
(* What the way there and back does to the fields of such a class.         *)

Decided(t, v) == \A f \in Of(t).truthy : v[f] \in {Null, Zero, One}

\* the fields a transaction may have, and what bodies carry of them
Values(t) == {v \in [Fields(t) -> Contents] : Decided(t, v)}
Bodies(t) == {w \in Values(t) : \A f \in Of(t).flat : w[f] # Null}

LEMMA TruthyAreFields == \A t \in DOMAIN Types : Of(t).truthy \subseteq Fields(t)
BY ClassesTabled DEF Of, Fields, Tabled, LossesKnown

LEMMA WrittenAreBodies ==
    ASSUME NEW t \in DOMAIN Types, NEW v \in Values(t)
    PROVE  Wire(t, v) \in Bodies(t)
<1>1. v \in [Fields(t) -> Contents] /\ Decided(t, v)
  BY DEF Values
<1>2. Wire(t, v) \in [Fields(t) -> Contents]
  BY <1>1 DEF Wire, Contents
<1>3. \A f \in Of(t).truthy : f \in Fields(t)
  BY TruthyAreFields
<1>4. Decided(t, Wire(t, v))
  BY <1>1, <1>3 DEF Decided, Wire
<1>5. \A f \in Of(t).flat : Wire(t, v)[f] # Null
  BY ContentsDiffer DEF Wire, Fields
<1> QED
  BY <1>2, <1>4, <1>5 DEF Bodies, Values

LEMMA ReadAreValues ==
    ASSUME NEW t \in DOMAIN Types, NEW w \in Values(t), NEW e
    PROVE  Read(t, w, e) \in Values(t)
<1>1. w \in [Fields(t) -> Contents] /\ Decided(t, w)
  BY DEF Values
<1>2. \A f \in Fields(t) : Carried(t, w, e)[f] \in Contents
  BY <1>1 DEF Carried, Contents
<1>3. Initial(t) \in [Fields(t) -> Contents]
  BY DEF Initial, Contents
<1>4. Read(t, w, e) \in [Fields(t) -> Contents]
  BY <1>2, <1>3 DEF Read, Contents
<1>5. ASSUME NEW f \in Of(t).truthy
      PROVE  Read(t, w, e)[f] \in {Zero, One}
  <2>1. f \in Fields(t)
    BY TruthyAreFields
  <2>2. Carried(t, w, e)[f] \in {Zero, One}
    BY <2>1 DEF Carried
  <2> QED
    BY <2>1, <2>2, ContentsDiffer DEF Read
<1> QED
  BY <1>4, <1>5 DEF Values, Decided

LEMMA ElsewhereAreBodies ==
    ASSUME NEW t \in DOMAIN Types, NEW w \in Elsewhere(t)
    PROVE  w \in Bodies(t) /\ OneofsHold(t, w)
<1>1. OneofsHold(t, w)
  BY DEF Elsewhere
<1>2. Absent(t) \in [Fields(t) -> {Null, Zero, One}]
  BY DEF Absent
<1>3. \A f \in Of(t).flat : Absent(t)[f] # Null
  BY ContentsDiffer DEF Absent, Fields
<1>4. \/ w = Absent(t)
      \/ \E f \in Fields(t), g \in Fields(t), x \in {Zero, One}, y \in {Zero, One} :
           w = [Absent(t) EXCEPT ![f] = x, ![g] = y]
  BY DEF Elsewhere
<1>5. CASE w = Absent(t)
  <2>1. w \in [Fields(t) -> {Null, Zero, One}] /\ \A f \in Of(t).flat : w[f] # Null
    BY <1>2, <1>3, <1>5
  <2> QED
    BY <1>1, <2>1, TruthyAreFields DEF Bodies, Values, Decided, Contents
<1>6. CASE \E f \in Fields(t), g \in Fields(t), x \in {Zero, One}, y \in {Zero, One} :
             w = [Absent(t) EXCEPT ![f] = x, ![g] = y]
  <2>1. PICK f \in Fields(t), g \in Fields(t), x \in {Zero, One}, y \in {Zero, One} :
          w = [[Absent(t) EXCEPT ![f] = x] EXCEPT ![g] = y]
    BY <1>6
  <2>2. w \in [Fields(t) -> {Null, Zero, One}]
    BY <1>2, <2>1
  <2>3. \A h \in Of(t).flat : w[h] # Null
    BY <1>2, <1>3, <2>1, ContentsDiffer DEF Fields
  <2> QED
    BY <1>1, <2>2, <2>3, TruthyAreFields DEF Bodies, Values, Decided, Contents
<1> QED
  BY <1>4, <1>5, <1>6

\* What is read of a field that is nothing special, and what of it is written again.
LEMMA OrdinaryIsCarried ==
    ASSUME NEW t \in DOMAIN Types, NEW w, NEW e, NEW f \in Ordinary(Of(t))
    PROVE  f \in Fields(t) /\ Carried(t, w, e)[f] = w[f] /\ Wire(t, w)[f] = w[f]
BY DEF Ordinary, Fields, Carried, ReadAsNull, Wire

\* RebuildingKeepsFields, of one field of one body.
LostOrAdded(t, w, f) ==
    IF w[f] = Null
    THEN <<t, f>> \in AddedWhenAbsent /\ \A g \in ClearedBy(t, f) : w[g] = Null
    ELSE <<t, f>> \in IF w[f] = Zero THEN LostWhenZero ELSE LostWhenSet

\* What is read from a body and written again is the body, but for the fields
\* the tables name.
LEMMA RebuiltIsKept ==
    ASSUME NEW t \in DOMAIN Types, NEW w \in Bodies(t), NEW e, NEW f \in Fields(t)
    PROVE  Wire(t, Read(t, w, e))[f] = w[f] \/ LostOrAdded(t, w, f)
<1> DEFINE T == Of(t)
           c == Carried(t, w, e)
           r == Read(t, w, e)
<1>1. LossesKnown(t, T)
  BY ClassesTabled DEF Of, Tabled
<1>2. /\ w[f] \in Contents
      /\ \A g \in T.flat : w[g] # Null
      /\ \A g \in T.truthy : w[g] \in {Null, Zero, One}
  BY DEF Bodies, Values, Decided
<1>3. LostWhenSet \subseteq LostWhenZero
  BY DEF LostWhenZero
<1>4. CASE f \in T.truthy
  <2>1. f \notin T.flat /\ f \notin T.unwritten /\ ClearedBy(t, f) = {}
    BY <1>1, <1>4 DEF LossesKnown, ClearedBy
  <2>2. CASE w[f] = One
    <3>1. c[f] = One
      BY <1>4, <2>2, ContentsDiffer DEF Carried
    <3>2. r[f] = One
      BY <3>1, ContentsDiffer DEF Read
    <3> QED
      BY <2>1, <2>2, <3>2 DEF Wire
  <2> QED
    BY <1>1, <1>2, <1>4, <2>1, <2>2 DEF LossesKnown, LostOrAdded
<1>5. CASE f \notin T.truthy /\ ReadAsNull(t, f, w[f], e)
  <2>1. c[f] = Null
    BY <1>5 DEF Carried
  <2>2. CASE f \in T.unread
    <3>1. r[f] = Null
      BY <1>1, <2>1, <2>2 DEF Read, Initial, LossesKnown
    <3>2. w[f] = Null => f \notin T.flat
      BY <1>2
    <3>3. w[f] = Null => Wire(t, r)[f] = Null
      BY <1>1, <3>1, <3>2 DEF Wire, LossesKnown
    <3>4. w[f] # Null => LostOrAdded(t, w, f)
      BY <1>1, <1>3, <2>2 DEF LossesKnown, LostOrAdded
    <3> QED
      BY <3>3, <3>4
  <2>3. CASE f \notin T.unread
    <3>1. w[f] = Zero /\ f \in T.dropsZero \union T.wrapped
      BY <1>5, <2>3 DEF ReadAsNull
    <3> QED
      BY <1>1, <3>1, ContentsDiffer DEF LossesKnown, LostOrAdded
  <2> QED
    BY <2>2, <2>3
<1>6. CASE f \notin T.truthy /\ ~ReadAsNull(t, f, w[f], e)
  <2>1. c[f] = w[f]
    BY <1>6 DEF Carried
  <2>2. CASE w[f] # Null
    <3>1. r[f] = w[f]
      BY <2>1, <2>2 DEF Read
    <3>2. CASE f \in T.unwritten
      BY <1>1, <1>3, <2>2, <3>2 DEF LossesKnown, LostOrAdded
    <3> QED
      BY <2>2, <3>1, <3>2 DEF Wire
  <2>3. CASE w[f] = Null
    <3>1. f \notin T.flat /\ f \notin T.unwritten
      BY <1>1, <1>2, <2>3 DEF LossesKnown
    <3>2. CASE r[f] = Null
      BY <2>3, <3>1, <3>2 DEF Wire
    <3>3. CASE r[f] # Null
      <4>1. f \in T.preset /\ \A g \in ClearedBy(t, f) : c[g] = Null
        BY <2>1, <2>3, <3>3 DEF Read, Initial
      <4>2. \A g \in ClearedBy(t, f) : g \in Ordinary(T)
        BY <1>1, <4>1 DEF LossesKnown, ClearedBy, Fields
      <4>3. \A g \in ClearedBy(t, f) : w[g] = Null
        BY <4>1, <4>2, OrdinaryIsCarried
      <4> QED
        BY <1>1, <2>3, <4>1, <4>3 DEF LossesKnown, LostOrAdded
    <3> QED
      BY <3>2, <3>3
  <2> QED
    BY <2>2, <2>3
<1> QED
  BY <1>4, <1>5, <1>6

\* Read, written and read again: the same.
LEMMA ReadAgainIsSame ==
    ASSUME NEW t \in DOMAIN Types, NEW w \in Bodies(t), NEW e, NEW f \in Fields(t),
           <<t, f>> \notin KnownDrift
    PROVE  Read(t, Wire(t, Read(t, w, e)), FALSE)[f] = Read(t, w, e)[f]
<1> DEFINE T == Of(t)
           c == Carried(t, w, e)
           r == Read(t, w, e)
           u == Wire(t, r)
           d == Carried(t, u, FALSE)
<1>1. LossesKnown(t, T)
  BY ClassesTabled DEF Of, Tabled
<1>2. \A g \in T.flat : w[g] # Null
  BY DEF Bodies
<1>3. f \notin T.truthy /\ f \notin T.unwritten
  BY <1>1 DEF LossesKnown
<1>4. CASE r[f] # Null
  <2>1. u[f] = r[f]
    BY <1>3, <1>4 DEF Wire
  <2>2. CASE c[f] # Null
    <3>1. r[f] = c[f] /\ c[f] = w[f] /\ ~ReadAsNull(t, f, w[f], e)
      BY <1>3, <2>2 DEF Read, Carried
    <3>2. ~ReadAsNull(t, f, u[f], FALSE)
      BY <2>1, <3>1 DEF ReadAsNull
    <3>3. d[f] = r[f]
      BY <1>3, <2>1, <3>2 DEF Carried
    <3> QED
      BY <1>4, <3>3 DEF Read
  <2>3. CASE c[f] = Null
    <3>1. f \in T.preset /\ r[f] = Preset
      BY <1>4, <2>3 DEF Read, Initial
    <3>2. ~ReadAsNull(t, f, u[f], FALSE)
      BY <1>1, <2>1, <3>1, ContentsDiffer DEF ReadAsNull, LossesKnown
    <3>3. d[f] = r[f]
      BY <1>3, <2>1, <3>2 DEF Carried
    <3> QED
      BY <1>4, <3>3 DEF Read
  <2> QED
    BY <2>2, <2>3
<1>5. CASE r[f] = Null
  <2>1. c[f] = Null
    BY <1>5 DEF Read
  <2>2. d[f] = Null
    <3>1. CASE f \in T.unread
      BY <1>3, <3>1 DEF Carried, ReadAsNull
    <3>2. CASE f \notin T.unread
      <4>1. f \notin T.flat
        <5>1. CASE ReadAsNull(t, f, w[f], e)
          BY <1>1, <3>2, <5>1 DEF ReadAsNull, LossesKnown
        <5>2. CASE ~ReadAsNull(t, f, w[f], e)
          <6>1. w[f] = Null
            BY <1>3, <2>1, <5>2 DEF Carried
          <6> QED
            BY <1>2, <6>1
        <5> QED
          BY <5>1, <5>2
      <4>2. u[f] = Null
        BY <1>3, <1>5, <4>1 DEF Wire
      <4> QED
        BY <1>3, <4>2 DEF Carried
    <3> QED
      BY <3>1, <3>2
  <2>3. CASE f \notin T.preset
    BY <1>5, <2>2, <2>3 DEF Read, Initial
  <2>4. CASE f \in T.preset
    <3>1. PICK g \in ClearedBy(t, f) : c[g] # Null
      BY <1>5, <2>1, <2>4, ContentsDiffer DEF Read, Initial
    <3>2. g \in Ordinary(T)
      BY <1>1, <2>4, <3>1 DEF LossesKnown, ClearedBy, Fields
    <3>3. g \in Fields(t) /\ r[g] = c[g]
      BY <3>1, <3>2, OrdinaryIsCarried DEF Read
    <3>4. u[g] = r[g] /\ d[g] = u[g]
      BY <3>2, OrdinaryIsCarried
    <3> QED
      BY <1>5, <2>2, <3>1, <3>3, <3>4 DEF Read
  <2> QED
    BY <2>3, <2>4
<1> QED
  BY <1>4, <1>5

\* Members of a oneof are not both read, nor both written.
LEMMA OneofsAreKept ==
    ASSUME NEW t \in DOMAIN Types, t \notin KnownBoth, NEW w, OneofsHold(t, w), NEW e
    PROVE  OneofsHold(t, Read(t, w, e)) /\ OneofsHold(t, Wire(t, w))
<1> DEFINE T == Of(t)
<1>1. OneofsGuarded(t, T) /\ LossesKnown(t, T)
  BY ClassesTabled DEF Of, Tabled
<1>2. ASSUME NEW p \in T.ties, NEW f \in {p[1], p[2]}, w[f] = Null
      PROVE  Read(t, w, e)[f] = Null /\ Wire(t, w)[f] = Null
  <2>1. /\ f \in T.kept /\ f \notin T.flat
        /\ f \notin T.truthy /\ f \notin T.preset
    BY <1>1 DEF OneofsGuarded
  <2>2. f \in Fields(t) /\ f \notin T.unwritten
    BY <1>1, <2>1 DEF Fields, LossesKnown
  <2>3. Carried(t, w, e)[f] = Null
    BY <1>2, <2>1, <2>2 DEF Carried
  <2> QED
    BY <1>2, <2>1, <2>2, <2>3 DEF Read, Initial, Wire
<1> QED
  BY <1>2 DEF OneofsHold

----------------------------------------------------------------------------
(* The inductive invariant.                                                *)

\* A transaction that was read holds what its source was read as, except in
\* the fields set since.
HoldsWhatWasRead ==
    source # None =>
      \E e \in BOOLEAN :
        \A f \in Fields(type) \ touched : values[f] = Read(type, source, e)[f]

\* If nothing was set since, reading its bodies gives what it holds: they are
\* the ones it was read from, or were built from it.
BodiesReadAlike ==
    source # None /\ touched = {} /\ body # None =>
      \/ values = Read(type, body, foreign)
      \/ body = Wire(type, values) /\ ~foreign

NeverBoth ==
    type \notin KnownBoth =>
      /\ OneofsHold(type, values)
      /\ body # None => OneofsHold(type, body)

Typed ==
    /\ type \in DOMAIN Types
    /\ values \in Values(type)
    /\ body # None => body \in Bodies(type)
    /\ source # None => source \in Bodies(type)
    /\ foreign \in BOOLEAN
    /\ body = None => ~foreign
    /\ locked => body # None

FieldsInv ==
    Typed /\ NeverBoth /\ FrozenShowsWhatItSigns /\ HoldsWhatWasRead /\ BodiesReadAlike

LEMMA NoBodyIsNone == ASSUME NEW t \in DOMAIN Types PROVE None \notin Values(t)
BY NoBodyAssumption DEF Values, Contents

\* The initial fields are those of a transaction, and leave oneofs open.
LEMMA InitialFields ==
    ASSUME NEW t \in DOMAIN Types
    PROVE  /\ Initial(t) \in Values(t)
           /\ t \notin KnownBoth => OneofsHold(t, Initial(t))
<1>1. OneofsGuarded(t, Of(t)) /\ LossesKnown(t, Of(t))
  BY ClassesTabled DEF Of, Tabled
<1>2. Initial(t) \in [Fields(t) -> Contents]
  BY DEF Initial, Contents
<1>3. \A f \in Of(t).truthy : Initial(t)[f] = Null
  BY <1>1, TruthyAreFields DEF LossesKnown, Initial
<1>4. ASSUME t \notin KnownBoth, NEW p \in Of(t).ties
      PROVE  Initial(t)[p[1]] = Null
  <2>1. p[1] \in Fields(t) /\ p[1] \notin Of(t).preset
    BY <1>1, <1>4 DEF OneofsGuarded, Fields
  <2> QED
    BY <2>1 DEF Initial
<1> QED
  BY <1>2, <1>3, <1>4 DEF Values, Decided, OneofsHold

LEMMA FieldsInit == Init => FieldsInv
<1> SUFFICES ASSUME Init PROVE FieldsInv
  OBVIOUS
<1>1. type \in DOMAIN Types /\ ~locked /\ touched = {}
  BY DEF Init
<1>2. CASE New
  <2>1. values = Initial(type) /\ body = None /\ foreign = FALSE /\ source = None
    BY <1>2 DEF New
  <2> QED
    BY <1>1, <2>1, InitialFields DEF FieldsInv, Typed, NeverBoth, FrozenShowsWhatItSigns,
       IsFrozen, HoldsWhatWasRead, BodiesReadAlike
<1>3. ASSUME NEW w \in Elsewhere(type), FromElsewhere(w) PROVE FieldsInv
  <2>1. /\ values = Read(type, w, TRUE) /\ body \in {None, w}
        /\ foreign = (body = w) /\ source = w
    BY <1>3 DEF FromElsewhere
  <2>2. w \in Bodies(type) /\ w \in Values(type) /\ OneofsHold(type, w) /\ w # None
    BY <1>1, <1>3, ElsewhereAreBodies, NoBodyIsNone DEF Bodies
  <2>3. Typed
    BY <1>1, <2>1, <2>2, ReadAreValues DEF Typed
  <2>4. NeverBoth
    BY <1>1, <2>1, <2>2, OneofsAreKept DEF NeverBoth
  <2>5. body # None => foreign = TRUE
    BY <2>1
  <2> QED
    BY <2>1, <2>3, <2>4, <2>5 DEF FieldsInv, FrozenShowsWhatItSigns, IsFrozen, HoldsWhatWasRead,
       BodiesReadAlike
<1> QED
  BY <1>2, <1>3 DEF Init

\* What a setter, a list method or a clear method leaves of the invariant: the
\* fields F change, each to contents that a field of its kind can have.
LEMMA MovesKeep ==
    ASSUME FieldsInv, NEW F, Moves(F), F # {}, values' \in Values(type),
           \A g \in Fields(type) \ F : values'[g] = values[g],
           IsFrozen => \A g \in F : <<type, g>> \in KnownOpen,
           type \notin KnownBoth => OneofsHold(type, values')
    PROVE  FieldsInv'
<1>1. /\ UNCHANGED <<type, body, foreign, locked, source>>
      /\ touched' = touched \union F
  BY DEF Moves
<1>2. Typed'
  BY <1>1 DEF FieldsInv, Typed
<1>3. NeverBoth'
  BY <1>1 DEF FieldsInv, NeverBoth
<1>4. FrozenShowsWhatItSigns'
  <2> SUFFICES ASSUME IsFrozen, NEW f \in Fields(type), <<type, f>> \notin KnownOpen
               PROVE  Wire(type, values')[f]
                        \in {body[f], Wire(type, Read(type, body, foreign))[f]}
    BY <1>1 DEF FrozenShowsWhatItSigns, IsFrozen
  <2>1. values'[f] = values[f]
    OBVIOUS
  <2>2. Wire(type, values')[f] = Wire(type, values)[f]
    BY <2>1 DEF Wire
  <2> QED
    BY <2>2 DEF FieldsInv, FrozenShowsWhatItSigns
<1>5. HoldsWhatWasRead'
  <2> SUFFICES ASSUME source # None
               PROVE  \E e \in BOOLEAN : \A f \in Fields(type) \ touched' :
                         values'[f] = Read(type, source, e)[f]
    BY <1>1 DEF HoldsWhatWasRead
  <2>1. PICK e \in BOOLEAN :
          \A f \in Fields(type) \ touched : values[f] = Read(type, source, e)[f]
    BY DEF FieldsInv, HoldsWhatWasRead
  <2> QED
    BY <1>1, <2>1
<1>6. BodiesReadAlike'
  BY <1>1 DEF BodiesReadAlike
<1> QED
  BY <1>2, <1>3, <1>4, <1>5, <1>6 DEF FieldsInv

\* No oneof gets a second member when no field gets contents it did not have
\* before, or a field that is in no oneof does.
LEMMA OneofsStay ==
    ASSUME NEW t \in DOMAIN Types, t \notin KnownBoth, NEW v, NEW u, OneofsHold(t, v),
           \A p \in Of(t).ties : \A f \in {p[1], p[2]} : v[f] = Null => u[f] = Null
    PROVE  OneofsHold(t, u)
BY DEF OneofsHold

LEMMA SetKeeps ==
    ASSUME FieldsInv, NEW f \in Fields(type), NEW x \in {Zero, One}, SetField(f, x)
    PROVE  FieldsInv'
<1> DEFINE T == Of(type)
           F == {f} \union Clears(f)
<1>1. OneofsGuarded(type, T) /\ OpenKnown(type, T)
  BY ClassesTabled DEF Of, Tabled, FieldsInv, Typed
<1>2. values \in [Fields(type) -> Contents] /\ Decided(type, values)
  BY DEF FieldsInv, Typed, Values
<1>3. Moves(F) /\ values' = Assigned(f, x)
  BY DEF SetField
<1>4. values' \in Values(type)
  <2>1. values' \in [Fields(type) -> Contents]
    BY <1>2, <1>3 DEF Assigned, Contents
  <2>2. Decided(type, values')
    BY <1>2, <1>3, TruthyAreFields DEF Decided, Assigned, FieldsInv, Typed
  <2> QED
    BY <2>1, <2>2 DEF Values
<1>5. \A g \in Fields(type) \ F : values'[g] = values[g]
  BY <1>3 DEF Assigned
<1>6. IsFrozen => \A g \in F : <<type, g>> \in KnownOpen
  <2> SUFFICES ASSUME IsFrozen PROVE \A g \in F : <<type, g>> \in KnownOpen
    OBVIOUS
  <2>1. f \in T.open
    BY DEF SetField, Unfrozen
  <2>2. Clears(f) = {}
    BY <1>1, <2>1 DEF OpenKnown, Clears
  <2> QED
    BY <1>1, <2>1, <2>2 DEF OpenKnown
<1>7. type \notin KnownBoth => OneofsHold(type, values')
  <2> SUFFICES ASSUME type \notin KnownBoth, NEW p \in T.ties
               PROVE  values'[p[1]] = Null \/ values'[p[2]] = Null
    BY DEF OneofsHold
  <2>1. /\ p[1] \in Fields(type) /\ p[2] \in Fields(type) /\ p[1] # p[2]
        /\ <<p[1], p[2]>> \in T.clears /\ <<p[2], p[1]>> \in T.clears
    BY <1>1 DEF OneofsGuarded, Fields
  <2>2. values[p[1]] = Null \/ values[p[2]] = Null
    BY DEF FieldsInv, NeverBoth, OneofsHold
  <2>3. CASE f = p[1]
    BY <1>3, <2>1, <2>3 DEF Assigned, Clears
  <2>4. CASE f = p[2]
    BY <1>3, <2>1, <2>4 DEF Assigned, Clears
  <2>5. CASE f # p[1] /\ f # p[2]
    BY <1>3, <2>1, <2>2, <2>5 DEF Assigned
  <2> QED
    BY <2>3, <2>4, <2>5
<1> HIDE DEF F
<1>8. F # {}
  BY DEF F
<1> QED
  BY <1>3, <1>4, <1>5, <1>6, <1>7, <1>8, MovesKeep

LEMMA AmendKeeps ==
    ASSUME FieldsInv, NEW f \in Fields(type), AmendList(f)
    PROVE  FieldsInv'
<1> DEFINE T == Of(type)
<1>1. OneofsGuarded(type, T) /\ OpenKnown(type, T) /\ LossesKnown(type, T)
  BY ClassesTabled DEF Of, Tabled, FieldsInv, Typed
<1>2. values \in [Fields(type) -> Contents] /\ Decided(type, values)
  BY DEF FieldsInv, Typed, Values
<1>3. Moves({f}) /\ values' = [values EXCEPT ![f] = Two]
  BY DEF AmendList
<1>4. values[f] # Null
  BY DEF AmendList, Amends
<1>5. values' \in Values(type)
  <2>1. values' \in [Fields(type) -> Contents]
    BY <1>2, <1>3 DEF Contents
  <2>2. f \notin T.truthy
    BY <1>1 DEF AmendList, LossesKnown
  <2>3. Decided(type, values')
    BY <1>2, <1>3, <2>2, TruthyAreFields DEF Decided, FieldsInv, Typed
  <2> QED
    BY <2>1, <2>3 DEF Values
<1>6. \A g \in Fields(type) \ {f} : values'[g] = values[g]
  BY <1>2, <1>3
<1>7. IsFrozen => <<type, f>> \in KnownOpen
  BY <1>1 DEF AmendList, Unfrozen, OpenKnown
<1>8. type \notin KnownBoth => OneofsHold(type, values')
  <2> SUFFICES ASSUME type \notin KnownBoth, NEW p \in T.ties, NEW g \in {p[1], p[2]},
                      values[g] = Null
               PROVE  values'[g] = Null
    BY OneofsStay DEF FieldsInv, NeverBoth, Typed
  <2>1. g \in Fields(type)
    BY <1>1 DEF OneofsGuarded, Fields
  <2> QED
    BY <1>4, <1>6, <2>1
<1> QED
  BY <1>3, <1>5, <1>6, <1>7, <1>8, MovesKeep

LEMMA ClearKeeps ==
    ASSUME FieldsInv, NEW f \in Fields(type), ClearField(f)
    PROVE  FieldsInv'
<1> DEFINE T == Of(type)
<1>1. OneofsGuarded(type, T) /\ OpenKnown(type, T)
  BY ClassesTabled DEF Of, Tabled, FieldsInv, Typed
<1>2. values \in [Fields(type) -> Contents] /\ Decided(type, values)
  BY DEF FieldsInv, Typed, Values
<1>3. PICK x \in {Null, Zero} :
        /\ Moves({f})
        /\ values' = [values EXCEPT ![f] = x]
        /\ \/ x = Null /\ Unfrozen(f, {})
           \/ f \in T.blanks
  BY DEF ClearField
<1>4. values' \in Values(type)
  <2>1. values' \in [Fields(type) -> Contents]
    BY <1>2, <1>3 DEF Contents
  <2>2. Decided(type, values')
    BY <1>2, <1>3, TruthyAreFields DEF Decided, FieldsInv, Typed
  <2> QED
    BY <2>1, <2>2 DEF Values
<1>5. \A g \in Fields(type) \ {f} : values'[g] = values[g]
  BY <1>2, <1>3
<1>6. IsFrozen => <<type, f>> \in KnownOpen
  BY <1>1, <1>3 DEF Unfrozen, OpenKnown
<1>7. type \notin KnownBoth => OneofsHold(type, values')
  <2> SUFFICES ASSUME type \notin KnownBoth, NEW p \in T.ties, NEW g \in {p[1], p[2]},
                      values[g] = Null
               PROVE  values'[g] = Null
    BY OneofsStay DEF FieldsInv, NeverBoth, Typed
  <2>1. g \in Fields(type) /\ g \notin T.blanks
    BY <1>1 DEF OneofsGuarded, Fields
  <2>2. CASE g = f
    BY <1>2, <1>3, <2>1, <2>2
  <2> QED
    BY <1>5, <2>1, <2>2
<1> QED
  BY <1>3, <1>4, <1>5, <1>6, <1>7, MovesKeep

LEMMA FreezeKeeps == ASSUME FieldsInv, FreezeWith PROVE FieldsInv'
<1> DEFINE T == Of(type)
           F == Filled \union FallsBack
<1>1. OneofsGuarded(type, T) /\ OpenKnown(type, T) /\ LossesKnown(type, T)
  BY ClassesTabled DEF Of, Tabled, FieldsInv, Typed
<1>2. values \in [Fields(type) -> Contents] /\ Decided(type, values)
  BY DEF FieldsInv, Typed, Values
<1>3. /\ values' = Completed
      /\ touched' = touched \union F
      /\ UNCHANGED <<type, locked, source>>
      /\ \/ locked /\ UNCHANGED <<body, foreign>>
         \/ ~locked /\ body' = Wire(type, Completed) /\ foreign' = FALSE
  BY DEF FreezeWith, FieldsInv, Typed
<1>4. F \subseteq T.fills \union T.fallsBack
  BY DEF Filled, FallsBack
<1>5. \A g \in Fields(type) \ F : values'[g] = values[g]
  BY <1>3 DEF Completed
<1>6. values' \in Values(type)
  <2>1. values' \in [Fields(type) -> Contents]
    BY <1>2, <1>3 DEF Completed, Contents
  <2>2. ASSUME NEW g \in T.truthy PROVE values'[g] \in {Null, Zero, One}
    <3>1. g \in Fields(type) /\ g \notin F
      BY <1>1, <1>4, TruthyAreFields DEF LossesKnown, FieldsInv, Typed
    <3> QED
      BY <1>2, <1>5, <3>1 DEF Decided
  <2> QED
    BY <2>1, <2>2 DEF Values, Decided
<1>7. type \notin KnownBoth => OneofsHold(type, values')
  <2> SUFFICES ASSUME type \notin KnownBoth, NEW p \in T.ties, NEW g \in {p[1], p[2]},
                      values[g] = Null
               PROVE  values'[g] = Null
    BY OneofsStay DEF FieldsInv, NeverBoth, Typed
  <2>1. g \in Fields(type) /\ g \notin F
    BY <1>1, <1>4 DEF OneofsGuarded, Fields
  <2> QED
    BY <1>5, <2>1
<1>8. Typed'
  <2>1. Wire(type, values') \in Bodies(type)
    BY <1>6, WrittenAreBodies DEF FieldsInv, Typed
  <2>2. Wire(type, values') # None
    BY <2>1, NoBodyIsNone DEF Bodies, FieldsInv, Typed
  <2> QED
    BY <1>3, <1>6, <2>1, <2>2 DEF FieldsInv, Typed
<1>9. NeverBoth'
  <2> SUFFICES ASSUME type \notin KnownBoth PROVE NeverBoth'
    BY <1>3 DEF NeverBoth
  <2>1. OneofsHold(type, Wire(type, values'))
    BY <1>7, OneofsAreKept DEF FieldsInv, Typed
  <2> QED
    BY <1>3, <1>7, <2>1 DEF FieldsInv, NeverBoth
<1>10. FrozenShowsWhatItSigns'
  <2>1. CASE ~locked
    BY <1>3, <2>1 DEF FrozenShowsWhatItSigns
  <2>2. CASE locked
    <3> SUFFICES ASSUME NEW f \in Fields(type), <<type, f>> \notin KnownOpen
                 PROVE  Wire(type, values')[f]
                          \in {body[f], Wire(type, Read(type, body, foreign))[f]}
      BY <1>3, <2>2 DEF FrozenShowsWhatItSigns
    <3>1. IsFrozen /\ Filled = {}
      BY <2>2 DEF FieldsInv, Typed, IsFrozen, FreezeWith
    <3>2. f \notin F
      BY <1>1, <3>1 DEF OpenKnown, FallsBack
    <3>3. Wire(type, values')[f] = Wire(type, values)[f]
      BY <1>5, <3>2 DEF Wire
    <3> QED
      BY <3>1, <3>3 DEF FieldsInv, FrozenShowsWhatItSigns
  <2> QED
    BY <2>1, <2>2
<1>11. HoldsWhatWasRead'
  <2> SUFFICES ASSUME source # None
               PROVE  \E e \in BOOLEAN : \A f \in Fields(type) \ touched' :
                         values'[f] = Read(type, source, e)[f]
    BY <1>3 DEF HoldsWhatWasRead
  <2>1. PICK e \in BOOLEAN :
          \A f \in Fields(type) \ touched : values[f] = Read(type, source, e)[f]
    BY DEF FieldsInv, HoldsWhatWasRead
  <2> QED
    BY <1>3, <1>5, <2>1
<1>12. BodiesReadAlike'
  <2> SUFFICES ASSUME source # None, touched' = {}, body' # None, locked
               PROVE  \/ values' = Read(type, body, foreign)
                      \/ body = Wire(type, values') /\ ~foreign
    BY <1>3 DEF BodiesReadAlike
  <2>1. touched = {} /\ F = {} /\ body # None
    BY <1>3
  <2>2. values' = values
    BY <1>2, <1>3, <2>1 DEF Completed
  <2> QED
    BY <2>1, <2>2 DEF FieldsInv, BodiesReadAlike
<1> QED
  BY <1>8, <1>9, <1>10, <1>11, <1>12 DEF FieldsInv

LEMMA SignKeeps == ASSUME FieldsInv, Sign PROVE FieldsInv'
<1>1. /\ body # None
      /\ UNCHANGED <<type, values, body, foreign, source, touched>>
  BY DEF Sign, IsFrozen
<1>2. Typed'
  BY <1>1 DEF FieldsInv, Typed
<1>3. NeverBoth' /\ FrozenShowsWhatItSigns' /\ HoldsWhatWasRead' /\ BodiesReadAlike'
  BY <1>1 DEF FieldsInv, NeverBoth, FrozenShowsWhatItSigns, IsFrozen, HoldsWhatWasRead,
     BodiesReadAlike
<1> QED
  BY <1>2, <1>3 DEF FieldsInv

LEMMA WhatBytesHold ==
    ASSUME FieldsInv
    PROVE  /\ Bytes \in Bodies(type) /\ Bytes \in Values(type) /\ Bytes # None
           /\ type \notin KnownBoth => OneofsHold(type, Bytes)
<1>1. CASE IsFrozen
  BY <1>1, NoBodyIsNone DEF FieldsInv, Typed, NeverBoth, IsFrozen, Bytes, Bodies
<1>2. CASE ~IsFrozen
  <2>1. Bytes = Wire(type, values)
    BY <1>2 DEF Bytes
  <2>2. Wire(type, values) \in Bodies(type)
    BY WrittenAreBodies DEF FieldsInv, Typed
  <2>3. type \notin KnownBoth => OneofsHold(type, Wire(type, values))
    BY OneofsAreKept DEF FieldsInv, Typed, NeverBoth
  <2> QED
    BY <2>1, <2>2, <2>3, NoBodyIsNone DEF Bodies, FieldsInv, Typed
<1> QED
  BY <1>1, <1>2

LEMMA ReadBackKeeps == ASSUME FieldsInv, ReadBack PROVE FieldsInv'
<1>1. /\ values' = Read(type, Bytes, foreign)
      /\ body' = IF IsFrozen THEN Bytes ELSE None
      /\ locked' = FALSE /\ source' = Bytes /\ touched' = {}
      /\ UNCHANGED <<type, foreign>>
  BY DEF ReadBack
<1>2. Bytes \in Bodies(type) /\ Bytes \in Values(type) /\ Bytes # None
  BY WhatBytesHold
<1>3. Typed'
  <2>1. Read(type, Bytes, foreign) \in Values(type)
    BY <1>2, ReadAreValues DEF FieldsInv, Typed
  <2> QED
    BY <1>1, <1>2, <2>1 DEF FieldsInv, Typed, IsFrozen
<1>4. NeverBoth'
  <2> SUFFICES ASSUME type \notin KnownBoth PROVE NeverBoth'
    BY <1>1 DEF NeverBoth
  <2>1. OneofsHold(type, Bytes)
    BY WhatBytesHold
  <2>2. OneofsHold(type, Read(type, Bytes, foreign))
    BY <2>1, OneofsAreKept DEF FieldsInv, Typed
  <2> QED
    BY <1>1, <2>1, <2>2 DEF NeverBoth
<1>5. body' # None => body' = Bytes
  BY <1>1
<1>6. FrozenShowsWhatItSigns'
  BY <1>1, <1>5 DEF FrozenShowsWhatItSigns, IsFrozen
<1>7. HoldsWhatWasRead'
  BY <1>1 DEF HoldsWhatWasRead, FieldsInv, Typed
<1>8. BodiesReadAlike'
  BY <1>1, <1>5 DEF BodiesReadAlike
<1> QED
  BY <1>3, <1>4, <1>6, <1>7, <1>8 DEF FieldsInv

LEMMA FieldsStep == FieldsInv /\ [Next]_vars => FieldsInv'
<1> SUFFICES ASSUME FieldsInv, [Next]_vars PROVE FieldsInv'
  OBVIOUS
<1>1. ASSUME NEW f \in Fields(type), NEW x \in {Zero, One}, SetField(f, x) PROVE FieldsInv'
  BY <1>1, SetKeeps
<1>2. ASSUME NEW f \in Fields(type), AmendList(f) PROVE FieldsInv'
  BY <1>2, AmendKeeps
<1>3. ASSUME NEW f \in Fields(type), ClearField(f) PROVE FieldsInv'
  BY <1>3, ClearKeeps
<1>4. CASE FreezeWith
  BY <1>4, FreezeKeeps
<1>5. CASE Sign
  BY <1>5, SignKeeps
<1>6. CASE ReadBack
  BY <1>6, ReadBackKeeps
<1>7. CASE UNCHANGED vars
  BY <1>7 DEF vars, FieldsInv, Typed, NeverBoth, FrozenShowsWhatItSigns, IsFrozen,
     HoldsWhatWasRead, BodiesReadAlike
<1> QED
  BY <1>1, <1>2, <1>3, <1>4, <1>5, <1>6, <1>7 DEF Next

\* FieldsInv holds in every state.
LEMMA FieldsIsInvariant == Spec => []FieldsInv
BY FieldsInit, FieldsStep, PTL DEF Spec

----------------------------------------------------------------------------
(* The theorems.                                                           *)

\* Fields that share a oneof are never both set, in the classes whose setters
\* clear the other one.
THEOREM OneOfEachSafe == Spec => []OneOfEach
<1>1. FieldsInv => OneOfEach
  BY DEF FieldsInv, NeverBoth, OneOfEach
<1> QED
  BY <1>1, FieldsIsInvariant, PTL

\* What a frozen transaction shows is what its signatures cover, or what
\* reading them made of it, but for the fields named as open.
THEOREM FrozenShowsWhatItSignsSafe == Spec => []FrozenShowsWhatItSigns
<1>1. FieldsInv => FrozenShowsWhatItSigns
  BY DEF FieldsInv
<1> QED
  BY <1>1, FieldsIsInvariant, PTL

\* A transaction read from bytes would build the bodies it was read from, but
\* for what was set since and the fields named as lost or added.
THEOREM RebuildingKeepsFieldsSafe == Spec => []RebuildingKeepsFields
<1>1. FieldsInv => RebuildingKeepsFields
  <2> SUFFICES ASSUME FieldsInv, source # None, NEW f \in Fields(type) \ touched
               PROVE  Wire(type, values)[f] = source[f] \/ Excused(f)
    BY DEF RebuildingKeepsFields
  <2>1. PICK e \in BOOLEAN :
          \A g \in Fields(type) \ touched : values[g] = Read(type, source, e)[g]
    BY DEF FieldsInv, HoldsWhatWasRead
  <2>2. Wire(type, values)[f] = Wire(type, Read(type, source, e))[f]
    BY <2>1 DEF Wire
  <2>3. \/ Wire(type, Read(type, source, e))[f] = source[f]
        \/ LostOrAdded(type, source, f)
    BY RebuiltIsKept DEF FieldsInv, Typed
  <2> QED
    BY <2>2, <2>3 DEF LostOrAdded, Excused
<1> QED
  BY <1>1, FieldsIsInvariant, PTL

\* A second trip through bytes changes nothing.
THEOREM SecondTripIsIdleSafe == Spec => SecondTripIsIdle
<1>1. ASSUME FieldsInv, ReadBack, source # None, touched = {},
             NEW f \in Fields(type), <<type, f>> \notin KnownDrift
      PROVE  values'[f] = values[f]
  <2>1. PICK e \in BOOLEAN :
          \A g \in Fields(type) : values[g] = Read(type, source, e)[g]
    BY <1>1 DEF FieldsInv, HoldsWhatWasRead
  <2>2. values = Read(type, source, e)
    <3>1. values = [g \in Fields(type) |-> values[g]]
      BY <1>1 DEF FieldsInv, Typed, Values
    <3>2. Read(type, source, e) = [g \in Fields(type) |-> Read(type, source, e)[g]]
      BY DEF Read
    <3> QED
      BY <2>1, <3>1, <3>2
  <2>3. values' = Read(type, Bytes, foreign)
    BY <1>1 DEF ReadBack
  <2>4. CASE Bytes = Wire(type, values) /\ foreign = FALSE
    <3>1. source \in Bodies(type) /\ type \in DOMAIN Types
      BY <1>1 DEF FieldsInv, Typed
    <3> QED
      BY <1>1, <2>2, <2>3, <2>4, <3>1, ReadAgainIsSame
  <2>5. CASE values = Read(type, Bytes, foreign)
    BY <2>3, <2>5
  <2> QED
    BY <1>1, <2>4, <2>5 DEF FieldsInv, Typed, BodiesReadAlike, Bytes, IsFrozen
<1>2. FieldsInv /\ [Next]_vars =>
        [ReadBack /\ source # None /\ touched = {} =>
           \A f \in Fields(type) : values'[f] = values[f] \/ <<type, f>> \in KnownDrift]_vars
  BY <1>1
<1> QED
  BY <1>2, FieldsIsInvariant, PTL DEF Spec, SecondTripIsIdle
=============================================================================
