--------------------------- MODULE KvPagesProofs ---------------------------
(***************************************************************************)
(* The promises of KvPages, for every pool, every set of rows and every    *)
(* set of keys.  IInv is the inductive invariant: StoreIntact needs        *)
(* OpenIsPrivate (a forward writes open blocks only), OpenIsPrivate needs  *)
(* RefExact (a block taken from the free list has no holder), and both     *)
(* need that a sealed block is still in its row's table.                   *)
(***************************************************************************)
EXTENDS KvPages, FiniteSetTheorems, TLAPS

SealedHeld == \A r \in Row : sealed[r] \subseteq table[r]

IInv == TypeOK /\ RefExact /\ SealedHeld /\ OpenIsPrivate /\ StoreIntact

-----------------------------------------------------------------------------

(* The holders of a block are finitely many, so the counts in RefExact are *)
(* natural numbers that are zero exactly when there is no holder.          *)
LEMMA HoldersFinite ==
  ASSUME NEW b
  PROVE  /\ IsFiniteSet(RowsOf(b)) /\ Cardinality(RowsOf(b)) \in Nat
         /\ IsFiniteSet(KeysOf(b)) /\ Cardinality(KeysOf(b)) \in Nat
         /\ Cardinality(RowsOf(b)) = 0 <=> RowsOf(b) = {}
         /\ Cardinality(KeysOf(b)) = 0 <=> KeysOf(b) = {}
  <1>1. IsFiniteSet(RowsOf(b))
    BY FS_Subset, FinitenessAssumption DEF RowsOf
  <1>2. IsFiniteSet(KeysOf(b))
    BY FS_Subset, FinitenessAssumption DEF KeysOf
  <1>q. QED
    BY <1>1, <1>2, FS_CardinalityType, FS_EmptySet

(* A block on the free list has no holder: PagedKvPool never hands out a   *)
(* block that a row or an entry still names.                               *)
LEMMA FreeIsUnheld ==
  ASSUME RefExact, NEW b \in Free
  PROVE  RowsOf(b) = {} /\ KeysOf(b) = {}
  <1>1. b \in Block /\ ref[b] = 0
    BY DEF Free
  <1>2. Cardinality(RowsOf(b)) + Cardinality(KeysOf(b)) = 0
    BY <1>1 DEF RefExact
  <1>q. QED
    BY <1>2, HoldersFinite

(* A stored block is open in no row's table. *)
LEMMA PinnedIsClosed ==
  ASSUME OpenIsPrivate, NEW k \in Key, NEW b \in pinned[k], NEW r \in Row,
         b \in table[r]
  PROVE  b \in sealed[r]
  <1>1. k \in KeysOf(b)
    BY DEF KeysOf
  <1>q. QED
    BY <1>1 DEF OpenIsPrivate

\* At the start nothing is held, stored or open.
LEMMA InitIInv == Init => IInv
  <1> SUFFICES ASSUME Init PROVE IInv
    OBVIOUS
  <1>1. TypeOK
    BY DEF Init, TypeOK
  <1>2. RefExact
    <2> SUFFICES ASSUME NEW b \in Block
                 PROVE  ref[b] = Cardinality(RowsOf(b)) + Cardinality(KeysOf(b))
      BY DEF RefExact
    <2>1. RowsOf(b) = {} /\ KeysOf(b) = {}
      BY DEF Init, RowsOf, KeysOf
    <2>q. QED
      BY <2>1, FS_EmptySet DEF Init
  <1>3. SealedHeld /\ OpenIsPrivate /\ StoreIntact
    BY DEF Init, SealedHeld, OpenIsPrivate, StoreIntact
  <1>q. QED
    BY <1>1, <1>2, <1>3 DEF IInv

-----------------------------------------------------------------------------

(* Taking a hold adds the holder once; giving it up removes it once. *)
LEMMA AdmitKeeps ==
  ASSUME IInv, NEW r \in Row, NEW hit \in Hits, NEW fresh \in SUBSET Free,
         Admit(r, hit, fresh)
  PROVE  IInv'
  <1>h. /\ hit \subseteq Block
        /\ \A b \in hit : KeysOf(b) # {}
    BY DEF IInv, TypeOK, Hits, KeysOf
  <1>f. /\ fresh \subseteq Block
        /\ \A b \in fresh : RowsOf(b) = {} /\ KeysOf(b) = {}
    BY FreeIsUnheld DEF IInv, Free
  <1>d. hit \cap fresh = {}
    BY <1>h, <1>f
  <1>1. TypeOK'
    BY <1>h, <1>f DEF IInv, TypeOK, Admit
  <1>2. ASSUME NEW b \in Block
        PROVE  /\ KeysOf(b)' = KeysOf(b)
               /\ RowsOf(b)' = IF b \in hit \cup fresh THEN RowsOf(b) \cup {r}
                                                       ELSE RowsOf(b)
               /\ r \notin RowsOf(b)
    <2>1. KeysOf(b)' = KeysOf(b)
      BY DEF KeysOf, Admit
    <2>2. r \notin RowsOf(b)
      BY DEF RowsOf, Admit
    <2>3. \A x \in Row : b \in table'[x] <=> IF x = r THEN b \in hit \cup fresh
                                                     ELSE b \in table[x]
      BY DEF IInv, TypeOK, Admit
    <2>4. RowsOf(b)' = {x \in Row : b \in table'[x]}
      BY DEF RowsOf
    <2>5. RowsOf(b)' = IF b \in hit \cup fresh THEN RowsOf(b) \cup {r} ELSE RowsOf(b)
      BY <2>2, <2>3, <2>4 DEF RowsOf
    <2>q. QED
      BY <2>1, <2>2, <2>5
  <1>3. RefExact'
    <2> SUFFICES ASSUME NEW b \in Block
                 PROVE  ref'[b] = Cardinality(RowsOf(b)') + Cardinality(KeysOf(b)')
      BY DEF RefExact
    <2>0. ref[b] = Cardinality(RowsOf(b)) + Cardinality(KeysOf(b))
      BY DEF IInv, RefExact
    <2>1. CASE b \in fresh
      <3>1. RowsOf(b)' = {r} /\ KeysOf(b)' = {}
        BY <1>2, <1>f, <2>1
      <3>2. ref'[b] = 1
        BY <2>1 DEF Admit
      <3>3. Cardinality(RowsOf(b)') = 1 /\ Cardinality(KeysOf(b)') = 0
        BY <3>1, FS_EmptySet, FS_Singleton
      <3>q. QED
        BY <3>2, <3>3
    <2>2. CASE b \in hit
      <3>1. Cardinality(RowsOf(b)') = Cardinality(RowsOf(b)) + 1
        BY <1>2, <2>2, HoldersFinite, FS_AddElement
      <3>2. ref'[b] = ref[b] + 1
        BY <2>2, <1>d DEF Admit
      <3>3. KeysOf(b)' = KeysOf(b)
        BY <1>2
      <3>q. QED
        BY <2>0, <3>1, <3>2, <3>3, HoldersFinite
    <2>3. CASE b \notin hit \cup fresh
      <3>1. RowsOf(b)' = RowsOf(b) /\ KeysOf(b)' = KeysOf(b)
        BY <1>2, <2>3
      <3>q. QED
        BY <2>0, <2>3, <3>1 DEF Admit
    <2>q. QED
      BY <2>1, <2>2, <2>3
  <1>4. SealedHeld'
    BY DEF IInv, TypeOK, SealedHeld, Admit
  <1>5. OpenIsPrivate'
    <2> SUFFICES ASSUME NEW x \in Row, NEW b \in table'[x] \ sealed'[x]
                 PROVE  RowsOf(b)' = {x} /\ KeysOf(b)' = {}
      BY DEF OpenIsPrivate
    <2>0. b \in Block
      BY <1>1 DEF TypeOK
    <2>1. CASE x = r
      <3>1. b \in fresh
        BY <2>1 DEF IInv, TypeOK, Admit
      <3>q. QED
        BY <2>0, <2>1, <3>1, <1>2, <1>f
    <2>2. CASE x # r
      <3>1. b \in table[x] \ sealed[x]
        BY <2>2 DEF IInv, TypeOK, Admit
      <3>2. RowsOf(b) = {x} /\ KeysOf(b) = {}
        BY <3>1 DEF IInv, OpenIsPrivate
      <3>3. b \notin hit \cup fresh
        BY <3>2, <1>h, <1>f
      <3>q. QED
        BY <2>0, <3>2, <3>3, <1>2
    <2>q. QED
      BY <2>1, <2>2
  <1>6. StoreIntact'
    BY DEF IInv, StoreIntact, Admit
  <1>q. QED
    BY <1>1, <1>3, <1>4, <1>5, <1>6 DEF IInv

\* A row that takes fresh blocks (alloc_block) keeps the invariant.
LEMMA GrowKeeps ==
  ASSUME IInv, NEW r \in Row, NEW fresh \in SUBSET Free, Grow(r, fresh)
  PROVE  IInv'
  <1>f. /\ fresh \subseteq Block
        /\ \A b \in fresh : RowsOf(b) = {} /\ KeysOf(b) = {}
    BY FreeIsUnheld DEF IInv, Free
  <1>1. TypeOK'
    BY <1>f DEF IInv, TypeOK, Grow
  <1>2. ASSUME NEW b \in Block
        PROVE  /\ KeysOf(b)' = KeysOf(b)
               /\ RowsOf(b)' = IF b \in fresh THEN {r} ELSE RowsOf(b)
    <2>1. KeysOf(b)' = KeysOf(b)
      BY DEF KeysOf, Grow
    <2>2. RowsOf(b)' = {x \in Row : b \in table'[x]}
      BY DEF RowsOf
    <2>3. \A x \in Row : b \in table'[x] <=> \/ b \in table[x]
                                             \/ x = r /\ b \in fresh
      BY DEF IInv, TypeOK, Grow
    <2>4. b \in fresh => RowsOf(b) = {}
      BY <1>f
    <2>5. RowsOf(b)' = IF b \in fresh THEN {r} ELSE RowsOf(b)
      BY <2>2, <2>3, <2>4 DEF RowsOf
    <2>q. QED
      BY <2>1, <2>5
  <1>3. RefExact'
    <2> SUFFICES ASSUME NEW b \in Block
                 PROVE  ref'[b] = Cardinality(RowsOf(b)') + Cardinality(KeysOf(b)')
      BY DEF RefExact
    <2>1. CASE b \in fresh
      <3>1. RowsOf(b)' = {r} /\ KeysOf(b)' = {}
        BY <1>2, <1>f, <2>1
      <3>2. Cardinality(RowsOf(b)') = 1 /\ Cardinality(KeysOf(b)') = 0
        BY <3>1, FS_EmptySet, FS_Singleton
      <3>q. QED
        BY <2>1, <3>2 DEF Grow
    <2>2. CASE b \notin fresh
      <3>1. RowsOf(b)' = RowsOf(b) /\ KeysOf(b)' = KeysOf(b)
        BY <1>2, <2>2
      <3>q. QED
        BY <2>2, <3>1 DEF IInv, RefExact, Grow
    <2>q. QED
      BY <2>1, <2>2
  <1>4. SealedHeld'
    BY DEF IInv, TypeOK, SealedHeld, Grow
  <1>5. OpenIsPrivate'
    <2> SUFFICES ASSUME NEW x \in Row, NEW b \in table'[x] \ sealed'[x]
                 PROVE  RowsOf(b)' = {x} /\ KeysOf(b)' = {}
      BY DEF OpenIsPrivate
    <2>0. b \in Block
      BY <1>1 DEF TypeOK
    <2>1. CASE b \in fresh
      <3>1. x = r
        BY <2>1, <1>f DEF IInv, TypeOK, Grow, RowsOf
      <3>q. QED
        BY <2>0, <2>1, <3>1, <1>2, <1>f
    <2>2. CASE b \notin fresh
      <3>1. b \in table[x] \ sealed[x]
        BY <2>2 DEF IInv, TypeOK, Grow
      <3>q. QED
        BY <2>0, <2>2, <3>1, <1>2 DEF IInv, OpenIsPrivate
    <2>q. QED
      BY <2>1, <2>2
  <1>6. StoreIntact'
    BY DEF IInv, StoreIntact, Grow
  <1>q. QED
    BY <1>1, <1>3, <1>4, <1>5, <1>6 DEF IInv

(* A forward writes open blocks, and an open block is in no stored entry. *)
LEMMA ForwardKeeps ==
  ASSUME IInv, Forward
  PROVE  IInv'
  <1>1. TypeOK' /\ RefExact' /\ SealedHeld' /\ OpenIsPrivate'
    BY DEF IInv, TypeOK, RefExact, SealedHeld, OpenIsPrivate, RowsOf, KeysOf, Forward
  <1>2. StoreIntact'
    <2> SUFFICES ASSUME NEW k \in Key, NEW b \in pinned[k]
                 PROVE  saved[k][b] = page'[b]
      BY DEF StoreIntact, Forward
    <2>1. b \in Block \ Open
      BY PinnedIsClosed DEF IInv, TypeOK, Open
    <2>q. QED
      BY <2>1 DEF IInv, StoreIntact, Forward
  <1>q. QED
    BY <1>1, <1>2 DEF IInv

\* Closing the whole blocks behind the write position keeps it.
LEMMA SealKeeps ==
  ASSUME IInv, NEW r \in Row, NEW whole \in SUBSET table[r], Seal(r, whole)
  PROVE  IInv'
  <1>1. TypeOK' /\ SealedHeld'
    BY DEF IInv, TypeOK, SealedHeld, Seal
  <1>2. RefExact' /\ StoreIntact'
    BY DEF IInv, RefExact, StoreIntact, RowsOf, KeysOf, Seal
  <1>3. OpenIsPrivate'
    <2>1. \A x \in Row : sealed[x] \subseteq sealed'[x]
      BY DEF IInv, TypeOK, Seal
    <2>q. QED
      BY <2>1 DEF IInv, OpenIsPrivate, RowsOf, KeysOf, Seal
  <1>q. QED
    BY <1>1, <1>2, <1>3 DEF IInv

\* A row that gives its blocks back (_release) keeps it.
LEMMA ReleaseKeeps ==
  ASSUME IInv, NEW r \in Row, Release(r)
  PROVE  IInv'
  <1>1. ASSUME NEW b \in Block
        PROVE  /\ KeysOf(b)' = KeysOf(b)
               /\ RowsOf(b)' = RowsOf(b) \ {r}
               /\ r \in RowsOf(b) <=> b \in table[r]
    <2>1. KeysOf(b)' = KeysOf(b)
      BY DEF KeysOf, Release
    <2>2. RowsOf(b)' = {x \in Row : b \in table'[x]}
      BY DEF RowsOf
    <2>3. \A x \in Row : b \in table'[x] <=> b \in table[x] /\ x # r
      BY DEF IInv, TypeOK, Release
    <2>q. QED
      BY <2>1, <2>2, <2>3 DEF RowsOf
  <1>2. ASSUME NEW b \in Block
        PROVE  /\ ref'[b] = Cardinality(RowsOf(b)') + Cardinality(KeysOf(b)')
               /\ ref'[b] \in Nat
    <2>0. ref[b] = Cardinality(RowsOf(b)) + Cardinality(KeysOf(b))
      BY DEF IInv, RefExact
    <2>1. /\ IsFiniteSet(RowsOf(b)) /\ Cardinality(RowsOf(b)) \in Nat
          /\ Cardinality(KeysOf(b)) \in Nat
          /\ Cardinality(RowsOf(b) \ {r}) \in Nat
      BY HoldersFinite, FS_RemoveElement, FS_CardinalityType
    <2>2. Cardinality(RowsOf(b) \ {r}) =
            IF b \in table[r] THEN Cardinality(RowsOf(b)) - 1 ELSE Cardinality(RowsOf(b))
      BY <1>1, <2>1, FS_RemoveElement
    <2>3. ref'[b] = IF b \in table[r] THEN ref[b] - 1 ELSE ref[b]
      BY DEF Release
    <2>4. /\ Cardinality(RowsOf(b)') = Cardinality(RowsOf(b) \ {r})
          /\ Cardinality(KeysOf(b)') = Cardinality(KeysOf(b))
      BY <1>1
    <2>q. QED
      BY <2>0, <2>1, <2>2, <2>3, <2>4
  <1>3. TypeOK'
    <2>1. ref' \in [Block -> Nat]
      BY <1>2 DEF Release
    <2>q. QED
      BY <2>1 DEF IInv, TypeOK, Release
  <1>4. RefExact'
    BY <1>2 DEF RefExact
  <1>5. SealedHeld'
    BY DEF IInv, TypeOK, SealedHeld, Release
  <1>6. OpenIsPrivate'
    <2> SUFFICES ASSUME NEW x \in Row, NEW b \in table'[x] \ sealed'[x]
                 PROVE  RowsOf(b)' = {x} /\ KeysOf(b)' = {}
      BY DEF OpenIsPrivate
    <2>1. x # r /\ b \in table[x] \ sealed[x] /\ b \in Block
      BY DEF IInv, TypeOK, Release
    <2>q. QED
      BY <2>1, <1>1 DEF IInv, OpenIsPrivate
  <1>7. StoreIntact'
    BY DEF IInv, StoreIntact, Release
  <1>q. QED
    BY <1>3, <1>4, <1>5, <1>6, <1>7 DEF IInv

-----------------------------------------------------------------------------

(* Only sealed blocks are published, so no open block gains an entry. *)
LEMMA PublishKeeps ==
  ASSUME IInv, NEW r \in Row, NEW k \in Key, NEW whole \in SUBSET sealed[r],
         Publish(r, k, whole)
  PROVE  IInv'
  <1>w. whole \subseteq Block /\ whole \subseteq table[r]
    BY DEF IInv, TypeOK, SealedHeld
  <1>1. ASSUME NEW b \in Block
        PROVE  /\ RowsOf(b)' = RowsOf(b)
               /\ KeysOf(b)' = IF b \in whole THEN KeysOf(b) \cup {k} ELSE KeysOf(b)
               /\ k \notin KeysOf(b)
    <2>1. RowsOf(b)' = RowsOf(b)
      BY DEF RowsOf, Publish
    <2>2. k \notin KeysOf(b)
      BY DEF KeysOf, Publish
    <2>3. KeysOf(b)' = {x \in Key : b \in pinned'[x]}
      BY DEF KeysOf
    <2>4. \A x \in Key : b \in pinned'[x] <=> IF x = k THEN b \in whole ELSE b \in pinned[x]
      BY DEF IInv, TypeOK, Publish
    <2>5. KeysOf(b)' = IF b \in whole THEN KeysOf(b) \cup {k} ELSE KeysOf(b)
      BY <2>2, <2>3, <2>4 DEF KeysOf
    <2>q. QED
      BY <2>1, <2>2, <2>5
  <1>2. TypeOK'
    BY <1>w DEF IInv, TypeOK, Publish
  <1>3. RefExact'
    <2> SUFFICES ASSUME NEW b \in Block
                 PROVE  ref'[b] = Cardinality(RowsOf(b)') + Cardinality(KeysOf(b)')
      BY DEF RefExact
    <2>0. ref[b] = Cardinality(RowsOf(b)) + Cardinality(KeysOf(b))
      BY DEF IInv, RefExact
    <2>1. CASE b \in whole
      <3>1. Cardinality(KeysOf(b)') = Cardinality(KeysOf(b)) + 1
        BY <1>1, <2>1, HoldersFinite, FS_AddElement
      <3>2. ref'[b] = ref[b] + 1 /\ RowsOf(b)' = RowsOf(b)
        BY <1>1, <2>1 DEF Publish
      <3>q. QED
        BY <2>0, <3>1, <3>2, HoldersFinite
    <2>2. CASE b \notin whole
      BY <1>1, <2>0, <2>2 DEF Publish
    <2>q. QED
      BY <2>1, <2>2
  <1>4. SealedHeld'
    BY DEF IInv, SealedHeld, Publish
  <1>5. OpenIsPrivate'
    <2> SUFFICES ASSUME NEW x \in Row, NEW b \in table[x] \ sealed[x]
                 PROVE  RowsOf(b)' = {x} /\ KeysOf(b)' = {}
      BY DEF OpenIsPrivate, Publish
    <2>1. b \in Block /\ RowsOf(b) = {x} /\ KeysOf(b) = {}
      BY DEF IInv, TypeOK, OpenIsPrivate
    <2>2. b \notin whole
      <3> SUFFICES ASSUME b \in whole PROVE FALSE
        OBVIOUS
      <3>1. r \in RowsOf(b)
        BY <1>w DEF RowsOf
      <3>2. x = r
        BY <3>1, <2>1
      <3>q. QED
        BY <3>2
    <2>q. QED
      BY <2>1, <2>2, <1>1
  <1>6. StoreIntact'
    BY <1>w DEF IInv, TypeOK, StoreIntact, Publish
  <1>q. QED
    BY <1>2, <1>3, <1>4, <1>5, <1>6 DEF IInv

\* An entry that is evicted (_drop) keeps it.
LEMMA DropKeeps ==
  ASSUME IInv, NEW k \in Key, Drop(k)
  PROVE  IInv'
  <1>1. ASSUME NEW b \in Block
        PROVE  /\ RowsOf(b)' = RowsOf(b)
               /\ KeysOf(b)' = KeysOf(b) \ {k}
               /\ k \in KeysOf(b) <=> b \in pinned[k]
    <2>1. RowsOf(b)' = RowsOf(b)
      BY DEF RowsOf, Drop
    <2>2. KeysOf(b)' = {x \in Key : b \in pinned'[x]}
      BY DEF KeysOf
    <2>3. \A x \in Key : b \in pinned'[x] <=> b \in pinned[x] /\ x # k
      BY DEF IInv, TypeOK, Drop
    <2>q. QED
      BY <2>1, <2>2, <2>3 DEF KeysOf
  <1>2. ASSUME NEW b \in Block
        PROVE  /\ ref'[b] = Cardinality(RowsOf(b)') + Cardinality(KeysOf(b)')
               /\ ref'[b] \in Nat
    <2>0. ref[b] = Cardinality(RowsOf(b)) + Cardinality(KeysOf(b))
      BY DEF IInv, RefExact
    <2>1. /\ IsFiniteSet(KeysOf(b)) /\ Cardinality(KeysOf(b)) \in Nat
          /\ Cardinality(RowsOf(b)) \in Nat
          /\ Cardinality(KeysOf(b) \ {k}) \in Nat
      BY HoldersFinite, FS_RemoveElement, FS_CardinalityType
    <2>2. Cardinality(KeysOf(b) \ {k}) =
            IF b \in pinned[k] THEN Cardinality(KeysOf(b)) - 1 ELSE Cardinality(KeysOf(b))
      BY <1>1, <2>1, FS_RemoveElement
    <2>3. ref'[b] = IF b \in pinned[k] THEN ref[b] - 1 ELSE ref[b]
      BY DEF Drop
    <2>4. /\ Cardinality(RowsOf(b)') = Cardinality(RowsOf(b))
          /\ Cardinality(KeysOf(b)') = Cardinality(KeysOf(b) \ {k})
      BY <1>1
    <2>q. QED
      BY <2>0, <2>1, <2>2, <2>3, <2>4
  <1>3. TypeOK'
    <2>1. ref' \in [Block -> Nat]
      BY <1>2 DEF Drop
    <2>q. QED
      BY <2>1 DEF IInv, TypeOK, Drop
  <1>4. RefExact'
    BY <1>2 DEF RefExact
  <1>5. SealedHeld'
    BY DEF IInv, SealedHeld, Drop
  <1>6. OpenIsPrivate'
    <2> SUFFICES ASSUME NEW x \in Row, NEW b \in table[x] \ sealed[x]
                 PROVE  RowsOf(b)' = {x} /\ KeysOf(b)' = {}
      BY DEF OpenIsPrivate, Drop
    <2>1. b \in Block /\ RowsOf(b) = {x} /\ KeysOf(b) = {}
      BY DEF IInv, TypeOK, OpenIsPrivate
    <2>q. QED
      BY <2>1, <1>1
  <1>7. StoreIntact'
    BY DEF IInv, TypeOK, StoreIntact, Drop
  <1>q. QED
    BY <1>3, <1>4, <1>5, <1>6, <1>7 DEF IInv

-----------------------------------------------------------------------------

(* IInv is inductive: every operation of the rows and of the store keeps it. *)
LEMMA StepIInv == IInv /\ [Next]_vars => IInv'
  <1> SUFFICES ASSUME IInv, [Next]_vars PROVE IInv'
    OBVIOUS
  <1>1. CASE \E r \in Row : \E hit \in Hits, fresh \in SUBSET Free : Admit(r, hit, fresh)
    BY <1>1, AdmitKeeps
  <1>2. CASE \E r \in Row : \E fresh \in SUBSET Free : Grow(r, fresh)
    BY <1>2, GrowKeeps
  <1>3. CASE Forward
    BY <1>3, ForwardKeeps
  <1>4. CASE \E r \in Row : \E whole \in SUBSET table[r] : Seal(r, whole)
    BY <1>4, SealKeeps
  <1>5. CASE \E r \in Row : Release(r)
    BY <1>5, ReleaseKeeps
  <1>6. CASE \E r \in Row, k \in Key : \E whole \in SUBSET sealed[r] : Publish(r, k, whole)
    BY <1>6, PublishKeeps
  <1>7. CASE \E k \in Key : Drop(k)
    BY <1>7, DropKeeps
  <1>8. CASE UNCHANGED vars
    BY <1>8 DEF vars, IInv, TypeOK, RefExact, SealedHeld, OpenIsPrivate, StoreIntact,
       RowsOf, KeysOf
  <1>q. QED
    BY <1>1, <1>2, <1>3, <1>4, <1>5, <1>6, <1>7, <1>8 DEF Next

\* The inductive invariant holds at all times.
LEMMA InvariantIInv == Spec => []IInv
  BY InitIInv, StepIInv, PTL DEF Spec

-----------------------------------------------------------------------------

(* Every variable of the pool keeps its type; in particular no refcount    *)
(* ever goes below zero, so free_block's double-free error is unreachable. *)
THEOREM TypeCorrect == Spec => []TypeOK
  <1>1. IInv => TypeOK
    BY DEF IInv
  <1>q. QED
    BY <1>1, InvariantIInv, PTL

(* The refcount of every block is the number of its holders, for any pool. *)
THEOREM RefcountsExact == Spec => []RefExact
  <1>1. IInv => RefExact
    BY DEF IInv
  <1>q. QED
    BY <1>1, InvariantIInv, PTL

(* Publishing whole blocks only is enough: with no copy-on-write, a block  *)
(* a row still writes is nobody else's.                                    *)
THEOREM OpenBlocksPrivate == Spec => []OpenIsPrivate
  <1>1. IInv => OpenIsPrivate
    BY DEF IInv
  <1>q. QED
    BY <1>1, InvariantIInv, PTL

(* A prefix hit serves the K/V that was published, for as long as the      *)
(* entry is stored.                                                        *)
THEOREM StoreKeepsContents == Spec => []StoreIntact
  <1>1. IInv => StoreIntact
    BY DEF IInv
  <1>q. QED
    BY <1>1, InvariantIInv, PTL
=============================================================================
