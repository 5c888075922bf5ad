------------------------------ MODULE KvPages ------------------------------
(***************************************************************************)
(* What the paged KV pool promises the rows and the prefix store that      *)
(* share it (kv_cache.py: PagedKvPool and PrefixStore, and the engine's    *)
(* calls of both).                                                         *)
(*                                                                         *)
(* A block is held by rows (req.blocks) and by store entries               *)
(* (_Entry.blocks); refcount counts the holds.  A row's sealed blocks are  *)
(* the whole blocks behind the position its next forward writes: those,    *)
(* and only those, may be published, and a row never writes one again.     *)
(* That is the pool's reason for having no copy-on-write.                  *)
(*                                                                         *)
(* Order is left out: which free block is taken, which entry is evicted    *)
(* and when.  Engine.tla fixes all three and is shown to implement this.   *)
(***************************************************************************)
EXTENDS Integers, FiniteSets

CONSTANTS
  Block,    \* the pool's block ids
  Row,      \* requests
  Key,      \* the token prefixes an entry can be stored under
  Value,    \* what one block's K/V planes can contain
  NoValue   \* saved[k][b] of a block that entry k does not hold

ASSUME FinitenessAssumption ==
  IsFiniteSet(Block) /\ IsFiniteSet(Row) /\ IsFiniteSet(Key)
ASSUME NoValueAssumption == NoValue \notin Value

VARIABLES
  ref,      \* PagedKvPool.refcount
  table,    \* req.blocks, as a set; {} for a row that holds nothing
  sealed,   \* the blocks of table[r] the row's forwards are past
  pinned,   \* _Entry.blocks, as a set; {} for a key that is not stored
  page,     \* k_pool/v_pool: the contents of each block
  saved     \* history: what each stored block contained when it was published

vars == <<ref, table, sealed, pinned, page, saved>>

Free == {b \in Block : ref[b] = 0}

RowsOf(b) == {r \in Row : b \in table[r]}
KeysOf(b) == {k \in Key : b \in pinned[k]}

\* Mutant: a forward may rewrite blocks the row is past.
OpenTable == {b \in Block : \E r \in Row : b \in table[r]}

\* Blocks some row's next forward may write.
Open == {b \in Block : \E r \in Row : b \in table[r] \ sealed[r]}

Init ==
  /\ ref = [b \in Block |-> 0]
  /\ table = [r \in Row |-> {}]
  /\ sealed = [r \in Row |-> {}]
  /\ pinned = [k \in Key |-> {}]
  /\ page \in [Block -> Value]
  /\ saved = [k \in Key |-> [b \in Block |-> NoValue]]

-----------------------------------------------------------------------------
(* Rows *)

\* Mutant: the blocks of the hit are not retained.
AdmitUnretained(r, hit, fresh) ==
  /\ table[r] = {}
  /\ hit \cup fresh # {}
  /\ table' = [table EXCEPT ![r] = hit \cup fresh]
  /\ sealed' = [sealed EXCEPT ![r] = hit]
  /\ ref' = [b \in Block |-> IF b \in fresh THEN 1 ELSE ref[b]]
  /\ UNCHANGED <<pinned, page, saved>>

\* Mutant: the row starts writing at position 0 of the prefix it took over.
AdmitUnsealed(r, hit, fresh) ==
  /\ table[r] = {}
  /\ hit \cup fresh # {}
  /\ table' = [table EXCEPT ![r] = hit \cup fresh]
  /\ ref' = [b \in Block |-> IF b \in fresh THEN 1
                             ELSE IF b \in hit THEN ref[b] + 1 ELSE ref[b]]
  /\ UNCHANGED <<sealed, pinned, page, saved>>

\* Take over a stored prefix (or none), retaining its blocks, and allocate the rest.
Admit(r, hit, fresh) ==
  /\ table[r] = {}
  /\ hit \cup fresh # {}
  /\ table' = [table EXCEPT ![r] = hit \cup fresh]
  /\ sealed' = [sealed EXCEPT ![r] = hit]
  /\ ref' = [b \in Block |-> IF b \in fresh THEN 1
                             ELSE IF b \in hit THEN ref[b] + 1 ELSE ref[b]]
  /\ UNCHANGED <<pinned, page, saved>>

\* Allocate blocks for the positions the next forward writes.
Grow(r, fresh) ==
  /\ table[r] # {}
  /\ table' = [table EXCEPT ![r] = @ \cup fresh]
  /\ ref' = [b \in Block |-> IF b \in fresh THEN 1 ELSE ref[b]]
  /\ UNCHANGED <<sealed, pinned, page, saved>>

\* One forward over any set of rows: it writes open blocks only.
Forward ==
  /\ page' \in [Block -> Value]
  /\ \A b \in Block \ Open : page'[b] = page[b]
  /\ UNCHANGED <<ref, table, sealed, pinned, saved>>

\* The row's write position moved past the end of these blocks.
Seal(r, whole) ==
  /\ sealed' = [sealed EXCEPT ![r] = @ \cup whole]
  /\ UNCHANGED <<ref, table, pinned, page, saved>>

\* Mutant: the row keeps its table, and is released again.
ReleaseAgain(r) ==
  /\ table[r] # {}
  /\ ref' = [b \in Block |-> IF b \in table[r] THEN ref[b] - 1 ELSE ref[b]]
  /\ UNCHANGED <<table, sealed, pinned, page, saved>>

\* _release: every hold of the row is given back.
Release(r) ==
  /\ table[r] # {}
  /\ ref' = [b \in Block |-> IF b \in table[r] THEN ref[b] - 1 ELSE ref[b]]
  /\ table' = [table EXCEPT ![r] = {}]
  /\ sealed' = [sealed EXCEPT ![r] = {}]
  /\ UNCHANGED <<pinned, page, saved>>

-----------------------------------------------------------------------------
(* The prefix store *)

\* PrefixStore.insert of a new key: only whole blocks, each retained.
Publish(r, k, whole) ==
  /\ pinned[k] = {}
  /\ whole # {}
  /\ pinned' = [pinned EXCEPT ![k] = whole]
  /\ ref' = [b \in Block |-> IF b \in whole THEN ref[b] + 1 ELSE ref[b]]
  /\ saved' = [saved EXCEPT ![k] =
                 [b \in Block |-> IF b \in whole THEN page[b] ELSE NoValue]]
  /\ UNCHANGED <<table, sealed, page>>

\* PrefixStore._drop: eviction, retirement by the publisher, clear.
Drop(k) ==
  /\ pinned[k] # {}
  /\ ref' = [b \in Block |-> IF b \in pinned[k] THEN ref[b] - 1 ELSE ref[b]]
  /\ pinned' = [pinned EXCEPT ![k] = {}]
  /\ saved' = [saved EXCEPT ![k] = [b \in Block |-> NoValue]]
  /\ UNCHANGED <<table, sealed, page>>

-----------------------------------------------------------------------------

Hits == {{}} \cup {pinned[k] : k \in Key}

Next ==
  \/ \E r \in Row : \E hit \in Hits, fresh \in SUBSET Free : Admit(r, hit, fresh)
  \/ \E r \in Row : \E fresh \in SUBSET Free : Grow(r, fresh)
  \/ Forward
  \/ \E r \in Row : \E whole \in SUBSET table[r] : Seal(r, whole)
  \/ \E r \in Row : Release(r)
  \/ \E r \in Row, k \in Key : \E whole \in SUBSET sealed[r] : Publish(r, k, whole)
  \/ \E k \in Key : Drop(k)

Spec == Init /\ [][Next]_vars

-----------------------------------------------------------------------------

\* Every variable has its type.
TypeOK ==
  /\ ref \in [Block -> Nat]
  /\ table \in [Row -> SUBSET Block]
  /\ sealed \in [Row -> SUBSET Block]
  /\ pinned \in [Key -> SUBSET Block]
  /\ page \in [Block -> Value]
  /\ saved \in [Key -> [Block -> Value \cup {NoValue}]]

\* A block's refcount is the number of rows and entries that hold it, so a
\* block on the free list is held by nobody and a held one is never handed out.
RefExact ==
  \A b \in Block : ref[b] = Cardinality(RowsOf(b)) + Cardinality(KeysOf(b))

\* The block a row is still writing belongs to that row alone: not to another
\* row's table and not to a published prefix.
OpenIsPrivate ==
  \A r \in Row : \A b \in table[r] \ sealed[r] :
    RowsOf(b) = {r} /\ KeysOf(b) = {}

\* A stored prefix serves exactly the K/V that was published under its key,
\* whatever rows were admitted, grown, freed or forwarded since.
StoreIntact ==
  \A k \in Key : \A b \in pinned[k] : saved[k][b] = page[b]

=============================================================================
