---------------------------- MODULE TiersProofs ----------------------------
(***************************************************************************)
(* For any pool, budgets, prompts, processes and contexts on disk: every   *)
(* entry of the boot store that exists is whole unless it was damaged, and *)
(* what boot accepts is right; the tiers' state keeps its types; the       *)
(* accounts of the card and the host agree with what they hold; and, while *)
(* no prompt of whole pages boots, what rows and entries hold is that of   *)
(* their texts, and what is saved is what a prefill computes.              *)
(***************************************************************************)
EXTENDS TiersInv, SequenceFacts

-----------------------------------------------------------------------------
(* The boot store *)

\* What a save of the key writes into each of its files.
right(key) == [aux |-> State[key], k |-> Kv[key], v |-> Kv[key], manifest |-> Kv[key]]

\* The files that a save in progress has moved already.
moved(left) ==
  CASE left = <<"aux", "k", "v", "manifest">> -> {}
    [] left = <<"k", "v", "manifest">> -> {"aux"}
    [] left = <<"v", "manifest">> -> {"aux", "k"}
    [] left = <<"manifest">> -> {"aux", "k", "v"}

FilesRight ==
  /\ disk \in [Key -> [File -> {Missing, Rotten} \cup {Kv[key] : key \in Key} \cup {State[key] : key \in Key}]]
  /\ \A key \in Key, f \in File : disk[key][f] \in {Missing, Rotten, right(key)[f]}

\* A manifest is there only with the files it describes.
ManifestLast ==
  \A key \in Key : disk[key].manifest # Missing => \A f \in File : disk[key][f] # Missing

SaveRight ==
  saving # NoSave =>
    /\ saving.key \in Key /\ saving.left \in Lefts
    /\ saving = [key |-> saving.key, left |-> saving.left, files |-> right(saving.key)]
    /\ \A f \in moved(saving.left) : disk[saving.key][f] # Missing

BootInv == FilesRight /\ ManifestLast /\ SaveRight

\* Nothing is on disk at first.
LEMMA InitBootInv == BootInit => BootInv
<1> SUFFICES ASSUME BootInit PROVE BootInv
  OBVIOUS
<1>1. \A key \in Key, f \in File : disk[key][f] = Missing
  BY DEF BootInit
<1>2. FilesRight
  BY <1>1 DEF FilesRight, BootInit
<1>3. ManifestLast
  BY <1>1 DEF ManifestLast, File
<1>4. SaveRight
  BY DEF SaveRight, BootInit
<1> QED
  BY <1>2, <1>3, <1>4 DEF BootInv

\* A save starts with nothing moved.
LEMMA SaveBeginBootInv ==
  ASSUME BootInv, NEW key \in Key, SaveBegin(key, Kv[key], State[key])
  PROVE  BootInv'
<1>1. FilesRight' /\ ManifestLast'
  BY DEF BootInv, FilesRight, ManifestLast, SaveBegin
<1>2. saving' = [key |-> key, left |-> moveOrder, files |-> right(key)]
  BY DEF SaveBegin, right
<1>3. moved(moveOrder) = {} /\ moveOrder \in Lefts
  BY DEF moved, moveOrder, Lefts
<1>4. SaveRight'
  BY <1>2, <1>3 DEF SaveRight
<1> QED
  BY <1>1, <1>4 DEF BootInv

\* The first of the files not moved, and those left after it.
LEMMA LeftStep ==
  ASSUME NEW left \in Lefts
  PROVE  /\ Head(left) \in File
         /\ Head(left) = "manifest" => moved(left) = {"aux", "k", "v"}
         /\ Len(left) = 1 <=> Head(left) = "manifest"
         /\ Len(left) # 1 => Tail(left) \in Lefts /\ moved(Tail(left)) = moved(left) \cup {Head(left)}
<1>1. CASE left = <<"aux", "k", "v", "manifest">>
  <2>1. Head(left) = "aux" /\ Tail(left) = <<"k", "v", "manifest">> /\ Len(left) = 4
    BY <1>1
  <2> QED
    BY <1>1, <2>1 DEF Lefts, File, moved
<1>2. CASE left = <<"k", "v", "manifest">>
  <2>1. Head(left) = "k" /\ Tail(left) = <<"v", "manifest">> /\ Len(left) = 3
    BY <1>2
  <2> QED
    BY <1>2, <2>1 DEF Lefts, File, moved
<1>3. CASE left = <<"v", "manifest">>
  <2>1. Head(left) = "v" /\ Tail(left) = <<"manifest">> /\ Len(left) = 2
    BY <1>3
  <2> QED
    BY <1>3, <2>1 DEF Lefts, File, moved
<1>4. CASE left = <<"manifest">>
  <2>1. Head(left) = "manifest" /\ Len(left) = 1
    BY <1>4
  <2> QED
    BY <1>4, <2>1 DEF Lefts, File, moved
<1> QED
  BY <1>1, <1>2, <1>3, <1>4 DEF Lefts

\* A move puts the right file in place, the manifest after all others.
LEMMA SaveMoveBootInv ==
  ASSUME BootInv, SaveMove, BootAssumption
  PROVE  BootInv'
<1> DEFINE key == saving.key
           left == saving.left
           f == Head(left)
<1>1. /\ key \in Key /\ left \in Lefts
      /\ saving = [key |-> key, left |-> left, files |-> right(key)]
      /\ \A g \in moved(left) : disk[key][g] # Missing
  BY DEF BootInv, SaveRight, SaveMove
<1>2. f \in File
  BY <1>1, LeftStep
<1>3. disk' = [disk EXCEPT ![key][f] = right(key)[f]]
  <2>1. saving.files = right(key)
    BY <1>1
  <2>2. disk' = [disk EXCEPT ![key][f] = saving.files[f]]
    BY DEF SaveMove
  <2> QED
    BY <2>1, <2>2
<1>4. /\ right(key)[f] # Missing
      /\ right(key)[f] \in {Kv[k] : k \in Key} \cup {State[k] : k \in Key}
  <2>1. right(key)[f] = Kv[key] \/ right(key)[f] = State[key]
    BY <1>2 DEF right, File
  <2>2. Kv[key] # Missing /\ State[key] # Missing
    BY <1>1, BootAssumption DEF BootAssumption
  <2> QED
    BY <1>1, <2>1, <2>2
<1>5. /\ disk'[key][f] = right(key)[f]
      /\ \A k \in Key, g \in File : k # key \/ g # f => disk'[k][g] = disk[k][g]
  BY <1>1, <1>2, <1>3 DEF BootInv, FilesRight
<1>6. FilesRight'
  <2>1. disk' \in [Key -> [File -> {Missing, Rotten} \cup {Kv[k] : k \in Key} \cup {State[k] : k \in Key}]]
    BY <1>1, <1>2, <1>3, <1>4 DEF BootInv, FilesRight
  <2>2. \A k \in Key, g \in File : disk'[k][g] \in {Missing, Rotten, right(k)[g]}
    BY <1>5 DEF BootInv, FilesRight
  <2> QED
    BY <2>1, <2>2 DEF FilesRight, right
<1>7. ManifestLast'
  <2> SUFFICES ASSUME NEW k \in Key, disk'[k].manifest # Missing, NEW g \in File
               PROVE  disk'[k][g] # Missing
    BY DEF ManifestLast
  <2>1. CASE k # key
    BY <2>1, <1>5 DEF BootInv, ManifestLast, File
  <2>2. CASE k = key /\ f = "manifest"
    BY <2>2, <1>1, <1>4, <1>5, LeftStep DEF File
  <2>3. CASE k = key /\ f # "manifest"
    BY <2>3, <1>4, <1>5 DEF BootInv, ManifestLast, File
  <2> QED
    BY <2>1, <2>2, <2>3
<1>8. SaveRight'
  <2>1. CASE Len(left) = 1
    BY <2>1, <1>1 DEF SaveMove, SaveRight
  <2>2. CASE Len(left) # 1
    <3>1. saving' = [key |-> key, left |-> Tail(left), files |-> right(key)]
      <4>1. saving' = [saving EXCEPT !.left = Tail(left)]
        BY <2>2 DEF SaveMove
      <4>2. [saving EXCEPT !.left = Tail(left)]
              = [[key |-> key, left |-> left, files |-> right(key)] EXCEPT !.left = Tail(left)]
        BY <1>1
      <4> QED
        BY <4>1, <4>2
    <3>2. Tail(left) \in Lefts /\ moved(Tail(left)) = moved(left) \cup {f}
      BY <2>2, <1>1, LeftStep
    <3>3. moved(left) \subseteq File
      BY <1>1 DEF moved, Lefts, File
    <3>4. \A g \in moved(Tail(left)) : disk'[key][g] # Missing
      BY <3>2, <3>3, <1>1, <1>4, <1>5
    <3> QED
      BY <3>1, <3>2, <3>4, <1>1 DEF SaveRight
  <2> QED
    BY <2>1, <2>2
<1> QED
  BY <1>6, <1>7, <1>8 DEF BootInv

\* Damage takes nothing away.
LEMMA RotBootInv ==
  ASSUME BootInv, BootAssumption, NEW key \in Key, NEW f \in File, Rot(key, f)
  PROVE  BootInv'
<1>1. disk' = [disk EXCEPT ![key][f] = Rotten] /\ saving' = saving
  BY DEF Rot
<1>2. /\ disk'[key][f] = Rotten
      /\ \A k \in Key, g \in File : k # key \/ g # f => disk'[k][g] = disk[k][g]
  BY <1>1 DEF BootInv, FilesRight
<1>3. Rotten # Missing /\ disk[key][f] # Missing
  BY DEF BootAssumption, Rot
<1>4. \A k \in Key, g \in File : disk'[k][g] = Missing <=> disk[k][g] = Missing
  BY <1>2, <1>3
<1>5. FilesRight'
  BY <1>1, <1>2 DEF BootInv, FilesRight, right
<1>6. ManifestLast'
  BY <1>4 DEF BootInv, ManifestLast, File
<1>7. SaveRight'
  <2>1. \A left \in Lefts : moved(left) \subseteq File
    BY DEF moved, Lefts, File
  <2> QED
    BY <1>1, <1>4, <2>1 DEF BootInv, SaveRight
<1> QED
  BY <1>5, <1>6, <1>7 DEF BootInv

\* The invariant says what it is for.
LEMMA BootInvWhole == ASSUME BootInv, BootAssumption PROVE BootWhole
<1> SUFFICES ASSUME NEW key \in Key
             PROVE  /\ loads(key) => whole(key)
                    /\ exists(key) /\ (\A f \in File : disk[key][f] # Rotten) => loads(key)
  BY DEF BootWhole
<1>1. /\ disk[key].k \in {Missing, Rotten, Kv[key]} /\ disk[key].v \in {Missing, Rotten, Kv[key]}
      /\ disk[key].manifest \in {Missing, Rotten, Kv[key]}
      /\ disk[key].aux \in {Missing, Rotten, State[key]}
  BY DEF BootInv, FilesRight, File, right
<1>2. loads(key) => whole(key)
  BY <1>1 DEF loads, exists, whole
<1>3. exists(key) /\ (\A f \in File : disk[key][f] # Rotten) => loads(key)
  BY <1>1 DEF loads, exists, BootInv, ManifestLast, File, BootAssumption
<1> QED
  BY <1>2, <1>3

\* The boot store keeps its promise: wherever saves are cut off and whatever is damaged,
\* an undamaged entry that exists is whole, and boot accepts nothing but the key's own
\* K, V and state (KvBootStore.save, exists, boot).
THEOREM BootStoreWhole == BootSpec => []BootWhole
<1>1. BootInit => BootInv
  BY InitBootInv
<1>2. BootInv /\ [BootNext]_bootVars => BootInv'
  <2> SUFFICES ASSUME BootInv, [BootNext]_bootVars PROVE BootInv'
    OBVIOUS
  <2>1. ASSUME NEW key \in Key, SaveBegin(key, Kv[key], State[key]) PROVE BootInv'
    BY <2>1, SaveBeginBootInv
  <2>2. CASE SaveMove
    BY <2>2, SaveMoveBootInv, BootAssumption
  <2>3. CASE SaveLost
    BY <2>3 DEF SaveLost, BootInv, FilesRight, ManifestLast, SaveRight
  <2>4. ASSUME NEW key \in Key, NEW f \in File, Rot(key, f) PROVE BootInv'
    BY <2>4, RotBootInv, BootAssumption
  <2>5. CASE UNCHANGED bootVars
    BY <2>5 DEF bootVars, BootInv, FilesRight, ManifestLast, SaveRight
  <2> QED
    BY <2>1, <2>2, <2>3, <2>4, <2>5 DEF BootNext
<1>3. BootInv => BootWhole
  BY BootInvWhole, BootAssumption
<1> QED
  BY <1>1, <1>2, <1>3, PTL DEF BootSpec

-----------------------------------------------------------------------------
(* How a store comes from another *)

LEMMA FromSelf == ASSUME NEW c, NEW d, Range(d.entries) \subseteq Range(c.entries), Range(d.held) \subseteq Range(c.held)
                  PROVE  From(d, c)
BY DEF From, snapshotIn

LEMMA FromFrom ==
  ASSUME NEW c, NEW d, NEW e, From(e, d), From(d, c)
  PROVE  From(e, c)
<1>1. ASSUME NEW text, NEW s, snapshotIn(d, text, s) PROVE snapshotIn(c, text, s)
  <2>1. CASE \E f \in Range(d.entries) : ~ f.demoted /\ f.text = text /\ f.state = s
    BY <2>1 DEF From
  <2>2. CASE \E h \in Range(d.held) : h.text = text /\ h.state = s
    BY <2>2 DEF From
  <2> QED
    BY <1>1, <2>1, <2>2 DEF snapshotIn
<1>2. ASSUME NEW f \in Range(e.entries)
      PROVE  \E g \in Range(c.entries) : g.text = f.text /\ g.blocks = f.blocks
  <2>1. PICK g \in Range(d.entries) : g.text = f.text /\ g.blocks = f.blocks
    BY DEF From
  <2>2. PICK x \in Range(c.entries) : x.text = g.text /\ x.blocks = g.blocks
    BY DEF From
  <2> QED
    BY <2>1, <2>2
<1>3. ASSUME NEW f \in Range(e.entries) PROVE f.demoted \/ snapshotIn(c, f.text, f.state)
  BY <1>1 DEF From
<1>4. ASSUME NEW h \in Range(e.held) PROVE snapshotIn(c, h.text, h.state)
  BY <1>1 DEF From
<1> QED
  BY <1>2, <1>3, <1>4 DEF From

\* What comes from a store that serves the right contents serves them too.
LEMMA SnapshotServes ==
  ASSUME NEW c, NEW cl, NEW w, StoreServes(c, cl, w), NEW text, NEW s, snapshotIn(c, text, s)
  PROVE  s = at(text, Len(text), w)
BY DEF StoreServes, snapshotIn

LEMMA FromServes ==
  ASSUME NEW c, NEW d, From(d, c), NEW cl, NEW w, StoreServes(c, cl, w)
  PROVE  StoreServes(d, cl, w)
<1>1. ASSUME NEW e \in Range(d.entries) PROVE pagesRight(e.text, e.blocks, Len(e.text), cl, w)
  <2>1. PICK f \in Range(c.entries) : f.text = e.text /\ f.blocks = e.blocks
    BY DEF From
  <2> QED
    BY <2>1 DEF StoreServes
<1>2. ASSUME NEW e \in Range(d.entries) PROVE e.demoted \/ e.state = at(e.text, Len(e.text), w)
  BY SnapshotServes DEF From
<1>3. ASSUME NEW h \in Range(d.held) PROVE h.state = at(h.text, Len(h.text), w)
  BY SnapshotServes DEF From
<1> QED
  BY <1>1, <1>2, <1>3 DEF StoreServes

-----------------------------------------------------------------------------
(* Entries and their blocks *)

\* The places of a set's elements in a list are as many as the elements.
LEMMA CountPlaces ==
  ASSUME NEW S, NEW s \in Seq(S), IsInjective(s), NEW J \in SUBSET (1 .. Len(s)),
         NEW T, T = {s[i] : i \in J}
  PROVE  Cardinality(J) = Cardinality(T) /\ IsFiniteSet(T)
<1> DEFINE f == [i \in J |-> s[i]]
<1>1. Len(s) \in Nat /\ \A i, j \in 1 .. Len(s) : s[i] = s[j] => i = j
  BY RangeOf, LenProperties
<1>2. IsFiniteSet(J)
  <2>1. \A n \in Nat : IsFiniteSet(1 .. n)
    BY FS_Interval
  <2>2. IsFiniteSet(1 .. Len(s))
    BY <1>1, <2>1
  <2> QED
    BY <2>2, FS_Subset
<1>3. f \in Bijection(J, T)
  <2>1. f \in [J -> T]
    OBVIOUS
  <2>2. \A a, b \in J : f[a] = f[b] => a = b
    BY <1>1
  <2>3. \A t \in T : \E a \in J : f[a] = t
    OBVIOUS
  <2> HIDE DEF f
  <2>4. f \in Injection(J, T)
    BY <2>1, <2>2 DEF Injection, IsInjective
  <2>5. f \in Surjection(J, T)
    BY <2>1, <2>3 DEF Surjection
  <2> QED
    BY <2>4, <2>5 DEF Bijection
<1> HIDE DEF f
<1>4. Cardinality(T) = Cardinality(J) /\ IsFiniteSet(T)
  <2>1. ExistsBijection(J, T)
    BY <1>3 DEF ExistsBijection
  <2> QED
    BY <1>2, <2>1, FS_Bijection
<1> QED
  BY <1>4

\* What is in a list is finite.
LEMMA FiniteRange ==
  ASSUME NEW S, NEW s \in Seq(S), NEW T \in SUBSET Range(s)
  PROVE  IsFiniteSet(T) /\ Cardinality(T) \in Nat
<1>1. s \in [1 .. Len(s) -> S] /\ Len(s) \in Nat /\ Range(s) = {s[i] : i \in 1 .. Len(s)}
  BY LenProperties, RangeOf
<1>2. \A n \in Nat : IsFiniteSet(1 .. n)
  BY FS_Interval
<1>3. s \in Surjection(1 .. Len(s), Range(s))
  BY <1>1 DEF Surjection
<1>4. IsFiniteSet(Range(s))
  BY <1>1, <1>2, <1>3, FS_Surjection
<1> QED
  BY <1>4, FS_Subset, FS_CardinalityType

\* What a store is made of.
LEMMA BooksOf ==
  ASSUME NEW c, NEW own, Books(c, own)
  PROVE  /\ c.entries \in Seq(Entry) /\ IsInjective(c.entries) /\ c.held \in Seq(Held) /\ IsInjective(c.held)
         /\ Len(c.entries) \in Nat /\ DOMAIN c.entries = 1 .. Len(c.entries)
         /\ Len(c.held) \in Nat /\ DOMAIN c.held = 1 .. Len(c.held)
         /\ Range(c.entries) = {c.entries[i] : i \in 1 .. Len(c.entries)}
         /\ Range(c.held) = {c.held[i] : i \in 1 .. Len(c.held)}
         /\ c.used \in Int /\ c.heldBytes \in Int /\ c.ref \in [Block -> Int]
         /\ \A e \in Range(c.entries) : /\ e \in Entry /\ e.text \in Seq(Page) /\ e.blocks \in Seq(Block)
                                        /\ e.state \in History /\ e.demoted \in BOOLEAN
                                        /\ Len(e.blocks) = Len(e.text) /\ IsInjective(e.blocks)
         /\ \A h \in Range(c.held) : h \in Held /\ h.text \in Seq(Page) /\ h.state \in History
<1>1. c \in StoreType /\ EntriesRight(c.entries) /\ HeldRight(c.entries, c.held)
  BY DEF Books
<1>2. c.entries \in Seq(Entry) /\ c.held \in Seq(Held) /\ c.used \in Int /\ c.heldBytes \in Int /\ c.ref \in [Block -> Int]
  BY <1>1 DEF StoreType
<1>3. /\ Range(c.entries) = {c.entries[i] : i \in 1 .. Len(c.entries)} /\ Range(c.entries) \subseteq Entry
      /\ Range(c.held) = {c.held[i] : i \in 1 .. Len(c.held)} /\ Range(c.held) \subseteq Held
  BY <1>2, RangeOf
<1>4. /\ Len(c.entries) \in Nat /\ DOMAIN c.entries = 1 .. Len(c.entries)
      /\ Len(c.held) \in Nat /\ DOMAIN c.held = 1 .. Len(c.held)
  BY <1>2, LenProperties
<1>5. ASSUME NEW e \in Range(c.entries)
      PROVE  /\ e \in Entry /\ e.text \in Seq(Page) /\ e.blocks \in Seq(Block)
             /\ e.state \in History /\ e.demoted \in BOOLEAN
             /\ Len(e.blocks) = Len(e.text) /\ IsInjective(e.blocks)
  <2>1. e \in Entry
    BY <1>3
  <2> QED
    BY <1>1, <2>1 DEF Entry, EntriesRight
<1>6. ASSUME NEW h \in Range(c.held) PROVE h \in Held /\ h.text \in Seq(Page) /\ h.state \in History
  <2>1. h \in Held
    BY <1>3
  <2> QED
    BY <2>1 DEF Held
<1> QED
  BY <1>1, <1>2, <1>3, <1>4, <1>5, <1>6 DEF EntriesRight, HeldRight

\* What the rows may own of the blocks.
Own == [Block -> Nat]

\* The entries of a list at some places, and how many of them have a property.
LEMMA CountEntries ==
  ASSUME NEW s \in Seq(Entry), IsInjective(s), NEW I \in SUBSET (1 .. Len(s))
  PROVE  LET G == {s[i] : i \in I}
         IN  /\ G \subseteq Range(s)
             /\ \A b : Cardinality({i \in I : b \in Range(s[i].blocks)}) = Cardinality(G \cap entriesWith(s, b))
             /\ Cardinality({i \in I : ~ s[i].demoted}) = Cardinality(G \cap onCard(s))
<1> DEFINE G == {s[i] : i \in I}
<1>1. Range(s) = {s[i] : i \in 1 .. Len(s)}
  BY RangeOf
<1>2. G \subseteq Range(s)
  BY <1>1
<1>3. ASSUME NEW b PROVE Cardinality({i \in I : b \in Range(s[i].blocks)}) = Cardinality(G \cap entriesWith(s, b))
  <2> DEFINE J == {i \in I : b \in Range(s[i].blocks)}
             T == G \cap entriesWith(s, b)
  <2>1. J \in SUBSET (1 .. Len(s)) /\ T = {s[i] : i \in J}
    BY <1>2 DEF entriesWith
  <2> HIDE DEF J, T
  <2>2. Cardinality(J) = Cardinality(T)
    BY <2>1, CountPlaces
  <2> QED
    BY <2>2 DEF J, T
<1>4. Cardinality({i \in I : ~ s[i].demoted}) = Cardinality(G \cap onCard(s))
  <2> DEFINE J == {i \in I : ~ s[i].demoted}
             T == G \cap onCard(s)
  <2>1. J \in SUBSET (1 .. Len(s)) /\ T = {s[i] : i \in J}
    BY <1>2 DEF onCard
  <2> HIDE DEF J, T
  <2>2. Cardinality(J) = Cardinality(T)
    BY <2>1, CountPlaces
  <2> QED
    BY <2>2 DEF J, T
<1> QED
  BY <1>2, <1>3, <1>4

\* The entries that are left when some go.
LEMMA EntriesWithout ==
  ASSUME NEW es \in Seq(Entry), EntriesRight(es), NEW fs \in Seq(Entry), IsInjective(fs),
         NEW G \in SUBSET Range(es), Range(fs) = Range(es) \ G
  PROVE  /\ EntriesRight(fs)
         /\ Cardinality(onCard(fs)) = Cardinality(onCard(es)) - Cardinality(G \cap onCard(es))
         /\ \A b : Cardinality(entriesWith(fs, b)) = Cardinality(entriesWith(es, b)) - Cardinality(G \cap entriesWith(es, b))
<1>1. EntriesRight(fs)
  BY DEF EntriesRight
<1>2. ASSUME NEW A \in SUBSET Range(es), NEW B, B = A \ G, NEW C, C = G \cap A
      PROVE  Cardinality(B) = Cardinality(A) - Cardinality(C)
  <2>1. IsFiniteSet(A)
    BY FiniteRange
  <2>2. Cardinality(A \ G) = Cardinality(A) - Cardinality(A \cap G)
    BY <2>1, FS_Difference
  <2>3. A \cap G = C
    BY <1>2
  <2> QED
    BY <1>2, <2>2, <2>3
<1>3. Cardinality(onCard(fs)) = Cardinality(onCard(es)) - Cardinality(G \cap onCard(es))
  <2>1. onCard(es) \in SUBSET Range(es) /\ onCard(fs) = onCard(es) \ G
    BY DEF onCard
  <2> QED
    BY <1>2, <2>1
<1>4. ASSUME NEW b PROVE Cardinality(entriesWith(fs, b)) = Cardinality(entriesWith(es, b)) - Cardinality(G \cap entriesWith(es, b))
  <2>1. entriesWith(es, b) \in SUBSET Range(es) /\ entriesWith(fs, b) = entriesWith(es, b) \ G
    BY DEF entriesWith
  <2> QED
    BY <1>2, <2>1
<1> QED
  BY <1>1, <1>3, <1>4

\* The entries at some places.
entriesAt(c, I) == {c.entries[i] : i \in I}

\* _drop: the entries, what they held and their snapshots go together, and the books of
\* what is left are right.
LEMMA DroppedKeeps ==
  ASSUME NEW own \in Own, NEW c, Books(c, own), NEW I \in SUBSET (1 .. Len(c.entries))
  PROVE  /\ Books(dropped(c, I), own)
         /\ Range(dropped(c, I).entries) = Range(c.entries) \ entriesAt(c, I)
         /\ \A h : h \in Range(dropped(c, I).held)
                     <=> h \in Range(c.held) /\ \A e \in entriesAt(c, I) : e.text # h.text
<1> PICK G : G = {c.entries[i] : i \in I}
  OBVIOUS
<1> DEFINE es == c.entries
           hs == c.held
           gone == {es[i].text : i \in I}
           fs == those(es, {e \in Range(es) : e.text \notin gone})
           gs == those(hs, {h \in Range(hs) : h.text \notin gone})
           d == dropped(c, I)
<1>1. /\ es \in Seq(Entry) /\ IsInjective(es) /\ hs \in Seq(Held) /\ IsInjective(hs)
      /\ Len(hs) \in Nat /\ DOMAIN es = 1 .. Len(es)
      /\ Range(es) = {es[i] : i \in 1 .. Len(es)} /\ Range(es) \subseteq Entry
      /\ c.used \in Int /\ c.heldBytes \in Int /\ c.ref \in [Block -> Int]
  BY BooksOf
<1>2. /\ c \in StoreType /\ EntriesRight(es) /\ HeldRight(es, hs) /\ c.used = Cardinality(onCard(es))
      /\ c.heldBytes = Len(hs) /\ Len(hs) <= DramBytes
      /\ \A b \in Block : c.ref[b] = own[b] + Cardinality(entriesWith(es, b))
  BY DEF Books
<1>3. /\ fs \in Seq(Entry) /\ IsInjective(fs) /\ Range(fs) = Range(es) \cap {e \in Range(es) : e.text \notin gone}
      /\ gs \in Seq(Held) /\ IsInjective(gs) /\ Range(gs) = Range(hs) \cap {h \in Range(hs) : h.text \notin gone}
      /\ Len(gs) <= Len(hs) /\ Len(gs) \in Nat
  <2> DEFINE T == {e \in Range(es) : e.text \notin gone}
             U == {h \in Range(hs) : h.text \notin gone}
  <2> HIDE DEF T, U, es, hs
  <2>1. those(es, T) \in Seq(Entry) /\ IsInjective(those(es, T)) /\ Range(those(es, T)) = Range(es) \cap T
    BY <1>1, ThoseOf
  <2>2. /\ those(hs, U) \in Seq(Held) /\ IsInjective(those(hs, U)) /\ Range(those(hs, U)) = Range(hs) \cap U
        /\ Len(those(hs, U)) <= Len(hs)
    BY <1>1, ThoseOf
  <2>3. Len(those(hs, U)) \in Nat
    BY <2>2, LenProperties
  <2> QED
    BY <2>1, <2>2, <2>3 DEF T, U
<1>4. G \in SUBSET Range(es) /\ Range(fs) = Range(es) \ G
  <2>1. G \in SUBSET Range(es) /\ gone = {e.text : e \in G}
    BY <1>1
  <2>2. \A e, f \in Range(es) : e.text = f.text => e = f
    BY <1>2 DEF EntriesRight
  <2> HIDE DEF fs, gone, es
  <2>3. \A e \in Range(es) : e.text \in gone <=> e \in G
    BY <2>1, <2>2
  <2> QED
    BY <1>3, <2>1, <2>3
<1>5. d = [c EXCEPT !.entries = fs, !.ref = [b \in Block |-> c.ref[b] - holds(c, I, b)],
                    !.used = c.used - Cardinality({i \in I : ~es[i].demoted}), !.held = gs,
                    !.heldBytes = c.heldBytes - (Len(hs) - Len(gs))]
  BY DEF dropped
<1>6. Range(gs) = {h \in Range(hs) : \A e \in G : e.text # h.text}
  BY <1>3
<1> HIDE DEF fs, gs, gone, es, hs
<1>7. /\ EntriesRight(fs) /\ Cardinality(onCard(fs)) = Cardinality(onCard(es)) - Cardinality(G \cap onCard(es))
      /\ \A b : Cardinality(entriesWith(fs, b)) = Cardinality(entriesWith(es, b)) - Cardinality(G \cap entriesWith(es, b))
  <2>1. es \in Seq(Entry) /\ EntriesRight(es) /\ fs \in Seq(Entry) /\ IsInjective(fs)
    BY <1>1, <1>2, <1>3
  <2> QED
    BY <2>1, <1>4, EntriesWithout
<1>8. /\ \A b : holds(c, I, b) = Cardinality(G \cap entriesWith(es, b))
      /\ Cardinality({i \in I : ~ es[i].demoted}) = Cardinality(G \cap onCard(es))
  <2>1. PICK s : s = es
    OBVIOUS
  <2>2. s \in Seq(Entry) /\ IsInjective(s) /\ I \in SUBSET (1 .. Len(s)) /\ G = {s[i] : i \in I}
    BY <1>1, <2>1 DEF es
  <2>3. /\ \A b : Cardinality({i \in I : b \in Range(s[i].blocks)}) = Cardinality(G \cap entriesWith(s, b))
        /\ Cardinality({i \in I : ~ s[i].demoted}) = Cardinality(G \cap onCard(s))
    BY <2>2, CountEntries
  <2> QED
    BY <2>1, <2>3 DEF holds, es
<1>9. /\ d.entries = fs /\ d.held = gs /\ d.used = Cardinality(onCard(fs)) /\ d.heldBytes = Len(gs)
      /\ d.used \in Int /\ d.heldBytes \in Int /\ d.ref = [b \in Block |-> c.ref[b] - holds(c, I, b)]
      /\ d = [entries |-> fs, used |-> d.used, held |-> gs, heldBytes |-> d.heldBytes, ref |-> d.ref]
      /\ c.entries = es
  <2>1. \A T \in SUBSET Range(es) : Cardinality(T) \in Nat
    BY <1>1, FiniteRange
  <2>2. Cardinality(G \cap onCard(es)) \in Nat /\ onCard(es) \in SUBSET Range(es)
    BY <1>4, <2>1 DEF onCard
  <2> HIDE DEF d
  <2>3. c = [entries |-> es, used |-> c.used, held |-> hs, heldBytes |-> c.heldBytes, ref |-> c.ref]
    BY <1>2 DEF StoreType, es, hs
  <2>4. /\ d = [entries |-> fs, used |-> c.used - Cardinality({i \in I : ~es[i].demoted}), held |-> gs,
                heldBytes |-> c.heldBytes - (Len(hs) - Len(gs)), ref |-> [b \in Block |-> c.ref[b] - holds(c, I, b)]]
    BY <1>5, <2>3
  <2>5. Cardinality(onCard(es)) \in Nat
    BY <2>1, <2>2
  <2>6. c.used - Cardinality({i \in I : ~es[i].demoted}) = Cardinality(onCard(fs)) /\ Cardinality(onCard(fs)) \in Int
    BY <1>2, <1>7, <1>8, <2>2, <2>5
  <2>7. c.heldBytes - (Len(hs) - Len(gs)) = Len(gs)
    BY <1>1, <1>2, <1>3
  <2>8. d = [entries |-> fs, used |-> Cardinality(onCard(fs)), held |-> gs, heldBytes |-> Len(gs),
             ref |-> [b \in Block |-> c.ref[b] - holds(c, I, b)]]
    BY <2>4, <2>6, <2>7
  <2> QED
    BY <1>3, <2>6, <2>8 DEF es
<1>10. ASSUME NEW b \in Block PROVE d.ref[b] = own[b] + Cardinality(entriesWith(fs, b)) /\ d.ref[b] \in Int
  <2>1. \A T \in SUBSET Range(es) : Cardinality(T) \in Nat
    BY <1>1, FiniteRange
  <2>2. Cardinality(G \cap entriesWith(es, b)) \in Nat /\ Cardinality(entriesWith(es, b)) \in Nat
    BY <1>4, <2>1 DEF entriesWith
  <2>3. own[b] \in Nat
    BY DEF Own
  <2>4. c.ref[b] = own[b] + Cardinality(entriesWith(es, b))
    BY <1>2
  <2>5. Cardinality(entriesWith(fs, b)) = Cardinality(entriesWith(es, b)) - Cardinality(G \cap entriesWith(es, b))
    BY <1>7
  <2>6. d.ref[b] = c.ref[b] - Cardinality(G \cap entriesWith(es, b))
    BY <1>8, <1>9
  <2> QED
    BY ONLY <2>2, <2>3, <2>4, <2>5, <2>6
<1>11. HeldRight(fs, gs)
  <2>1. ASSUME NEW h \in Range(gs) PROVE \E e \in Range(fs) : e.demoted /\ e.text = h.text
    <3>1. h \in Range(hs) /\ \A e \in G : e.text # h.text
      BY <1>6
    <3>2. PICK e \in Range(es) : e.demoted /\ e.text = h.text
      BY <1>2, <3>1 DEF HeldRight
    <3>3. e \in Range(fs)
      BY <1>4, <3>1, <3>2
    <3> QED
      BY <3>2, <3>3
  <2> QED
    BY <1>2, <1>3, <2>1 DEF HeldRight
<1>12. d \in StoreType
  <2>1. d.ref \in [Block -> Int]
    BY <1>9, <1>10
  <2> QED
    BY <1>1, <1>3, <1>9, <2>1 DEF StoreType
<1>13. Books(d, own)
  <2>1. Len(gs) <= DramBytes
    BY <1>1, <1>2, <1>3, StoreAssumption
  <2> HIDE DEF d
  <2> QED
    BY <1>7, <1>9, <1>10, <1>11, <1>12, <2>1 DEF Books
<1> QED
  BY <1>4, <1>6, <1>9, <1>13 DEF es, hs, entriesAt

LEMMA DroppedFrom ==
  ASSUME NEW own \in Own, NEW c, Books(c, own), NEW I \in SUBSET (1 .. Len(c.entries))
  PROVE  From(dropped(c, I), c)
<1>1. /\ Range(dropped(c, I).entries) = Range(c.entries) \ entriesAt(c, I)
      /\ \A h : h \in Range(dropped(c, I).held)
                  <=> h \in Range(c.held) /\ \A e \in entriesAt(c, I) : e.text # h.text
  BY DroppedKeeps
<1>2. PICK d : d = dropped(c, I)
  OBVIOUS
<1>3. Range(d.entries) \subseteq Range(c.entries) /\ Range(d.held) \subseteq Range(c.held)
  BY <1>1, <1>2
<1> QED
  BY <1>2, <1>3, FromSelf

\* clear, retire_extended and evict_until_free only drop.
LEMMA DropsKeep ==
  ASSUME NEW own \in Own, NEW c, Books(c, own)
  PROVE  /\ Books(cleared(c), own) /\ From(cleared(c), c)
         /\ \A text : Books(retired(c, text), own) /\ From(retired(c, text), c)
         /\ \A n \in Int : Books(evictedUntil(c, n), own) /\ From(evictedUntil(c, n), c)
<1>1. Len(c.entries) \in Nat /\ DOMAIN c.entries = 1 .. Len(c.entries)
  BY BooksOf
<1>2. \A I \in SUBSET (1 .. Len(c.entries)) : Books(dropped(c, I), own) /\ From(dropped(c, I), c)
  BY DroppedKeeps, DroppedFrom
<1>3. Books(cleared(c), own) /\ From(cleared(c), c)
  BY <1>1, <1>2 DEF cleared
<1>4. ASSUME NEW text PROVE Books(retired(c, text), own) /\ From(retired(c, text), c)
  BY <1>1, <1>2 DEF retired
<1>5. ASSUME NEW n \in Int PROVE Books(evictedUntil(c, n), own) /\ From(evictedUntil(c, n), c)
  <2> DEFINE enough == {k \in 0 .. Len(c.entries) : free(dropped(c, 1 .. k)) >= n}
             k == IF enough = {} THEN Len(c.entries) ELSE Min(enough)
  <2>1. evictedUntil(c, n) = dropped(c, 1 .. k)
    BY DEF evictedUntil
  <2>2. enough # {} => Min(enough) \in enough
    <3>1. enough \in SUBSET Nat
      BY <1>1
    <3> HIDE DEF enough
    <3>2. enough # {} => \E m \in enough : \A j \in enough : m <= j
      BY <3>1, LeastOf
    <3> QED
      BY <3>2 DEF Min
  <2>3. k \in 0 .. Len(c.entries)
    BY <1>1, <2>2
  <2> HIDE DEF k
  <2>4. 1 .. k \in SUBSET (1 .. Len(c.entries))
    BY <1>1, <2>3
  <2> QED
    BY <1>2, <2>1, <2>4
<1> QED
  BY <1>3, <1>4, <1>5

\* An entry in the place of one with the same text and blocks.
LEMMA EntryReplaced ==
  ASSUME NEW es \in Seq(Entry), EntriesRight(es), NEW i \in 1 .. Len(es),
         NEW e \in Entry, e.text = es[i].text, e.blocks = es[i].blocks
  PROVE  LET fs == [es EXCEPT ![i] = e]
         IN  /\ fs \in Seq(Entry) /\ Len(fs) = Len(es) /\ EntriesRight(fs)
             /\ Range(fs) = (Range(es) \ {es[i]}) \cup {e}
             /\ \A b : Cardinality(entriesWith(fs, b)) = Cardinality(entriesWith(es, b))
<1> PICK fs : fs = [es EXCEPT ![i] = e]
  OBVIOUS
<1>1. /\ Range(es) = {es[j] : j \in 1 .. Len(es)} /\ \A j, k \in 1 .. Len(es) : es[j] = es[k] => j = k
      /\ Range(es) \subseteq Entry /\ Len(es) \in Nat
  BY RangeOf, LenProperties DEF EntriesRight
<1>2. /\ \A a, f \in Range(es) : a.text = f.text => a = f
      /\ \A a \in Range(es) : Len(a.blocks) = Len(a.text) /\ IsInjective(a.blocks)
  BY DEF EntriesRight
<1>3. fs \in Seq(Entry) /\ Len(fs) = Len(es) /\ fs[i] = e /\ \A j \in 1 .. Len(es) : j # i => fs[j] = es[j]
  OBVIOUS
<1>4. Range(fs) = {fs[j] : j \in 1 .. Len(es)}
  <2>1. fs \in Seq(Entry)
    BY <1>3
  <2>2. Range(fs) = {fs[j] : j \in 1 .. Len(fs)}
    BY ONLY <2>1, RangeOf
  <2> QED
    BY ONLY <2>2, <1>3
<1>5. Range(fs) = (Range(es) \ {es[i]}) \cup {e}
  <2>1. ASSUME NEW j \in 1 .. Len(es) PROVE fs[j] \in (Range(es) \ {es[i]}) \cup {e}
    BY <1>1, <1>3
  <2>2. ASSUME NEW j \in 1 .. Len(es), es[j] # es[i] PROVE es[j] \in Range(fs)
    <3>1. fs[j] = es[j]
      BY <1>3, <2>2
    <3> QED
      BY <1>4, <3>1
  <2>3. e \in Range(fs)
    BY <1>3, <1>4
  <2>4. \A x \in Range(fs) : x \in (Range(es) \ {es[i]}) \cup {e}
    BY <1>4, <2>1
  <2>5. \A x \in Range(es) : x # es[i] => x \in Range(fs)
    BY <1>1, <2>2
  <2> QED
    BY ONLY <2>3, <2>4, <2>5
<1>6. \A a \in Range(es) \ {es[i]} : a.text # e.text
  BY <1>1, <1>2
<1>7. IsInjective(fs)
  <2>1. \A j \in 1 .. Len(es) : j # i => es[j] \in Range(es) \ {es[i]}
    BY <1>1
  <2>2. \A j \in 1 .. Len(es) : j # i => fs[j] # e
    BY <1>3, <1>6, <2>1
  <2>3. \A j, k \in 1 .. Len(es) : fs[j] = fs[k] => j = k
    BY <1>1, <1>3, <2>2
  <2>4. fs \in Seq(Entry) /\ \A j, k \in 1 .. Len(fs) : fs[j] = fs[k] => j = k
    BY <1>3, <2>3
  <2> QED
    BY ONLY <2>4, RangeOf
<1>8. EntriesRight(fs)
  <2>1. ASSUME NEW a \in Range(fs), NEW f \in Range(fs), a.text = f.text PROVE a = f
    BY <1>2, <1>5, <1>6, <2>1
  <2>2. es[i] \in Range(es)
    BY <1>1
  <2>3. ASSUME NEW a \in Range(fs) PROVE Len(a.blocks) = Len(a.text) /\ IsInjective(a.blocks)
    BY <1>2, <1>5, <2>2
  <2> QED
    BY <1>7, <2>1, <2>3 DEF EntriesRight
<1>9. ASSUME NEW b PROVE Cardinality(entriesWith(fs, b)) = Cardinality(entriesWith(es, b))
  <2> DEFINE A == entriesWith(es, b)
             B == A \ {es[i]}
  <2>1. es[i] \in Range(es) /\ e \notin B
    BY <1>1, <1>6 DEF entriesWith
  <2>2. IsFiniteSet(A) /\ Cardinality(A) \in Nat
    BY FiniteRange DEF entriesWith
  <2>3. CASE b \in Range(e.blocks)
    <3>1. es[i] \in A /\ entriesWith(fs, b) = B \cup {e}
      BY <1>5, <2>1, <2>3 DEF entriesWith
    <3> HIDE DEF A
    <3>2. IsFiniteSet(B) /\ Cardinality(B) = Cardinality(A) - 1
      BY <2>2, <3>1, FS_RemoveElement
    <3> HIDE DEF B
    <3>3. Cardinality(B \cup {e}) = Cardinality(B) + 1
      BY <2>1, <3>2, FS_AddElement
    <3>4. Cardinality(B \cup {e}) = Cardinality(A)
      BY ONLY <2>2, <3>2, <3>3
    <3>5. Cardinality(entriesWith(fs, b)) = Cardinality(A)
      BY ONLY <3>1, <3>4
    <3> QED
      BY ONLY <3>5 DEF A
  <2>4. CASE b \notin Range(e.blocks)
    <3>1. \A a \in Range(fs) : b \in Range(a.blocks) => a \in Range(es)
      BY <1>5, <2>4
    <3>2. \A a \in Range(es) : b \in Range(a.blocks) => a \in Range(fs)
      BY <1>5, <2>4
    <3>3. entriesWith(fs, b) = entriesWith(es, b)
      BY <3>1, <3>2 DEF entriesWith
    <3> QED
      BY <3>3
  <2> QED
    BY <2>3, <2>4
<1> QED
  BY <1>3, <1>5, <1>8, <1>9

-----------------------------------------------------------------------------
(* The host's snapshots *)

\* The larger of 1 and a number.
LEMMA MaxOne ==
  ASSUME NEW n \in Int
  PROVE  Max({1, n}) = IF n > 1 THEN n ELSE 1
<1> DEFINE m == IF n > 1 THEN n ELSE 1
<1>1. m \in {1, n} /\ \A j \in {1, n} : m >= j
  OBVIOUS
<1>2. ASSUME NEW k \in {1, n}, \A j \in {1, n} : k >= j PROVE k = m
  <2>1. k >= m /\ m >= k
    BY <1>1, <1>2
  <2> QED
    BY <2>1
<1>3. Max({1, n}) \in {1, n} /\ \A j \in {1, n} : Max({1, n}) >= j
  BY <1>1 DEF Max
<1> QED
  BY <1>2, <1>3

\* demote: a snapshot the host did not have goes in, and the oldest out beyond its budget.
LEMMA TookIn ==
  ASSUME NEW hs \in Seq(Held), IsInjective(hs), Len(hs) <= DramBytes, DramBytes > 0,
         NEW h \in Held, h \notin Range(hs)
  PROVE  LET all == Append(hs, h)
             kept == SubSeq(all, Max({1, Len(all) - DramBytes + 1}), Len(all))
         IN  /\ kept \in Seq(Held) /\ IsInjective(kept) /\ Range(kept) \subseteq Range(hs) \cup {h}
             /\ Len(kept) \in Nat /\ Len(kept) <= DramBytes
<1> DEFINE all == Append(hs, h)
           n == Len(hs)
           m == IF n + 1 - DramBytes + 1 > 1 THEN n + 1 - DramBytes + 1 ELSE 1
<1>1. DramBytes \in Nat /\ n \in Nat
  BY StoreAssumption, LenProperties
<1>2. all \in Seq(Held) /\ Len(all) = n + 1 /\ Range(all) = Range(hs) \cup {h} /\ IsInjective(all)
  BY AppendedOnce
<1>3. m \in Nat \ {0} /\ m <= n + 1 /\ n + 1 - m + 1 <= DramBytes /\ n + 1 \in Nat /\ n + 1 - m + 1 \in Nat
  BY <1>1
<1>4. Max({1, Len(all) - DramBytes + 1}) = m
  <2>1. PICK k : k = n + 1 - DramBytes + 1
    OBVIOUS
  <2>2. k \in Int /\ Len(all) - DramBytes + 1 = k /\ m = IF k > 1 THEN k ELSE 1
    BY <1>1, <1>2, <2>1
  <2> HIDE DEF all, m, n
  <2> QED
    BY ONLY <2>2, MaxOne
<1> HIDE DEF all, m, n
<1> DEFINE kept == SubSeq(all, m, n + 1)
<1>5. kept \in Seq(Held) /\ Range(kept) = {all[i] : i \in m .. n + 1} /\ IsInjective(kept)
  BY <1>2, <1>3, PieceOnce
<1>6. Len(kept) = n + 1 - m + 1
  <2>1. PICK w : w = n + 1
    OBVIOUS
  <2>2. w \in Int /\ m \in Int /\ m <= w /\ \A i \in m .. w : all[i] \in Held
    BY <1>2, <1>3, <2>1
  <2>3. Len(SubSeq(all, m, w)) = IF m <= w THEN w - m + 1 ELSE 0
    BY ONLY <2>2, SubSeqProperties
  <2>4. kept = SubSeq(all, m, w)
    BY ONLY <2>1
  <2> HIDE DEF kept
  <2> QED
    BY ONLY <1>1, <2>1, <2>2, <2>3, <2>4
<1>7. Range(kept) \subseteq Range(all)
  <2>1. Range(all) = {all[i] : i \in 1 .. n + 1}
    BY <1>2, RangeOf
  <2>2. \A i \in m .. n + 1 : i \in 1 .. n + 1
    BY <1>3
  <2> QED
    BY <1>5, <2>1, <2>2
<1> HIDE DEF kept
<1> QED
  BY <1>2, <1>3, <1>4, <1>5, <1>6, <1>7 DEF all, kept

\* _demote_one: the bytes of one snapshot go from the card to the host.
LEMMA DemotedKeeps ==
  ASSUME NEW own \in Own, NEW c, Books(c, own), canDemote(c)
  PROVE  Books(demotedOne(c), own) /\ Len(demotedOne(c).entries) = Len(c.entries) /\ From(demotedOne(c), c)
<1> DEFINE es == c.entries
           hs == c.held
           i == Min(resident(c))
           e == es[i]
           f == [e EXCEPT !.demoted = TRUE, !.state = NoState]
           h == [text |-> e.text, state |-> e.state]
           all == Append(hs, h)
           kept == SubSeq(all, Max({1, Len(all) - DramBytes + 1}), Len(all))
           fs == [es EXCEPT ![i] = f]
           d == demotedOne(c)
<1>1. /\ es \in Seq(Entry) /\ IsInjective(es) /\ hs \in Seq(Held) /\ IsInjective(hs)
      /\ Len(hs) \in Nat /\ DOMAIN es = 1 .. Len(es) /\ Len(es) \in Nat
      /\ Range(es) = {es[j] : j \in 1 .. Len(es)} /\ Range(es) \subseteq Entry
      /\ c.used \in Int /\ c.heldBytes \in Int /\ c.ref \in [Block -> Int]
  BY BooksOf
<1>2. /\ c \in StoreType /\ EntriesRight(es) /\ HeldRight(es, hs) /\ c.used = Cardinality(onCard(es))
      /\ c.heldBytes = Len(hs) /\ Len(hs) <= DramBytes
      /\ \A b \in Block : c.ref[b] = own[b] + Cardinality(entriesWith(es, b))
  BY DEF Books
<1>3. i \in 1 .. Len(es) /\ ~ e.demoted /\ DramBytes > 0
  <2>1. resident(c) # {} /\ resident(c) \in SUBSET Nat /\ DramBytes > 0
    BY <1>1 DEF canDemote, resident
  <2>2. \E m \in resident(c) : \A n \in resident(c) : m <= n
    BY <2>1, LeastOf
  <2>3. i \in resident(c)
    BY <2>2 DEF Min
  <2> QED
    BY <1>1, <2>1, <2>3 DEF resident
<1>4. e \in Range(es) /\ e \in Entry
  BY <1>1, <1>3
<1>5. /\ e.text \in Seq(Page) /\ e.state \in History /\ f \in Entry /\ f.text = e.text /\ f.blocks = e.blocks
      /\ f.demoted /\ h \in Held /\ h.text = e.text /\ h.state = e.state
  <2>1. NoState \in History
    BY DEF NoState, History
  <2> QED
    BY <1>4, <2>1 DEF Entry, Held
<1>6. h \notin Range(hs)
  <2>1. ASSUME h \in Range(hs) PROVE FALSE
    <3>1. PICK g \in Range(es) : g.demoted /\ g.text = h.text
      BY <1>2, <2>1 DEF HeldRight
    <3>2. g = e
      BY <1>2, <1>4, <1>5, <3>1 DEF EntriesRight
    <3> QED
      BY <1>3, <3>1, <3>2
  <2> QED
    BY <2>1
<1>7. d = [entries |-> fs, used |-> c.used - 1, held |-> kept,
           heldBytes |-> c.heldBytes + 1 - (Len(all) - Len(kept)), ref |-> c.ref]
  <2>1. PICK u : u = tookIn(c, e.text, e.state)
    OBVIOUS
  <2>2. u = [c EXCEPT !.held = kept, !.heldBytes = c.heldBytes + 1 - (Len(all) - Len(kept))]
    BY <2>1 DEF tookIn
  <2>3. d = [u EXCEPT !.entries[i].demoted = TRUE, !.entries[i].state = NoState, !.used = @ - 1]
    BY <2>1 DEF demotedOne
  <2> HIDE DEF i, e, d, kept, all, hs
  <2>4. c = [entries |-> es, used |-> c.used, held |-> hs, heldBytes |-> c.heldBytes, ref |-> c.ref]
    BY <1>2 DEF StoreType, hs
  <2>5. u = [entries |-> es, used |-> c.used, held |-> kept,
             heldBytes |-> c.heldBytes + 1 - (Len(all) - Len(kept)), ref |-> c.ref]
    BY <2>2, <2>4
  <2>6. [[es EXCEPT ![i].demoted = TRUE] EXCEPT ![i].state = NoState] = fs
    BY <1>1, <1>3 DEF e
  <2>7. d = [[u EXCEPT !.entries = [[u.entries EXCEPT ![i].demoted = TRUE] EXCEPT ![i].state = NoState]]
               EXCEPT !.used = @ - 1]
    BY <2>3
  <2>8. u.entries = es /\ u.used = c.used /\ u.held = kept /\ u.ref = c.ref
    BY <2>5
  <2>9. d = [[u EXCEPT !.entries = fs] EXCEPT !.used = @ - 1]
    BY <2>6, <2>7, <2>8
  <2> HIDE DEF es, fs
  <2> QED
    BY <2>5, <2>9
<1>8. Len(all) = Len(hs) + 1
  <2> HIDE DEF h, hs
  <2> QED
    BY <1>1, <1>5, AppendedOnce
<1> HIDE DEF i, e, f, h, es, hs, fs
<1>9. /\ kept \in Seq(Held) /\ IsInjective(kept) /\ Range(kept) \subseteq Range(hs) \cup {h}
      /\ Len(kept) \in Nat /\ Len(kept) <= DramBytes
  BY <1>1, <1>2, <1>3, <1>5, <1>6, TookIn
<1> HIDE DEF all, kept
<1>10. /\ fs \in Seq(Entry) /\ Len(fs) = Len(es) /\ EntriesRight(fs)
       /\ Range(fs) = (Range(es) \ {e}) \cup {f}
       /\ \A b : Cardinality(entriesWith(fs, b)) = Cardinality(entriesWith(es, b))
  <2>1. /\ fs = [es EXCEPT ![i] = f] /\ f.text = es[i].text /\ f.blocks = es[i].blocks
        /\ es \in Seq(Entry) /\ EntriesRight(es) /\ i \in 1 .. Len(es) /\ f \in Entry
    BY <1>1, <1>2, <1>3, <1>5 DEF fs, e
  <2>2. /\ fs \in Seq(Entry) /\ Len(fs) = Len(es) /\ EntriesRight(fs)
        /\ Range(fs) = (Range(es) \ {es[i]}) \cup {f}
        /\ \A b : Cardinality(entriesWith(fs, b)) = Cardinality(entriesWith(es, b))
    BY ONLY <2>1, EntryReplaced
  <2> QED
    BY <2>2 DEF e
<1>11. Cardinality(onCard(fs)) = c.used - 1
  <2>1. onCard(fs) = onCard(es) \ {e} /\ e \in onCard(es)
    BY <1>3, <1>4, <1>5, <1>10 DEF onCard
  <2>2. onCard(es) \in SUBSET Range(es)
    BY DEF onCard
  <2>3. IsFiniteSet(onCard(es))
    BY <1>1, <2>2, FiniteRange
  <2> QED
    BY <1>2, <2>1, <2>3, FS_RemoveElement
<1>12. HeldRight(fs, kept)
  <2>1. ASSUME NEW g \in Range(kept), NEW k \in Range(kept), g.text = k.text PROVE g = k
    <3>1. \A x \in Range(hs) : x.text # e.text
      <4>1. ASSUME NEW x \in Range(hs), x.text = e.text PROVE FALSE
        <5>1. PICK y \in Range(es) : y.demoted /\ y.text = x.text
          BY <1>2 DEF HeldRight
        <5>2. y = e
          BY <1>2, <1>4, <4>1, <5>1 DEF EntriesRight
        <5> QED
          BY <1>3, <5>1, <5>2
      <4> QED
        BY <4>1
    <3> QED
      BY <1>2, <1>5, <1>9, <2>1, <3>1 DEF HeldRight
  <2>2. ASSUME NEW g \in Range(kept) PROVE \E x \in Range(fs) : x.demoted /\ x.text = g.text
    <3>1. CASE g = h
      BY <1>5, <1>10, <3>1
    <3>2. CASE g \in Range(hs)
      <4>1. PICK y \in Range(es) : y.demoted /\ y.text = g.text
        BY <1>2, <3>2 DEF HeldRight
      <4>2. y # e
        BY <1>3, <4>1
      <4> QED
        BY <1>10, <4>1, <4>2
    <3> QED
      BY <1>9, <3>1, <3>2
  <2> QED
    BY <1>9, <2>1, <2>2 DEF HeldRight
<1> HIDE DEF d
<1>13. /\ d = [entries |-> fs, used |-> Cardinality(onCard(fs)), held |-> kept, heldBytes |-> Len(kept), ref |-> c.ref]
       /\ Cardinality(onCard(fs)) \in Int
  <2>1. c = [entries |-> es, used |-> c.used, held |-> hs, heldBytes |-> c.heldBytes, ref |-> c.ref]
    BY <1>2 DEF StoreType, es, hs
  <2>2. c.heldBytes + 1 - (Len(all) - Len(kept)) = Len(kept)
    BY <1>1, <1>2, <1>8, <1>9
  <2>3. c.used - 1 \in Int
    BY <1>1
  <2> QED
    BY <1>7, <1>11, <2>1, <2>2, <2>3
<1>14. d \in StoreType
  BY <1>1, <1>9, <1>10, <1>13 DEF StoreType
<1>15. Books(d, own) /\ Len(d.entries) = Len(es)
  BY <1>2, <1>9, <1>10, <1>12, <1>13, <1>14 DEF Books
<1>16. From(d, c)
  <2>1. d.entries = fs /\ d.held = kept
    BY <1>13
  <2>2. ASSUME NEW x \in Range(fs)
        PROVE  (\E y \in Range(es) : y.text = x.text /\ y.blocks = x.blocks) /\ (x.demoted \/ snapshotIn(c, x.text, x.state))
    BY <1>4, <1>5, <1>10 DEF snapshotIn, es
  <2>3. ASSUME NEW x \in Range(kept) PROVE snapshotIn(c, x.text, x.state)
    BY <1>3, <1>4, <1>5, <1>9 DEF snapshotIn, es, hs
  <2> QED
    BY <2>1, <2>2, <2>3 DEF From, es
<1> QED
  BY <1>15, <1>16 DEF es, d

\* promote: and back, for an entry whose snapshot the host still has.
LEMMA PromotedKeeps ==
  ASSUME NEW own \in Own, NEW c, Books(c, own), NEW i \in 1 .. Len(c.entries),
         c.entries[i].demoted, heldFor(c, c.entries[i].text) # {}
  PROVE  /\ Books(promoted(c, i), own) /\ Len(promoted(c, i).entries) = Len(c.entries)
         /\ promoted(c, i).entries[i].text = c.entries[i].text /\ From(promoted(c, i), c)
         /\ ~ promoted(c, i).entries[i].demoted
<1> DEFINE es == c.entries
           hs == c.held
           e == es[i]
           k == Min(heldFor(c, e.text))
           h == hs[k]
           f == [e EXCEPT !.demoted = FALSE, !.state = h.state]
           fs == [es EXCEPT ![i] = f]
           gs == RemoveAt(hs, k)
           d == promoted(c, i)
<1>1. /\ es \in Seq(Entry) /\ IsInjective(es) /\ hs \in Seq(Held) /\ IsInjective(hs)
      /\ Len(hs) \in Nat /\ DOMAIN es = 1 .. Len(es) /\ Len(es) \in Nat /\ DOMAIN hs = 1 .. Len(hs)
      /\ Range(es) = {es[j] : j \in 1 .. Len(es)} /\ Range(es) \subseteq Entry
      /\ Range(hs) = {hs[j] : j \in 1 .. Len(hs)} /\ Range(hs) \subseteq Held
      /\ c.used \in Int /\ c.heldBytes \in Int /\ c.ref \in [Block -> Int]
  BY BooksOf
<1>2. /\ c \in StoreType /\ EntriesRight(es) /\ HeldRight(es, hs) /\ c.used = Cardinality(onCard(es))
      /\ c.heldBytes = Len(hs) /\ Len(hs) <= DramBytes
      /\ \A b \in Block : c.ref[b] = own[b] + Cardinality(entriesWith(es, b))
  BY DEF Books
<1>3. k \in 1 .. Len(hs) /\ h.text = e.text /\ h \in Range(hs) /\ h \in Held
  <2>1. heldFor(c, e.text) # {} /\ heldFor(c, e.text) \in SUBSET Nat
    BY <1>1 DEF heldFor
  <2>2. \E m \in heldFor(c, e.text) : \A n \in heldFor(c, e.text) : m <= n
    BY <2>1, LeastOf
  <2>3. k \in heldFor(c, e.text)
    BY <2>2 DEF Min
  <2>4. k \in 1 .. Len(hs) /\ hs[k].text = e.text
    BY <1>1, <2>3 DEF heldFor
  <2> HIDE DEF k
  <2> QED
    BY <1>1, <2>4
<1>4. e \in Range(es) /\ e \in Entry /\ e.demoted
  BY <1>1
<1>5. e.text \in Seq(Page) /\ f \in Entry /\ f.text = e.text /\ f.blocks = e.blocks /\ ~ f.demoted
  <2>1. h.state \in History
    BY <1>3 DEF Held
  <2> HIDE DEF h, e
  <2> QED
    BY <1>4, <2>1 DEF Entry
<1>6. d = [entries |-> fs, used |-> c.used + 1, held |-> gs, heldBytes |-> c.heldBytes - 1, ref |-> c.ref]
  <2>1. c = [entries |-> es, used |-> c.used, held |-> hs, heldBytes |-> c.heldBytes, ref |-> c.ref]
    BY <1>2 DEF StoreType
  <2>2. d = [c EXCEPT !.entries[i].demoted = FALSE, !.entries[i].state = h.state, !.used = @ + 1,
                      !.held = RemoveAt(@, k), !.heldBytes = @ - 1]
    BY DEF promoted
  <2> HIDE DEF k, h, d
  <2>3. PICK u : u = [c EXCEPT !.entries[i].demoted = FALSE]
    OBVIOUS
  <2>4. PICK w : w = [u EXCEPT !.entries[i].state = h.state]
    OBVIOUS
  <2>5. d = [w EXCEPT !.used = @ + 1, !.held = RemoveAt(@, k), !.heldBytes = @ - 1]
    BY <2>2, <2>3, <2>4
  <2>6. u = [entries |-> [es EXCEPT ![i].demoted = FALSE], used |-> c.used, held |-> hs,
             heldBytes |-> c.heldBytes, ref |-> c.ref]
    BY <2>1, <2>3
  <2>7. w = [entries |-> [[es EXCEPT ![i].demoted = FALSE] EXCEPT ![i].state = h.state], used |-> c.used, held |-> hs,
             heldBytes |-> c.heldBytes, ref |-> c.ref]
    BY <2>4, <2>6
  <2>8. [[es EXCEPT ![i].demoted = FALSE] EXCEPT ![i].state = h.state] = fs
    BY <1>1
  <2> HIDE DEF fs, es, hs
  <2>9. w = [entries |-> fs, used |-> c.used, held |-> hs, heldBytes |-> c.heldBytes, ref |-> c.ref]
    BY <2>7, <2>8
  <2> QED
    BY <2>5, <2>9
<1> HIDE DEF k, h, f, e, d, gs, fs, es, hs
<1>7. gs \in Seq(Held) /\ Len(gs) = Len(hs) - 1 /\ IsInjective(gs) /\ Range(gs) = Range(hs) \ {h}
  BY <1>1, <1>3, RemoveAtOf, RemovedOnce DEF gs, h
<1>8. /\ fs \in Seq(Entry) /\ Len(fs) = Len(es) /\ EntriesRight(fs)
      /\ Range(fs) = (Range(es) \ {e}) \cup {f}
      /\ \A b : Cardinality(entriesWith(fs, b)) = Cardinality(entriesWith(es, b))
  <2>1. /\ f.text = es[i].text /\ f.blocks = es[i].blocks
        /\ es \in Seq(Entry) /\ EntriesRight(es) /\ i \in 1 .. Len(es) /\ f \in Entry
    BY <1>1, <1>2, <1>5 DEF e, es
  <2>2. LET us == [es EXCEPT ![i] = f]
        IN /\ us \in Seq(Entry) /\ Len(us) = Len(es) /\ EntriesRight(us)
           /\ Range(us) = (Range(es) \ {es[i]}) \cup {f}
           /\ \A b : Cardinality(entriesWith(us, b)) = Cardinality(entriesWith(es, b))
    BY ONLY <2>1, EntryReplaced
  <2> QED
    BY <2>2 DEF e, fs
<1>9. Cardinality(onCard(fs)) = c.used + 1
  <2>1. onCard(fs) = onCard(es) \cup {f} /\ f \notin onCard(es)
    <3>1. f \notin onCard(es)
      BY <1>2, <1>4, <1>5 DEF onCard, EntriesRight
    <3> QED
      BY <1>4, <1>5, <1>8, <3>1 DEF onCard
  <2>2. onCard(es) \in SUBSET Range(es)
    BY DEF onCard
  <2>3. IsFiniteSet(onCard(es))
    BY <1>1, <2>2, FiniteRange
  <2>4. Cardinality(onCard(es) \cup {f}) = Cardinality(onCard(es)) + 1
    BY ONLY <2>1, <2>3, FS_AddElement
  <2> QED
    BY <1>2, <2>1, <2>4
<1>10. HeldRight(fs, gs)
  <2>1. ASSUME NEW g \in Range(gs) PROVE \E x \in Range(fs) : x.demoted /\ x.text = g.text
    <3>1. g \in Range(hs) /\ g # h
      BY <1>7
    <3>2. g.text # e.text
      BY <1>2, <1>3, <3>1 DEF HeldRight
    <3>3. PICK y \in Range(es) : y.demoted /\ y.text = g.text
      BY <1>2, <3>1 DEF HeldRight
    <3> QED
      BY <1>8, <3>2, <3>3
  <2>2. \A g, x \in Range(gs) : g.text = x.text => g = x
    BY <1>2, <1>7 DEF HeldRight
  <2> QED
    BY <1>7, <2>1, <2>2 DEF HeldRight
<1>11. d.entries = fs /\ Len(fs) = Len(es) /\ fs[i].text = e.text /\ ~ fs[i].demoted
  BY <1>1, <1>5, <1>6, <1>8 DEF fs, es
<1>12. d \in StoreType
  BY <1>1, <1>6, <1>7, <1>8 DEF StoreType
<1>13. Len(gs) <= DramBytes /\ c.heldBytes - 1 = Len(gs)
  BY <1>1, <1>2, <1>3, <1>7, StoreAssumption
<1>14. Books(d, own)
  BY <1>2, <1>6, <1>8, <1>9, <1>10, <1>12, <1>13 DEF Books
<1>15. From(d, c)
  <2>1. d.held = gs /\ f.state = h.state
    BY <1>4, <1>6 DEF f, Entry
  <2>2. ASSUME NEW x \in Range(fs)
        PROVE  (\E y \in Range(es) : y.text = x.text /\ y.blocks = x.blocks) /\ (x.demoted \/ snapshotIn(c, x.text, x.state))
    BY <1>3, <1>4, <1>5, <1>8, <2>1 DEF snapshotIn, es, hs
  <2>3. ASSUME NEW x \in Range(gs) PROVE snapshotIn(c, x.text, x.state)
    BY <1>7 DEF snapshotIn, hs
  <2> QED
    BY <1>11, <2>1, <2>2, <2>3 DEF From, es
<1> QED
  BY <1>11, <1>14, <1>15 DEF d, es, e

\* A hit is moved to the end; the books do not change.
LEMMA HitKeeps ==
  ASSUME NEW own \in Own, NEW c, Books(c, own), NEW i \in 1 .. Len(c.entries)
  PROVE  LET got == hitAt(c, i)
         IN  /\ Books(got.store, own) /\ Range(got.store.entries) = Range(c.entries) /\ From(got.store, c)
             /\ got.hit = [text |-> c.entries[i].text, blocks |-> c.entries[i].blocks, state |-> c.entries[i].state]
<1> DEFINE es == c.entries
           fs == Append(RemoveAt(es, i), es[i])
           d == hitAt(c, i).store
<1>1. /\ es \in Seq(Entry) /\ IsInjective(es) /\ es[i] \in Range(es) /\ Range(es) \subseteq Entry
      /\ Range(es) = {es[j] : j \in 1 .. Len(es)}
  BY BooksOf
<1>2. /\ c \in StoreType /\ EntriesRight(es) /\ HeldRight(es, c.held) /\ c.used = Cardinality(onCard(es))
      /\ c.heldBytes = Len(c.held) /\ Len(c.held) <= DramBytes
      /\ \A b \in Block : c.ref[b] = own[b] + Cardinality(entriesWith(es, b))
  BY DEF Books
<1>3. fs \in Seq(Entry) /\ IsInjective(fs) /\ Range(fs) = Range(es)
  <2> DEFINE rest == RemoveAt(es, i)
  <2>1. rest \in Seq(Entry) /\ IsInjective(rest) /\ Range(rest) = Range(es) \ {es[i]}
    BY <1>1, RemoveAtOf, RemovedOnce
  <2> HIDE DEF rest
  <2>2. PICK e \in Entry : e = es[i]
    BY <1>1
  <2> HIDE DEF es
  <2>3. Append(rest, e) \in Seq(Entry) /\ IsInjective(Append(rest, e)) /\ Range(Append(rest, e)) = Range(rest) \cup {e}
    BY <2>1, <2>2, AppendedOnce
  <2> QED
    BY <1>1, <2>1, <2>2, <2>3 DEF rest
<1>4. d = [entries |-> fs, used |-> c.used, held |-> c.held, heldBytes |-> c.heldBytes, ref |-> c.ref]
  BY <1>2 DEF hitAt, StoreType
<1> HIDE DEF fs
<1>5. EntriesRight(fs) /\ HeldRight(fs, c.held) /\ onCard(fs) = onCard(es) /\ \A b : entriesWith(fs, b) = entriesWith(es, b)
  BY <1>2, <1>3 DEF EntriesRight, HeldRight, onCard, entriesWith
<1> HIDE DEF d
<1>6. d \in StoreType
  BY <1>2, <1>3, <1>4 DEF StoreType
<1>7. Books(d, own) /\ Range(d.entries) = Range(es)
  BY <1>2, <1>3, <1>4, <1>5, <1>6 DEF Books
<1>8. From(d, c)
  <2>1. Range(d.entries) \subseteq Range(c.entries) /\ Range(d.held) \subseteq Range(c.held)
    BY <1>4, <1>7
  <2> QED
    BY <2>1, FromSelf
<1> QED
  BY <1>7, <1>8 DEF d, hitAt

-----------------------------------------------------------------------------
(* insert *)

\* One turn of the loop.
LEMMA TrimmedOnceKeeps ==
  ASSUME NEW own \in Own, NEW c, Books(c, own)
  PROVE  Books(trimmedOnce(c), own) /\ From(trimmedOnce(c), c)
<1>1. Len(c.entries) \in Nat
  BY BooksOf
<1>2. CASE ~ over(c)
  BY <1>2, FromSelf DEF trimmedOnce
<1>3. CASE over(c) /\ Len(c.entries) <= Capacity /\ canDemote(c)
  BY <1>3, DemotedKeeps DEF trimmedOnce
<1>4. CASE over(c) /\ ~(Len(c.entries) <= Capacity /\ canDemote(c))
  <2>1. Len(c.entries) # 0
    <3>1. SUFFICES ASSUME Len(c.entries) = 0 PROVE FALSE
      OBVIOUS
    <3>2. Range(c.entries) = {c.entries[i] : i \in 1 .. Len(c.entries)}
      BY BooksOf
    <3>3. onCard(c.entries) = {}
      BY <3>1, <3>2 DEF onCard
    <3>4. c.used = 0
      BY <3>3, FS_EmptySet DEF Books
    <3> QED
      BY <1>4, <3>1, <3>4, StoreAssumption DEF over
  <2>2. {1} \in SUBSET (1 .. Len(c.entries))
    BY <1>1, <2>1
  <2>3. Books(dropped(c, {1}), own) /\ From(dropped(c, {1}), c)
    <3>1. PICK I : I = {1}
      OBVIOUS
    <3>2. Books(dropped(c, I), own) /\ From(dropped(c, I), c)
      BY <2>2, <3>1, DroppedKeeps, DroppedFrom
    <3> QED
      BY <3>1, <3>2
  <2> QED
    BY <1>4, <2>3 DEF trimmedOnce
<1> QED
  BY <1>2, <1>3, <1>4

\* All of them.
LEMMA TrimmedKeeps ==
  ASSUME NEW own \in Own, NEW c, Books(c, own)
  PROVE  Books(trimmed(c), own) /\ From(trimmed(c), c)
<1> DEFINE N == 2 * Len(c.entries)
           V == {d \in StoreType : Books(d, own)}
           G == [p \in (1 .. N) \X V |-> trimmedOnce(p[2])]
           Def(g) == g = [n \in 0 .. N |-> IF n = 0 THEN c ELSE trimmedOnce(g[n - 1])]
           after == CHOOSE g : Def(g)
<1>1. N \in Nat
  <2>1. Len(c.entries) \in Nat
    BY BooksOf
  <2> QED
    BY <2>1
<1>2. c \in V
  BY DEF Books
<1>3. ASSUME NEW i \in 1 .. N, NEW v \in V PROVE G[<<i, v>>] = trimmedOnce(v) /\ trimmedOnce(v) \in V
  <2>1. Books(trimmedOnce(v), own)
    BY TrimmedOnceKeeps
  <2>2. trimmedOnce(v) \in V
    BY <2>1 DEF Books
  <2> HIDE DEF V, N
  <2> QED
    BY <2>2
<1>4. PICK f : StepsFrom(f, N, V, c, G)
  <2> HIDE DEF G, N, V
  <2>1. StepsOn(N, V, G)
    BY <1>3 DEF StepsOn
  <2> QED
    BY <1>1, <1>2, <2>1, Recursion
<1> HIDE DEF G, N, V
<1>5. f \in [0 .. N -> V] /\ f[0] = c /\ \A i \in 1 .. N : f[i] = trimmedOnce(f[i - 1])
  <2>1. f \in [0 .. N -> V] /\ f[0] = c /\ \A i \in 1 .. N : f[i] = G[<<i, f[i - 1]>>]
    BY <1>4 DEF StepsFrom
  <2>2. ASSUME NEW i \in 1 .. N PROVE f[i] = trimmedOnce(f[i - 1])
    <3>1. i - 1 \in 0 .. N
      BY <1>1
    <3> QED
      BY <1>3, <2>1, <3>1
  <2> QED
    BY <2>1, <2>2
<1>6. Def(f)
  BY <1>1, <1>5
<1>7. Def(after)
  <2> HIDE DEF Def
  <2> QED
    BY <1>6
<1>8. trimmed(c) = after[N]
  BY DEF trimmed, N
<1> HIDE DEF after
<1>9. after[0] = c /\ \A n \in 1 .. N : after[n] = trimmedOnce(after[n - 1])
  <2>1. after[0] = c
    BY <1>1, <1>7
  <2>2. ASSUME NEW n \in 1 .. N PROVE after[n] = trimmedOnce(after[n - 1])
    BY <1>1, <1>7
  <2> QED
    BY <2>1, <2>2
<1> DEFINE U == {n \in Nat : n <= N => Books(after[n], own) /\ From(after[n], c)}
<1>10. 0 \in U
  BY <1>9, FromSelf
<1>11. ASSUME NEW n \in U PROVE n + 1 \in U
  <2>1. SUFFICES ASSUME n + 1 <= N PROVE Books(after[n + 1], own) /\ From(after[n + 1], c)
    OBVIOUS
  <2>2. Books(after[n], own) /\ From(after[n], c) /\ n + 1 \in 1 .. N /\ (n + 1) - 1 = n
    BY <1>1, <2>1
  <2>3. after[n + 1] = trimmedOnce(after[n])
    BY <1>9, <2>2
  <2> QED
    BY <2>2, <2>3, TrimmedOnceKeeps, FromFrom
<1>12. U = Nat
  <2>1. U \in SUBSET Nat
    OBVIOUS
  <2> HIDE DEF U
  <2> QED
    BY <1>10, <1>11, <2>1, AllOf
<1> QED
  BY <1>1, <1>8, <1>12

\* insert: a text is stored with the blocks of its pages, each of which it retains once.
LEMMA InsertedKeeps ==
  ASSUME NEW own \in Own, NEW c, Books(c, own), NEW text \in Seq(Page), NEW blocks \in Seq(Block),
         NEW state \in History, Len(blocks) = Len(text), IsInjective(blocks)
  PROVE  /\ Books(inserted(c, text, blocks, state), own)
         /\ \E d : /\ From(inserted(c, text, blocks, state), d) /\ d.held = c.held
                   /\ \A e \in Range(d.entries) : \/ e \in Range(c.entries)
                                                  \/ e.text = text /\ e.blocks = blocks /\ e.state = state
<1> DEFINE es == c.entries
           e == [text |-> text, blocks |-> blocks, state |-> state, demoted |-> FALSE]
           fs == Append(es, e)
           d == [c EXCEPT !.entries = fs, !.used = @ + 1,
                          !.ref = [b \in Block |-> @[b] + IF b \in Range(blocks) THEN 1 ELSE 0]]
<1>1. CASE hasEntry(c, text)
  BY <1>1, FromSelf DEF inserted
<1>2. CASE ~ hasEntry(c, text)
  <2>1. /\ es \in Seq(Entry) /\ IsInjective(es) /\ DOMAIN es = 1 .. Len(es) /\ Range(es) \subseteq Entry
        /\ Range(es) = {es[j] : j \in 1 .. Len(es)} /\ c.used \in Int /\ c.ref \in [Block -> Int]
    BY BooksOf
  <2>2. /\ c \in StoreType /\ EntriesRight(es) /\ HeldRight(es, c.held) /\ c.used = Cardinality(onCard(es))
        /\ c.heldBytes = Len(c.held) /\ Len(c.held) <= DramBytes
        /\ \A b \in Block : c.ref[b] = own[b] + Cardinality(entriesWith(es, b))
    BY DEF Books
  <2>3. e \in Entry /\ \A f \in Range(es) : f.text # text
    BY <1>2, <2>1 DEF Entry, hasEntry
  <2>4. d = [entries |-> fs, used |-> c.used + 1, held |-> c.held, heldBytes |-> c.heldBytes,
             ref |-> [b \in Block |-> c.ref[b] + IF b \in Range(blocks) THEN 1 ELSE 0]]
    <3>1. c = [entries |-> es, used |-> c.used, held |-> c.held, heldBytes |-> c.heldBytes, ref |-> c.ref]
      BY <2>2 DEF StoreType
    <3>2. PICK R : R = [b \in Block |-> c.ref[b] + IF b \in Range(blocks) THEN 1 ELSE 0]
      OBVIOUS
    <3> HIDE DEF fs, es
    <3>3. PICK u : u = [[c EXCEPT !.entries = fs] EXCEPT !.used = @ + 1]
      OBVIOUS
    <3>4. u = [entries |-> fs, used |-> c.used + 1, held |-> c.held, heldBytes |-> c.heldBytes, ref |-> c.ref]
      BY <3>1, <3>3
    <3>5. d = [u EXCEPT !.ref = [b \in Block |-> @[b] + IF b \in Range(blocks) THEN 1 ELSE 0]]
      BY <3>3
    <3> HIDE DEF d
    <3>6. d = [u EXCEPT !.ref = R]
      BY <3>2, <3>4, <3>5
    <3> QED
      BY <3>2, <3>4, <3>6
  <2>5. e.text = text /\ e.blocks = blocks /\ ~ e.demoted /\ e.state = state
    OBVIOUS
  <2>6. inserted(c, text, blocks, state) = trimmed(d)
    BY <1>2 DEF inserted
  <2> HIDE DEF e, es, d
  <2>7. fs \in Seq(Entry) /\ Range(fs) = Range(es) \cup {e} /\ IsInjective(fs)
    BY <2>1, <2>3, <2>5, AppendedOnce
  <2> HIDE DEF fs
  <2>8. EntriesRight(fs) /\ HeldRight(fs, c.held)
    BY <2>2, <2>3, <2>5, <2>7 DEF EntriesRight, HeldRight
  <2>9. Cardinality(onCard(fs)) = c.used + 1
    <3>1. onCard(fs) = onCard(es) \cup {e} /\ e \notin onCard(es) /\ onCard(es) \in SUBSET Range(es)
      BY <2>3, <2>5, <2>7 DEF onCard
    <3>2. IsFiniteSet(onCard(es))
      BY <2>1, <3>1, FiniteRange
    <3>3. Cardinality(onCard(es) \cup {e}) = Cardinality(onCard(es)) + 1
      BY ONLY <3>1, <3>2, FS_AddElement
    <3> QED
      BY <2>2, <3>1, <3>3
  <2>10. ASSUME NEW b \in Block
         PROVE  /\ c.ref[b] + (IF b \in Range(blocks) THEN 1 ELSE 0) = own[b] + Cardinality(entriesWith(fs, b))
                /\ c.ref[b] + (IF b \in Range(blocks) THEN 1 ELSE 0) \in Int
    <3> DEFINE A == entriesWith(es, b)
    <3>1. e \notin A /\ A \in SUBSET Range(es)
      BY <2>3, <2>5 DEF entriesWith
    <3>2. entriesWith(fs, b) = IF b \in Range(blocks) THEN A \cup {e} ELSE A
      BY <2>5, <2>7 DEF entriesWith
    <3> HIDE DEF A
    <3>3. IsFiniteSet(A) /\ Cardinality(A) \in Nat
      BY <2>1, <3>1, FiniteRange
    <3>4. Cardinality(A \cup {e}) = Cardinality(A) + 1
      BY ONLY <3>1, <3>3, FS_AddElement
    <3>5. c.ref[b] = own[b] + Cardinality(A) /\ own[b] \in Nat
      BY <2>2 DEF A, Own
    <3>6. Cardinality(entriesWith(fs, b)) = IF b \in Range(blocks) THEN Cardinality(A) + 1 ELSE Cardinality(A)
      BY <3>2, <3>4
    <3> QED
      BY <3>3, <3>5, <3>6
  <2>11. d \in StoreType
    BY <2>1, <2>2, <2>4, <2>7, <2>10 DEF StoreType
  <2>12. Books(d, own)
    BY <2>2, <2>4, <2>8, <2>9, <2>10, <2>11 DEF Books
  <2>13. d.held = c.held /\ \A x \in Range(d.entries) : x \in Range(c.entries) \/ x = e
    BY <2>4, <2>7 DEF es
  <2> QED
    BY <2>5, <2>6, <2>12, <2>13, TrimmedKeeps
<1> QED
  BY <1>1, <1>2

-----------------------------------------------------------------------------
(* lookup *)

HitRight(hit) ==
  /\ hit \in [text : Seq(Page), blocks : Seq(Block), state : History]
  /\ Len(hit.blocks) = Len(hit.text) /\ IsInjective(hit.blocks)

\* A hit has the blocks of an entry of c, and its snapshot.
HitFrom(hit, c) ==
  \/ hit = NoHit
  \/ /\ \E e \in Range(c.entries) : e.text = hit.text /\ e.blocks = hit.blocks
     /\ snapshotIn(c, hit.text, hit.state)

LEMMA HitFromFrom ==
  ASSUME NEW c, NEW d, From(d, c), NEW hit, HitFrom(hit, d)
  PROVE  HitFrom(hit, c)
<1>1. ASSUME NEW e \in Range(d.entries), e.text = hit.text, e.blocks = hit.blocks, snapshotIn(d, hit.text, hit.state)
      PROVE  HitFrom(hit, c)
  <2>1. PICK f \in Range(c.entries) : f.text = e.text /\ f.blocks = e.blocks
    BY DEF From
  <2>2. snapshotIn(c, hit.text, hit.state)
    <3>1. CASE \E g \in Range(d.entries) : ~ g.demoted /\ g.text = hit.text /\ g.state = hit.state
      BY <3>1 DEF From
    <3>2. CASE \E h \in Range(d.held) : h.text = hit.text /\ h.state = hit.state
      BY <3>2 DEF From
    <3> QED
      BY <1>1, <3>1, <3>2 DEF snapshotIn
  <2> QED
    BY <1>1, <2>1, <2>2 DEF HitFrom
<1> QED
  BY <1>1 DEF HitFrom

LEMMA NoHitRight == HitRight(NoHit)
<1>1. <<>> \in Seq(Page) /\ <<>> \in Seq(Block) /\ <<>> \in History /\ IsInjective(<<>>)
  BY DEF History, IsInjective
<1> QED
  BY <1>1 DEF HitRight, NoHit, NoState

\* Two prefixes of a text that are as long are the same.
LEMMA PrefixOfLength ==
  ASSUME NEW S, NEW s \in Seq(S), NEW t \in Seq(S), NEW u \in Seq(S),
         IsPrefix(s, u), IsPrefix(t, u), Len(s) = Len(t)
  PROVE  s = t
<1>1. SubSeq(s, 1, Len(s)) = SubSeq(u, 1, Len(s)) /\ SubSeq(t, 1, Len(t)) = SubSeq(u, 1, Len(t))
  BY DEF IsPrefix
<1>2. SubSeq(s, 1, Len(s)) = s /\ SubSeq(t, 1, Len(t)) = t
  OBVIOUS
<1> QED
  BY <1>1, <1>2

\* An entry that is found is a hit that can be adopted, brought back if it was demoted.
LEMMA FoundKeeps ==
  ASSUME NEW own \in Own, NEW c, Books(c, own), NEW i \in 1 .. Len(c.entries), matchable(c, i)
  PROVE  /\ Books(found(c, i).store, own) /\ HitRight(found(c, i).hit)
         /\ From(found(c, i).store, c) /\ HitFrom(found(c, i).hit, c) /\ found(c, i).hit.text = c.entries[i].text
<1> DEFINE d == IF c.entries[i].demoted THEN promoted(c, i) ELSE c
<1>1. /\ Books(d, own) /\ i \in 1 .. Len(d.entries) /\ From(d, c) /\ ~ d.entries[i].demoted
      /\ d.entries[i].text = c.entries[i].text
  <2>1. CASE c.entries[i].demoted
    <3>1. heldFor(c, c.entries[i].text) # {}
      BY <2>1 DEF matchable
    <3> QED
      BY <2>1, <3>1, PromotedKeeps
  <2>2. CASE ~ c.entries[i].demoted
    BY <2>2, FromSelf
  <2> QED
    BY <2>1, <2>2
<1>2. found(c, i) = hitAt(d, i)
  BY DEF found
<1> HIDE DEF d
<1>3. /\ Books(hitAt(d, i).store, own) /\ From(hitAt(d, i).store, d)
      /\ hitAt(d, i).hit = [text |-> d.entries[i].text, blocks |-> d.entries[i].blocks, state |-> d.entries[i].state]
  BY <1>1, HitKeeps
<1>4. d.entries[i] \in Range(d.entries)
  BY <1>1, BooksOf
<1>5. /\ d.entries[i].text \in Seq(Page) /\ d.entries[i].blocks \in Seq(Block) /\ d.entries[i].state \in History
      /\ Len(d.entries[i].blocks) = Len(d.entries[i].text) /\ IsInjective(d.entries[i].blocks)
  BY <1>1, <1>4, BooksOf
<1>6. PICK hit, st : hit = hitAt(d, i).hit /\ st = hitAt(d, i).store
  OBVIOUS
<1>7. HitFrom(hit, d)
  BY <1>1, <1>3, <1>4, <1>6 DEF HitFrom, snapshotIn
<1>8. HitFrom(hit, c) /\ From(st, c) /\ hit.text = c.entries[i].text
  BY <1>1, <1>3, <1>6, <1>7, HitFromFrom, FromFrom
<1>9. HitRight(hit) /\ Books(st, own)
  BY <1>3, <1>5, <1>6 DEF HitRight
<1> QED
  BY <1>2, <1>6, <1>8, <1>9

\* The longest of the places of a list that are not none.
LEMMA LongestOf ==
  ASSUME NEW c, c.entries \in Seq(Entry), NEW I \in SUBSET (1 .. Len(c.entries)), I # {}
  PROVE  /\ longestOf(c, I) \in I
         /\ \A j \in I : Len(c.entries[j].text) <= Len(c.entries[longestOf(c, I)].text)
<1> DEFINE T == {Len(c.entries[i].text) : i \in I}
<1>1. \A i \in I : Len(c.entries[i].text) \in Nat
  <2>1. \A i \in I : c.entries[i] \in Entry
    OBVIOUS
  <2> QED
    BY <2>1, LenProperties DEF Entry
<1>2. IsFiniteSet(T)
  <2>1. \A n \in Nat : IsFiniteSet(1 .. n)
    BY FS_Interval
  <2>2. IsFiniteSet(1 .. Len(c.entries))
    BY <2>1, LenProperties
  <2>3. IsFiniteSet(I)
    BY <2>2, FS_Subset
  <2> DEFINE f == [i \in I |-> Len(c.entries[i].text)]
  <2>4. f \in Surjection(I, T)
    BY DEF Surjection
  <2> HIDE DEF f, T
  <2> QED
    BY <2>3, <2>4, FS_Surjection
<1>3. T \in SUBSET Nat /\ T # {}
  BY <1>1
<1>4. PICK m \in T : \A n \in T : n <= m
  <2> HIDE DEF T
  <2> QED
    BY <1>2, <1>3, GreatestOfFinite
<1>5. \E i \in I : \A j \in I : Len(c.entries[j].text) <= Len(c.entries[i].text)
  <2>1. PICK i \in I : m = Len(c.entries[i].text)
    BY <1>4
  <2> QED
    BY <1>4, <2>1
<1> QED
  BY <1>5 DEF longestOf

\* lookup: matches whose snapshot is lost are dropped, so that the longest left has one.
LEMMA LookedUpKeeps ==
  ASSUME NEW own \in Own, NEW c, Books(c, own), NEW text \in Seq(Page)
  PROVE  /\ Books(lookedUp(c, text).store, own) /\ HitRight(lookedUp(c, text).hit)
         /\ From(lookedUp(c, text).store, c) /\ HitFrom(lookedUp(c, text).hit, c)
         /\ IsPrefix(lookedUp(c, text).hit.text, text)
<1> DEFINE live == {i \in matching(c, text) : matchable(c, i)}
           I == {i \in matching(c, text) : \A j \in live : Len(c.entries[i].text) > Len(c.entries[j].text)}
           G == {c.entries[i] : i \in I}
           d == withoutLost(c, text)
           l == longestOf(d, matching(d, text))
<1>1. /\ DOMAIN c.entries = 1 .. Len(c.entries) /\ Range(c.entries) = {c.entries[j] : j \in 1 .. Len(c.entries)}
      /\ \A e \in Range(c.entries) : e.text \in Seq(Page) /\ Len(e.text) \in Nat /\ e.demoted \in BOOLEAN
      /\ DOMAIN c.held = 1 .. Len(c.held) /\ Range(c.held) = {c.held[j] : j \in 1 .. Len(c.held)}
      /\ \A e, f \in Range(c.entries) : e.text = f.text => e = f
  BY BooksOf, LenProperties DEF Books, EntriesRight
<1>2. d = dropped(c, I)
  BY DEF withoutLost
<1>3. I \in SUBSET (1 .. Len(c.entries))
  BY <1>1 DEF matching
<1>4. /\ Books(d, own) /\ Range(d.entries) = Range(c.entries) \ G
      /\ \A h : h \in Range(d.held) <=> h \in Range(c.held) /\ \A e \in G : e.text # h.text
  <2>1. G = entriesAt(c, I)
    BY DEF entriesAt
  <2> HIDE DEF I, d, G
  <2> QED
    BY <1>2, <1>3, <2>1, DroppedKeeps
<1>5. /\ DOMAIN d.entries = 1 .. Len(d.entries) /\ Range(d.entries) = {d.entries[j] : j \in 1 .. Len(d.entries)}
      /\ DOMAIN d.held = 1 .. Len(d.held) /\ Range(d.held) = {d.held[j] : j \in 1 .. Len(d.held)}
      /\ d.entries \in Seq(Entry)
  BY <1>4, BooksOf
<1>8. From(d, c)
  <2> HIDE DEF I, d
  <2> QED
    BY <1>2, <1>3, DroppedFrom
<1>6. CASE matching(d, text) = {}
  <2>1. lookedUp(c, text) = [store |-> d, hit |-> NoHit]
    BY <1>6 DEF lookedUp, longestIn
  <2> HIDE DEF d
  <2>2. IsPrefix(NoHit.text, text)
    BY LenProperties DEF IsPrefix, NoHit
  <2>3. HitFrom(NoHit, c)
    BY DEF HitFrom
  <2> QED
    BY <1>4, <1>8, <2>1, <2>2, <2>3, NoHitRight
<1>7. CASE matching(d, text) # {}
  <2> HIDE DEF d
  <2>1. matching(d, text) \in SUBSET (1 .. Len(d.entries))
    BY <1>5 DEF matching
  <2>2. l \in matching(d, text) /\ \A j \in matching(d, text) : Len(d.entries[j].text) <= Len(d.entries[l].text)
    BY <1>5, <1>7, <2>1, LongestOf
  <2> HIDE DEF l
  <2>3. l \in 1 .. Len(d.entries) /\ d.entries[l] \in Range(c.entries) \ G /\ IsPrefix(d.entries[l].text, text)
    <3>1. l \in 1 .. Len(d.entries) /\ d.entries[l] \in Range(d.entries)
      BY <1>5, <2>1, <2>2
    <3>2. IsPrefix(d.entries[l].text, text)
      BY <2>2 DEF matching
    <3> HIDE DEF G
    <3> QED
      BY <1>4, <3>1, <3>2
  <2>4. PICK i \in 1 .. Len(c.entries) : c.entries[i] = d.entries[l]
    BY <1>1, <2>3
  <2>5. i \in matching(c, text) /\ i \notin I
    BY <1>1, <2>3, <2>4 DEF matching
  <2>6. PICK j \in live : ~(Len(c.entries[i].text) > Len(c.entries[j].text))
    BY <2>5
  <2>7. j \in 1 .. Len(c.entries) /\ matchable(c, j) /\ IsPrefix(c.entries[j].text, text) /\ c.entries[j] \in Range(c.entries)
    BY <1>1, <2>6 DEF matching
  <2>8. j \notin I
    <3>1. Len(c.entries[j].text) \in Nat
      BY <1>1, <2>7
    <3> QED
      BY <2>6, <3>1
  <2>9. c.entries[j] \notin G
    <3>1. \A a \in I : a = j \/ c.entries[a] # c.entries[j]
      <4>1. IsInjective(c.entries) /\ c.entries \in Seq(Entry)
        BY BooksOf
      <4>2. \A a, b \in 1 .. Len(c.entries) : c.entries[a] = c.entries[b] => a = b
        BY <4>1, RangeOf
      <4> QED
        BY <1>3, <2>7, <4>2
    <3> QED
      BY <2>8, <3>1
  <2>10. PICK k \in 1 .. Len(d.entries) : d.entries[k] = c.entries[j]
    <3> HIDE DEF G
    <3>1. c.entries[j] \in Range(d.entries)
      BY <1>4, <2>7, <2>9
    <3> QED
      BY <1>5, <3>1
  <2>11. k \in matching(d, text)
    BY <1>5, <2>7, <2>10 DEF matching
  <2>12. Len(c.entries[j].text) = Len(c.entries[i].text)
    <3>1. Len(c.entries[j].text) <= Len(c.entries[i].text)
      BY <2>2, <2>4, <2>10, <2>11
    <3>2. Len(c.entries[j].text) \in Nat /\ Len(c.entries[i].text) \in Nat
      BY <1>1, <2>7
    <3> QED
      BY <2>6, <3>1, <3>2
  <2>13. c.entries[j] = c.entries[i]
    <3>1. c.entries[j].text \in Seq(Page) /\ c.entries[i].text \in Seq(Page) /\ c.entries[i] \in Range(c.entries)
      BY <1>1, <2>7
    <3>2. IsPrefix(c.entries[i].text, text)
      BY <2>3, <2>4
    <3>3. c.entries[j].text = c.entries[i].text
      BY <2>7, <2>12, <3>1, <3>2, PrefixOfLength
    <3> QED
      BY <1>1, <2>7, <3>1, <3>3
  <2>14. matchable(d, l)
    <3>1. CASE ~ c.entries[j].demoted
      BY <2>4, <2>13, <3>1 DEF matchable
    <3>2. CASE heldFor(c, c.entries[j].text) # {}
      <4>1. PICK a \in 1 .. Len(c.held) : c.held[a].text = c.entries[j].text
        BY <1>1, <3>2 DEF heldFor
      <4>2. \A e \in G : e.text # c.held[a].text
        <5>1. ASSUME NEW e \in G, e.text = c.held[a].text PROVE FALSE
          <6>1. e \in Range(c.entries)
            BY <1>1, <1>3
          <6> QED
            BY <1>1, <2>7, <2>9, <4>1, <5>1, <6>1
        <5> QED
          BY <5>1
      <4>3. c.held[a] \in Range(d.held)
        BY <1>1, <1>4, <4>2
      <4>4. PICK b \in 1 .. Len(d.held) : d.held[b] = c.held[a]
        BY <1>5, <4>3
      <4>5. b \in heldFor(d, d.entries[l].text)
        BY <1>5, <2>4, <2>13, <4>1, <4>4 DEF heldFor
      <4> QED
        BY <4>5 DEF matchable
    <3> QED
      BY <2>7, <3>1, <3>2 DEF matchable
  <2>15. lookedUp(c, text) = found(d, l)
    BY <1>7 DEF lookedUp, longestIn, d, l
  <2>16. PICK got : got = found(d, l)
    OBVIOUS
  <2>17. /\ Books(got.store, own) /\ HitRight(got.hit) /\ From(got.store, d) /\ HitFrom(got.hit, d)
         /\ got.hit.text = d.entries[l].text
    BY <1>4, <2>3, <2>14, <2>16, FoundKeeps
  <2>18. From(got.store, c) /\ HitFrom(got.hit, c) /\ IsPrefix(got.hit.text, text)
    BY <1>8, <2>3, <2>17, FromFrom, HitFromFrom
  <2> HIDE DEF G, I, live
  <2> QED
    BY <2>15, <2>16, <2>17, <2>18
<1> QED
  BY <1>6, <1>7

-----------------------------------------------------------------------------
(* The pool's blocks *)

\* The blocks of a request's row, and none if it has no row.
blocksIn(rw, r) == IF rw[r].phase \in {"prefill", "decode"} THEN Range(rw[r].blocks) ELSE {}

LEMMA OwnedOf ==
  ASSUME NEW rw
  PROVE  ownedIn(rw) \in Own /\ \A b : IsFiniteSet(ownersOf(rw, b)) /\ Cardinality(ownersOf(rw, b)) \in Nat
<1>1. ASSUME NEW b PROVE IsFiniteSet(ownersOf(rw, b)) /\ Cardinality(ownersOf(rw, b)) \in Nat
  <2>1. IsFiniteSet(Request) /\ ownersOf(rw, b) \in SUBSET Request
    BY TiersAssumption DEF ownersOf
  <2> QED
    BY <2>1, FS_Subset, FS_CardinalityType
<1> QED
  BY <1>1 DEF ownedIn, Own

\* A row that takes blocks it does not have is one more owner of each.
LEMMA OwnersGrow ==
  ASSUME NEW rw, NEW rx, NEW r \in Request, \A q \in Request \ {r} : rx[q] = rw[q],
         NEW N, blocksIn(rx, r) = blocksIn(rw, r) \cup N, N \cap blocksIn(rw, r) = {}
  PROVE  \A b \in Block : ownedIn(rx)[b] = ownedIn(rw)[b] + IF b \in N THEN 1 ELSE 0
<1> SUFFICES ASSUME NEW b \in Block
             PROVE  ownedIn(rx)[b] = ownedIn(rw)[b] + IF b \in N THEN 1 ELSE 0
  OBVIOUS
<1>1. ASSUME NEW ry PROVE \A q \in Request : q \in ownersOf(ry, b) <=> b \in blocksIn(ry, q)
  BY DEF ownersOf, blocksIn
<1>2. \A q \in Request : q # r => (b \in blocksIn(rx, q) <=> b \in blocksIn(rw, q))
  BY DEF blocksIn
<1>3. ownersOf(rx, b) \in SUBSET Request /\ ownersOf(rw, b) \in SUBSET Request
  BY DEF ownersOf
<1>4. ownersOf(rx, b) = IF b \in N THEN ownersOf(rw, b) \cup {r} ELSE ownersOf(rw, b)
  <2>1. \A q \in Request : q \in ownersOf(rx, b) <=> q \in ownersOf(rw, b) \/ (q = r /\ b \in N)
    BY <1>1, <1>2
  <2> QED
    BY <1>3, <2>1
<1>5. b \in N => r \notin ownersOf(rw, b)
  BY <1>1
<1>6. IsFiniteSet(ownersOf(rw, b)) /\ Cardinality(ownersOf(rw, b)) \in Nat
  BY OwnedOf
<1>7. r \notin ownersOf(rw, b) => Cardinality(ownersOf(rw, b) \cup {r}) = Cardinality(ownersOf(rw, b)) + 1
  BY <1>6, FS_AddElement
<1>8. Cardinality(ownersOf(rx, b)) = Cardinality(ownersOf(rw, b)) + IF b \in N THEN 1 ELSE 0
  BY <1>4, <1>5, <1>6, <1>7
<1> QED
  BY <1>8 DEF ownedIn

\* The books with other refcounts.
LEMMA RefsMoved ==
  ASSUME NEW own \in Own, NEW other \in Own, NEW c, Books(c, own),
         NEW ref \in [Block -> Int], \A b \in Block : ref[b] - c.ref[b] = other[b] - own[b]
  PROVE  Books([c EXCEPT !.ref = ref], other)
<1> DEFINE d == [c EXCEPT !.ref = ref]
<1>1. /\ c \in StoreType /\ EntriesRight(c.entries) /\ HeldRight(c.entries, c.held) /\ c.used = Cardinality(onCard(c.entries))
      /\ c.heldBytes = Len(c.held) /\ Len(c.held) <= DramBytes
      /\ \A b \in Block : c.ref[b] = own[b] + Cardinality(entriesWith(c.entries, b))
  BY DEF Books
<1>2. /\ d.entries = c.entries /\ d.used = c.used /\ d.held = c.held /\ d.heldBytes = c.heldBytes /\ d.ref = ref
      /\ d \in StoreType
  BY <1>1 DEF StoreType
<1>3. ASSUME NEW b \in Block PROVE ref[b] = other[b] + Cardinality(entriesWith(c.entries, b))
  <2>1. c.entries \in Seq(Entry) /\ entriesWith(c.entries, b) \in SUBSET Range(c.entries)
    BY BooksOf DEF entriesWith
  <2>2. Cardinality(entriesWith(c.entries, b)) \in Nat
    BY <2>1, FiniteRange
  <2>3. own[b] \in Nat /\ other[b] \in Nat /\ ref[b] \in Int /\ ref[b] - c.ref[b] = other[b] - own[b]
    BY DEF Own
  <2> QED
    BY <1>1, <2>2, <2>3
<1> HIDE DEF d
<1>4. Books(d, other)
  BY <1>1, <1>2, <1>3 DEF Books
<1> QED
  BY <1>4 DEF d

\* retain of blocks a row takes.
LEMMA WithRefsKeeps ==
  ASSUME NEW own \in Own, NEW other \in Own, NEW c, Books(c, own), NEW blocks,
         \A b \in Block : other[b] = own[b] + IF b \in Range(blocks) THEN 1 ELSE 0
  PROVE  Books(withRefs(c, blocks), other)
<1> DEFINE ref == [b \in Block |-> c.ref[b] + IF b \in Range(blocks) THEN 1 ELSE 0]
<1>1. c.ref \in [Block -> Int] /\ own \in [Block -> Nat]
  BY BooksOf DEF Own
<1>2. ref \in [Block -> Int]
  BY <1>1
<1>3. ASSUME NEW b \in Block PROVE ref[b] - c.ref[b] = other[b] - own[b]
  <2>1. c.ref[b] \in Int /\ own[b] \in Int /\ other[b] = own[b] + IF b \in Range(blocks) THEN 1 ELSE 0
    BY <1>1
  <2> QED
    BY <2>1
<1>4. withRefs(c, blocks) = [c EXCEPT !.ref = ref]
  BY DEF withRefs
<1> HIDE DEF ref
<1> QED
  BY <1>2, <1>3, <1>4, RefsMoved

\* _release: the row's blocks.
LEMMA ReleasedKeeps ==
  ASSUME NEW own \in Own, NEW other \in Own, NEW c, Books(c, own), NEW r,
         \A b \in Block : own[b] = other[b] + IF b \in Range(row[r].blocks) THEN 1 ELSE 0
  PROVE  Books(released(c, r), other)
<1> DEFINE ref == [b \in Block |-> c.ref[b] - IF b \in Range(row[r].blocks) THEN 1 ELSE 0]
<1>1. c.ref \in [Block -> Int] /\ other \in [Block -> Nat]
  BY BooksOf DEF Own
<1>2. ref \in [Block -> Int]
  BY <1>1
<1>3. ASSUME NEW b \in Block PROVE ref[b] - c.ref[b] = other[b] - own[b]
  <2>1. c.ref[b] \in Int /\ other[b] \in Int /\ own[b] = other[b] + IF b \in Range(row[r].blocks) THEN 1 ELSE 0
    BY <1>1
  <2> QED
    BY <2>1
<1>4. released(c, r) = [c EXCEPT !.ref = ref]
  BY DEF released
<1> HIDE DEF ref
<1> QED
  BY <1>2, <1>3, <1>4, RefsMoved

\* Blocks off the free list, as many as there are or fewer.
LEMMA FreshOf ==
  ASSUME NEW c, NEW n \in Nat, free(c) >= n
  PROVE  /\ fresh(c, n) \in Seq(Block) /\ Len(fresh(c, n)) = n /\ IsInjective(fresh(c, n))
         /\ Range(fresh(c, n)) \subseteq freeBlocks(c)
<1> DEFINE F == freeBlocks(c)
           N == Cardinality(F)
<1>1. IsFiniteSet(F) /\ F \in SUBSET Block
  <2>1. \A k \in Nat : IsFiniteSet(1 .. k)
    BY FS_Interval
  <2>2. IsFiniteSet(Block)
    BY <2>1, StoreAssumption DEF Block
  <2>3. F \in SUBSET Block
    BY DEF freeBlocks
  <2> QED
    BY <2>2, <2>3, FS_Subset
<1> HIDE DEF F
<1>2. N \in Nat /\ N >= n /\ ExistsBijection(1 .. N, F)
  BY <1>1, FS_CardinalityType DEF free, F
<1>3. PICK f \in [1 .. N -> F] : \A i, j \in 1 .. N : f[i] = f[j] => i = j
  <2>1. PICK f : f \in Bijection(1 .. N, F)
    BY <1>2 DEF ExistsBijection
  <2> QED
    BY <2>1 DEF Bijection, Injection, IsInjective
<1> HIDE DEF N
<1> DEFINE s == [i \in 1 .. n |-> f[i]]
<1>4. s \in [1 .. n -> F] /\ IsInjective(s)
  BY <1>2, <1>3 DEF IsInjective
<1>5. fresh(c, n) \in [1 .. n -> F] /\ IsInjective(fresh(c, n))
  <2> HIDE DEF s
  <2> QED
    BY <1>4 DEF fresh, F
<1>6. PICK g : g = fresh(c, n)
  OBVIOUS
<1>7. g \in Seq(Block) /\ Len(g) = n /\ Range(g) \subseteq F
  <2>1. g \in [1 .. n -> F] /\ g \in [1 .. n -> Block]
    BY <1>1, <1>5, <1>6
  <2>2. g \in Seq(Block) /\ Len(g) = n
    BY <2>1
  <2> QED
    BY <2>1, <2>2, RangeOf
<1> QED
  BY <1>5, <1>6, <1>7 DEF F

-----------------------------------------------------------------------------
(* _admit *)

\* A hit that leaves something of the text to prefill.
PartOf(hit, text) == HitRight(hit) /\ Len(hit.text) < Len(text) /\ IsPrefix(hit.text, text)

LEMMA HitOfPart ==
  ASSUME NEW look, HitRight(look.hit), NEW text \in Seq(Page), text # <<>>, IsPrefix(look.hit.text, text),
         NEW c, HitFrom(look.hit, c)
  PROVE  PartOf(hitOf(look, text), text) /\ HitFrom(hitOf(look, text), c)
<1>1. Len(text) \in Nat /\ Len(text) # 0 /\ Len(look.hit.text) \in Nat
  BY LenProperties DEF HitRight
<1>2. Len(NoHit.text) = 0 /\ IsPrefix(NoHit.text, text) /\ HitFrom(NoHit, c)
  BY <1>1 DEF NoHit, IsPrefix, HitFrom
<1>3. CASE Len(look.hit.text) >= Len(text)
  BY <1>1, <1>2, <1>3, NoHitRight DEF hitOf, PartOf
<1>4. CASE ~(Len(look.hit.text) >= Len(text))
  BY <1>1, <1>4 DEF hitOf, PartOf
<1> QED
  BY <1>3, <1>4

\* The block check leaves a store whose books are right, and what it says is so.
LEMMA RoomKeeps ==
  ASSUME NEW own \in Own, NEW c, Books(c, own), NEW text \in Seq(Page), text # <<>>
  PROVE  LET got == room(c, text)
         IN  /\ Books(got.store, own) /\ PartOf(got.hit, text)
             /\ From(got.store, c) /\ HitFrom(got.hit, c)
             /\ got.enough = (free(got.store) >= needed(text, got.hit))
<1> DEFINE Good(got) == /\ Books(got.store, own) /\ PartOf(got.hit, text)
                        /\ From(got.store, c) /\ HitFrom(got.hit, c)
                        /\ got.enough = (free(got.store) >= needed(text, got.hit))
<1>1. ASSUME NEW d, Books(d, own), From(d, c), NEW hit, PartOf(hit, text), HitFrom(hit, c)
      PROVE  Good(checked([store |-> d, hit |-> hit], text))
  BY <1>1 DEF checked
<1>2. ASSUME NEW d, Books(d, own), From(d, c), NEW hit, PartOf(hit, text), HitFrom(hit, c)
      PROVE  Good(roomIn(d, hit, text))
  <2> DEFINE n == needed(text, hit)
             e == evictedUntil(d, n)
             again == matchedAgain(e, hit, text)
  <2>1. n \in Int
    BY <1>2, LenProperties DEF needed, PartOf, HitRight
  <2>2. Books(e, own) /\ From(e, c)
    <3> HIDE DEF n
    <3> QED
      BY <1>2, <2>1, DropsKeep, FromFrom
  <2> HIDE DEF n, e
  <2>3. /\ Books(again.store, own) /\ PartOf(again.hit, text) /\ From(again.store, c) /\ HitFrom(again.hit, c)
        /\ again = [store |-> again.store, hit |-> again.hit]
    <3>1. CASE boots(text)
      BY <1>2, <2>2, <3>1 DEF matchedAgain
    <3>2. CASE ~ boots(text)
      <4>1. /\ Books(lookedUp(e, text).store, own) /\ HitRight(lookedUp(e, text).hit)
            /\ From(lookedUp(e, text).store, c) /\ HitFrom(lookedUp(e, text).hit, c)
            /\ IsPrefix(lookedUp(e, text).hit.text, text)
        BY <2>2, LookedUpKeeps, FromFrom, HitFromFrom
      <4>2. again = [store |-> lookedUp(e, text).store, hit |-> hitOf(lookedUp(e, text), text)]
        BY <3>2 DEF matchedAgain
      <4>3. PICK look : look = lookedUp(e, text)
        OBVIOUS
      <4>4. PartOf(hitOf(look, text), text) /\ HitFrom(hitOf(look, text), c)
        BY <4>1, <4>3, HitOfPart
      <4> HIDE DEF again
      <4> QED
        BY <4>1, <4>2, <4>3, <4>4
    <3> QED
      BY <3>1, <3>2
  <2> HIDE DEF again
  <2>4. Good(checked(again, text))
    <3> HIDE DEF Good
    <3> QED
      BY <1>1, <2>3
  <2>5. Good(checked([store |-> d, hit |-> hit], text))
    <3> HIDE DEF Good
    <3> QED
      BY <1>1, <1>2
  <2>6. roomIn(d, hit, text) \in {checked(again, text), checked([store |-> d, hit |-> hit], text)}
    BY DEF roomIn, again, e, n
  <2> HIDE DEF Good
  <2> QED
    BY <2>4, <2>5, <2>6
<1>3. PICK look : look = lookedUp(c, text)
  OBVIOUS
<1>4. /\ Books(look.store, own) /\ HitRight(look.hit) /\ From(look.store, c) /\ HitFrom(look.hit, c)
      /\ IsPrefix(look.hit.text, text)
  BY <1>3, LookedUpKeeps
<1>5. PartOf(hitOf(look, text), text) /\ HitFrom(hitOf(look, text), c)
  BY <1>4, HitOfPart
<1>6. room(c, text) = roomIn(look.store, hitOf(look, text), text)
  BY <1>3 DEF room, roomFor
<1> HIDE DEF Good
<1>7. Good(room(c, text))
  BY <1>2, <1>4, <1>5, <1>6
<1> QED
  BY <1>7 DEF Good

-----------------------------------------------------------------------------
(* Rows *)

LEMMA Constants ==
  /\ MaxRunning \in Nat /\ MaxUpdates \in Nat /\ MaxRot \in Nat /\ LastProcess \in Nat \ {0}
  /\ \A r \in Request : Prompt[r] \in Seq(Page) /\ Prompt[r] # <<>> /\ MaxReply[r] \in Nat /\ Process[r] \in Nat \ {0}
  /\ Reply \in Page
<1>1. MaxRunning \in Nat /\ MaxUpdates \in Nat /\ MaxRot \in Nat
  BY TiersAssumption
<1>2. LastProcess \in Nat \ {0}
  <2> DEFINE T == {Process[r] : r \in Request}
             f == [r \in Request |-> Process[r]]
  <2>1. T \in SUBSET (Nat \ {0}) /\ T # {}
    BY TiersAssumption
  <2>2. IsFiniteSet(T)
    <3>1. f \in Surjection(Request, T)
      BY DEF Surjection
    <3> HIDE DEF f, T
    <3> QED
      BY <3>1, TiersAssumption, FS_Surjection
  <2> HIDE DEF T
  <2>3. \E m \in T : \A n \in T : n <= m
    BY <2>1, <2>2, GreatestOfFinite
  <2>4. \E m \in T : \A n \in T : m >= n
    BY <2>1, <2>3
  <2>5. Max(T) \in T
    BY <2>4 DEF Max
  <2> QED
    BY <2>1, <2>5 DEF LastProcess, T
<1>3. ASSUME NEW r \in Request
      PROVE  Prompt[r] \in Seq(Page) /\ Prompt[r] # <<>> /\ MaxReply[r] \in Nat /\ Process[r] \in Nat \ {0}
  <2>1. /\ Prompt[r] \in Seq(Range(Prompt[r])) /\ Len(Prompt[r]) \in 1 .. NumBlocks
        /\ MaxReply[r] \in Nat /\ Process[r] \in Nat \ {0}
    BY TiersAssumption
  <2>2. Prompt[r] # <<>>
    BY <2>1, StoreAssumption
  <2>3. Range(Prompt[r]) \subseteq Page
    BY DEF Page
  <2>4. Prompt[r] \in Seq(Page)
    BY <2>1, <2>3, SeqMonotonic
  <2> QED
    BY <2>1, <2>2, <2>4
<1> QED
  BY <1>1, <1>2, <1>3 DEF Page

\* A row that has no blocks: its request is not in the engine.
LEMMA IdleRow ==
  ASSUME NEW r \in Request, NEW ph \in {"new", "waiting", "gone"}
  PROVE  LET rw == [newRow(r) EXCEPT !.phase = ph]
         IN  rw \in RowType /\ RowRight(r, rw) /\ rw.phase = ph
<1> DEFINE rw == [newRow(r) EXCEPT !.phase = ph]
<1>1. /\ <<>> \in Seq(Block) /\ <<>> \in History /\ Prompt[r] \in Seq(Page) /\ Prompt[r] # <<>>
      /\ Len(Prompt[r]) \in Nat
  BY Constants, LenProperties DEF History
<1>2. NoSnapshot \in [len : Nat, state : History] /\ NoSnapshot.len = 0 /\ NoState \in History
  BY <1>1 DEF NoSnapshot, NoState
<1>3. PICK n : n = newRow(r)
  OBVIOUS
<1>4. n \in RowType /\ n.text = Prompt[r] /\ n.from = 0 /\ n.pending = NoSnapshot
  BY <1>1, <1>2, <1>3 DEF newRow, RowType
<1>5. PICK x : x = [n EXCEPT !.phase = ph]
  OBVIOUS
<1>6. x \in RowType /\ x.phase = ph /\ x.text = Prompt[r] /\ x.from = 0 /\ x.pending = NoSnapshot
  BY <1>4, <1>5 DEF RowType
<1>7. rw = x
  BY <1>3, <1>5
<1> HIDE DEF rw
<1>8. rw = [newRow(r) EXCEPT !.phase = rw.phase]
  BY <1>6, <1>7 DEF rw
<1>9. RowRight(r, rw)
  BY <1>1, <1>2, <1>6, <1>7, <1>8 DEF RowRight
<1> QED
  BY <1>6, <1>7, <1>9 DEF rw

\* A row, where TInv holds.
LEMMA RowOf ==
  ASSUME TInv, NEW r \in Request
  PROVE  /\ row[r] \in RowType /\ RowRight(r, row[r])
         /\ row[r].text \in Seq(Page) /\ row[r].text # <<>> /\ Len(row[r].text) \in Nat /\ Len(row[r].text) > 0
         /\ row[r].blocks \in Seq(Block) /\ row[r].from \in Nat /\ row[r].from <= Len(row[r].text)
         /\ row[r].state \in History /\ row[r].pending \in [len : Nat, state : History]
         /\ row[r].pending.len <= Len(row[r].text) /\ row[r].entry \in Nat
         /\ row[r].booted \in BOOLEAN /\ row[r].saved \in BOOLEAN /\ row[r].interior \in BOOLEAN
         /\ inEngine(r) => Len(row[r].blocks) = Len(row[r].text) /\ IsInjective(row[r].blocks)
<1>1. row[r] \in RowType /\ RowRight(r, row[r])
  BY DEF TInv, Rows
<1>2. row[r].text # <<>> => Len(row[r].text) > 0
  BY <1>1 DEF RowType
<1> QED
  BY <1>1, <1>2, LenProperties DEF RowType, RowRight, inEngine

\* One row changes.
LEMMA RowsWith ==
  ASSUME TInv, NEW r \in Request, NEW rw \in RowType, RowRight(r, rw), row' = [row EXCEPT ![r] = rw]
  PROVE  Rows' /\ row'[r] = rw /\ \A q \in Request \ {r} : row'[q] = row[q]
<1>1. row \in [Request -> RowType] /\ \A q \in Request : RowRight(q, row[q])
  BY DEF TInv, Rows
<1>2. row'[r] = rw /\ (\A q \in Request \ {r} : row'[q] = row[q]) /\ row' \in [Request -> RowType]
  BY <1>1
<1>3. ASSUME NEW q \in Request PROVE RowRight(q, row'[q])
  BY <1>1, <1>2
<1> QED
  BY <1>2, <1>3 DEF Rows, RowRight, newRow

\* What pages add to a state.
LEMMA ConsumedOf ==
  ASSUME TInv, NEW h \in History, NEW text \in Seq(Page), NEW from \in Nat, NEW to \in Nat, to <= Len(text)
  PROVE  consumed(h, text, from, to) \in History
<1> DEFINE n == to - from
           s == [i \in 1 .. n |-> <<text[from + i], weights>>]
<1>1. weights \in Nat
  BY Constants DEF TInv, Counted
<1>2. \A i \in 1 .. n : text[from + i] \in Page
  BY LenProperties
<1>3. s \in Seq(Page \X Nat)
  <2>1. CASE n >= 0
    <3>1. n \in Nat
      BY <2>1
    <3>2. \A i \in 1 .. n : <<text[from + i], weights>> \in Page \X Nat
      BY <1>1, <1>2
    <3>3. s \in [1 .. n -> Page \X Nat]
      BY <3>2
    <3> HIDE DEF n, s
    <3> QED
      BY <3>1, <3>3, SeqDef
  <2>2. CASE ~(n >= 0)
    <3>1. 1 .. n = {}
      BY <2>2
    <3>2. s = <<>>
      BY <3>1
    <3> QED
      BY <3>2
  <2> QED
    BY <2>1, <2>2
<1>4. consumed(h, text, from, to) = h \o s
  BY DEF consumed
<1> HIDE DEF s
<1> QED
  BY <1>3, <1>4, ConcatProperties DEF History

\* Texts that begin alike have the same histories.
LEMMA AtAlike ==
  ASSUME NEW s, NEW t, NEW n \in Nat, \A i \in 1 .. n : s[i] = t[i], NEW w, NEW m \in 0 .. n
  PROVE  at(s, m, w) = at(t, m, w)
<1>1. \A i \in 1 .. m : i \in 1 .. n
  OBVIOUS
<1>2. \A i \in 1 .. m : <<s[i], w>> = <<t[i], w>>
  BY <1>1
<1> QED
  BY <1>2 DEF at

\* The first n blocks of a row.
firstOf(blocks, n) == {blocks[i] : i \in 1 .. n}

\* publish stores a beginning of the row's text.
LEMMA PublishKeeps ==
  ASSUME NEW own \in Own, NEW c, Books(c, own), NEW text \in Seq(Page), NEW blocks \in Seq(Block),
         Len(blocks) = Len(text), IsInjective(blocks), NEW n \in Nat, n <= Len(text), NEW state \in History
  PROVE  /\ Books(publish(c, text, blocks, n, state), own)
         /\ \A cl, w : StoreServes(c, cl, w) /\ pagesRight(text, blocks, n, cl, w) /\ state = at(text, n, w)
                       => StoreServes(publish(c, text, blocks, n, state), cl, w)
         /\ \A e \in Range(publish(c, text, blocks, n, state).entries) :
              \/ \E f \in Range(c.entries) : f.blocks = e.blocks
              \/ Range(e.blocks) \subseteq firstOf(blocks, n)
<1>1. PICK one \in Nat \ {0} : one = 1
  OBVIOUS
<1>2. /\ SubSeq(text, one, n) \in Seq(Page) /\ SubSeq(blocks, one, n) \in Seq(Block)
      /\ IsInjective(SubSeq(blocks, one, n))
  BY PieceOnce
<1>3. Len(SubSeq(text, one, n)) = n /\ Len(SubSeq(blocks, one, n)) = n
  BY <1>1, LenProperties
<1>4. publish(c, text, blocks, n, state) = inserted(c, SubSeq(text, one, n), SubSeq(blocks, one, n), state)
  BY <1>1 DEF publish
<1>5. PICK s, z : s = SubSeq(text, one, n) /\ z = SubSeq(blocks, one, n)
  OBVIOUS
<1>6. PICK p : p = publish(c, text, blocks, n, state)
  OBVIOUS
<1>12. /\ s \in Seq(Page) /\ z \in Seq(Block) /\ IsInjective(z) /\ Len(s) = n /\ Len(z) = n
       /\ p = inserted(c, s, z, state)
  BY <1>2, <1>3, <1>4, <1>5, <1>6
<1>13. /\ Books(inserted(c, s, z, state), own)
       /\ \E d : /\ From(inserted(c, s, z, state), d) /\ d.held = c.held
                 /\ \A e \in Range(d.entries) : \/ e \in Range(c.entries)
                                                \/ e.text = s /\ e.blocks = z /\ e.state = state
  BY <1>12, InsertedKeeps
<1>7. Books(p, own)
  BY <1>12, <1>13
<1>8. PICK d : /\ From(p, d) /\ d.held = c.held
               /\ \A e \in Range(d.entries) : \/ e \in Range(c.entries)
                                              \/ e.text = s /\ e.blocks = z /\ e.state = state
  BY <1>12, <1>13
<1>9. (\A i \in 1 .. n : s[i] = text[i] /\ z[i] = blocks[i]) /\ Len(s) = n /\ Range(z) = {z[i] : i \in 1 .. n}
  <2>1. \A i \in 1 .. n : s[i] = text[i] /\ z[i] = blocks[i]
    <3>1. Len(text) \in Nat
      BY LenProperties
    <3>2. ASSUME NEW i \in 1 .. n PROVE s[i] = text[i] /\ z[i] = blocks[i]
      <4>1. i \in 1 .. n - one + 1 /\ one + i - 1 = i /\ \A j \in one .. n : text[j] \in Page /\ blocks[j] \in Block
        BY <1>1, <3>1
      <4>2. SubSeq(text, one, n)[i] = text[one + i - 1] /\ SubSeq(blocks, one, n)[i] = blocks[one + i - 1]
        BY <1>1, <4>1, SubSeqProperties
      <4> QED
        BY <1>5, <4>1, <4>2
    <3> QED
      BY <3>2
  <2> QED
    BY <1>12, <2>1, RangeOf
<1>10. ASSUME NEW cl, NEW w, StoreServes(c, cl, w), pagesRight(text, blocks, n, cl, w), state = at(text, n, w)
       PROVE  StoreServes(p, cl, w)
  <2>1. \A m \in 0 .. n : at(s, m, w) = at(text, m, w)
    <3> SUFFICES ASSUME NEW m \in 0 .. n PROVE at(s, m, w) = at(text, m, w)
      OBVIOUS
    <3>1. \A i \in 1 .. n : s[i] = text[i]
      BY <1>9
    <3> QED
      BY ONLY n \in Nat, <3>1, m \in 0 .. n, AtAlike
  <2>2. pagesRight(s, z, Len(s), cl, w) /\ state = at(s, Len(s), w)
    BY <1>9, <1>10, <2>1 DEF pagesRight
  <2>3. StoreServes(d, cl, w)
    BY <1>8, <1>10, <2>2 DEF StoreServes
  <2> QED
    BY <1>8, <2>3, FromServes
<1>11. ASSUME NEW e \in Range(p.entries)
       PROVE  (\E f \in Range(c.entries) : f.blocks = e.blocks) \/ Range(e.blocks) \subseteq firstOf(blocks, n)
  <2>1. PICK f \in Range(d.entries) : f.blocks = e.blocks
    BY <1>8 DEF From
  <2>2. CASE f.blocks = z
    BY <1>9, <2>1, <2>2 DEF firstOf
  <2> QED
    BY <1>8, <2>1, <2>2
<1> QED
  BY <1>6, <1>7, <1>10, <1>11

-----------------------------------------------------------------------------
(* Steps *)

LEMMA WorldKept ==
  ASSUME TInv, worldUnchanged
  PROVE  Counted' /\ Files'
<1>1. Counted'
  BY DEF TInv, Counted, worldUnchanged
<1>2. Files'
  BY DEF TInv, Files, worldUnchanged, bootVars
<1> QED
  BY <1>1, <1>2

\* No row has a block, at first and in a process that starts.
LEMMA EmptyBooks ==
  ASSUME NEW rw, \A r \in Request : rw[r].phase \notin {"prefill", "decode"}
  PROVE  Books(emptyStore, ownedIn(rw))
<1> DEFINE own == ownedIn(rw)
<1>1. ASSUME NEW b \in Block PROVE own[b] = 0
  <2>1. ownersOf(rw, b) = {}
    BY DEF ownersOf
  <2> QED
    BY <2>1, FS_EmptySet DEF ownedIn
<1>2. /\ <<>> \in Seq(Entry) /\ <<>> \in Seq(Held) /\ Range(<<>>) = {} /\ IsInjective(<<>>) /\ Len(<<>>) = 0
  BY DEF Range, IsInjective
<1>3. EntriesRight(<<>>) /\ HeldRight(<<>>, <<>>) /\ onCard(<<>>) = {} /\ \A b : entriesWith(<<>>, b) = {}
  BY <1>2 DEF EntriesRight, HeldRight, onCard, entriesWith
<1>4. emptyStore \in StoreType
  BY <1>2 DEF emptyStore, StoreType
<1>5. /\ emptyStore.entries = <<>> /\ emptyStore.held = <<>> /\ emptyStore.used = 0 /\ emptyStore.heldBytes = 0
      /\ \A b \in Block : emptyStore.ref[b] = 0
  BY DEF emptyStore
<1>6. Cardinality({}) = 0 /\ DramBytes >= 0
  BY FS_EmptySet, StoreAssumption
<1> HIDE DEF own
<1>7. Books(emptyStore, own)
  <2>1. PICK c : c = emptyStore
    OBVIOUS
  <2>2. EntriesRight(c.entries) /\ HeldRight(c.entries, c.held) /\ Len(c.held) <= DramBytes
    BY <1>2, <1>3, <1>5, <1>6, <2>1
  <2>3. c.used = Cardinality(onCard(c.entries)) /\ c.heldBytes = Len(c.held)
    BY <1>2, <1>3, <1>5, <1>6, <2>1
  <2>4. \A b \in Block : c.ref[b] = own[b] + Cardinality(entriesWith(c.entries, b))
    <3> SUFFICES ASSUME NEW b \in Block PROVE c.ref[b] = own[b] + Cardinality(entriesWith(c.entries, b))
      OBVIOUS
    <3>1. c.ref[b] = 0 /\ own[b] = 0
      BY <1>1, <1>5, <2>1
    <3>2. entriesWith(c.entries, b) = {}
      BY <1>3, <1>5, <2>1
    <3>3. Cardinality(entriesWith(c.entries, b)) = 0
      BY <1>6, <3>2
    <3> QED
      BY <3>1, <3>3
  <2> QED
    BY <1>4, <2>1, <2>2, <2>3, <2>4 DEF Books
<1> QED
  BY <1>7 DEF own

LEMMA InitTInv == Init => TInv
<1> SUFFICES ASSUME Init PROVE TInv
  OBVIOUS
<1>1. Counted
  BY Constants DEF Init, Counted
<1>2. ASSUME NEW r \in Request PROVE row[r] \in RowType /\ RowRight(r, row[r]) /\ row[r].phase = "new"
  <2>1. PICK n : n = newRow(r)
    OBVIOUS
  <2>2. [n EXCEPT !.phase = "new"] = n
    <3>1. n = [x \in DOMAIN n |-> n[x]] /\ "phase" \in DOMAIN n /\ n["phase"] = "new"
      BY <2>1 DEF newRow
    <3> QED
      BY ONLY <3>1
  <2>3. row[r] = [newRow(r) EXCEPT !.phase = "new"]
    BY <2>1, <2>2 DEF Init
  <2> QED
    BY <2>3, IdleRow
<1>3. Rows
  BY <1>2 DEF Rows, Init
<1>4. Queue
  <2>1. waiting = <<>> /\ <<>> \in Seq(Request) /\ IsInjective(<<>>) /\ Range(<<>>) = {}
    BY DEF Init, IsInjective, Range
  <2> QED
    BY <1>2, <2>1 DEF Queue
<1>5. Books(cache, ownedIn(row))
  BY <1>2, EmptyBooks DEF Init
<1>6. Files
  BY DEF Init, BootInit, Files, File
<1> QED
  BY <1>1, <1>3, <1>4, <1>5, <1>6 DEF TInv

\* Who owns what does not change when no row takes or gives blocks.
LEMMA OwnedKept ==
  ASSUME NEW rw, NEW rx, \A r \in Request : blocksIn(rx, r) = blocksIn(rw, r)
  PROVE  ownedIn(rx) = ownedIn(rw)
<1>1. ASSUME NEW b PROVE ownersOf(rx, b) = ownersOf(rw, b)
  <2>1. ASSUME NEW ry PROVE \A q \in Request : q \in ownersOf(ry, b) <=> b \in blocksIn(ry, q)
    BY DEF ownersOf, blocksIn
  <2> QED
    BY <2>1 DEF ownersOf
<1> QED
  BY <1>1 DEF ownedIn

LEMMA SubmitTInv ==
  ASSUME TInv, NEW r \in Request, Submit(r)
  PROVE  TInv'
<1> DEFINE rw == [newRow(r) EXCEPT !.phase = "waiting"]
<1>1. row[r].phase = "new" /\ row[r] \in RowType /\ row[r] = [newRow(r) EXCEPT !.phase = "new"]
  <2>1. row[r].phase = "new"
    BY DEF Submit
  <2> QED
    BY <2>1, RowOf DEF RowRight
<1>2. rw \in RowType /\ RowRight(r, rw) /\ rw.phase = "waiting"
  BY IdleRow
<1>3. row' = [row EXCEPT ![r] = rw]
  <2>1. PICK n : n = newRow(r)
    OBVIOUS
  <2>2. [[n EXCEPT !.phase = "new"] EXCEPT !.phase = "waiting"] = [n EXCEPT !.phase = "waiting"]
    OBVIOUS
  <2>3. [row[r] EXCEPT !.phase = "waiting"] = rw
    BY <1>1, <2>1, <2>2
  <2> HIDE DEF rw
  <2> QED
    BY <2>3 DEF Submit
<1> HIDE DEF rw
<1>4. Rows' /\ row'[r] = rw /\ \A q \in Request \ {r} : row'[q] = row[q]
  BY <1>2, <1>3, RowsWith
<1>5. Queue'
  <2>1. waiting \in Seq(Request) /\ IsInjective(waiting) /\ Range(waiting) = {q \in Request : row[q].phase = "waiting"}
    BY DEF TInv, Queue
  <2>2. r \notin Range(waiting)
    BY <1>1, <2>1
  <2>3. /\ Append(waiting, r) \in Seq(Request) /\ IsInjective(Append(waiting, r))
        /\ Range(Append(waiting, r)) = Range(waiting) \cup {r}
    BY <2>1, <2>2, AppendedOnce
  <2>4. waiting' = Append(waiting, r)
    BY DEF Submit
  <2>5. Range(waiting') = {q \in Request : row'[q].phase = "waiting"}
    BY <1>2, <1>4, <2>1, <2>3, <2>4
  <2> QED
    BY <2>3, <2>4, <2>5 DEF Queue
<1>6. Books(cache, ownedIn(row))'
  <2>1. ownedIn(row') = ownedIn(row)
    <3>1. \A q \in Request : blocksIn(row', q) = blocksIn(row, q)
      BY <1>1, <1>2, <1>4 DEF blocksIn
    <3> QED
      BY <3>1, OwnedKept
  <2> QED
    BY <2>1 DEF TInv, Submit
<1> QED
  BY <1>4, <1>5, <1>6, WorldKept DEF TInv, Submit

\* A row that is gone.
LEMMA Gone ==
  ASSUME TInv, NEW r \in Request, row' = [row EXCEPT ![r] = goneRow(r)]
  PROVE  /\ Rows' /\ row'[r].phase = "gone" /\ \A q \in Request \ {r} : row'[q] = row[q]
         /\ \A b \in Block : ownedIn(row)[b] = ownedIn(row')[b] + IF b \in blocksIn(row, r) THEN 1 ELSE 0
<1>1. PICK rw : rw = goneRow(r)
  OBVIOUS
<1>2. rw \in RowType /\ RowRight(r, rw) /\ rw.phase = "gone"
  BY <1>1, IdleRow DEF goneRow
<1>3. Rows' /\ row'[r] = rw /\ \A q \in Request \ {r} : row'[q] = row[q]
  BY <1>1, <1>2, RowsWith
<1>4. blocksIn(row', r) = {}
  BY <1>2, <1>3 DEF blocksIn
<1>5. blocksIn(row, r) = blocksIn(row', r) \cup blocksIn(row, r) /\ blocksIn(row, r) \cap blocksIn(row', r) = {}
  BY <1>4
<1>6. PICK N, rx : N = blocksIn(row, r) /\ rx = row'
  OBVIOUS
<1>7. \A b \in Block : ownedIn(row)[b] = ownedIn(rx)[b] + IF b \in N THEN 1 ELSE 0
  <2>1. \A q \in Request \ {r} : row[q] = rx[q]
    BY <1>3, <1>6
  <2>2. blocksIn(row, r) = blocksIn(rx, r) \cup N /\ N \cap blocksIn(rx, r) = {}
    BY <1>5, <1>6
  <2>3. PICK rw0 : rw0 = row
    OBVIOUS
  <2>4. /\ \A q \in Request \ {r} : rw0[q] = rx[q]
        /\ blocksIn(rw0, r) = blocksIn(rx, r) \cup N /\ N \cap blocksIn(rx, r) = {} /\ r \in Request
    BY <2>1, <2>2, <2>3
  <2>5. \A b \in Block : ownedIn(rw0)[b] = ownedIn(rx)[b] + IF b \in N THEN 1 ELSE 0
    BY ONLY <2>4, OwnersGrow
  <2> QED
    BY <2>3, <2>5
<1> QED
  BY <1>2, <1>3, <1>6, <1>7

LEMMA LeaveTInv ==
  ASSUME TInv, NEW r \in Request, Leave(r)
  PROVE  TInv'
<1>1. inEngine(r) /\ row' = [row EXCEPT ![r] = goneRow(r)] /\ cache' = released(cache, r) /\ waiting' = waiting /\ worldUnchanged
  BY DEF Leave
<1>2. /\ Rows' /\ row'[r].phase = "gone" /\ \A q \in Request \ {r} : row'[q] = row[q]
      /\ \A b \in Block : ownedIn(row)[b] = ownedIn(row')[b] + IF b \in blocksIn(row, r) THEN 1 ELSE 0
  BY <1>1, Gone
<1>3. Queue'
  BY <1>1, <1>2 DEF TInv, Queue, inEngine
<1>4. Books(cache', ownedIn(row'))
  <2>1. blocksIn(row, r) = Range(row[r].blocks)
    BY <1>1 DEF blocksIn, inEngine
  <2>2. Books(cache, ownedIn(row)) /\ ownedIn(row) \in Own /\ ownedIn(row') \in Own
    BY OwnedOf DEF TInv
  <2>3. PICK rx : rx = row'
    OBVIOUS
  <2> QED
    BY <1>1, <1>2, <2>1, <2>2, <2>3, ReleasedKeeps
<1> QED
  BY <1>1, <1>2, <1>3, <1>4, WorldKept DEF TInv

LEMMA CancelWaitingTInv ==
  ASSUME TInv, NEW r \in Request, CancelWaiting(r)
  PROVE  TInv'
<1>1. /\ row[r].phase = "waiting" /\ row' = [row EXCEPT ![r] = goneRow(r)] /\ cache' = cache
      /\ waiting' = RemoveFirst(waiting, r) /\ worldUnchanged
  BY DEF CancelWaiting
<1>2. Rows' /\ row'[r].phase = "gone" /\ \A q \in Request \ {r} : row'[q] = row[q]
  BY <1>1, Gone
<1>3. Queue'
  <2>1. waiting \in Seq(Request) /\ IsInjective(waiting) /\ Range(waiting) = {q \in Request : row[q].phase = "waiting"}
    BY DEF TInv, Queue
  <2>2. r \in Range(waiting)
    BY <1>1, <2>1
  <2>3. waiting' \in Seq(Request) /\ IsInjective(waiting') /\ Range(waiting') = Range(waiting) \ {r}
    BY <1>1, <2>1, <2>2, RemovedFirst
  <2>4. Range(waiting') = {q \in Request : row'[q].phase = "waiting"}
    BY <1>2, <2>1, <2>3
  <2> QED
    BY <2>3, <2>4 DEF Queue
<1>4. Books(cache', ownedIn(row'))
  <2>1. \A q \in Request : blocksIn(row', q) = blocksIn(row, q)
    BY <1>1, <1>2 DEF blocksIn
  <2>2. ownedIn(row') = ownedIn(row)
    BY <2>1, OwnedKept
  <2> QED
    BY <1>1, <2>2 DEF TInv
<1> QED
  BY <1>1, <1>2, <1>3, <1>4, WorldKept DEF TInv

\* The head of the queue waits.
LEMMA HeadWaits ==
  ASSUME TInv, headMayGo
  PROVE  /\ Head(waiting) \in Request /\ row[Head(waiting)].phase = "waiting"
         /\ Tail(waiting) \in Seq(Request) /\ IsInjective(Tail(waiting))
         /\ Range(Tail(waiting)) = {q \in Request : row[q].phase = "waiting"} \ {Head(waiting)}
<1>1. /\ waiting \in Seq(Request) /\ IsInjective(waiting) /\ waiting # <<>>
      /\ Range(waiting) = {q \in Request : row[q].phase = "waiting"}
  BY DEF TInv, Queue, headMayGo
<1>2. /\ Tail(waiting) \in Seq(Request) /\ Head(waiting) \in Range(waiting) /\ IsInjective(Tail(waiting))
      /\ Range(Tail(waiting)) = Range(waiting) \ {Head(waiting)}
  BY <1>1, TailOf
<1> QED
  BY <1>1, <1>2

\* The head leaves the queue with its blocks.
LEMMA AdmittedRow ==
  ASSUME TInv, headMayGo, NEW blocks \in Seq(Block), Len(blocks) = Len(row[Head(waiting)].text), IsInjective(blocks),
         NEW from \in Nat, from <= Len(row[Head(waiting)].text), NEW state \in History, NEW booted \in BOOLEAN,
         admitted(Head(waiting), blocks, from, state, booted)
  PROVE  /\ Rows' /\ Queue'
         /\ \A b \in Block : ownedIn(row')[b] = ownedIn(row)[b] + IF b \in Range(blocks) THEN 1 ELSE 0
<1> DEFINE r == Head(waiting)
           rw == [row[r] EXCEPT !.phase = "prefill", !.blocks = blocks, !.from = from, !.state = state, !.booted = booted]
<1>1. /\ r \in Request /\ row[r].phase = "waiting" /\ Tail(waiting) \in Seq(Request) /\ IsInjective(Tail(waiting))
      /\ Range(Tail(waiting)) = {q \in Request : row[q].phase = "waiting"} \ {r}
  BY HeadWaits
<1> HIDE DEF r
<1>2. row[r] \in RowType /\ row[r].text # <<>> /\ row[r].pending.len <= Len(row[r].text)
  BY <1>1, RowOf
<1>3. /\ rw \in RowType /\ rw.phase = "prefill" /\ rw.text = row[r].text /\ rw.blocks = blocks /\ rw.from = from
      /\ rw.pending = row[r].pending
  BY <1>2 DEF RowType
<1>4. row' = [row EXCEPT ![r] = rw] /\ waiting' = Tail(waiting)
  <2>1. /\ row' = [row EXCEPT ![r].phase = "prefill", ![r].blocks = blocks, ![r].from = from, ![r].state = state, ![r].booted = booted]
        /\ waiting' = Tail(waiting)
    BY DEF admitted, r
  <2>2. row \in [Request -> RowType]
    BY DEF TInv, Rows
  <2> QED
    BY <1>1, <2>1, <2>2
<1> HIDE DEF rw
<1>5. RowRight(r, rw)
  BY <1>2, <1>3 DEF RowRight, r
<1>6. Rows' /\ row'[r] = rw /\ \A q \in Request \ {r} : row'[q] = row[q]
  BY <1>1, <1>3, <1>4, <1>5, RowsWith
<1>7. Queue'
  <2>1. Range(waiting') = {q \in Request : row'[q].phase = "waiting"}
    BY <1>1, <1>3, <1>4, <1>6
  <2> QED
    BY <1>1, <1>4, <2>1 DEF Queue
<1>8. \A b \in Block : ownedIn(row')[b] = ownedIn(row)[b] + IF b \in Range(blocks) THEN 1 ELSE 0
  <2>1. PICK rx : rx = row'
    OBVIOUS
  <2>2. blocksIn(rx, r) = Range(blocks) /\ blocksIn(row, r) = {}
    BY <1>1, <1>3, <1>6, <2>1 DEF blocksIn
  <2>3. PICK N : N = Range(blocks)
    OBVIOUS
  <2>4. /\ \A q \in Request \ {r} : rx[q] = row[q]
        /\ blocksIn(rx, r) = blocksIn(row, r) \cup N /\ N \cap blocksIn(row, r) = {} /\ r \in Request
    BY <1>1, <1>6, <2>1, <2>2, <2>3
  <2>5. \A b \in Block : ownedIn(rx)[b] = ownedIn(row)[b] + IF b \in N THEN 1 ELSE 0
    BY ONLY <2>4, OwnersGrow
  <2> QED
    BY <2>1, <2>3, <2>5
<1> QED
  BY <1>6, <1>7, <1>8

LEMMA AdmitNotTInv ==
  ASSUME TInv, AdmitNot
  PROVE  TInv'
<1>1. /\ headMayGo /\ cache' = room(cache, row[Head(waiting)].text).store
      /\ waiting' = waiting /\ row' = row /\ worldUnchanged
  BY DEF AdmitNot
<1>2. row[Head(waiting)].text \in Seq(Page) /\ row[Head(waiting)].text # <<>>
  BY <1>1, HeadWaits, RowOf
<1>3. Books(cache, ownedIn(row)) /\ ownedIn(row) \in Own
  BY OwnedOf DEF TInv
<1>4. Books(cache', ownedIn(row))
  BY <1>1, <1>2, <1>3, RoomKeeps
<1>5. Rows' /\ Queue'
  BY <1>1 DEF TInv, Rows, Queue, RowRight, newRow
<1> QED
  BY <1>1, <1>4, <1>5, WorldKept DEF TInv

\* A hit's blocks are in use when it is adopted, so that no fresh one is among them.
LEMMA Adopted ==
  ASSUME TInv, headMayGo, NEW text, text = row[Head(waiting)].text, NEW got, got = room(cache, text),
         verdict(text, got) = "adopt", NEW new, new = fresh(got.store, Len(text) - Len(got.hit.blocks))
  PROVE  /\ text \in Seq(Page) /\ Len(text) \in Nat /\ Len(got.hit.text) \in Nat
         /\ Books(got.store, ownedIn(row)) /\ From(got.store, cache)
         /\ PartOf(got.hit, text) /\ HitFrom(got.hit, cache)
         /\ new \in Seq(Block) /\ Range(new) \subseteq freeBlocks(got.store)
         /\ got.hit.blocks \o new \in Seq(Block) /\ IsInjective(got.hit.blocks \o new)
         /\ Len(got.hit.blocks \o new) = Len(text)
<1> DEFINE hit == got.hit
           n == Len(text) - Len(hit.blocks)
<1>1. text \in Seq(Page) /\ text # <<>> /\ Len(text) \in Nat
  BY HeadWaits, RowOf
<1>2. Books(cache, ownedIn(row)) /\ ownedIn(row) \in Own
  BY OwnedOf DEF TInv
<1>3. Books(got.store, ownedIn(row)) /\ From(got.store, cache) /\ PartOf(hit, text) /\ HitFrom(hit, cache)
  BY <1>1, <1>2, RoomKeeps
<1>4. ~(free(got.store) < n) /\ ~ \E b \in Range(hit.blocks) : got.store.ref[b] = 0
  BY DEF verdict
<1>5. /\ hit.blocks \in Seq(Block) /\ IsInjective(hit.blocks) /\ Len(hit.blocks) = Len(hit.text) /\ Len(hit.text) \in Nat
      /\ Len(hit.text) < Len(text)
  BY <1>3, LenProperties DEF PartOf, HitRight
<1> HIDE DEF hit
<1>6. n \in Nat /\ free(got.store) >= n
  <2>1. free(got.store) \in Nat
    <3>1. \A k \in Nat : IsFiniteSet(1 .. k)
      BY FS_Interval
    <3>2. IsFiniteSet(Block) /\ freeBlocks(got.store) \in SUBSET Block
      BY <3>1, StoreAssumption DEF Block, freeBlocks
    <3> QED
      BY <3>2, FS_Subset, FS_CardinalityType DEF free
  <2>2. PICK x, y, z : x = Len(text) /\ y = Len(hit.blocks) /\ z = free(got.store)
    OBVIOUS
  <2>3. x \in Nat /\ y \in Nat /\ y < x /\ z \in Nat /\ ~(z < x - y)
    BY <1>1, <1>4, <1>5, <2>1, <2>2
  <2>4. x - y \in Nat /\ z >= x - y
    BY ONLY <2>3
  <2> QED
    BY <2>2, <2>4
<1>7. new = fresh(got.store, n)
  BY DEF hit
<1>8. new \in Seq(Block) /\ Len(new) = n /\ IsInjective(new) /\ Range(new) \subseteq freeBlocks(got.store)
  <2> HIDE DEF n
  <2> QED
    BY <1>6, <1>7, FreshOf
<1>9. Range(hit.blocks) \cap Range(new) = {}
  BY <1>4, <1>8 DEF freeBlocks
<1>10. hit.blocks \o new \in Seq(Block) /\ Len(hit.blocks \o new) = Len(text) /\ IsInjective(hit.blocks \o new)
  <2>1. /\ hit.blocks \o new \in Seq(Block) /\ Len(hit.blocks \o new) = Len(hit.blocks) + Len(new)
        /\ IsInjective(hit.blocks \o new)
    <3>1. PICK s : s = hit.blocks
      OBVIOUS
    <3>2. s \in Seq(Block) /\ new \in Seq(Block) /\ IsInjective(s) /\ IsInjective(new) /\ Range(s) \cap Range(new) = {}
      BY <1>5, <1>8, <1>9, <3>1
    <3>3. s \o new \in Seq(Block) /\ Len(s \o new) = Len(s) + Len(new) /\ IsInjective(s \o new)
      BY ONLY <3>2, JoinedOnce
    <3> QED
      BY <3>1, <3>3
  <2>2. Len(hit.blocks) + n = Len(text)
    BY <1>1, <1>5
  <2> QED
    BY <1>8, <2>1, <2>2
<1> QED
  BY <1>1, <1>3, <1>5, <1>8, <1>10 DEF hit

LEMMA AdmitAdoptsTInv ==
  ASSUME TInv, AdmitAdopts
  PROVE  TInv'
<1> DEFINE text == row[Head(waiting)].text
           got == room(cache, text)
           new == fresh(got.store, Len(text) - Len(got.hit.blocks))
           blocks == got.hit.blocks \o new
<1>1. /\ headMayGo /\ verdict(text, got) = "adopt" /\ admitted(Head(waiting), blocks, Len(got.hit.text), got.hit.state, FALSE)
      /\ cache' = withRefs(got.store, blocks) /\ worldUnchanged
  BY DEF AdmitAdopts
<1>2. /\ Len(text) \in Nat /\ Len(got.hit.text) \in Nat /\ Books(got.store, ownedIn(row)) /\ PartOf(got.hit, text)
      /\ blocks \in Seq(Block) /\ IsInjective(blocks) /\ Len(blocks) = Len(text)
  <2>1. PICK x, g, s : x = text /\ g = got /\ s = new
    OBVIOUS
  <2> HIDE DEF text, got, new
  <2>2. x = row[Head(waiting)].text /\ g = room(cache, x) /\ verdict(x, g) = "adopt" /\ s = fresh(g.store, Len(x) - Len(g.hit.blocks))
    BY <1>1, <2>1 DEF text, got, new
  <2> QED
    BY <1>1, <2>1, <2>2, Adopted
<1>3. ownedIn(row) \in Own /\ ownedIn(row') \in Own
  BY OwnedOf
<1> HIDE DEF got, blocks
<1>4. /\ Rows' /\ Queue'
      /\ \A b \in Block : ownedIn(row')[b] = ownedIn(row)[b] + IF b \in Range(blocks) THEN 1 ELSE 0
  <2>1. PICK k \in Nat, f \in BOOLEAN : k = Len(got.hit.text) /\ f = FALSE
    BY <1>2
  <2>2. k <= Len(text) /\ got.hit.state \in History
    BY <1>2, <2>1 DEF PartOf, HitRight
  <2>3. admitted(Head(waiting), blocks, k, got.hit.state, f)
    BY <1>1, <2>1
  <2> QED
    BY <1>1, <1>2, <2>2, <2>3, AdmittedRow
<1>5. Books(cache', ownedIn(row'))
  <2>1. PICK other : other = ownedIn(row')
    OBVIOUS
  <2> QED
    BY <1>1, <1>2, <1>3, <1>4, <2>1, WithRefsKeeps
<1> QED
  BY <1>1, <1>4, <1>5, WorldKept DEF TInv

\* A boot takes all its blocks off the free list, and its state from disk.
LEMMA Booted ==
  ASSUME TInv, headMayGo, NEW text, text = row[Head(waiting)].text, NEW got, got = room(cache, text),
         verdict(text, got) = "boot", NEW key, key = wholePages(text)
  PROVE  /\ text \in Seq(Page) /\ Len(text) \in Nat /\ Len(text) > 0
         /\ Books(got.store, ownedIn(row)) /\ From(got.store, cache)
         /\ boots(text) /\ loads(key) /\ key \in Key /\ disk[key].aux \in History
         /\ key = text \/ /\ key = Front(text) /\ key \in Seq(Page) /\ Len(key) = Len(text) - 1
                          /\ \A i \in 1 .. Len(key) : key[i] = text[i]
         /\ fresh(got.store, Len(text)) \in Seq(Block) /\ Len(fresh(got.store, Len(text))) = Len(text)
         /\ IsInjective(fresh(got.store, Len(text))) /\ Range(fresh(got.store, Len(text))) \subseteq freeBlocks(got.store)
<1>1. text \in Seq(Page) /\ text # <<>> /\ Len(text) \in Nat /\ Len(text) > 0
  BY HeadWaits, RowOf
<1>2. Books(cache, ownedIn(row)) /\ ownedIn(row) \in Own
  BY OwnedOf DEF TInv
<1>3. /\ Books(got.store, ownedIn(row)) /\ From(got.store, cache)
      /\ got.enough = (free(got.store) >= needed(text, got.hit))
  BY <1>1, <1>2, RoomKeeps
<1>4. got.enough /\ boots(text) /\ loads(key) /\ key \in Key
  BY DEF verdict, boots
<1>5. free(got.store) >= Len(text)
  <2>1. free(got.store) >= needed(text, got.hit)
    BY <1>3, <1>4, Zenon
  <2>2. needed(text, got.hit) = Len(text) - 0
    BY <1>4 DEF needed
  <2> QED
    BY <1>1, <2>1, <2>2
<1>6. disk[key].aux \in History
  BY <1>4 DEF TInv, Files, loads
<1>7. /\ Front(text) \in Seq(Page) /\ Len(Front(text)) = Len(text) - 1
      /\ \A i \in 1 .. Len(Front(text)) : Front(text)[i] = text[i]
  <2>1. Front(text) \in Seq(Page)
    BY <1>1, FrontOf
  <2>1a. PICK one \in Int : one = 1
    OBVIOUS
  <2>1b. PICK n \in Int : n = Len(text) - 1
    BY ONLY <1>1
  <2>2. one = 1 /\ n = Len(text) - 1
    BY <2>1a, <2>1b
  <2>3. \A i \in one .. n : text[i] \in Page
    BY <1>1, <2>2
  <2>4. /\ Len(SubSeq(text, one, n)) = IF one <= n THEN n - one + 1 ELSE 0
        /\ \A i \in 1 .. n - one + 1 : SubSeq(text, one, n)[i] = text[one + i - 1]
    BY ONLY <2>3, one \in Int, n \in Int, SubSeqProperties
  <2>5. Front(text) = SubSeq(text, one, n)
    BY ONLY <2>2 DEF Front
  <2>6. Len(Front(text)) = n
    BY <1>1, <2>2, <2>4, <2>5
  <2>7. ASSUME NEW i \in 1 .. n PROVE Front(text)[i] = text[i]
    <3>1. i \in 1 .. n - one + 1 /\ one + i - 1 = i
      BY <2>2
    <3> QED
      BY <2>4, <2>5, <3>1
  <2> QED
    BY <2>1, <2>2, <2>6, <2>7
<1>8. key = text \/ key = Front(text)
  BY DEF wholePages
<1>9. /\ fresh(got.store, Len(text)) \in Seq(Block) /\ Len(fresh(got.store, Len(text))) = Len(text)
      /\ IsInjective(fresh(got.store, Len(text))) /\ Range(fresh(got.store, Len(text))) \subseteq freeBlocks(got.store)
  BY <1>1, <1>5, FreshOf
<1> QED
  BY <1>1, <1>3, <1>4, <1>6, <1>7, <1>8, <1>9

LEMMA AdmitBootsTInv ==
  ASSUME TInv, AdmitBoots
  PROVE  TInv'
<1> DEFINE text == row[Head(waiting)].text
           key == wholePages(text)
           from == IF key = text THEN Len(key) - 1 ELSE Len(key)
           got == room(cache, text)
           blocks == fresh(got.store, Len(text))
<1>1. /\ headMayGo /\ verdict(text, got) = "boot" /\ admitted(Head(waiting), blocks, from, disk[key].aux, TRUE)
      /\ cache' = withRefs(got.store, blocks) /\ worldUnchanged
  BY DEF AdmitBoots
<1>2. /\ Len(text) \in Nat /\ Len(text) > 0 /\ Books(got.store, ownedIn(row)) /\ disk[key].aux \in History
      /\ key = text \/ Len(key) = Len(text) - 1
      /\ blocks \in Seq(Block) /\ IsInjective(blocks) /\ Len(blocks) = Len(text)
  <2>1. PICK x, g, k : x = text /\ g = got /\ k = key
    OBVIOUS
  <2> HIDE DEF text, got, key
  <2>2. x = row[Head(waiting)].text /\ g = room(cache, x) /\ verdict(x, g) = "boot" /\ k = wholePages(x)
    BY <1>1, <2>1 DEF text, got, key
  <2> QED
    BY <1>1, <2>1, <2>2, Booted
<1>3. ownedIn(row) \in Own /\ ownedIn(row') \in Own
  BY OwnedOf
<1> HIDE DEF got, blocks, key
<1>4. from \in Nat /\ from <= Len(text)
  BY <1>2
<1> HIDE DEF from
<1>5. /\ Rows' /\ Queue'
      /\ \A b \in Block : ownedIn(row')[b] = ownedIn(row)[b] + IF b \in Range(blocks) THEN 1 ELSE 0
  <2>1. PICK f \in BOOLEAN : f = TRUE
    OBVIOUS
  <2>2. PICK state : state = disk[key].aux
    OBVIOUS
  <2>3. admitted(Head(waiting), blocks, from, state, f)
    BY <1>1, <2>1, <2>2
  <2> QED
    BY <1>1, <1>2, <1>4, <2>2, <2>3, AdmittedRow
<1>6. Books(cache', ownedIn(row'))
  <2>1. PICK other : other = ownedIn(row')
    OBVIOUS
  <2> QED
    BY <1>1, <1>2, <1>3, <1>5, <2>1, WithRefsKeeps
<1> QED
  BY <1>1, <1>5, <1>6, WorldKept DEF TInv

\* A row goes on with the blocks it has.
LEMMA RowKept ==
  ASSUME TInv, NEW r \in Request, inEngine(r), NEW rw \in RowType, RowRight(r, rw),
         rw.phase \in {"prefill", "decode"}, rw.blocks = row[r].blocks,
         row' = [row EXCEPT ![r] = rw], waiting' = waiting
  PROVE  Rows' /\ Queue' /\ ownedIn(row') = ownedIn(row)
<1>1. Rows' /\ row'[r] = rw /\ \A q \in Request \ {r} : row'[q] = row[q]
  BY RowsWith
<1>2. Queue'
  <2>1. \A q \in Request : row'[q].phase = "waiting" <=> row[q].phase = "waiting"
    BY <1>1 DEF inEngine
  <2> QED
    BY <2>1 DEF TInv, Queue
<1>3. \A q \in Request : blocksIn(row', q) = blocksIn(row, q)
  BY <1>1 DEF blocksIn, inEngine
<1>4. ownedIn(row') = ownedIn(row)
  BY <1>3, OwnedKept
<1> QED
  BY <1>1, <1>2, <1>4

\* A chunk that ends inside the prompt.
LEMMA PrefillOnTInv ==
  ASSUME TInv, NEW r \in Request, NEW to \in 1 .. NumBlocks, PrefillOn(r, to)
  PROVE  TInv'
<1> DEFINE me == row[r]
           state == consumed(me.state, me.text, me.from, to)
           held == me.interior /\ ragged(me.text) /\ to = Len(me.text) - 1
           pending == IF held THEN [len |-> to, state |-> state] ELSE me.pending
           rw == [me EXCEPT !.from = to, !.state = state, !.interior = TRUE, !.pending = pending]
<1>1. /\ me.phase = "prefill" /\ to \in me.from + 1 .. Len(me.text) - 1
      /\ row' = [row EXCEPT ![r].from = to, ![r].state = state, ![r].interior = TRUE,
                            ![r].pending = IF held THEN [len |-> to, state |-> state] ELSE @]
      /\ cache' = (IF me.interior THEN cache ELSE publish(cache, me.text, me.blocks, to, state))
      /\ waiting' = waiting /\ worldUnchanged
  BY DEF PrefillOn
<1>2. /\ me \in RowType /\ me.text \in Seq(Page) /\ me.text # <<>> /\ Len(me.text) \in Nat
      /\ me.blocks \in Seq(Block) /\ me.from \in Nat /\ me.state \in History
      /\ me.pending \in [len : Nat, state : History] /\ me.pending.len <= Len(me.text) /\ me.interior \in BOOLEAN
      /\ Len(me.blocks) = Len(me.text) /\ IsInjective(me.blocks)
  BY <1>1, RowOf DEF inEngine
<1>3. row' = [row EXCEPT ![r] = rw]
  <2>1. row \in [Request -> RowType]
    BY DEF TInv, Rows
  <2>2. PICK p, s : p = pending /\ s = state
    OBVIOUS
  <2> HIDE DEF held
  <2>3. row' = [row EXCEPT ![r].from = to, ![r].state = s, ![r].interior = TRUE, ![r].pending = p]
    BY <1>1, <2>1, <2>2
  <2> HIDE DEF state, pending
  <2>4. row' = [row EXCEPT ![r] = [row[r] EXCEPT !.from = to, !.state = s, !.interior = TRUE, !.pending = p]]
    BY <2>1, <2>3
  <2> QED
    BY <2>2, <2>4
<1> HIDE DEF me
<1>4. state \in History /\ to \in Nat /\ to <= Len(me.text)
  <2>1. to \in Nat /\ to <= Len(me.text)
    BY <1>1, <1>2
  <2> QED
    BY <1>2, <2>1, ConsumedOf
<1> HIDE DEF state
<1>5. pending \in [len : Nat, state : History] /\ pending.len <= Len(me.text)
  BY <1>2, <1>4
<1> HIDE DEF pending
<1>6. /\ rw \in RowType /\ rw.phase = "prefill" /\ rw.text = me.text /\ rw.blocks = me.blocks
      /\ rw.from = to /\ rw.pending = pending
  BY <1>1, <1>2, <1>4, <1>5 DEF RowType
<1> HIDE DEF rw
<1>7. RowRight(r, rw)
  BY <1>2, <1>4, <1>5, <1>6 DEF RowRight
<1>8. Rows' /\ Queue' /\ ownedIn(row') = ownedIn(row)
  BY <1>1, <1>3, <1>6, <1>7, RowKept DEF inEngine, me
<1>9. Books(cache', ownedIn(row))
  <2>1. Books(cache, ownedIn(row)) /\ ownedIn(row) \in Own
    BY OwnedOf DEF TInv
  <2>2. PICK text, blocks : text = me.text /\ blocks = me.blocks
    OBVIOUS
  <2>3. Books(publish(cache, text, blocks, to, state), ownedIn(row))
    BY <1>2, <1>4, <2>1, <2>2, PublishKeeps
  <2> QED
    BY <1>1, <2>1, <2>2, <2>3
<1> QED
  BY <1>1, <1>8, <1>9, WorldKept DEF TInv

\* The rest of the prompt.
LEMMA PrefillEndsTInv ==
  ASSUME TInv, NEW r \in Request, PrefillEnds(r)
  PROVE  TInv'
<1> DEFINE me == row[r]
           n == Len(me.text)
           state == consumed(me.state, me.text, me.from, n)
           rw == [me EXCEPT !.phase = "decode", !.from = n, !.state = state, !.pending = NoSnapshot]
<1>1. /\ me.phase = "prefill"
      /\ row' = [row EXCEPT ![r].phase = "decode", ![r].from = n, ![r].state = state, ![r].pending = NoSnapshot]
      /\ cache' = (IF ~ragged(me.text) THEN publish(cache, me.text, me.blocks, n, state)
                   ELSE IF me.pending.len > 0
                   THEN publish(cache, me.text, me.blocks, me.pending.len, me.pending.state)
                   ELSE cache)
      /\ waiting' = waiting /\ worldUnchanged
  BY DEF PrefillEnds
<1>2. /\ me \in RowType /\ me.text \in Seq(Page) /\ me.text # <<>> /\ n \in Nat
      /\ me.blocks \in Seq(Block) /\ me.from \in Nat /\ me.state \in History
      /\ me.pending \in [len : Nat, state : History] /\ me.pending.len <= n
      /\ Len(me.blocks) = n /\ IsInjective(me.blocks)
  BY <1>1, RowOf DEF inEngine
<1>3. row' = [row EXCEPT ![r] = rw]
  <2>1. row \in [Request -> RowType]
    BY DEF TInv, Rows
  <2> HIDE DEF n, state
  <2> QED
    BY <1>1, <2>1
<1> HIDE DEF me
<1>4. state \in History
  BY <1>2, ConsumedOf
<1> HIDE DEF state
<1>5. NoSnapshot \in [len : Nat, state : History] /\ NoSnapshot.len = 0
  BY DEF NoSnapshot, NoState, History
<1>6. /\ rw \in RowType /\ rw.phase = "decode" /\ rw.text = me.text /\ rw.blocks = me.blocks
      /\ rw.from = n /\ rw.pending = NoSnapshot
  <2> HIDE DEF n
  <2> QED
    BY <1>2, <1>4, <1>5 DEF RowType
<1> HIDE DEF rw
<1>7. RowRight(r, rw)
  BY <1>2, <1>5, <1>6 DEF RowRight
<1>8. Rows' /\ Queue' /\ ownedIn(row') = ownedIn(row)
  BY <1>1, <1>3, <1>6, <1>7, RowKept DEF inEngine, me
<1>9. Books(cache', ownedIn(row))
  <2>1. Books(cache, ownedIn(row)) /\ ownedIn(row) \in Own
    BY OwnedOf DEF TInv
  <2>2. PICK text, blocks, m, k, s : /\ text = me.text /\ blocks = me.blocks /\ m = n
                                     /\ k = me.pending.len /\ s = me.pending.state
    OBVIOUS
  <2>3. k \in Nat /\ s \in History /\ k <= n
    BY <1>2, <2>2
  <2>4. Books(publish(cache, text, blocks, m, state), ownedIn(row))
    BY <1>2, <1>4, <2>1, <2>2, PublishKeeps
  <2>5. Books(publish(cache, text, blocks, k, s), ownedIn(row))
    BY <1>2, <2>1, <2>2, <2>3, PublishKeeps
  <2> QED
    BY <1>1, <2>1, <2>2, <2>4, <2>5
<1> QED
  BY <1>1, <1>8, <1>9, WorldKept DEF TInv

\* A row's block is not free.
LEMMA OwnedInUse ==
  ASSUME NEW c, Books(c, ownedIn(row)), NEW r \in Request, inEngine(r), NEW b \in Range(row[r].blocks), b \in Block
  PROVE  c.ref[b] # 0
<1>1. r \in ownersOf(row, b)
  BY DEF ownersOf, inEngine
<1>2. IsFiniteSet(ownersOf(row, b)) /\ Cardinality(ownersOf(row, b)) \in Nat /\ Cardinality(ownersOf(row, b)) # 0
  BY <1>1, OwnedOf, FS_EmptySet
<1>3. c.entries \in Seq(Entry) /\ entriesWith(c.entries, b) \in SUBSET Range(c.entries)
  BY BooksOf DEF entriesWith
<1>4. Cardinality(entriesWith(c.entries, b)) \in Nat
  BY <1>3, FiniteRange
<1>5. c.ref[b] = Cardinality(ownersOf(row, b)) + Cardinality(entriesWith(c.entries, b))
  BY DEF Books, ownedIn
<1> QED
  BY <1>2, <1>4, <1>5

\* A row has new for its next block, which was free in the store c.
Grown(r, c, new) ==
  /\ Books(c, ownedIn(row)) /\ From(c, cache)
  /\ new \in Seq(Block) /\ Range(new) \subseteq freeBlocks(c) /\ Range(row[r].blocks) \cap Range(new) = {}
  /\ row[r].blocks \o new \in Seq(Block) /\ Len(row[r].blocks \o new) = Len(row[r].text) + 1
  /\ IsInjective(row[r].blocks \o new) /\ Range(row[r].blocks \o new) = Range(row[r].blocks) \cup Range(new)
  /\ \A i \in 1 .. Len(row[r].text) : (row[r].blocks \o new)[i] = row[r].blocks[i]
  /\ (row[r].blocks \o new)[Len(row[r].text) + 1] \in Range(new)

\* A block more, once the store has evicted for it.
LEMMA Decoded ==
  ASSUME TInv, NEW r \in Request, row[r].phase = "decode", free(evictedUntil(cache, 1)) > 0
  PROVE  Grown(r, evictedUntil(cache, 1), fresh(evictedUntil(cache, 1), 1))
<1>0. PICK c, new : c = evictedUntil(cache, 1) /\ new = fresh(c, 1) /\ free(c) > 0
  OBVIOUS
<1> DEFINE me == row[r]
           n == Len(me.text)
<1>1. n \in Nat /\ me.blocks \in Seq(Block) /\ Len(me.blocks) = n /\ IsInjective(me.blocks) /\ inEngine(r)
  BY RowOf DEF inEngine
<1>2. Books(c, ownedIn(row)) /\ From(c, cache)
  <2>1. Books(cache, ownedIn(row)) /\ ownedIn(row) \in Own
    BY OwnedOf DEF TInv
  <2>2. PICK one \in Int : one = 1
    OBVIOUS
  <2>3. Books(evictedUntil(cache, one), ownedIn(row)) /\ From(evictedUntil(cache, one), cache)
    BY <2>1, DropsKeep
  <2> QED
    BY <1>0, <2>2, <2>3
<1>3. new \in Seq(Block) /\ Len(new) = 1 /\ IsInjective(new) /\ Range(new) \subseteq freeBlocks(c)
  <2>1. free(c) \in Nat
    <3>1. \A k \in Nat : IsFiniteSet(1 .. k)
      BY FS_Interval
    <3>2. IsFiniteSet(Block) /\ freeBlocks(c) \in SUBSET Block
      BY <3>1, StoreAssumption DEF Block, freeBlocks
    <3> QED
      BY <3>2, FS_Subset, FS_CardinalityType DEF free
  <2>2. PICK one \in Nat : one = 1
    OBVIOUS
  <2>3. free(c) >= one
    BY <1>0, <2>1, <2>2
  <2>4. /\ fresh(c, one) \in Seq(Block) /\ Len(fresh(c, one)) = one /\ IsInjective(fresh(c, one))
        /\ Range(fresh(c, one)) \subseteq freeBlocks(c)
    BY <2>3, FreshOf
  <2> QED
    BY <1>0, <2>2, <2>4
<1>4. Range(me.blocks) \cap Range(new) = {}
  <2>1. ASSUME NEW b \in Range(me.blocks), b \in Range(new) PROVE FALSE
    <3>1. b \in Block /\ c.ref[b] = 0
      BY <1>3, <2>1 DEF freeBlocks
    <3> QED
      BY <1>1, <1>2, <2>1, <3>1, OwnedInUse
  <2> QED
    BY <2>1
<1>5. PICK s : s = me.blocks
  OBVIOUS
<1>6. s \in Seq(Block) /\ new \in Seq(Block) /\ IsInjective(s) /\ IsInjective(new) /\ Range(s) \cap Range(new) = {}
  BY <1>1, <1>3, <1>4, <1>5
<1>7. /\ s \o new \in Seq(Block) /\ Len(s \o new) = Len(s) + Len(new) /\ IsInjective(s \o new)
      /\ Range(s \o new) = Range(s) \cup Range(new)
  BY ONLY <1>6, JoinedOnce
<1>8. \A i \in 1 .. Len(s) + Len(new) : (s \o new)[i] = IF i <= Len(s) THEN s[i] ELSE new[i - Len(s)]
  BY ONLY <1>6, ConcatProperties
<1>9. /\ \A i \in 1 .. n : (s \o new)[i] = s[i]
      /\ (s \o new)[n + 1] \in Range(new)
  <2>1. Len(s) = n /\ Len(new) = 1
    BY <1>1, <1>3, <1>5
  <2> HIDE DEF n
  <2>2. PICK k \in Nat : k = n + 1
    BY <1>1
  <2>3. k \in 1 .. Len(s) + Len(new) /\ ~(k <= Len(s)) /\ k - Len(s) = 1
    BY <1>1, <2>1, <2>2
  <2>4. (s \o new)[k] = new[k - Len(s)]
    BY ONLY <1>8, <2>3
  <2>5. new[1] \in Range(new)
    BY <1>3, RangeOf
  <2>6. ASSUME NEW i \in 1 .. n PROVE (s \o new)[i] = s[i]
    <3>1. i \in 1 .. n + 1 /\ i <= n
      BY <1>1
    <3> QED
      BY <1>8, <2>1, <3>1
  <2> QED
    BY <2>2, <2>3, <2>4, <2>5, <2>6
<1>10. Len(s) + Len(new) = n + 1
  BY <1>1, <1>3, <1>5
<1>11. Grown(r, c, new)
  BY <1>1, <1>2, <1>3, <1>4, <1>5, <1>7, <1>9, <1>10 DEF Grown
<1> QED
  BY <1>0, <1>11

\* A page of reply: a block more, and what is stored of the longer text.
LEMMA DecodeTInv ==
  ASSUME TInv, NEW r \in Request, Decode(r)
  PROVE  TInv'
<1> DEFINE me == row[r]
           n == Len(me.text)
           text == Append(me.text, Reply)
           state == consumed(me.state, text, n, n + 1)
           c == evictedUntil(cache, 1)
           isNew == ~hasEntry(c, text)
           new == fresh(c, 1)
           blocks == me.blocks \o new
           stored == publish(withRefs(c, new), text, blocks, n + 1, state)
           entry == IF isNew THEN n + 1 ELSE me.entry
           rw == [me EXCEPT !.text = text, !.blocks = blocks, !.from = n + 1, !.state = state, !.entry = entry]
<1>1. /\ me.phase = "decode" /\ free(c) > 0
      /\ row' = [row EXCEPT ![r].text = text, ![r].blocks = blocks, ![r].from = n + 1, ![r].state = state,
                            ![r].entry = IF isNew THEN n + 1 ELSE @]
      /\ cache' \in {retired(stored, SubSeq(text, 1, me.entry)), stored}
      /\ waiting' = waiting /\ worldUnchanged
  BY DEF Decode
<1>2. /\ me \in RowType /\ me.text \in Seq(Page) /\ n \in Nat /\ me.blocks \in Seq(Block) /\ me.state \in History
      /\ me.pending \in [len : Nat, state : History] /\ me.pending.len <= n /\ me.entry \in Nat
      /\ Len(me.blocks) = n /\ IsInjective(me.blocks) /\ inEngine(r)
  BY <1>1, RowOf DEF inEngine
<1>3. row' = [row EXCEPT ![r] = rw]
  <2>1. row \in [Request -> RowType]
    BY DEF TInv, Rows
  <2>2. PICK x, bs, m, s, e : x = text /\ bs = blocks /\ m = n + 1 /\ s = state /\ e = entry
    OBVIOUS
  <2> HIDE DEF isNew
  <2>3. row' = [row EXCEPT ![r].text = x, ![r].blocks = bs, ![r].from = m, ![r].state = s, ![r].entry = e]
    BY <1>1, <2>1, <2>2
  <2> HIDE DEF text, blocks, n, state, entry
  <2>4. row' = [row EXCEPT ![r] = [row[r] EXCEPT !.text = x, !.blocks = bs, !.from = m, !.state = s, !.entry = e]]
    BY <2>1, <2>3
  <2> QED
    BY <2>2, <2>4
<1>4. Books(cache, ownedIn(row)) /\ ownedIn(row) \in Own /\ ownedIn(row') \in Own
  BY OwnedOf DEF TInv
<1>5. /\ Books(c, ownedIn(row)) /\ Range(me.blocks) \cap Range(new) = {}
      /\ blocks \in Seq(Block) /\ Len(blocks) = n + 1 /\ IsInjective(blocks)
      /\ Range(blocks) = Range(me.blocks) \cup Range(new)
  <2>1. Grown(r, c, new)
    BY <1>1, Decoded
  <2> HIDE DEF c, new
  <2> QED
    BY <2>1 DEF Grown
<1> HIDE DEF c, new, me
<1>6. text \in Seq(Page) /\ Len(text) = n + 1 /\ text # <<>>
  <2>1. text \in Seq(Page) /\ Len(text) = n + 1
    BY <1>2, Constants, AppendedOnce
  <2> HIDE DEF text
  <2> QED
    BY <1>2, <2>1
<1> HIDE DEF text, blocks
<1>7. state \in History
  <2>1. PICK m \in Nat : m = n + 1
    BY <1>2
  <2>2. m <= Len(text)
    BY <1>6, <2>1, <1>2
  <2>3. consumed(me.state, text, n, m) \in History
    BY <1>2, <1>6, <2>2, ConsumedOf
  <2> QED
    BY <2>1, <2>3
<1> HIDE DEF state, isNew
<1>8. entry \in Nat
  BY <1>2
<1> HIDE DEF entry
<1>9. /\ rw \in RowType /\ rw.phase = "decode" /\ rw.text = text /\ rw.blocks = blocks
       /\ rw.from = n + 1 /\ rw.pending = me.pending
  <2>1. n + 1 \in Nat
    BY <1>2
  <2> HIDE DEF n
  <2> QED
    BY <1>1, <1>2, <1>5, <1>6, <1>7, <1>8, <2>1 DEF RowType
<1> HIDE DEF rw
<1>10. RowRight(r, rw)
  BY <1>2, <1>5, <1>6, <1>9 DEF RowRight
<1>11. Rows' /\ row'[r] = rw /\ \A q \in Request \ {r} : row'[q] = row[q]
  BY <1>3, <1>9, <1>10, RowsWith
<1>12. Queue'
  <2>1. \A q \in Request : row'[q].phase = "waiting" <=> row[q].phase = "waiting"
    BY <1>1, <1>9, <1>11 DEF me
  <2> QED
    BY <1>1, <2>1 DEF TInv, Queue
<1>13. \A b \in Block : ownedIn(row')[b] = ownedIn(row)[b] + IF b \in Range(new) THEN 1 ELSE 0
  <2>1. PICK rx : rx = row'
    OBVIOUS
  <2>2. blocksIn(rx, r) = Range(blocks) /\ blocksIn(row, r) = Range(me.blocks)
    BY <1>1, <1>9, <1>11, <2>1 DEF blocksIn, me
  <2>3. PICK N : N = Range(new)
    OBVIOUS
  <2>4. /\ \A q \in Request \ {r} : rx[q] = row[q]
        /\ blocksIn(rx, r) = blocksIn(row, r) \cup N /\ N \cap blocksIn(row, r) = {} /\ r \in Request
    BY <1>5, <1>11, <2>1, <2>2, <2>3
  <2>5. \A b \in Block : ownedIn(rx)[b] = ownedIn(row)[b] + IF b \in N THEN 1 ELSE 0
    BY ONLY <2>4, OwnersGrow
  <2> QED
    BY <2>1, <2>3, <2>5
<1>14. Books(stored, ownedIn(row'))
  <2>1. PICK other : other = ownedIn(row')
    OBVIOUS
  <2>2. Books(withRefs(c, new), other)
    BY <1>4, <1>5, <1>13, <2>1, WithRefsKeeps
  <2>3. PICK d, m : d = withRefs(c, new) /\ m = n + 1
    OBVIOUS
  <2>4. m \in Nat /\ m <= Len(text) /\ Len(blocks) = Len(text) /\ Books(d, other) /\ other \in Own
    BY <1>2, <1>4, <1>5, <1>6, <2>1, <2>2, <2>3
  <2>5. Books(publish(d, text, blocks, m, state), other)
    BY <1>5, <1>6, <1>7, <2>4, PublishKeeps
  <2> QED
    BY <2>1, <2>3, <2>5
<1> HIDE DEF stored
<1>15. Books(cache', ownedIn(row'))
  <2>1. PICK other : other = ownedIn(row')
    OBVIOUS
  <2>2. Books(retired(stored, SubSeq(text, 1, me.entry)), other)
    BY <1>4, <1>14, <2>1, DropsKeep
  <2> QED
    BY <1>1, <1>14, <2>1, <2>2
<1> QED
  BY <1>1, <1>11, <1>12, <1>15, WorldKept DEF TInv

\* A row that cannot have its next block.
LEMMA DecodeFailsTInv ==
  ASSUME TInv, NEW r \in Request, DecodeFails(r)
  PROVE  TInv'
<1> DEFINE c == evictedUntil(cache, 1)
<1>1. /\ row[r].phase = "decode" /\ row' = [row EXCEPT ![r] = goneRow(r)] /\ cache' = released(c, r)
      /\ waiting' = waiting /\ worldUnchanged
  BY DEF DecodeFails
<1>2. /\ Rows' /\ row'[r].phase = "gone" /\ \A q \in Request \ {r} : row'[q] = row[q]
      /\ \A b \in Block : ownedIn(row)[b] = ownedIn(row')[b] + IF b \in blocksIn(row, r) THEN 1 ELSE 0
  BY <1>1, Gone
<1>3. Queue'
  BY <1>1, <1>2 DEF TInv, Queue
<1>4. Books(cache', ownedIn(row'))
  <2>1. blocksIn(row, r) = Range(row[r].blocks)
    BY <1>1 DEF blocksIn
  <2>2. Books(cache, ownedIn(row)) /\ ownedIn(row) \in Own /\ ownedIn(row') \in Own
    BY OwnedOf DEF TInv
  <2>3. Books(c, ownedIn(row))
    <3>1. PICK one \in Int : one = 1
      OBVIOUS
    <3>2. Books(evictedUntil(cache, one), ownedIn(row))
      BY <2>2, DropsKeep
    <3> QED
      BY <3>1, <3>2
  <2> HIDE DEF c
  <2>4. PICK rx : rx = row'
    OBVIOUS
  <2> QED
    BY <1>1, <1>2, <2>1, <2>2, <2>3, <2>4, ReleasedKeeps
<1> QED
  BY <1>1, <1>2, <1>3, <1>4, WorldKept DEF TInv

\* invalidate_weights.
LEMMA UpdateTInv ==
  ASSUME TInv, Update
  PROVE  TInv'
<1>1. /\ weights < MaxUpdates /\ weights' = weights + 1 /\ cache' = cleared(cache)
      /\ process' = process /\ waiting' = waiting /\ row' = row /\ rotted' = rotted /\ disk' = disk /\ saving' = saving
  BY DEF Update, bootVars
<1>2. Counted'
  BY <1>1, Constants DEF TInv, Counted
<1>3. Rows' /\ Queue' /\ Files'
  BY <1>1 DEF TInv, Rows, RowRight, newRow, Queue, Files
<1>4. Books(cache', ownedIn(row'))
  <2>1. Books(cache, ownedIn(row)) /\ ownedIn(row) \in Own
    BY OwnedOf DEF TInv
  <2> QED
    BY <1>1, <2>1, DropsKeep
<1> QED
  BY <1>2, <1>3, <1>4 DEF TInv

\* save_boot of a decode row.
LEMMA SaveBootTInv ==
  ASSUME TInv, NEW r \in Request, SaveBoot(r)
  PROVE  TInv'
<1> DEFINE key == wholePages(row[r].text)
           kv == [i \in DOMAIN key |-> cell[row[r].blocks[i]]]
           state == row[r].state
           rw == [row[r] EXCEPT !.saved = TRUE]
<1>1. /\ row[r].phase = "decode" /\ key \in Key /\ disk' = disk
      /\ saving' = [key |-> key, left |-> moveOrder, files |-> [aux |-> state, k |-> kv, v |-> kv, manifest |-> kv]]
      /\ row' = [row EXCEPT ![r].saved = TRUE]
      /\ process' = process /\ weights' = weights /\ waiting' = waiting /\ cache' = cache /\ rotted' = rotted
  BY DEF SaveBoot, SaveBegin
<1> HIDE DEF key
<1>2. row[r] \in RowType /\ RowRight(r, row[r]) /\ state \in History /\ row \in [Request -> RowType]
  BY RowOf DEF TInv, Rows
<1>3. row' = [row EXCEPT ![r] = rw]
  BY <1>1, <1>2
<1>4. /\ rw \in RowType /\ rw.phase = "decode" /\ rw.text = row[r].text /\ rw.blocks = row[r].blocks
      /\ rw.from = row[r].from /\ rw.pending = row[r].pending
  BY <1>1, <1>2 DEF RowType
<1>5. RowRight(r, rw)
  BY <1>1, <1>2, <1>4 DEF RowRight
<1>6. Rows' /\ Queue' /\ ownedIn(row') = ownedIn(row)
  <2> HIDE DEF rw
  <2> QED
    BY <1>1, <1>3, <1>4, <1>5, RowKept DEF inEngine
<1>7. Files'
  <2> HIDE DEF state, kv
  <2>1. moveOrder \in Lefts
    BY DEF moveOrder, Lefts
  <2>2. /\ saving'.key = key /\ saving'.left = moveOrder /\ saving'.files.aux = state
        /\ saving' = [key |-> saving'.key, left |-> saving'.left,
                      files |-> [aux |-> saving'.files.aux, k |-> saving'.files.k, v |-> saving'.files.v,
                                 manifest |-> saving'.files.manifest]]
    BY <1>1
  <2> QED
    BY <1>1, <1>2, <2>1, <2>2 DEF TInv, Files
<1>8. Counted' /\ Books(cache', ownedIn(row'))
  BY <1>1, <1>6 DEF TInv, Counted
<1> QED
  BY <1>6, <1>7, <1>8 DEF TInv

\* One move of a save.
LEMMA SavingTInv ==
  ASSUME TInv, Saving
  PROVE  TInv'
<1> DEFINE f == Head(saving.left)
<1>1. /\ saving # NoSave /\ disk' = [disk EXCEPT ![saving.key][f] = saving.files[f]]
      /\ saving' = (IF Len(saving.left) = 1 THEN NoSave ELSE [saving EXCEPT !.left = Tail(@)])
      /\ process' = process /\ weights' = weights /\ rotted' = rotted /\ engineUnchanged
  BY DEF Saving, SaveMove
<1>2. /\ disk = [key \in Key |-> [g \in File |-> disk[key][g]]]
      /\ \A key \in Key : disk[key]["aux"] \in History \cup {Missing, Rotten}
      /\ saving.key \in Key /\ saving.left \in Lefts /\ saving.files.aux \in History
      /\ saving = [key |-> saving.key, left |-> saving.left,
                   files |-> [aux |-> saving.files.aux, k |-> saving.files.k, v |-> saving.files.v,
                              manifest |-> saving.files.manifest]]
  BY <1>1 DEF TInv, Files
<1>3. f \in File
  BY <1>2 DEF Lefts, File
<1>4. /\ disk' = [key \in Key |-> [g \in File |-> disk'[key][g]]]
      /\ \A key \in Key : disk'[key]["aux"] \in History \cup {Missing, Rotten}
  <2> HIDE DEF f
  <2>1. "aux" \in File
    BY DEF File
  <2>2. ASSUME NEW key \in Key PROVE disk'[key] = [g \in File |-> disk'[key][g]] /\ disk'[key]["aux"] \in History \cup {Missing, Rotten}
    <3>1. disk[key] = [g \in File |-> disk[key][g]]
      BY <1>2
    <3>2. CASE key = saving.key
      <4>1. disk'[key] = [disk[key] EXCEPT ![f] = saving.files[f]]
        BY <1>1, <1>2, <3>2
      <4>2. saving.files["aux"] \in History
        BY <1>2
      <4>3. disk'[key]["aux"] = IF f = "aux" THEN saving.files["aux"] ELSE disk[key]["aux"]
        BY <2>1, <3>1, <4>1
      <4>4. disk'[key] = [g \in File |-> disk'[key][g]]
        BY <3>1, <4>1
      <4> QED
        BY <1>2, <4>2, <4>3, <4>4
    <3>3. CASE key # saving.key
      <4>1. disk'[key] = disk[key]
        BY <1>1, <1>2, <3>3
      <4> QED
        BY <1>2, <3>1, <4>1
    <3> QED
      BY <3>2, <3>3
  <2>3. disk' = [key \in Key |-> disk'[key]]
    BY <1>1, <1>2
  <2> QED
    BY <2>2, <2>3
<1>5. saving' # NoSave =>
        /\ saving'.key \in Key /\ saving'.left \in Lefts /\ saving'.files.aux \in History
        /\ saving' = [key |-> saving'.key, left |-> saving'.left,
                      files |-> [aux |-> saving'.files.aux, k |-> saving'.files.k, v |-> saving'.files.v,
                                 manifest |-> saving'.files.manifest]]
  <2>1. Len(saving.left) # 1 => Tail(saving.left) \in Lefts
    BY <1>2, LeftStep
  <2>2. PICK left : left = Tail(saving.left)
    OBVIOUS
  <2>3. PICK fs : fs = saving.files
    OBVIOUS
  <2>4. Len(saving.left) # 1 => saving' = [key |-> saving.key, left |-> left, files |-> fs]
    BY <1>1, <1>2, <2>2, <2>3
  <2>5. fs = [aux |-> fs.aux, k |-> fs.k, v |-> fs.v, manifest |-> fs.manifest] /\ fs.aux \in History
    BY <1>2, <2>3
  <2> QED
    BY <1>1, <1>2, <2>1, <2>2, <2>4, <2>5
<1>6. Files'
  BY <1>4, <1>5 DEF Files
<1>7. Counted' /\ Rows' /\ Queue' /\ Books(cache', ownedIn(row'))
  BY <1>1 DEF TInv, Counted, Rows, RowRight, newRow, Queue, engineUnchanged
<1> QED
  BY <1>6, <1>7 DEF TInv

\* The next process: its own requests, an empty store, and the disk as it was left.
LEMMA NextProcessTInv ==
  ASSUME TInv, NextProcess
  PROVE  TInv'
<1>1. /\ process < LastProcess /\ process' = process + 1 /\ weights' = 0 /\ waiting' = <<>>
      /\ row' = [r \in Request |-> IF row[r].phase = "new" /\ Process[r] > process THEN row[r] ELSE goneRow(r)]
      /\ cache' = emptyStore /\ saving' = NoSave /\ disk' = disk /\ rotted' = rotted
  BY DEF NextProcess, SaveLost
<1>2. ASSUME NEW r \in Request
      PROVE  row'[r] \in RowType /\ RowRight(r, row'[r]) /\ row'[r].phase \in {"new", "gone"}
  <2>1. CASE row'[r] = row[r] /\ row[r].phase = "new"
    BY <2>1, RowOf
  <2>2. CASE row'[r] = goneRow(r)
    BY <2>2, IdleRow DEF goneRow
  <2> QED
    BY <1>1, <2>1, <2>2
<1>3. Rows'
  <2>1. row' = [r \in Request |-> row'[r]]
    BY <1>1
  <2>2. row' \in [Request -> RowType]
    BY <1>2, <2>1
  <2> QED
    BY <1>2, <2>2 DEF Rows, RowRight, newRow
<1>4. Queue'
  <2>1. <<>> \in Seq(Request) /\ IsInjective(<<>>) /\ Range(<<>>) = {}
    BY DEF IsInjective, Range
  <2> QED
    BY <1>1, <1>2, <2>1 DEF Queue
<1>5. Books(cache', ownedIn(row'))
  BY <1>1, <1>2, EmptyBooks
<1>6. Counted'
  BY <1>1, Constants DEF TInv, Counted
<1>7. Files'
  BY <1>1 DEF TInv, Files
<1> QED
  BY <1>3, <1>4, <1>5, <1>6, <1>7 DEF TInv

\* A file is damaged.
LEMMA DamageTInv ==
  ASSUME TInv, Damage
  PROVE  TInv'
<1>1. PICK key \in Key, f \in File : Rot(key, f)
  BY DEF Damage
<1>2. /\ rotted < MaxRot /\ rotted' = rotted + 1 /\ process' = process /\ weights' = weights /\ engineUnchanged
      /\ disk' = [disk EXCEPT ![key][f] = Rotten] /\ saving' = saving
  BY <1>1 DEF Damage, Rot
<1>3. /\ disk = [k \in Key |-> [g \in File |-> disk[k][g]]]
      /\ \A k \in Key : disk[k]["aux"] \in History \cup {Missing, Rotten}
  BY DEF TInv, Files
<1>4. ASSUME NEW k \in Key
      PROVE  disk'[k] = [g \in File |-> disk'[k][g]] /\ disk'[k]["aux"] \in History \cup {Missing, Rotten}
  <2>1. disk[k] = [g \in File |-> disk[k][g]] /\ "aux" \in File
    BY <1>3 DEF File
  <2>2. disk'[k] = disk[k] \/ disk'[k] = [disk[k] EXCEPT ![f] = Rotten]
    BY <1>2, <1>3
  <2>3. CASE disk'[k] = [disk[k] EXCEPT ![f] = Rotten]
    <3>1. disk'[k]["aux"] = IF f = "aux" THEN Rotten ELSE disk[k]["aux"]
      BY <2>1, <2>3
    <3>2. disk'[k] = [g \in File |-> disk'[k][g]]
      BY <2>1, <2>3
    <3> QED
      BY <1>3, <3>1, <3>2
  <2> QED
    BY <1>3, <2>1, <2>2, <2>3
<1>5. disk' = [k \in Key |-> [g \in File |-> disk'[k][g]]]
  <2>1. disk' = [k \in Key |-> disk'[k]]
    BY <1>2, <1>3
  <2> QED
    BY <1>4, <2>1
<1>6. Files'
  BY <1>2, <1>4, <1>5 DEF TInv, Files
<1>7. Counted'
  BY <1>2, Constants DEF TInv, Counted
<1>8. Rows' /\ Queue' /\ Books(cache', ownedIn(row'))
  BY <1>2 DEF TInv, Rows, RowRight, newRow, Queue, engineUnchanged
<1> QED
  BY <1>6, <1>7, <1>8 DEF TInv

\* Every step keeps the invariant.
LEMMA NextTInv ==
  ASSUME TInv, [Next]_vars
  PROVE  TInv'
<1>1. CASE AdmitNot
  BY <1>1, AdmitNotTInv
<1>2. CASE AdmitAdopts
  BY <1>2, AdmitAdoptsTInv
<1>3. CASE AdmitBoots
  BY <1>3, AdmitBootsTInv
<1>4. CASE Update
  BY <1>4, UpdateTInv
<1>5. CASE Saving
  BY <1>5, SavingTInv
<1>6. CASE NextProcess
  BY <1>6, NextProcessTInv
<1>7. CASE Damage
  BY <1>7, DamageTInv
<1>8. ASSUME NEW r \in Request, Submit(r) \/ Leave(r) \/ CancelWaiting(r) \/ SaveBoot(r)
      PROVE  TInv'
  BY <1>8, SubmitTInv, LeaveTInv, CancelWaitingTInv, SaveBootTInv
<1>9. ASSUME NEW r \in Request, Forward(r)
      PROVE  TInv'
  <2>1. CASE PrefillEnds(r)
    BY <2>1, PrefillEndsTInv
  <2>2. CASE Decode(r)
    BY <2>2, DecodeTInv
  <2>3. CASE DecodeFails(r)
    BY <2>3, DecodeFailsTInv
  <2>4. ASSUME NEW to \in 1 .. NumBlocks, PrefillOn(r, to)
        PROVE  TInv'
    BY <2>4, PrefillOnTInv
  <2> QED
    BY <1>9, <2>1, <2>2, <2>3, <2>4 DEF Forward
<1>10. CASE UNCHANGED vars
  BY <1>10 DEF vars, TInv, Counted, Rows, RowRight, newRow, Queue, Files
<1> QED
  BY <1>1, <1>2, <1>3, <1>4, <1>5, <1>6, <1>7, <1>8, <1>9, <1>10 DEF Next

-----------------------------------------------------------------------------
(* What the invariant says *)

LEMMA TInvTypes == ASSUME TInv PROVE TypeOK
<1>1. process \in 1 .. LastProcess /\ weights \in 0 .. MaxUpdates /\ rotted \in 0 .. MaxRot
  BY DEF TInv, Counted
<1>2. waiting \in Seq(Request)
  BY DEF TInv, Queue
<1>3. ASSUME NEW r \in Request
      PROVE  /\ row[r].phase \in {"new", "waiting", "prefill", "decode", "gone"}
             /\ row[r].from \in 0 .. Len(row[r].text) /\ row[r].blocks \in Seq(Block)
             /\ inEngine(r) => Len(row[r].blocks) = Len(row[r].text) /\ IsInjective(row[r].blocks)
  BY RowOf DEF RowType
<1>4. cache.ref \in [Block -> Nat]
  <2>1. Books(cache, ownedIn(row)) /\ ownedIn(row) \in Own
    BY OwnedOf DEF TInv
  <2>2. cache.ref \in [Block -> Int]
    BY <2>1, BooksOf
  <2>3. ASSUME NEW b \in Block PROVE cache.ref[b] \in Nat
    <3>1. cache.ref[b] = ownedIn(row)[b] + Cardinality(entriesWith(cache.entries, b)) /\ ownedIn(row)[b] \in Nat
      BY <2>1 DEF Books, Own
    <3>2. Cardinality(entriesWith(cache.entries, b)) \in Nat
      <4>1. entriesWith(cache.entries, b) \in SUBSET Range(cache.entries) /\ cache.entries \in Seq(Entry)
        BY <2>1, BooksOf DEF entriesWith
      <4> QED
        BY <4>1, FiniteRange
    <3> QED
      BY <3>1, <3>2
  <2> QED
    BY <2>2, <2>3
<1>5. cache.used \in Nat /\ cache.heldBytes \in Nat
  <2>1. Books(cache, ownedIn(row))
    BY DEF TInv
  <2>2. cache.used = Cardinality(onCard(cache.entries)) /\ cache.heldBytes = Len(cache.held)
    BY <2>1 DEF Books
  <2>3. onCard(cache.entries) \in SUBSET Range(cache.entries) /\ cache.entries \in Seq(Entry) /\ Len(cache.held) \in Nat
    BY <2>1, BooksOf DEF onCard
  <2>4. Cardinality(onCard(cache.entries)) \in Nat
    BY <2>3, FiniteRange
  <2> QED
    BY <2>2, <2>3, <2>4
<1> QED
  BY <1>1, <1>2, <1>3, <1>4, <1>5 DEF TypeOK

LEMMA TInvAccounts == ASSUME TInv PROVE AccountsExact
<1> DEFINE es == cache.entries
<1>1. Books(cache, ownedIn(row))
  BY DEF TInv
<1>2. /\ es \in Seq(Entry) /\ IsInjective(es) /\ DOMAIN es = 1 .. Len(es)
      /\ Range(es) = {es[i] : i \in 1 .. Len(es)}
      /\ DOMAIN cache.held = 1 .. Len(cache.held) /\ Range(cache.held) = {cache.held[k] : k \in 1 .. Len(cache.held)}
  BY <1>1, BooksOf
<1>3. cache.used = Cardinality(onCard(es)) /\ cache.heldBytes = Len(cache.held) /\ Len(cache.held) <= DramBytes
  BY <1>1 DEF Books
<1>4. \A h \in Range(cache.held) : \E e \in Range(es) : e.demoted /\ e.text = h.text
  BY <1>1 DEF Books, HeldRight
<1> PICK s : s = es
  OBVIOUS
<1> HIDE DEF es
<1>5. PICK I : I = 1 .. Len(s)
  OBVIOUS
<1>6. /\ \A b : Cardinality({i \in I : b \in Range(s[i].blocks)}) = Cardinality(entriesWith(s, b))
      /\ Cardinality({i \in I : ~ s[i].demoted}) = Cardinality(onCard(s))
  <2>1. PICK G : G = {s[i] : i \in I}
    OBVIOUS
  <2>2. /\ \A b : Cardinality({i \in I : b \in Range(s[i].blocks)}) = Cardinality(G \cap entriesWith(s, b))
        /\ Cardinality({i \in I : ~ s[i].demoted}) = Cardinality(G \cap onCard(s))
    <3>1. /\ \A b : Cardinality({i \in I : b \in Range(s[i].blocks)}) = Cardinality({s[i] : i \in I} \cap entriesWith(s, b))
          /\ Cardinality({i \in I : ~ s[i].demoted}) = Cardinality({s[i] : i \in I} \cap onCard(s))
      <4>1. s \in Seq(Entry) /\ IsInjective(s) /\ I \in SUBSET (1 .. Len(s))
        BY <1>2, <1>5 DEF es
      <4> QED
        BY <4>1, CountEntries
    <3> QED
      BY <2>1, <3>1
  <2>3. G = Range(s)
    BY <1>2, <1>5, <2>1
  <2>4. G \cap onCard(s) = onCard(s) /\ \A b : G \cap entriesWith(s, b) = entriesWith(s, b)
    BY <2>3 DEF onCard, entriesWith
  <2> QED
    BY <2>2, <2>4
<1>7. cache.used = Cardinality(resident(cache))
  <2>1. resident(cache) = {i \in I : ~ s[i].demoted}
    BY <1>2, <1>5 DEF resident, es
  <2> QED
    BY <1>3, <1>6, <2>1
<1>8. ASSUME NEW b \in Block
      PROVE  cache.ref[b] = Cardinality({r \in running : b \in Range(row[r].blocks)}) + holds(cache, DOMAIN cache.entries, b)
  <2>1. cache.ref[b] = Cardinality(ownersOf(row, b)) + Cardinality(entriesWith(s, b))
    BY <1>1 DEF Books, ownedIn, es
  <2>2. {r \in running : b \in Range(row[r].blocks)} = ownersOf(row, b)
    BY DEF running, inEngine, ownersOf
  <2>3. holds(cache, DOMAIN cache.entries, b) = Cardinality({i \in I : b \in Range(s[i].blocks)})
    BY <1>2, <1>5 DEF holds, es
  <2> QED
    BY <1>6, <2>1, <2>2, <2>3
<1>9. \A k \in DOMAIN cache.held :
        \E i \in DOMAIN cache.entries : cache.entries[i].demoted /\ cache.entries[i].text = cache.held[k].text
  <2> SUFFICES ASSUME NEW k \in DOMAIN cache.held
               PROVE  \E i \in DOMAIN cache.entries : cache.entries[i].demoted /\ cache.entries[i].text = cache.held[k].text
    OBVIOUS
  <2>1. cache.held[k] \in Range(cache.held)
    BY <1>2
  <2>2. PICK e \in Range(es) : e.demoted /\ e.text = cache.held[k].text
    BY <1>4, <2>1
  <2>3. PICK i \in 1 .. Len(es) : es[i] = e
    BY <1>2, <2>2
  <2>4. i \in DOMAIN cache.entries /\ cache.entries[i] = e
    BY <1>2, <2>3 DEF es
  <2> QED
    BY <2>2, <2>4
<1> QED
  BY <1>3, <1>7, <1>8, <1>9 DEF AccountsExact

-----------------------------------------------------------------------------
(* What the rows and the store hold *)

LEMMA AtNone == ASSUME NEW text, NEW w PROVE at(text, 0, w) = <<>> /\ NoState = at(text, 0, w)
<1>1. 1 .. 0 = {}
  OBVIOUS
<1>2. at(text, 0, w) \in [1 .. 0 -> {w}]
  BY <1>1 DEF at
<1>3. PICK s : s = at(text, 0, w)
  OBVIOUS
<1>4. s \in Seq({w}) /\ Len(s) = 0
  BY <1>2, <1>3
<1> QED
  BY <1>3, <1>4 DEF NoState

\* A state that has consumed a beginning of a text consumes the next pages of it.
LEMMA ConsumedAt ==
  ASSUME NEW text, NEW from \in Nat, NEW to \in Nat, from <= to
  PROVE  consumed(at(text, from, weights), text, from, to) = at(text, to, weights)
<1> DEFINE S == {<<text[i], weights>> : i \in Nat}
           n == to - from
           s == at(text, from, weights)
           t == [i \in 1 .. n |-> <<text[from + i], weights>>]
           u == at(text, to, weights)
<1>1. n \in Nat /\ from + n = to
  OBVIOUS
<1> HIDE DEF n
<1>2. s \in [1 .. from -> S] /\ t \in [1 .. n -> S] /\ u \in [1 .. to -> S]
  <2>1. \A i \in 1 .. from : i \in Nat
    OBVIOUS
  <2>2. \A i \in 1 .. to : i \in Nat
    OBVIOUS
  <2>3. \A i \in 1 .. n : from + i \in Nat
    BY <1>1
  <2> QED
    BY <2>1, <2>2, <2>3 DEF at
<1>3. /\ \A i \in 1 .. from : s[i] = <<text[i], weights>>
      /\ \A i \in 1 .. n : t[i] = <<text[from + i], weights>>
      /\ \A i \in 1 .. to : u[i] = <<text[i], weights>>
  BY DEF at
<1>4. consumed(s, text, from, to) = s \o t
  BY DEF consumed, n
<1> HIDE DEF s, t, u, S
<1>5. s \in Seq(S) /\ t \in Seq(S) /\ u \in Seq(S) /\ Len(s) = from /\ Len(t) = n /\ Len(u) = to
  BY <1>1, <1>2
<1>6. /\ s \o t \in Seq(S) /\ Len(s \o t) = from + n
      /\ \A i \in 1 .. from + n : (s \o t)[i] = IF i <= from THEN s[i] ELSE t[i - from]
  BY <1>5, ConcatProperties
<1>7. \A i \in 1 .. to : (s \o t)[i] = u[i]
  <2> SUFFICES ASSUME NEW i \in 1 .. to PROVE (s \o t)[i] = u[i]
    OBVIOUS
  <2>1. u[i] = <<text[i], weights>> /\ i \in 1 .. from + n /\ i \in Nat
    BY <1>1, <1>3
  <2>2. (s \o t)[i] = IF i <= from THEN s[i] ELSE t[i - from]
    BY <1>6, <2>1
  <2>3. CASE i <= from
    <3>1. i \in 1 .. from
      BY <2>1, <2>3
    <3>2. s[i] = <<text[i], weights>>
      BY <1>3, <3>1
    <3> QED
      BY <2>1, <2>2, <2>3, <3>2
  <2>4. CASE ~(i <= from)
    <3>1. PICK k \in Int : k = i - from
      BY <2>1
    <3>2. k \in 1 .. n /\ from + k = i
      BY <1>1, <2>1, <2>4, <3>1
    <3>3. t[k] = <<text[from + k], weights>>
      BY <1>3, <3>2
    <3>4. t[i - from] = <<text[i], weights>>
      BY <3>1, <3>2, <3>3
    <3> QED
      BY <2>1, <2>2, <2>4, <3>4
  <2> QED
    BY <2>3, <2>4
<1>8. s \o t = u
  BY <1>1, <1>5, <1>6, <1>7
<1> QED
  BY <1>4, <1>8 DEF s, u

LEMMA ExactAt == ASSUME NEW text, NEW n \in Nat PROVE exact(text, n) = at(text, n, weights)
<1>1. PICK z \in Nat : z = 0
  OBVIOUS
<1>2. consumed(at(text, z, weights), text, z, n) = at(text, n, weights)
  BY <1>1, ConsumedAt
<1> QED
  BY <1>1, <1>2, AtNone DEF exact

LEMMA AtOf ==
  ASSUME TInv, NEW text \in Seq(Page), NEW n \in Nat, n <= Len(text)
  PROVE  at(text, n, weights) \in History
<1>1. weights \in Nat
  BY Constants DEF TInv, Counted
<1>2. \A i \in 1 .. n : text[i] \in Page
  BY LenProperties
<1>3. \A i \in 1 .. n : <<text[i], weights>> \in Page \X Nat
  BY <1>1, <1>2
<1>4. at(text, n, weights) \in [1 .. n -> Page \X Nat]
  BY <1>3 DEF at
<1> QED
  BY <1>4 DEF History

\* Who has not been written on has what it had.
LEMMA StoreServesStill ==
  ASSUME NEW own, NEW c, Books(c, own), NEW cl, NEW cm, NEW w, StoreServes(c, cl, w),
         \A e \in Range(c.entries) : \A b \in Range(e.blocks) : cm[b] = cl[b]
  PROVE  StoreServes(c, cm, w)
<1>1. ASSUME NEW e \in Range(c.entries) PROVE pagesRight(e.text, e.blocks, Len(e.text), cm, w)
  <2>1. e.blocks \in Seq(Block) /\ Len(e.blocks) = Len(e.text)
    BY BooksOf
  <2>2. \A i \in 1 .. Len(e.text) : e.blocks[i] \in Range(e.blocks)
    BY <2>1, RangeOf
  <2>3. pagesRight(e.text, e.blocks, Len(e.text), cl, w)
    BY DEF StoreServes
  <2> QED
    BY <2>2, <2>3 DEF pagesRight
<1> QED
  BY <1>1 DEF StoreServes

LEMMA RowServesStill ==
  ASSUME NEW rw, NEW cl, NEW cm, NEW w, RowServes(rw, cl, w), \A i \in 1 .. rw.from : cm[rw.blocks[i]] = cl[rw.blocks[i]]
  PROVE  RowServes(rw, cm, w)
BY DEF RowServes, pagesRight

\* A free block is in no row and in no entry.
LEMMA FreeIsNobodys ==
  ASSUME NEW c, Books(c, ownedIn(row)), NEW b \in freeBlocks(c)
  PROVE  /\ \A q \in running : b \notin Range(row[q].blocks)
         /\ \A e \in Range(c.entries) : b \notin Range(e.blocks)
<1>1. b \in Block /\ c.ref[b] = 0
  BY DEF freeBlocks
<1>2. ASSUME NEW q \in running, b \in Range(row[q].blocks) PROVE FALSE
  BY <1>1, <1>2, OwnedInUse DEF running
<1>3. ASSUME NEW e \in Range(c.entries), b \in Range(e.blocks) PROVE FALSE
  <2>1. e \in entriesWith(c.entries, b) /\ entriesWith(c.entries, b) \in SUBSET Range(c.entries) /\ c.entries \in Seq(Entry)
    BY <1>3, BooksOf DEF entriesWith
  <2>2. IsFiniteSet(entriesWith(c.entries, b)) /\ Cardinality(entriesWith(c.entries, b)) \in Nat
    BY <2>1, FiniteRange
  <2>3. Cardinality(entriesWith(c.entries, b)) # 0
    BY <2>1, <2>2, FS_EmptySet
  <2>4. ownedIn(row)[b] \in Nat /\ c.ref[b] = ownedIn(row)[b] + Cardinality(entriesWith(c.entries, b))
    BY <1>1, OwnedOf DEF Books, Own
  <2> QED
    BY <1>1, <2>2, <2>3, <2>4
<1> QED
  BY <1>2, <1>3

\* A row has its open blocks, and those it has written are none of them.
LEMMA OpenOf ==
  ASSUME NEW rw, rw.blocks \in Seq(Block), IsInjective(rw.blocks), rw.from \in Nat
  PROVE  /\ openOf(rw) \subseteq Range(rw.blocks)
         /\ \A i \in 1 .. Len(rw.blocks) : i <= rw.from => rw.blocks[i] \notin openOf(rw)
<1>1. Len(rw.blocks) \in Nat /\ Range(rw.blocks) = {rw.blocks[i] : i \in 1 .. Len(rw.blocks)}
  BY RangeOf, LenProperties
<1>2. \A i, j \in 1 .. Len(rw.blocks) : rw.blocks[i] = rw.blocks[j] => i = j
  BY RangeOf
<1>3. ASSUME NEW i \in rw.from + 1 .. Len(rw.blocks) PROVE i \in 1 .. Len(rw.blocks) /\ i > rw.from
  BY <1>1
<1>4. openOf(rw) \subseteq Range(rw.blocks)
  BY <1>1, <1>3 DEF openOf
<1>5. ASSUME NEW i \in 1 .. Len(rw.blocks), i <= rw.from, rw.blocks[i] \in openOf(rw) PROVE FALSE
  <2>1. PICK j \in rw.from + 1 .. Len(rw.blocks) : rw.blocks[i] = rw.blocks[j]
    BY <1>5 DEF openOf
  <2>2. i = j
    BY <1>2, <1>3, <2>1
  <2> QED
    BY <1>3, <1>5, <2>2
<1> QED
  BY <1>4, <1>5

\* What comes from the store has no open block either.
LEMMA ApartFrom ==
  ASSUME Apart, NEW d, From(d, cache), NEW q \in running, NEW e \in Range(d.entries)
  PROVE  openOf(row[q]) \cap Range(e.blocks) = {}
<1>1. PICK f \in Range(cache.entries) : f.blocks = e.blocks
  BY DEF From
<1> QED
  BY <1>1 DEF Apart

\* One row changes, and the store.
LEMMA ApartWith ==
  ASSUME Apart, NEW r \in Request, \A q \in Request \ {r} : row'[q] = row[q],
         row'[r].phase \in {"prefill", "decode"} =>
           /\ \A q \in running \ {r} : /\ openOf(row'[r]) \cap Range(row[q].blocks) = {}
                                       /\ openOf(row[q]) \cap Range(row'[r].blocks) = {}
           /\ \A e \in Range(cache'.entries) : openOf(row'[r]) \cap Range(e.blocks) = {},
         \A q \in running \ {r} : \A e \in Range(cache'.entries) : openOf(row[q]) \cap Range(e.blocks) = {}
  PROVE  Apart'
<1>1. \A q \in Request : q \in running' <=> row'[q].phase \in {"prefill", "decode"}
  BY DEF running, inEngine
<1>2. ASSUME NEW q \in running', q # r PROVE q \in running \ {r} /\ row'[q] = row[q]
  BY <1>1, <1>2 DEF running, inEngine
<1>3. ASSUME NEW p \in running', NEW q \in running' \ {p}
      PROVE  openOf(row'[p]) \cap Range(row'[q].blocks) = {}
  <2>1. CASE p = r
    BY <1>1, <1>2, <2>1
  <2>2. CASE p # r /\ q = r
    BY <1>1, <1>2, <2>2
  <2>3. CASE p # r /\ q # r
    BY <1>2, <2>3 DEF Apart
  <2> QED
    BY <2>1, <2>2, <2>3
<1>4. ASSUME NEW p \in running', NEW e \in Range(cache'.entries)
      PROVE  openOf(row'[p]) \cap Range(e.blocks) = {}
  BY <1>1, <1>2
<1> QED
  BY <1>3, <1>4 DEF Apart, openOf

-----------------------------------------------------------------------------
(* The forwards *)

\* What a forward writes is right where its state is, and nothing else is written.
LEMMA WrittenAt ==
  ASSUME NEW r, NEW text, NEW blocks \in Seq(Block), IsInjective(blocks),
         NEW from \in Nat, NEW to \in Nat, from <= to, to <= Len(blocks),
         row[r].state = at(text, from, weights), NEW cl, cl = written(r, text, blocks, from, to)
  PROVE  /\ \A b \in Block : b \notin {blocks[i] : i \in from + 1 .. to} => cl[b] = cell[b]
         /\ pagesRight(text, blocks, from, cell, weights) => pagesRight(text, blocks, to, cl, weights)
<1>1. Len(blocks) \in Nat /\ \A i, j \in 1 .. Len(blocks) : blocks[i] = blocks[j] => i = j
  BY RangeOf, LenProperties
<1>2. \A i \in 1 .. Len(blocks) : blocks[i] \in Block
  OBVIOUS
<1>3. \A b \in Block : b \notin {blocks[i] : i \in from + 1 .. to} => cl[b] = cell[b]
  BY DEF written
<1>4. ASSUME NEW i \in from + 1 .. to PROVE cl[blocks[i]] = at(text, i, weights)
  <2>1. PICK b : b = blocks[i]
    OBVIOUS
  <2>2. b \in Block /\ i \in 1 .. Len(blocks)
    BY <1>1, <1>2, <2>1
  <2>3. \A j \in from + 1 .. to : blocks[j] = b => j = i
    BY <1>1, <2>1, <2>2
  <2>4. (CHOOSE j \in from + 1 .. to : blocks[j] = b) = i
    BY <2>1, <2>3
  <2>5. cl[b] = consumed(row[r].state, text, from, i)
    BY <2>1, <2>2, <2>4 DEF written
  <2>6. i \in Nat /\ from <= i
    OBVIOUS
  <2> QED
    BY <2>1, <2>5, <2>6, ConsumedAt
<1>5. ASSUME pagesRight(text, blocks, from, cell, weights) PROVE pagesRight(text, blocks, to, cl, weights)
  <2> SUFFICES ASSUME NEW i \in 1 .. to PROVE cl[blocks[i]] = at(text, i, weights)
    BY DEF pagesRight
  <2>1. CASE i \in from + 1 .. to
    BY <1>4, <2>1
  <2>2. CASE i \in 1 .. from
    <3>1. i \in 1 .. Len(blocks) /\ \A j \in from + 1 .. to : j \in 1 .. Len(blocks) /\ j # i
      BY <1>1, <2>2
    <3>2. blocks[i] \notin {blocks[j] : j \in from + 1 .. to} /\ blocks[i] \in Block
      BY <1>1, <1>2, <3>1
    <3> QED
      BY <1>3, <1>5, <2>2, <3>2 DEF pagesRight
  <2> QED
    BY <2>1, <2>2
<1> QED
  BY <1>3, <1>5

\* Blocks that are nobody else's are written: the store and the other rows serve still.
LEMMA StoreServesFrom ==
  ASSUME Contents, NEW d, Books(d, ownedIn(row)), From(d, cache), NEW W, NEW cl,
         \A e \in Range(d.entries) : W \cap Range(e.blocks) = {},
         \A b \in Block : b \notin W => cl[b] = cell[b]
  PROVE  StoreServes(d, cl, weights)
<1>1. ownedIn(row) \in Own
  BY OwnedOf
<1>2. \A e \in Range(d.entries) : e.blocks \in Seq(Block)
  BY BooksOf
<1>3. \A e \in Range(d.entries) : \A b \in Range(e.blocks) : cl[b] = cell[b]
  BY <1>2, RangeOf
<1>4. StoreServes(d, cell, weights)
  BY FromServes DEF Contents, Served
<1> QED
  BY <1>1, <1>3, <1>4, StoreServesStill

LEMMA RowServesOn ==
  ASSUME TInv, Contents, NEW q \in Request, inEngine(q), NEW W, W \cap Range(row[q].blocks) = {},
         NEW cl, \A b \in Block : b \notin W => cl[b] = cell[b]
  PROVE  RowServes(row[q], cl, weights)
<1>1. /\ row[q].blocks \in Seq(Block) /\ row[q].from \in Nat /\ row[q].from <= Len(row[q].text)
      /\ Len(row[q].blocks) = Len(row[q].text) /\ Len(row[q].text) \in Nat
  BY RowOf
<1>2. ASSUME NEW i \in 1 .. row[q].from PROVE cl[row[q].blocks[i]] = cell[row[q].blocks[i]]
  <2>1. i \in 1 .. Len(row[q].blocks)
    BY <1>1
  <2>2. row[q].blocks[i] \in Range(row[q].blocks) /\ row[q].blocks[i] \in Block
    BY <1>1, <2>1, RangeOf
  <2> QED
    BY <2>2
<1>3. RowServes(row[q], cell, weights)
  BY DEF Contents, Served
<1> QED
  BY <1>2, <1>3, RowServesStill

\* Nothing has happened to the disk, and the row is as whole as it was.
LEMMA PrefilledKept ==
  ASSUME Contents, worldUnchanged, NEW r \in Request, \A q \in Request \ {r} : row'[q] = row[q],
         r \in Saves => ~ ragged(row'[r].text)
  PROVE  Prefilled'
<1>1. disk' = disk /\ saving' = saving /\ process' = process /\ weights' = weights
  BY DEF worldUnchanged, bootVars
<1>2. \A q \in Saves \cap Request : ~ ragged(row'[q].text)
  BY DEF Contents, Prefilled
<1> QED
  BY <1>1, <1>2 DEF Contents, Prefilled, ragged

\* A chunk of prefill, whether or not it ends the prompt.
LEMMA PrefillContents ==
  ASSUME TInv, Contents, NEW r \in Request, row[r].phase = "prefill",
         NEW to \in Nat, row[r].from <= to, to <= Len(row[r].text),
         NEW rw, row'[r] = rw, \A q \in Request \ {r} : row'[q] = row[q],
         rw.phase \in {"prefill", "decode"}, rw.phase = "decode" => to = Len(row[r].text),
         rw.text = row[r].text, rw.blocks = row[r].blocks, rw.from = to,
         rw.state = consumed(row[r].state, row[r].text, row[r].from, to),
         rw.pending.len <= to, rw.pending.state = at(row[r].text, rw.pending.len, weights),
         cell' = written(r, row[r].text, row[r].blocks, row[r].from, to),
         \/ cache' = cache
         \/ \E n \in 0 .. to : cache' = publish(cache, row[r].text, row[r].blocks, n, at(row[r].text, n, weights)),
         worldUnchanged
  PROVE  Contents'
<1>1. PICK text, blocks, from : text = row[r].text /\ blocks = row[r].blocks /\ from = row[r].from
  OBVIOUS
<1>2. /\ text \in Seq(Page) /\ blocks \in Seq(Block) /\ Len(blocks) = Len(text) /\ IsInjective(blocks)
      /\ from \in Nat /\ Len(text) \in Nat /\ inEngine(r)
  BY <1>1, RowOf DEF inEngine
<1>3. Books(cache, ownedIn(row)) /\ ownedIn(row) \in Own /\ Served /\ Apart
  BY OwnedOf DEF TInv, Contents
<1>4. RowServes(row[r], cell, weights) /\ weights' = weights
  BY <1>2, <1>3 DEF Served, worldUnchanged
<1>5. row[r].state = at(text, from, weights) /\ pagesRight(text, blocks, from, cell, weights)
  BY <1>1, <1>4 DEF RowServes
<1>6. PICK W : W = {blocks[i] : i \in from + 1 .. to}
  OBVIOUS
<1>7. PICK cl : cl = cell'
  OBVIOUS
<1>8. /\ \A b \in Block : b \notin W => cl[b] = cell[b]
      /\ pagesRight(text, blocks, to, cl, weights)
  <2>1. from <= to /\ to <= Len(blocks) /\ cl = written(r, text, blocks, from, to)
    BY <1>1, <1>2, <1>7
  <2> QED
    BY <1>2, <1>5, <1>6, <2>1, WrittenAt
<1>9. W \subseteq openOf(row[r])
  <2>1. from + 1 .. to \subseteq from + 1 .. Len(blocks)
    BY <1>1, <1>2
  <2> QED
    BY <1>1, <1>6, <2>1 DEF openOf
<1>10. r \in running
  BY <1>2 DEF running
<1>11. /\ \A q \in running \ {r} : W \cap Range(row[q].blocks) = {}
       /\ \A e \in Range(cache.entries) : W \cap Range(e.blocks) = {}
  BY <1>3, <1>9, <1>10 DEF Apart
<1>12. /\ StoreServes(cache, cl, weights)
       /\ \A q \in Request \ {r} : inEngine(q) => RowServes(row[q], cl, weights)
  <2>1. From(cache, cache) /\ \A b \in Block : b \notin W => cl[b] = cell[b]
    BY <1>8, FromSelf
  <2>2. StoreServes(cache, cl, weights)
    BY <1>3, <1>11, <2>1, StoreServesFrom
  <2>3. ASSUME NEW q \in Request \ {r}, inEngine(q) PROVE RowServes(row[q], cl, weights)
    BY <1>11, <2>1, <2>3, RowServesOn DEF running
  <2> QED
    BY <2>2, <2>3
<1>13. StoreServes(cache', cl, weights)
  <2>1. ASSUME NEW n \in 0 .. to, cache' = publish(cache, text, blocks, n, at(text, n, weights))
        PROVE  StoreServes(cache', cl, weights)
    <3>1. n \in Nat /\ n <= Len(text)
      BY <1>1, <1>2
    <3>2. PICK s : s = at(text, n, weights)
      OBVIOUS
    <3>3. s \in History
      BY <1>2, <3>1, <3>2, AtOf
    <3>4. pagesRight(text, blocks, n, cl, weights)
      BY <1>8 DEF pagesRight
    <3>5. StoreServes(publish(cache, text, blocks, n, s), cl, weights)
      BY <1>2, <1>3, <1>12, <3>1, <3>2, <3>3, <3>4, PublishKeeps
    <3> QED
      BY <2>1, <3>2, <3>5
  <2> QED
    BY <1>1, <1>12, <2>1
<1>14. RowServes(rw, cl, weights)
  <2>1. rw.state = at(text, to, weights)
    <3>1. from <= to
      BY <1>1, <1>2
    <3>2. consumed(at(text, from, weights), text, from, to) = at(text, to, weights)
      BY <1>2, <3>1, ConsumedAt
    <3> QED
      BY <1>1, <1>5, <3>2
  <2> QED
    BY <1>1, <1>8, <2>1 DEF RowServes
<1>15. Served'
  <2>1. ASSUME NEW q \in Request, row'[q].phase \in {"prefill", "decode"} PROVE RowServes(row'[q], cl, weights)
    BY <1>12, <1>14, <2>1 DEF inEngine
  <2> QED
    BY <1>4, <1>7, <1>13, <2>1 DEF Served, inEngine
<1>16. openOf(rw) \subseteq openOf(row[r])
  <2>1. to + 1 .. Len(blocks) \subseteq from + 1 .. Len(blocks)
    BY <1>1, <1>2
  <2> QED
    BY <1>1, <2>1 DEF openOf
<1>17. ASSUME NEW e \in Range(cache'.entries)
       PROVE  (\E f \in Range(cache.entries) : f.blocks = e.blocks) \/ Range(e.blocks) \subseteq firstOf(blocks, to)
  <2>1. ASSUME NEW n \in 0 .. to, cache' = publish(cache, text, blocks, n, at(text, n, weights))
        PROVE  (\E f \in Range(cache.entries) : f.blocks = e.blocks) \/ Range(e.blocks) \subseteq firstOf(blocks, to)
    <3>1. n \in Nat /\ n <= Len(text)
      BY <1>1, <1>2
    <3>2. PICK s : s = at(text, n, weights)
      OBVIOUS
    <3>3. s \in History
      BY <1>2, <3>1, <3>2, AtOf
    <3>4. \A f \in Range(publish(cache, text, blocks, n, s).entries) :
            \/ \E g \in Range(cache.entries) : g.blocks = f.blocks
            \/ Range(f.blocks) \subseteq firstOf(blocks, n)
      BY <1>2, <1>3, <3>1, <3>3, PublishKeeps
    <3>5. e \in Range(publish(cache, text, blocks, n, s).entries)
      BY <2>1, <3>2
    <3>6. \A i \in 1 .. n : i \in 1 .. to
      OBVIOUS
    <3>7. firstOf(blocks, n) \subseteq firstOf(blocks, to)
      BY <3>6 DEF firstOf
    <3> QED
      BY <3>4, <3>5, <3>7
  <2>2. CASE cache' = cache
    BY <2>2
  <2>3. CASE \E n \in 0 .. to : cache' = publish(cache, text, blocks, n, at(text, n, weights))
    BY <2>1, <2>3
  <2> QED
    BY <1>1, <2>2, <2>3
<1>18. Apart'
  <2>1. firstOf(blocks, to) \subseteq Range(blocks) /\ openOf(rw) \cap firstOf(blocks, to) = {}
    <3>1. \A i \in 1 .. to : i \in 1 .. Len(blocks)
      BY <1>1, <1>2
    <3>2. \A i \in 1 .. Len(blocks) : i <= to => blocks[i] \notin openOf(rw)
      BY <1>1, <1>2, OpenOf
    <3> QED
      BY <1>2, <3>1, <3>2, RangeOf DEF firstOf
  <2>2. ASSUME NEW q \in running \ {r}
        PROVE  openOf(rw) \cap Range(row[q].blocks) = {} /\ openOf(row[q]) \cap Range(rw.blocks) = {}
    BY <1>3, <1>10, <1>16 DEF Apart
  <2>3. ASSUME NEW e \in Range(cache'.entries) PROVE openOf(rw) \cap Range(e.blocks) = {}
    BY <1>3, <1>10, <1>16, <1>17, <2>1 DEF Apart
  <2>4. ASSUME NEW q \in running \ {r}, NEW e \in Range(cache'.entries) PROVE openOf(row[q]) \cap Range(e.blocks) = {}
    BY <1>1, <1>3, <1>10, <1>17, <2>1, <2>2 DEF Apart
  <2> QED
    BY <1>3, <2>2, <2>3, <2>4, ApartWith
<1>19. Prefilled'
  <2>1. r \in Saves => ~ ragged(row'[r].text)
    BY DEF Contents, Prefilled
  <2> QED
    BY <2>1, PrefilledKept
<1> QED
  BY <1>15, <1>18, <1>19 DEF Contents

LEMMA PrefillOnContents ==
  ASSUME TInv, Contents, NEW r \in Request, NEW to \in 1 .. NumBlocks, PrefillOn(r, to)
  PROVE  Contents'
<1> DEFINE me == row[r]
           state == consumed(me.state, me.text, me.from, to)
           held == me.interior /\ ragged(me.text) /\ to = Len(me.text) - 1
           pending == IF held THEN [len |-> to, state |-> state] ELSE me.pending
<1>1. /\ me.phase = "prefill" /\ to \in me.from + 1 .. Len(me.text) - 1
      /\ row' = [row EXCEPT ![r].from = to, ![r].state = state, ![r].interior = TRUE,
                            ![r].pending = IF held THEN [len |-> to, state |-> state] ELSE @]
      /\ cell' = written(r, me.text, me.blocks, me.from, to)
      /\ cache' = (IF me.interior THEN cache ELSE publish(cache, me.text, me.blocks, to, state))
      /\ worldUnchanged
  BY DEF PrefillOn
<1>2. /\ row \in [Request -> RowType] /\ me \in RowType /\ me.text \in Seq(Page) /\ me.from \in Nat
      /\ Len(me.text) \in Nat /\ inEngine(r)
  BY <1>1, RowOf DEF inEngine, TInv, Rows
<1>3. to \in Nat /\ me.from <= to /\ to <= Len(me.text)
  BY <1>1, <1>2
<1>4. RowServes(me, cell, weights)
  BY <1>2 DEF Contents, Served
<1>5. state = at(me.text, to, weights)
  BY <1>2, <1>3, <1>4, ConsumedAt DEF RowServes
<1>6. pending.len <= to /\ pending.state = at(me.text, pending.len, weights)
  <2>1. me.pending.len \in Nat /\ me.pending.len <= me.from /\ me.pending.state = at(me.text, me.pending.len, weights)
    BY <1>2, <1>4 DEF RowServes, RowType
  <2> HIDE DEF me, state
  <2>2. CASE held
    BY <1>3, <1>5, <2>2
  <2>3. CASE ~ held
    BY <1>2, <1>3, <2>1, <2>3
  <2> QED
    BY <2>2, <2>3
<1>7. /\ \A q \in Request \ {r} : row'[q] = row[q]
      /\ row'[r].phase = "prefill" /\ row'[r].text = me.text /\ row'[r].blocks = me.blocks
      /\ row'[r].from = to /\ row'[r].state = state /\ row'[r].pending = pending
  <2>1. PICK p, s : p = pending /\ s = state
    OBVIOUS
  <2> HIDE DEF held
  <2>2. row' = [row EXCEPT ![r].from = to, ![r].state = s, ![r].interior = TRUE, ![r].pending = p]
    BY <1>1, <1>2, <2>1
  <2> HIDE DEF state, pending
  <2>3. PICK rw : rw = [me EXCEPT !.from = to, !.state = s, !.interior = TRUE, !.pending = p]
    OBVIOUS
  <2>4. row' = [row EXCEPT ![r] = rw]
    BY <1>2, <2>2, <2>3
  <2>5. /\ rw.phase = me.phase /\ rw.text = me.text /\ rw.blocks = me.blocks
        /\ rw.from = to /\ rw.state = s /\ rw.pending = p
    <3> HIDE DEF me
    <3> QED
      BY <1>2, <2>3 DEF RowType
  <2> QED
    BY <1>1, <1>2, <2>1, <2>4, <2>5
<1>8. \/ cache' = cache
      \/ \E n \in 0 .. to : cache' = publish(cache, me.text, me.blocks, n, at(me.text, n, weights))
  <2>1. to \in 0 .. to
    BY <1>3
  <2> HIDE DEF state, me
  <2> QED
    BY <1>1, <1>5, <2>1
<1>9. PICK rw : rw = row'[r]
  OBVIOUS
<1>10. rw.state = consumed(row[r].state, row[r].text, row[r].from, to)
  BY <1>7, <1>9
<1>11. rw.phase \in {"prefill", "decode"} /\ (rw.phase = "decode" => to = Len(row[r].text))
  BY <1>7, <1>9
<1> HIDE DEF state, pending, held
<1>12. rw.pending.len <= to /\ rw.pending.state = at(row[r].text, rw.pending.len, weights)
  BY <1>6, <1>7, <1>9
<1>13. /\ row[r].phase = "prefill" /\ rw.text = row[r].text /\ rw.blocks = row[r].blocks /\ rw.from = to
       /\ cell' = written(r, row[r].text, row[r].blocks, row[r].from, to) /\ row[r].from <= to /\ to <= Len(row[r].text)
       /\ to \in Nat /\ worldUnchanged
  BY <1>1, <1>3, <1>7, <1>9
<1>14. \/ cache' = cache
       \/ \E n \in 0 .. to : cache' = publish(cache, row[r].text, row[r].blocks, n, at(row[r].text, n, weights))
  BY <1>8
<1> HIDE DEF me
<1> QED
  BY <1>7, <1>9, <1>10, <1>11, <1>12, <1>13, <1>14, PrefillContents

LEMMA PrefillEndsContents ==
  ASSUME TInv, Contents, NEW r \in Request, PrefillEnds(r)
  PROVE  Contents'
<1> DEFINE me == row[r]
           n == Len(me.text)
           state == consumed(me.state, me.text, me.from, n)
<1>1. /\ me.phase = "prefill"
      /\ row' = [row EXCEPT ![r].phase = "decode", ![r].from = n, ![r].state = state, ![r].pending = NoSnapshot]
      /\ cell' = written(r, me.text, me.blocks, me.from, n)
      /\ cache' = (IF ~ragged(me.text) THEN publish(cache, me.text, me.blocks, n, state)
                   ELSE IF me.pending.len > 0
                   THEN publish(cache, me.text, me.blocks, me.pending.len, me.pending.state)
                   ELSE cache)
      /\ worldUnchanged
  BY DEF PrefillEnds
<1>2. /\ row \in [Request -> RowType] /\ me \in RowType /\ me.text \in Seq(Page) /\ me.from \in Nat
      /\ n \in Nat /\ inEngine(r) /\ me.from <= n /\ me.pending.len \in Nat
  BY <1>1, RowOf DEF inEngine, TInv, Rows, RowType
<1>3. RowServes(me, cell, weights)
  BY <1>2 DEF Contents, Served
<1>4. state = at(me.text, n, weights)
  BY <1>2, <1>3, ConsumedAt DEF RowServes
<1>5. me.pending.len \in 0 .. n /\ me.pending.state = at(me.text, me.pending.len, weights) /\ n \in 0 .. n
  BY <1>2, <1>3 DEF RowServes
<1>6. /\ \A q \in Request \ {r} : row'[q] = row[q]
      /\ row'[r].phase = "decode" /\ row'[r].text = me.text /\ row'[r].blocks = me.blocks
      /\ row'[r].from = n /\ row'[r].state = state /\ row'[r].pending = NoSnapshot
  <2> HIDE DEF n, state
  <2> QED
    BY <1>1, <1>2 DEF RowType
<1>7. \/ cache' = cache
      \/ \E m \in 0 .. n : cache' = publish(cache, me.text, me.blocks, m, at(me.text, m, weights))
  <2> HIDE DEF state, n, me
  <2> QED
    BY <1>1, <1>4, <1>5
<1>8. NoSnapshot.len <= n /\ NoSnapshot.state = at(me.text, NoSnapshot.len, weights)
  BY <1>2, AtNone DEF NoSnapshot
<1>9. PICK k \in Nat : k = n
  BY <1>2
<1>10. PICK rw : rw = row'[r]
  OBVIOUS
<1>11. /\ rw.state = consumed(row[r].state, row[r].text, row[r].from, k)
       /\ rw.phase \in {"prefill", "decode"} /\ (rw.phase = "decode" => k = Len(row[r].text))
       /\ rw.pending.len <= k /\ rw.pending.state = at(row[r].text, rw.pending.len, weights)
       /\ cell' = written(r, row[r].text, row[r].blocks, row[r].from, k) /\ row[r].from <= k /\ k <= Len(row[r].text)
       /\ rw.text = row[r].text /\ rw.blocks = row[r].blocks /\ rw.from = k
  BY <1>1, <1>2, <1>6, <1>8, <1>9, <1>10
<1>12. \/ cache' = cache
       \/ \E m \in 0 .. k : cache' = publish(cache, row[r].text, row[r].blocks, m, at(row[r].text, m, weights))
  BY <1>7, <1>9
<1> QED
  BY <1>1, <1>6, <1>10, <1>11, <1>12, PrefillContents

-----------------------------------------------------------------------------
(* A row that comes or goes *)

\* A request has no row after it, and the store has nothing it had not.
LEMMA IdleContents ==
  ASSUME TInv, Contents, NEW r \in Request, \A q \in Request \ {r} : row'[q] = row[q],
         row'[r].phase \notin {"prefill", "decode"}, r \in Saves => ~ ragged(row'[r].text),
         From(cache', cache), cell' = cell, worldUnchanged
  PROVE  Contents'
<1>1. Served /\ Apart /\ weights' = weights
  BY DEF Contents, worldUnchanged
<1>2. PICK d : d = cache'
  OBVIOUS
<1>3. Served'
  <2>1. StoreServes(d, cell, weights)
    BY <1>1, <1>2, FromServes DEF Served
  <2>2. ASSUME NEW q \in Request, row'[q].phase \in {"prefill", "decode"} PROVE RowServes(row'[q], cell, weights)
    BY <1>1, <2>2 DEF Served, inEngine
  <2> QED
    BY <1>1, <1>2, <2>1, <2>2 DEF Served, inEngine
<1>4. Apart'
  <2>1. \A q \in running \ {r} : \A e \in Range(d.entries) : openOf(row[q]) \cap Range(e.blocks) = {}
    BY <1>1, <1>2, ApartFrom
  <2> QED
    BY <1>1, <1>2, <2>1, ApartWith
<1> QED
  BY <1>3, <1>4, PrefilledKept DEF Contents

LEMMA SubmitContents == ASSUME TInv, Contents, NEW r \in Request, Submit(r) PROVE Contents'
<1>1. row' = [row EXCEPT ![r].phase = "waiting"] /\ cache' = cache /\ cell' = cell /\ worldUnchanged
  BY DEF Submit
<1>2. row \in [Request -> RowType] /\ row[r] \in RowType
  BY DEF TInv, Rows
<1>3. /\ \A q \in Request \ {r} : row'[q] = row[q]
      /\ row'[r].phase = "waiting" /\ row'[r].text = row[r].text
  BY <1>1, <1>2 DEF RowType
<1>4. r \in Saves => ~ ragged(row'[r].text)
  BY <1>3 DEF Contents, Prefilled
<1>5. From(cache', cache)
  BY <1>1, FromSelf
<1> QED
  BY <1>1, <1>3, <1>4, <1>5, IdleContents

\* A row that is gone has its prompt for a text again.
LEMMA GoneText ==
  ASSUME TInv, SavesWholePages, NEW r \in Request, row' = [row EXCEPT ![r] = goneRow(r)]
  PROVE  /\ \A q \in Request \ {r} : row'[q] = row[q]
         /\ row'[r].phase = "gone" /\ (r \in Saves => ~ ragged(row'[r].text))
<1>1. row \in [Request -> RowType]
  BY DEF TInv, Rows
<1>2. goneRow(r).phase = "gone" /\ goneRow(r).text = Prompt[r]
  BY DEF goneRow, newRow
<1> QED
  BY <1>1, <1>2 DEF SavesWholePages

LEMMA ReleasedFrom == ASSUME NEW c, NEW r PROVE From(released(c, r), c)
<1>1. released(c, r).entries = c.entries /\ released(c, r).held = c.held
  BY DEF released
<1> QED
  BY <1>1, FromSelf

LEMMA LeaveContents == ASSUME TInv, Contents, SavesWholePages, NEW r \in Request, Leave(r) PROVE Contents'
<1>1. row' = [row EXCEPT ![r] = goneRow(r)] /\ cache' = released(cache, r) /\ cell' = cell /\ worldUnchanged
  BY DEF Leave
<1>2. From(cache', cache)
  BY <1>1, ReleasedFrom
<1> QED
  BY <1>1, <1>2, GoneText, IdleContents

LEMMA CancelWaitingContents ==
  ASSUME TInv, Contents, SavesWholePages, NEW r \in Request, CancelWaiting(r)
  PROVE  Contents'
<1>1. row' = [row EXCEPT ![r] = goneRow(r)] /\ cache' = cache /\ cell' = cell /\ worldUnchanged
  BY DEF CancelWaiting
<1>2. From(cache', cache)
  BY <1>1, FromSelf
<1> QED
  BY <1>1, <1>2, GoneText, IdleContents

LEMMA DecodeFailsContents ==
  ASSUME TInv, Contents, SavesWholePages, NEW r \in Request, DecodeFails(r)
  PROVE  Contents'
<1>1. /\ row' = [row EXCEPT ![r] = goneRow(r)] /\ cache' = released(evictedUntil(cache, 1), r)
      /\ cell' = cell /\ worldUnchanged
  BY DEF DecodeFails
<1>2. From(evictedUntil(cache, 1), cache)
  <2>1. Books(cache, ownedIn(row)) /\ ownedIn(row) \in Own
    BY OwnedOf DEF TInv
  <2>2. PICK one \in Int : one = 1
    OBVIOUS
  <2>3. From(evictedUntil(cache, one), cache)
    BY <2>1, DropsKeep
  <2> QED
    BY <2>2, <2>3
<1>3. From(cache', cache)
  BY <1>1, <1>2, ReleasedFrom, FromFrom
<1> QED
  BY <1>1, <1>3, GoneText, IdleContents

LEMMA AdmitNotContents == ASSUME TInv, Contents, AdmitNot PROVE Contents'
<1>1. /\ headMayGo /\ cache' = room(cache, row[Head(waiting)].text).store
      /\ row' = row /\ cell' = cell /\ worldUnchanged
  BY DEF AdmitNot
<1>2. PICK r : r = Head(waiting)
  OBVIOUS
<1>3. r \in Request /\ row[r].phase = "waiting" /\ row[r].text \in Seq(Page) /\ row[r].text # <<>>
  BY <1>1, <1>2, HeadWaits, RowOf
<1>4. From(cache', cache)
  <2>1. Books(cache, ownedIn(row)) /\ ownedIn(row) \in Own
    BY OwnedOf DEF TInv
  <2> QED
    BY <1>1, <1>2, <1>3, <2>1, RoomKeeps
<1>5. r \in Saves => ~ ragged(row'[r].text)
  BY <1>1, <1>3 DEF Contents, Prefilled
<1> QED
  BY <1>1, <1>3, <1>4, <1>5, IdleContents

\* A row starts, with blocks that were free past what it has of its text.
LEMMA AdmittedContents ==
  ASSUME TInv, Contents, NEW r \in Request, ~ inEngine(r), NEW rw, row'[r] = rw, \A q \in Request \ {r} : row'[q] = row[q],
         rw.phase = "prefill", rw.text = row[r].text,
         NEW d, Books(d, ownedIn(row)), From(d, cache), cache' = withRefs(d, rw.blocks),
         openOf(rw) \subseteq freeBlocks(d), \A q \in running : openOf(row[q]) \cap Range(rw.blocks) = {},
         NEW cl, cell' = cl, \A b \in Block \ freeBlocks(d) : cl[b] = cell[b],
         RowServes(rw, cl, weights), worldUnchanged
  PROVE  Contents'
<1>1. Served /\ Apart /\ weights' = weights
  BY DEF Contents, worldUnchanged
<1>2. cache'.entries = d.entries /\ cache'.held = d.held
  BY DEF withRefs
<1>3. \A e \in Range(d.entries) : e.blocks \in Seq(Block)
  BY BooksOf
<1>4. StoreServes(d, cl, weights)
  <2>1. StoreServes(d, cell, weights)
    BY <1>1, FromServes DEF Served
  <2>2. ASSUME NEW e \in Range(d.entries), NEW b \in Range(e.blocks) PROVE cl[b] = cell[b]
    <3>1. b \in Block
      BY <1>3, RangeOf
    <3> QED
      BY <3>1, FreeIsNobodys
  <2>3. ownedIn(row) \in Own
    BY OwnedOf
  <2> QED
    BY <2>1, <2>2, <2>3, StoreServesStill
<1>5. ASSUME NEW q \in Request, inEngine(q) PROVE RowServes(row[q], cl, weights)
  <2>1. /\ row[q].blocks \in Seq(Block) /\ row[q].from \in Nat /\ row[q].from <= Len(row[q].text)
        /\ Len(row[q].blocks) = Len(row[q].text) /\ Len(row[q].text) \in Nat /\ q \in running
    BY <1>5, RowOf DEF running
  <2>2. ASSUME NEW i \in 1 .. row[q].from PROVE cl[row[q].blocks[i]] = cell[row[q].blocks[i]]
    <3>1. i \in 1 .. Len(row[q].blocks)
      BY <2>1
    <3>2. row[q].blocks[i] \in Range(row[q].blocks) /\ row[q].blocks[i] \in Block
      BY <2>1, <3>1, RangeOf
    <3> QED
      BY <2>1, <3>2, FreeIsNobodys
  <2>3. RowServes(row[q], cell, weights)
    BY <1>1, <1>5 DEF Served
  <2> QED
    BY <2>2, <2>3, RowServesStill
<1>6. Served'
  <2>1. StoreServes(cache', cl, weights)
    BY <1>2, <1>4 DEF StoreServes
  <2>2. ASSUME NEW q \in Request, row'[q].phase \in {"prefill", "decode"} PROVE RowServes(row'[q], cl, weights)
    BY <1>5, <2>2 DEF inEngine
  <2> QED
    BY <1>1, <2>1, <2>2 DEF Served, inEngine
<1>7. Apart'
  <2>1. \A q \in running \ {r} : \A e \in Range(cache'.entries) : openOf(row[q]) \cap Range(e.blocks) = {}
    BY <1>1, <1>2, ApartFrom
  <2>2. \A q \in running \ {r} : openOf(rw) \cap Range(row[q].blocks) = {}
    BY FreeIsNobodys
  <2>3. \A e \in Range(cache'.entries) : openOf(rw) \cap Range(e.blocks) = {}
    BY <1>2, FreeIsNobodys
  <2> QED
    BY <1>1, <2>1, <2>2, <2>3, ApartWith
<1>8. Prefilled'
  <2>1. r \in Saves => ~ ragged(row'[r].text)
    BY DEF Contents, Prefilled
  <2> QED
    BY <2>1, PrefilledKept
<1> QED
  BY <1>6, <1>7, <1>8 DEF Contents

\* The row of a head that is admitted.
LEMMA AdmittedAt ==
  ASSUME TInv, headMayGo, NEW blocks, NEW from, NEW state, NEW booted,
         admitted(Head(waiting), blocks, from, state, booted)
  PROVE  LET r == Head(waiting)
             rw == row'[r]
         IN  /\ r \in Request /\ ~ inEngine(r) /\ \A q \in Request \ {r} : row'[q] = row[q]
             /\ rw.phase = "prefill" /\ rw.text = row[r].text /\ rw.blocks = blocks /\ rw.from = from
             /\ rw.state = state /\ rw.pending = NoSnapshot
<1> DEFINE r == Head(waiting)
<1>1. r \in Request /\ row[r].phase = "waiting"
  BY HeadWaits
<1> HIDE DEF r
<1>2. row \in [Request -> RowType] /\ row[r] \in RowType /\ RowRight(r, row[r])
  BY <1>1 DEF TInv, Rows
<1>3. row[r].pending = NoSnapshot
  BY <1>1, <1>2 DEF RowRight, newRow
<1>4. PICK rw : rw = [row[r] EXCEPT !.phase = "prefill", !.blocks = blocks, !.from = from, !.state = state, !.booted = booted]
  OBVIOUS
<1>5. row' = [row EXCEPT ![r] = rw]
  <2>1. row' = [row EXCEPT ![r].phase = "prefill", ![r].blocks = blocks, ![r].from = from, ![r].state = state, ![r].booted = booted]
    BY DEF admitted, r
  <2> QED
    BY <1>1, <1>2, <1>4, <2>1
<1>6. /\ rw.phase = "prefill" /\ rw.text = row[r].text /\ rw.blocks = blocks /\ rw.from = from
      /\ rw.state = state /\ rw.pending = row[r].pending
  BY <1>2, <1>4 DEF RowType
<1>7. row'[r] = rw /\ \A q \in Request \ {r} : row'[q] = row[q]
  BY <1>1, <1>2, <1>5
<1> QED
  BY <1>1, <1>3, <1>6, <1>7 DEF r, inEngine

\* A snapshot that is adopted is of the beginning of the row's own text.
LEMMA HitServes ==
  ASSUME NEW own, NEW c, Books(c, own), NEW cl, NEW w, StoreServes(c, cl, w), NEW hit, HitFrom(hit, c),
         NEW text \in Seq(Page), PartOf(hit, text)
  PROVE  /\ hit.state = at(text, Len(hit.text), w) /\ pagesRight(text, hit.blocks, Len(hit.text), cl, w)
         /\ hit = NoHit \/ \E e \in Range(c.entries) : e.blocks = hit.blocks
<1>1. CASE hit = NoHit
  <2>1. Len(hit.text) = 0 /\ hit.state = NoState
    BY <1>1 DEF NoHit
  <2>2. 1 .. 0 = {}
    OBVIOUS
  <2> QED
    BY <1>1, <2>1, <2>2, AtNone DEF pagesRight
<1>2. ASSUME NEW e \in Range(c.entries), e.text = hit.text, e.blocks = hit.blocks, snapshotIn(c, hit.text, hit.state)
      PROVE  hit.state = at(text, Len(hit.text), w) /\ pagesRight(text, hit.blocks, Len(hit.text), cl, w)
  <2>1. PICK s, n : s = hit.text /\ n = Len(hit.text)
    OBVIOUS
  <2>2. s \in Seq(Page) /\ n \in Nat /\ n <= Len(text) /\ Len(text) \in Nat /\ Len(s) = n /\ IsPrefix(s, text)
    BY <2>1, LenProperties DEF PartOf, HitRight
  <2>3. \A i \in 1 .. n : s[i] = text[i]
    BY <2>2 DEF IsPrefix
  <2>4. \A m \in 0 .. n : at(s, m, w) = at(text, m, w)
    <3> SUFFICES ASSUME NEW m \in 0 .. n PROVE at(s, m, w) = at(text, m, w)
      OBVIOUS
    <3>1. n \in Nat
      BY <2>2
    <3> QED
      BY ONLY <3>1, <2>3, m \in 0 .. n, AtAlike
  <2>5. hit.state = at(s, n, w)
    BY <1>2, <2>1, SnapshotServes
  <2>6. pagesRight(s, hit.blocks, n, cl, w)
    BY <1>2, <2>1 DEF StoreServes
  <2>7. n \in 0 .. n /\ \A i \in 1 .. n : i \in 0 .. n
    BY <2>2
  <2> QED
    BY <2>1, <2>4, <2>5, <2>6, <2>7 DEF pagesRight
<1> QED
  BY <1>1, <1>2 DEF HitFrom

LEMMA AdmitAdoptsContents == ASSUME TInv, Contents, AdmitAdopts PROVE Contents'
<1>0. PICK r, text, got, new, blocks :
        /\ r = Head(waiting) /\ text = row[r].text /\ got = room(cache, text)
        /\ new = fresh(got.store, Len(text) - Len(got.hit.blocks)) /\ blocks = got.hit.blocks \o new
  OBVIOUS
<1>1. /\ headMayGo /\ verdict(text, got) = "adopt" /\ admitted(r, blocks, Len(got.hit.text), got.hit.state, FALSE)
      /\ cache' = withRefs(got.store, blocks) /\ cell' = cell /\ worldUnchanged
  BY <1>0 DEF AdmitAdopts
<1>2. /\ text \in Seq(Page) /\ Len(text) \in Nat /\ Len(got.hit.text) \in Nat
      /\ Books(got.store, ownedIn(row)) /\ From(got.store, cache)
      /\ PartOf(got.hit, text) /\ HitFrom(got.hit, cache)
      /\ new \in Seq(Block) /\ Range(new) \subseteq freeBlocks(got.store)
      /\ blocks \in Seq(Block) /\ IsInjective(blocks) /\ Len(blocks) = Len(text)
  <2>1. /\ text = row[Head(waiting)].text /\ got = room(cache, text) /\ headMayGo /\ verdict(text, got) = "adopt"
        /\ new = fresh(got.store, Len(text) - Len(got.hit.blocks)) /\ TInv
    BY <1>0, <1>1
  <2>2. /\ text \in Seq(Page) /\ Len(text) \in Nat /\ Len(got.hit.text) \in Nat
        /\ Books(got.store, ownedIn(row)) /\ From(got.store, cache)
        /\ PartOf(got.hit, text) /\ HitFrom(got.hit, cache)
        /\ new \in Seq(Block) /\ Range(new) \subseteq freeBlocks(got.store)
        /\ got.hit.blocks \o new \in Seq(Block) /\ IsInjective(got.hit.blocks \o new)
        /\ Len(got.hit.blocks \o new) = Len(text)
    BY ONLY <2>1, Adopted
  <2> QED
    BY <1>0, <2>2
<1>r. PICK rw : rw = row'[r]
  OBVIOUS
<1>3. /\ r \in Request /\ ~ inEngine(r) /\ \A q \in Request \ {r} : row'[q] = row[q]
      /\ rw.phase = "prefill" /\ rw.text = text /\ rw.blocks = blocks /\ rw.from = Len(got.hit.text)
      /\ rw.state = got.hit.state /\ rw.pending = NoSnapshot
  <2>1. PICK n, f, h : n = Len(got.hit.text) /\ f = FALSE /\ h = got.hit.state
    OBVIOUS
  <2>2. admitted(Head(waiting), blocks, n, h, f) /\ headMayGo
    BY <1>0, <1>1, <2>1
  <2>3. /\ Head(waiting) \in Request /\ ~ inEngine(Head(waiting))
        /\ \A q \in Request \ {Head(waiting)} : row'[q] = row[q]
        /\ row'[Head(waiting)].phase = "prefill" /\ row'[Head(waiting)].text = row[Head(waiting)].text
        /\ row'[Head(waiting)].blocks = blocks /\ row'[Head(waiting)].from = n
        /\ row'[Head(waiting)].state = h /\ row'[Head(waiting)].pending = NoSnapshot
    BY <2>2, AdmittedAt
  <2> QED
    BY <1>0, <1>r, <2>1, <2>3
<1>4. Books(cache, ownedIn(row)) /\ Served /\ Apart
  BY DEF TInv, Contents
<1>5. /\ got.hit.blocks \in Seq(Block) /\ Len(got.hit.blocks) = Len(got.hit.text)
      /\ Len(got.hit.text) < Len(text)
  BY <1>2 DEF PartOf, HitRight
<1>6. /\ \A i \in 1 .. Len(got.hit.text) : blocks[i] = got.hit.blocks[i]
      /\ \A i \in Len(got.hit.text) + 1 .. Len(blocks) : blocks[i] \in Range(new)
      /\ Range(blocks) = Range(got.hit.blocks) \cup Range(new)
  <2>1. PICK s, k : s = got.hit.blocks /\ k = Len(got.hit.text)
    OBVIOUS
  <2>2. s \in Seq(Block) /\ new \in Seq(Block) /\ Len(s) = k /\ k \in Nat /\ Len(new) \in Nat /\ blocks = s \o new
    BY <1>0, <1>2, <1>5, <2>1, LenProperties
  <2>3. /\ Len(blocks) = k + Len(new) /\ Range(blocks) = Range(s) \cup Range(new)
        /\ \A i \in 1 .. k + Len(new) : blocks[i] = IF i <= k THEN s[i] ELSE new[i - k]
    BY <2>2, JoinedOnce, ConcatProperties
  <2>4. ASSUME NEW i \in k + 1 .. Len(blocks) PROVE blocks[i] \in Range(new)
    <3>1. i \in 1 .. k + Len(new) /\ ~(i <= k) /\ i - k \in 1 .. Len(new)
      BY <2>2, <2>3
    <3> QED
      BY <2>2, <2>3, <3>1, RangeOf
  <2>5. ASSUME NEW i \in 1 .. k PROVE blocks[i] = s[i]
    <3>1. i \in 1 .. k + Len(new) /\ i <= k
      BY <2>2
    <3> QED
      BY <2>3, <3>1
  <2> QED
    BY <2>1, <2>3, <2>4, <2>5
<1>7. openOf(rw) \subseteq Range(new)
  BY <1>3, <1>6 DEF openOf
<1>8. /\ got.hit.state = at(text, Len(got.hit.text), weights)
      /\ pagesRight(text, got.hit.blocks, Len(got.hit.text), cell, weights)
      /\ got.hit = NoHit \/ \E e \in Range(cache.entries) : e.blocks = got.hit.blocks
  <2>1. StoreServes(cache, cell, weights)
    BY <1>4 DEF Served
  <2> QED
    BY <1>2, <1>4, <2>1, HitServes
<1>9. RowServes(rw, cell, weights)
  <2>1. pagesRight(text, blocks, Len(got.hit.text), cell, weights)
    BY <1>6, <1>8 DEF pagesRight
  <2>2. NoSnapshot.len <= Len(got.hit.text) /\ NoSnapshot.state = at(text, NoSnapshot.len, weights)
    BY <1>2, AtNone DEF NoSnapshot
  <2> QED
    BY <1>3, <1>8, <2>1, <2>2 DEF RowServes
<1>10. ASSUME NEW q \in running PROVE openOf(row[q]) \cap Range(blocks) = {}
  <2>1. openOf(row[q]) \cap Range(got.hit.blocks) = {}
    <3>1. CASE got.hit = NoHit
      <4>1. Range(got.hit.blocks) = {}
        BY <3>1 DEF NoHit, Range
      <4> QED
        BY <4>1
    <3>2. CASE \E e \in Range(cache.entries) : e.blocks = got.hit.blocks
      BY <1>4, <3>2 DEF Apart
    <3> QED
      BY <1>8, <3>1, <3>2
  <2>2. openOf(row[q]) \subseteq Range(row[q].blocks)
    BY <1>10, RowOf, OpenOf DEF running
  <2>3. Range(row[q].blocks) \cap Range(new) = {}
    BY <1>2, FreeIsNobodys
  <2> QED
    BY <1>6, <2>1, <2>2, <2>3
<1>11. PICK d : d = got.store
  OBVIOUS
<1>12. openOf(rw) \subseteq freeBlocks(d) /\ Books(d, ownedIn(row)) /\ From(d, cache) /\ cache' = withRefs(d, rw.blocks)
  BY <1>1, <1>2, <1>3, <1>7, <1>11
<1>13. \A q \in running : openOf(row[q]) \cap Range(rw.blocks) = {}
  BY <1>3, <1>10
<1>14. /\ r \in Request /\ ~ inEngine(r) /\ row'[r] = rw /\ (\A q \in Request \ {r} : row'[q] = row[q])
       /\ rw.phase = "prefill" /\ rw.text = row[r].text /\ worldUnchanged
  BY <1>0, <1>1, <1>3, <1>r
<1>15. PICK cl : cell' = cl /\ cl = cell
  BY <1>1
<1>16. (\A b \in Block \ freeBlocks(d) : cl[b] = cell[b]) /\ RowServes(rw, cl, weights)
  BY <1>9, <1>15
<1> QED
  BY ONLY TInv, Contents, <1>12, <1>13, <1>14, <1>15, <1>16, AdmittedContents

\* What boot accepts is what a prefill of the key computes.
LEMMA LoadsPrefilled ==
  ASSUME Contents, NEW key \in Key, loads(key)
  PROVE  disk[key].k = kvOf(key) /\ disk[key].aux = at(key, Len(key), 0)
<1>1. {"aux", "k", "manifest"} \subseteq File
  BY DEF File
<1>2. /\ disk[key]["k"] = disk[key]["manifest"] /\ disk[key]["manifest"] \notin {Missing, Rotten}
      /\ disk[key]["aux"] \notin {Missing, Rotten}
  BY DEF loads, exists
<1>3. \A f \in File : disk[key][f] \in {Missing, Rotten, prefilled(key, f)}
  BY DEF Contents, Prefilled
<1>4. disk[key]["manifest"] = prefilled(key, "manifest") /\ disk[key]["aux"] = prefilled(key, "aux")
  BY <1>1, <1>2, <1>3
<1> QED
  BY <1>2, <1>4 DEF prefilled

LEMMA AdmitBootsContents == ASSUME TInv, Contents, AdmitBoots, ~ WholeBoot PROVE Contents'
<1> DEFINE t == row[Head(waiting)].text
           k == wholePages(t)
           from == IF k = t THEN Len(k) - 1 ELSE Len(k)
           g == room(cache, t)
           bs == fresh(g.store, Len(t))
<1>0. PICK r, text, got, blocks, key :
        /\ r = Head(waiting) /\ text = row[r].text /\ got = room(cache, text)
        /\ blocks = fresh(got.store, Len(text)) /\ key = wholePages(text)
        /\ text = t /\ got = g /\ blocks = bs /\ key = k
  OBVIOUS
<1>1. key # text
  BY <1>0 DEF WholeBoot
<1>2. /\ headMayGo /\ verdict(text, got) = "boot" /\ admitted(r, blocks, Len(key), disk[key].aux, TRUE)
      /\ cache' = withRefs(got.store, blocks) /\ cell' = copied(key, blocks) /\ worldUnchanged
  <2>1. /\ headMayGo /\ verdict(t, g) = "boot" /\ admitted(Head(waiting), bs, from, disk[k].aux, TRUE)
        /\ cache' = withRefs(g.store, bs) /\ cell' = copied(k, bs) /\ worldUnchanged
    BY DEF AdmitBoots
  <2>2. from = Len(k)
    BY <1>0, <1>1
  <2> HIDE DEF t, k, from, g, bs
  <2> QED
    BY <1>0, <2>1, <2>2
<1> HIDE DEF t, k, from, g, bs
<1>3. /\ text \in Seq(Page) /\ Len(text) \in Nat /\ Len(text) > 0
      /\ Books(got.store, ownedIn(row)) /\ From(got.store, cache)
      /\ boots(text) /\ loads(key) /\ key \in Key
      /\ key \in Seq(Page) /\ Len(key) = Len(text) - 1 /\ \A i \in 1 .. Len(key) : key[i] = text[i]
      /\ blocks \in Seq(Block) /\ IsInjective(blocks) /\ Len(blocks) = Len(text)
      /\ Range(blocks) \subseteq freeBlocks(got.store)
  <2>1. /\ text = row[Head(waiting)].text /\ got = room(cache, text) /\ headMayGo /\ verdict(text, got) = "boot"
        /\ key = wholePages(text) /\ TInv
    BY <1>0, <1>2
  <2>2. /\ text \in Seq(Page) /\ Len(text) \in Nat /\ Len(text) > 0
        /\ Books(got.store, ownedIn(row)) /\ From(got.store, cache)
        /\ boots(text) /\ loads(key) /\ key \in Key
        /\ key = text \/ /\ key = Front(text) /\ key \in Seq(Page) /\ Len(key) = Len(text) - 1
                         /\ \A i \in 1 .. Len(key) : key[i] = text[i]
        /\ fresh(got.store, Len(text)) \in Seq(Block) /\ Len(fresh(got.store, Len(text))) = Len(text)
        /\ IsInjective(fresh(got.store, Len(text))) /\ Range(fresh(got.store, Len(text))) \subseteq freeBlocks(got.store)
    BY ONLY <2>1, Booted
  <2> QED
    BY <1>0, <1>1, <2>2
<1>r. PICK rw : rw = row'[r]
  OBVIOUS
<1>4. /\ r \in Request /\ ~ inEngine(r) /\ \A q \in Request \ {r} : row'[q] = row[q]
      /\ rw.phase = "prefill" /\ rw.text = text /\ rw.blocks = blocks /\ rw.from = Len(key)
      /\ rw.state = disk[key].aux /\ rw.pending = NoSnapshot
  BY <1>0, <1>r, <1>2, AdmittedAt
<1>5. weights = 0
  BY <1>3 DEF Contents, Prefilled, boots
<1>6. disk[key].k = kvOf(key) /\ disk[key].aux = at(key, Len(key), weights)
  BY <1>3, <1>5, LoadsPrefilled
<1>7. PICK n \in Nat : n = Len(key)
  BY <1>3
<1>8. DOMAIN key = 1 .. n /\ n <= Len(blocks) /\ Len(blocks) \in Nat
  BY <1>3, <1>7
<1>9. \A m \in 0 .. n : at(key, m, weights) = at(text, m, weights)
  <2>1. \A i \in 1 .. n : key[i] = text[i]
    BY <1>3, <1>7
  <2> SUFFICES ASSUME NEW m \in 0 .. n PROVE at(key, m, weights) = at(text, m, weights)
    OBVIOUS
  <2> QED
    BY ONLY n \in Nat, <2>1, m \in 0 .. n, AtAlike
<1>10. PICK cl : cl = cell'
  OBVIOUS
<1>11. \A i \in 1 .. Len(blocks) : blocks[i] \in Range(blocks) /\ blocks[i] \in Block
  BY <1>3, RangeOf
<1>12. pagesRight(text, blocks, n, cl, weights)
  <2> SUFFICES ASSUME NEW i \in 1 .. n PROVE cl[blocks[i]] = at(text, i, weights)
    BY DEF pagesRight
  <2>1. i \in 1 .. Len(blocks) /\ i \in 0 .. n
    BY <1>8
  <2>2. \A j \in 1 .. n : blocks[j] = blocks[i] => j = i
    BY <1>3, <1>8, <2>1, RangeOf
  <2>3. (CHOOSE j \in DOMAIN key : blocks[j] = blocks[i]) = i
    BY <1>8, <2>2
  <2>4. PICK b : b = blocks[i]
    OBVIOUS
  <2>5. b \in Block /\ \E j \in DOMAIN key : blocks[j] = b
    BY <1>8, <1>11, <2>1, <2>4
  <2>6. cl[b] = disk[key].k[CHOOSE j \in DOMAIN key : blocks[j] = b]
    BY <1>2, <1>10, <2>5 DEF copied
  <2>7. cl[b] = kvOf(key)[i]
    BY <1>6, <2>3, <2>4, <2>6
  <2>8. kvOf(key)[i] = at(key, i, weights)
    BY <1>5, <1>8 DEF kvOf
  <2> QED
    BY <1>9, <2>1, <2>4, <2>7, <2>8
<1>13. RowServes(rw, cl, weights)
  <2>1. NoSnapshot.len <= n /\ NoSnapshot.state = at(text, NoSnapshot.len, weights)
    BY AtNone DEF NoSnapshot
  <2>2. n \in 0 .. n
    OBVIOUS
  <2> QED
    BY <1>4, <1>6, <1>7, <1>9, <1>12, <2>1, <2>2 DEF RowServes
<1>14. PICK d : d = got.store
  OBVIOUS
<1>15. \A b \in Block \ freeBlocks(d) : cl[b] = cell[b]
  <2>1. ASSUME NEW b \in Block \ freeBlocks(d), NEW i \in DOMAIN key, blocks[i] = b PROVE FALSE
    BY <1>3, <1>8, <1>11, <1>14, <2>1
  <2> QED
    BY <1>2, <1>10, <2>1 DEF copied
<1>16. openOf(rw) \subseteq Range(blocks)
  BY <1>3, <1>4, OpenOf
<1>17. openOf(rw) \subseteq freeBlocks(d) /\ Books(d, ownedIn(row)) /\ From(d, cache) /\ cache' = withRefs(d, rw.blocks)
  BY <1>2, <1>3, <1>4, <1>14, <1>16
<1>18. ASSUME NEW q \in running PROVE openOf(row[q]) \cap Range(rw.blocks) = {}
  <2>1. openOf(row[q]) \subseteq Range(row[q].blocks)
    BY <1>18, RowOf, OpenOf DEF running
  <2>2. Range(row[q].blocks) \cap Range(blocks) = {}
    BY <1>3, FreeIsNobodys
  <2> QED
    BY <1>4, <2>1, <2>2
<1>19. /\ r \in Request /\ ~ inEngine(r) /\ row'[r] = rw /\ (\A q \in Request \ {r} : row'[q] = row[q])
       /\ rw.phase = "prefill" /\ rw.text = row[r].text /\ worldUnchanged /\ cell' = cl
  BY <1>0, <1>2, <1>4, <1>10, <1>r
<1> QED
  BY ONLY TInv, Contents, <1>13, <1>15, <1>17, <1>18, <1>19, AdmittedContents

\* A page of reply, in a block that was nobody's.
LEMMA DecodedContents ==
  ASSUME TInv, Contents, NEW r \in Request, row[r].phase = "decode", NEW n \in Nat, n = Len(row[r].text),
         NEW text \in Seq(Page), Len(text) = n + 1, \A i \in 1 .. n : text[i] = row[r].text[i], ~ ragged(text),
         NEW c, Books(c, ownedIn(row)), From(c, cache), NEW new, Range(new) \subseteq freeBlocks(c),
         NEW blocks \in Seq(Block), Len(blocks) = n + 1, IsInjective(blocks),
         Range(blocks) = Range(row[r].blocks) \cup Range(new),
         \A i \in 1 .. n : blocks[i] = row[r].blocks[i], blocks[n + 1] \in Range(new),
         NEW rw, row'[r] = rw, \A q \in Request \ {r} : row'[q] = row[q],
         rw.phase = "decode", rw.text = text, rw.blocks = blocks, rw.from = n + 1, rw.pending = row[r].pending,
         rw.state = consumed(row[r].state, text, n, n + 1),
         cell' = written(r, text, blocks, n, n + 1),
         From(cache', publish(withRefs(c, new), text, blocks, n + 1, rw.state)), worldUnchanged
  PROVE  Contents'
<1>1. PICK m \in Nat : m = n + 1
  OBVIOUS
<1>2. /\ inEngine(r) /\ r \in running /\ row[r].blocks \in Seq(Block) /\ ownedIn(row) \in Own
      /\ Served /\ Apart /\ weights' = weights
  <2>1. Served /\ Apart /\ weights' = weights
    BY DEF Contents, worldUnchanged
  <2>2. inEngine(r) /\ r \in running
    BY DEF inEngine, running
  <2>3. row[r].blocks \in Seq(Block)
    BY RowOf
  <2> QED
    BY <2>1, <2>2, <2>3, OwnedOf
<1>3. RowServes(row[r], cell, weights) /\ row[r].from = n
  BY <1>2 DEF Served, RowServes
<1>4. \A k \in 0 .. n : at(text, k, weights) = at(row[r].text, k, weights)
  <2>1. PICK t : t = row[r].text
    OBVIOUS
  <2>2. \A i \in 1 .. n : text[i] = t[i]
    BY <2>1
  <2>3. ASSUME NEW k \in 0 .. n PROVE at(text, k, weights) = at(t, k, weights)
    BY ONLY n \in Nat, <2>2, k \in 0 .. n, AtAlike
  <2> QED
    BY <2>1, <2>3
<1>5. row[r].state = at(text, n, weights) /\ pagesRight(text, blocks, n, cell, weights)
  <2>1. n \in 0 .. n /\ \A i \in 1 .. n : i \in 0 .. n
    OBVIOUS
  <2> QED
    BY <1>3, <1>4, <2>1 DEF RowServes, pagesRight
<1>6. rw.state = at(text, m, weights)
  <2>1. n <= m
    BY <1>1
  <2>2. consumed(at(text, n, weights), text, n, m) = at(text, m, weights)
    BY <2>1, ConsumedAt
  <2> QED
    BY <1>1, <1>5, <2>2
<1>7. PICK cl, W : cl = cell' /\ W = {blocks[i] : i \in n + 1 .. m}
  OBVIOUS
<1>8. /\ \A b \in Block : b \notin W => cl[b] = cell[b]
      /\ pagesRight(text, blocks, m, cl, weights)
  <2>1. n <= m /\ m <= Len(blocks) /\ cl = written(r, text, blocks, n, m)
    BY <1>1, <1>7
  <2> QED
    BY <1>5, <1>7, <2>1, WrittenAt
<1>9. W \subseteq Range(new)
  <2>1. \A i \in n + 1 .. m : i = n + 1
    BY <1>1
  <2> QED
    BY <1>7, <2>1
<1>10. /\ \A q \in running : Range(new) \cap Range(row[q].blocks) = {}
       /\ \A e \in Range(c.entries) : Range(new) \cap Range(e.blocks) = {}
  BY FreeIsNobodys
<1>11. /\ StoreServes(c, cl, weights)
       /\ \A q \in Request \ {r} : inEngine(q) => RowServes(row[q], cl, weights)
  <2>1. /\ \A q \in running \ {r} : W \cap Range(row[q].blocks) = {}
        /\ \A e \in Range(c.entries) : W \cap Range(e.blocks) = {}
    BY <1>9, <1>10
  <2>2. StoreServes(c, cl, weights)
    BY <1>8, <2>1, StoreServesFrom
  <2>3. ASSUME NEW q \in Request \ {r}, inEngine(q) PROVE RowServes(row[q], cl, weights)
    BY <1>8, <2>1, <2>3, RowServesOn DEF running
  <2> QED
    BY <2>2, <2>3
<1>12. PICK own \in Own : \A b \in Block : own[b] = ownedIn(row)[b] + IF b \in Range(new) THEN 1 ELSE 0
  <2>1. ownedIn(row) \in [Block -> Nat]
    BY <1>2 DEF Own
  <2>2. [b \in Block |-> ownedIn(row)[b] + IF b \in Range(new) THEN 1 ELSE 0] \in Own
    BY <2>1 DEF Own
  <2> QED
    BY <2>2
<1>13. PICK d : d = withRefs(c, new)
  OBVIOUS
<1>14. Books(d, own) /\ d.entries = c.entries /\ d.held = c.held
  BY <1>2, <1>12, <1>13, WithRefsKeeps DEF withRefs
<1>15. PICK s, p : s = rw.state /\ p = publish(d, text, blocks, m, s)
  OBVIOUS
<1>16. StoreServes(d, cl, weights) /\ From(cache', p)
  BY <1>1, <1>11, <1>13, <1>14, <1>15 DEF StoreServes
<1>17. /\ StoreServes(p, cl, weights)
       /\ \A e \in Range(p.entries) : \/ \E f \in Range(d.entries) : f.blocks = e.blocks
                                      \/ Range(e.blocks) \subseteq firstOf(blocks, m)
  <2>1. m <= Len(text) /\ Len(blocks) = Len(text)
    BY <1>1
  <2>2. s = at(text, m, weights)
    BY <1>6, <1>15
  <2>3. s \in History
    BY <2>1, <2>2, AtOf
  <2>4. /\ StoreServes(publish(d, text, blocks, m, s), cl, weights)
        /\ \A e \in Range(publish(d, text, blocks, m, s).entries) :
             \/ \E f \in Range(d.entries) : f.blocks = e.blocks
             \/ Range(e.blocks) \subseteq firstOf(blocks, m)
    BY <1>8, <1>14, <1>16, <2>1, <2>2, <2>3, PublishKeeps
  <2> QED
    BY <1>15, <2>4
<1>18. StoreServes(cache', cl, weights)
  BY <1>16, <1>17, FromServes
<1>19. RowServes(rw, cl, weights)
  <2>1. row[r].pending.len \in Nat /\ row[r].pending.len <= n /\ row[r].pending.state = at(row[r].text, row[r].pending.len, weights)
    BY <1>3, RowOf DEF RowServes
  <2>2. rw.pending.len <= m /\ rw.pending.state = at(text, rw.pending.len, weights)
    BY <1>1, <1>4, <2>1
  <2> QED
    BY <1>1, <1>6, <1>8, <2>2 DEF RowServes
<1>20. Served'
  <2>1. ASSUME NEW q \in Request, row'[q].phase \in {"prefill", "decode"} PROVE RowServes(row'[q], cl, weights)
    BY <1>11, <1>19, <2>1 DEF inEngine
  <2> QED
    BY <1>2, <1>7, <1>18, <2>1 DEF Served, inEngine
<1>21. Apart'
  <2>1. openOf(rw) = {}
    BY DEF openOf
  <2>2. ASSUME NEW q \in running \ {r} PROVE openOf(row[q]) \cap Range(blocks) = {}
    <3>1. openOf(row[q]) \subseteq Range(row[q].blocks)
      BY RowOf, OpenOf DEF running
    <3>2. openOf(row[q]) \cap Range(row[r].blocks) = {}
      BY <1>2 DEF Apart
    <3> QED
      BY <1>10, <3>1, <3>2
  <2>3. ASSUME NEW q \in running \ {r}, NEW e \in Range(cache'.entries) PROVE openOf(row[q]) \cap Range(e.blocks) = {}
    <3>1. PICK f \in Range(p.entries) : f.blocks = e.blocks
      BY <1>16 DEF From
    <3>2. CASE Range(f.blocks) \subseteq firstOf(blocks, m)
      <4>1. firstOf(blocks, m) \subseteq Range(blocks)
        <5>1. m = Len(blocks)
          BY <1>1
        <5> QED
          BY <5>1, RangeOf DEF firstOf
      <4> QED
        BY <2>2, <3>1, <3>2, <4>1
    <3>3. ASSUME NEW g \in Range(c.entries), g.blocks = f.blocks PROVE openOf(row[q]) \cap Range(e.blocks) = {}
      <4>1. Apart /\ From(c, cache) /\ q \in running
        BY <1>2
      <4>2. openOf(row[q]) \cap Range(g.blocks) = {}
        BY ONLY <4>1, <3>3, ApartFrom
      <4> QED
        BY <3>1, <3>3, <4>2
    <3> QED
      BY <1>14, <1>17, <3>2, <3>3
  <2>4. /\ Apart /\ r \in Request /\ \A q \in Request \ {r} : row'[q] = row[q]
        /\ \A q \in running \ {r} : /\ openOf(row'[r]) \cap Range(row[q].blocks) = {}
                                   /\ openOf(row[q]) \cap Range(row'[r].blocks) = {}
        /\ \A e \in Range(cache'.entries) : openOf(row'[r]) \cap Range(e.blocks) = {}
        /\ \A q \in running \ {r} : \A e \in Range(cache'.entries) : openOf(row[q]) \cap Range(e.blocks) = {}
    BY <1>2, <2>1, <2>2, <2>3
  <2> QED
    BY ONLY <2>4, ApartWith
<1>22. Prefilled'
  BY PrefilledKept
<1> QED
  BY <1>20, <1>21, <1>22 DEF Contents

LEMMA DecodeContents ==
  ASSUME TInv, Contents, SavesWholePages, NEW r \in Request, Decode(r)
  PROVE  Contents'
<1> DEFINE me == row[r]
           n == Len(me.text)
           text == Append(me.text, Reply)
           state == consumed(me.state, text, n, n + 1)
           c == evictedUntil(cache, 1)
           isNew == ~hasEntry(c, text)
           new == fresh(c, 1)
           blocks == me.blocks \o new
           stored == publish(withRefs(c, new), text, blocks, n + 1, state)
           entry == IF isNew THEN n + 1 ELSE me.entry
<1>1. /\ me.phase = "decode" /\ free(c) > 0
      /\ row' = [row EXCEPT ![r].text = text, ![r].blocks = blocks, ![r].from = n + 1, ![r].state = state,
                            ![r].entry = IF isNew THEN n + 1 ELSE @]
      /\ cell' = written(r, text, blocks, n, n + 1)
      /\ cache' \in {retired(stored, SubSeq(text, 1, me.entry)), stored}
      /\ worldUnchanged
  BY DEF Decode
<1>2. row \in [Request -> RowType] /\ me.text \in Seq(Page) /\ n \in Nat
  BY RowOf DEF TInv, Rows
<1>3. PICK rw : rw = row'[r]
  OBVIOUS
<1>4. /\ \A q \in Request \ {r} : row'[q] = row[q]
      /\ rw.phase = "decode" /\ rw.text = text /\ rw.blocks = blocks /\ rw.from = n + 1
      /\ rw.state = state /\ rw.pending = me.pending
  <2>1. PICK x, bs, m, s, e : x = text /\ bs = blocks /\ m = n + 1 /\ s = state /\ e = entry
    OBVIOUS
  <2> HIDE DEF isNew
  <2>2. row' = [row EXCEPT ![r].text = x, ![r].blocks = bs, ![r].from = m, ![r].state = s, ![r].entry = e]
    BY <1>1, <1>2, <2>1
  <2> HIDE DEF text, blocks, n, state, entry
  <2>3. PICK ry : ry = [row[r] EXCEPT !.text = x, !.blocks = bs, !.from = m, !.state = s, !.entry = e]
    OBVIOUS
  <2>4. row' = [row EXCEPT ![r] = ry]
    BY <1>2, <2>2, <2>3
  <2>5. /\ ry.phase = row[r].phase /\ ry.text = x /\ ry.blocks = bs /\ ry.from = m /\ ry.state = s
        /\ ry.pending = row[r].pending
    <3>1. row[r] \in RowType
      BY <1>2
    <3> QED
      BY <2>3, <3>1 DEF RowType
  <2>6. rw = ry /\ \A q \in Request \ {r} : row'[q] = row[q]
    BY <1>2, <1>3, <2>4
  <2> QED
    BY <1>1, <2>1, <2>5, <2>6
<1>5. /\ Books(c, ownedIn(row)) /\ From(c, cache) /\ Range(new) \subseteq freeBlocks(c)
      /\ blocks \in Seq(Block) /\ Len(blocks) = n + 1 /\ IsInjective(blocks)
      /\ Range(blocks) = Range(me.blocks) \cup Range(new)
      /\ (\A i \in 1 .. n : blocks[i] = me.blocks[i]) /\ blocks[n + 1] \in Range(new)
  <2>1. Grown(r, c, new)
    BY <1>1, Decoded
  <2> HIDE DEF c, new
  <2> QED
    BY <2>1 DEF Grown
<1> HIDE DEF c, new, blocks, isNew
<1>6. /\ text \in Seq(Page) /\ Len(text) = n + 1 /\ ~ ragged(text)
      /\ \A i \in 1 .. n : text[i] = me.text[i]
  <2>1. text \in Seq(Page) /\ Len(text) = n + 1
    BY <1>2, Constants, AppendedOnce
  <2>2. Last(text) = Reply
    BY <1>2, Constants DEF Last
  <2>3. \A i \in 1 .. n : text[i] = me.text[i]
    BY <1>2, Constants
  <2> QED
    BY <2>1, <2>2, <2>3 DEF SavesWholePages, ragged
<1> HIDE DEF text, state
<1>7. From(cache', stored)
  <2>1. PICK own : own \in Own /\ Books(stored, own)
    <3>1. PICK own \in Own : \A b \in Block : own[b] = ownedIn(row)[b] + IF b \in Range(new) THEN 1 ELSE 0
      <4>1. ownedIn(row) \in [Block -> Nat]
        BY OwnedOf DEF Own
      <4>2. [b \in Block |-> ownedIn(row)[b] + IF b \in Range(new) THEN 1 ELSE 0] \in Own
        BY <4>1 DEF Own
      <4> QED
        BY <4>2
    <3>2. Books(withRefs(c, new), own)
      BY <1>5, <3>1, OwnedOf, WithRefsKeeps
    <3>3. PICK d, m : d = withRefs(c, new) /\ m = n + 1
      OBVIOUS
    <3>4. state \in History
      <4>1. m \in Nat /\ m <= Len(text)
        BY <1>2, <1>6, <3>3
      <4>2. consumed(me.state, text, n, m) \in History
        BY <1>2, <1>6, <4>1, RowOf, ConsumedOf
      <4> QED
        BY <3>3, <4>2 DEF state
    <3>5. m \in Nat /\ m <= Len(text) /\ Len(blocks) = Len(text) /\ Books(d, own)
      BY <1>2, <1>5, <1>6, <3>2, <3>3
    <3>6. Books(publish(d, text, blocks, m, state), own)
      BY <1>5, <1>6, <3>1, <3>4, <3>5, PublishKeeps
    <3> QED
      BY <3>1, <3>3, <3>6
  <2> HIDE DEF stored
  <2> QED
    BY <1>1, <2>1, DropsKeep, FromSelf
<1>8. PICK k \in Nat : k = n
  BY <1>2
<1>9. PICK x, d, f, bs, p, s : x = text /\ d = c /\ f = new /\ bs = blocks /\ s = rw.state /\ p = stored
  OBVIOUS
<1>10. /\ TInv /\ Contents /\ r \in Request /\ row[r].phase = "decode" /\ k \in Nat /\ k = Len(row[r].text)
       /\ x \in Seq(Page) /\ Len(x) = k + 1 /\ (\A i \in 1 .. k : x[i] = row[r].text[i]) /\ ~ ragged(x)
       /\ Books(d, ownedIn(row)) /\ From(d, cache) /\ Range(f) \subseteq freeBlocks(d)
       /\ bs \in Seq(Block) /\ Len(bs) = k + 1 /\ IsInjective(bs) /\ Range(bs) = Range(row[r].blocks) \cup Range(f)
       /\ (\A i \in 1 .. k : bs[i] = row[r].blocks[i]) /\ bs[k + 1] \in Range(f)
       /\ row'[r] = rw /\ (\A q \in Request \ {r} : row'[q] = row[q])
       /\ rw.phase = "decode" /\ rw.text = x /\ rw.blocks = bs /\ rw.from = k + 1 /\ rw.pending = row[r].pending
  BY <1>1, <1>3, <1>4, <1>5, <1>6, <1>8, <1>9
<1>11. /\ rw.state = consumed(row[r].state, x, k, k + 1) /\ cell' = written(r, x, bs, k, k + 1)
       /\ worldUnchanged
  BY <1>1, <1>4, <1>8, <1>9 DEF state
<1>12. From(cache', publish(withRefs(d, f), x, bs, k + 1, rw.state))
  BY <1>4, <1>7, <1>8, <1>9
<1> QED
  BY ONLY <1>10, <1>11, <1>12, DecodedContents

-----------------------------------------------------------------------------
(* Training, saving, and the life of a process *)

\* invalidate_weights leaves nothing of the weights before.
LEMMA UpdateContents == ASSUME TInv, Contents, Update PROVE Contents'
<1>1. /\ process \in Training /\ running = {} /\ cache' = cleared(cache)
      /\ process' = process /\ row' = row /\ disk' = disk /\ saving' = saving
  BY DEF Update, bootVars
<1>2. PICK d : d = cleared(cache)
  OBVIOUS
<1>3. Range(d.entries) = {} /\ Range(d.held) = {}
  <2>1. Books(cache, ownedIn(row)) /\ ownedIn(row) \in Own
    BY OwnedOf DEF TInv
  <2>2. DOMAIN cache.entries = 1 .. Len(cache.entries) /\ Range(cache.entries) = {cache.entries[i] : i \in 1 .. Len(cache.entries)}
    BY <2>1, BooksOf
  <2>3. PICK I \in SUBSET (1 .. Len(cache.entries)) : I = 1 .. Len(cache.entries)
    OBVIOUS
  <2>4. d = dropped(cache, I) /\ entriesAt(cache, I) = Range(cache.entries)
    BY <1>2, <2>2, <2>3 DEF cleared, entriesAt
  <2>5. Books(d, ownedIn(row)) /\ Range(d.entries) = Range(cache.entries) \ entriesAt(cache, I)
    BY <2>1, <2>4, DroppedKeeps
  <2> QED
    BY <2>4, <2>5 DEF Books, HeldRight
<1>4. running' = {}
  BY <1>1 DEF running, inEngine
<1>5. Served'
  <2>1. \A q \in Request : ~ (row'[q].phase \in {"prefill", "decode"})
    BY <1>1 DEF running, inEngine
  <2> QED
    BY <1>1, <1>2, <1>3, <2>1 DEF Served, StoreServes, inEngine
<1>6. Apart'
  BY <1>4 DEF Apart
<1>7. Prefilled'
  BY <1>1, TiersAssumption DEF Contents, Prefilled, ragged
<1> QED
  BY <1>5, <1>6, <1>7 DEF Contents

\* The store, the blocks and the weights are as they were, and so is all a row holds.
LEMMA StillServes ==
  ASSUME Served, Apart, cache' = cache, cell' = cell, weights' = weights,
         \A q \in Request :
           /\ row'[q].phase = row[q].phase /\ row'[q].text = row[q].text /\ row'[q].blocks = row[q].blocks
           /\ row'[q].from = row[q].from /\ row'[q].state = row[q].state /\ row'[q].pending = row[q].pending
  PROVE  Served' /\ Apart'
<1>1. Served'
  <2>1. ASSUME NEW q \in Request, row'[q].phase \in {"prefill", "decode"} PROVE RowServes(row'[q], cell, weights)
    BY <2>1 DEF Served, RowServes, inEngine
  <2> QED
    BY <2>1 DEF Served, inEngine
<1>2. Apart'
  <2>1. running' = running
    BY DEF running, inEngine
  <2>2. \A q \in running : openOf(row'[q]) = openOf(row[q]) /\ row'[q].blocks = row[q].blocks
    BY DEF running, openOf
  <2> QED
    BY <2>1, <2>2 DEF Apart, openOf
<1> QED
  BY <1>1, <1>2

\* save_boot has what a prefill of the row's whole text computes.
LEMMA SavedPrefill ==
  ASSUME TInv, Contents, NEW r \in Request, SaveBoot(r), NEW key, key = wholePages(row[r].text)
  PROVE  /\ [i \in DOMAIN key |-> cell[row[r].blocks[i]]] = kvOf(key)
         /\ row[r].state = at(key, Len(key), 0)
<1>1. r \in Saves /\ process \in Booting /\ row[r].phase = "decode"
  BY DEF SaveBoot
<1>2. row[r].text \in Seq(Page)
  BY RowOf
<1>3. key = row[r].text /\ weights = 0
  BY <1>1 DEF Contents, Prefilled, wholePages
<1>4. RowServes(row[r], cell, weights)
  BY <1>1 DEF Contents, Served, inEngine
<1>5. DOMAIN key = 1 .. Len(key) /\ row[r].from = Len(key)
  BY <1>1, <1>2, <1>3, <1>4 DEF RowServes
<1>6. \A i \in 1 .. Len(key) : cell[row[r].blocks[i]] = at(key, i, 0)
  BY <1>3, <1>4, <1>5 DEF RowServes, pagesRight
<1> QED
  BY <1>3, <1>4, <1>5, <1>6 DEF kvOf, RowServes

LEMMA SaveBootContents == ASSUME TInv, Contents, NEW r \in Request, SaveBoot(r) PROVE Contents'
<1> PICK key : key = wholePages(row[r].text)
  OBVIOUS
<1> PICK kv : kv = [i \in DOMAIN key |-> cell[row[r].blocks[i]]]
  OBVIOUS
<1>1. /\ key \in Key /\ disk' = disk
      /\ saving' = [key |-> key, left |-> moveOrder,
                    files |-> [aux |-> row[r].state, k |-> kv, v |-> kv, manifest |-> kv]]
      /\ row' = [row EXCEPT ![r].saved = TRUE]
      /\ process' = process /\ weights' = weights /\ cache' = cache /\ cell' = cell
  BY DEF SaveBoot, SaveBegin
<1>2. row \in [Request -> RowType] /\ row[r] \in RowType
  BY DEF TInv, Rows
<1>3. \A q \in Request :
        /\ row'[q].phase = row[q].phase /\ row'[q].text = row[q].text /\ row'[q].blocks = row[q].blocks
        /\ row'[q].from = row[q].from /\ row'[q].state = row[q].state /\ row'[q].pending = row[q].pending
  <2>1. row' = [row EXCEPT ![r] = [row[r] EXCEPT !.saved = TRUE]]
    BY <1>1, <1>2
  <2> QED
    BY <1>2, <2>1 DEF RowType
<1>4. kv = kvOf(key) /\ row[r].state = at(key, Len(key), 0)
  BY SavedPrefill
<1>5. \A f \in File : saving'.files[f] = prefilled(saving'.key, f)
  <2>1. PICK files, s : files = [aux |-> s, k |-> kv, v |-> kv, manifest |-> kv] /\ s = row[r].state
    OBVIOUS
  <2>2. saving'.key = key /\ saving'.files = files
    BY <1>1, <2>1
  <2>3. ASSUME NEW f \in File PROVE files[f] = prefilled(key, f)
    <3>1. f = "aux" \/ f = "k" \/ f = "v" \/ f = "manifest"
      BY DEF File
    <3>2. files["aux"] = s /\ files["k"] = kv /\ files["v"] = kv /\ files["manifest"] = kv
      BY <2>1
    <3>3. prefilled(key, "aux") = s /\ \A g \in {"k", "v", "manifest"} : prefilled(key, g) = kv
      BY <1>4, <2>1 DEF prefilled
    <3> QED
      BY <3>1, <3>2, <3>3
  <2> QED
    BY <2>2, <2>3
<1>6. Prefilled'
  <2>1. \A q \in Saves \cap Request : ~ ragged(row'[q].text)
    BY <1>3 DEF Contents, Prefilled
  <2> QED
    BY <1>1, <1>5, <2>1 DEF Contents, Prefilled, ragged
<1>7. Served' /\ Apart'
  BY <1>1, <1>3, StillServes DEF Contents
<1> QED
  BY <1>6, <1>7 DEF Contents

\* Whatever is moved or damaged, and whether a save goes on or not.
LEMMA DiskContents ==
  ASSUME TInv, Contents, engineUnchanged, process' = process, weights' = weights,
         NEW key \in Key, NEW f \in File, NEW x \in {Rotten, prefilled(key, f)}, disk' = [disk EXCEPT ![key][f] = x],
         saving' # NoSave => saving # NoSave /\ saving'.key = saving.key /\ saving'.files = saving.files
  PROVE  Contents'
<1>1. disk = [k \in Key |-> [g \in File |-> disk[k][g]]]
  BY DEF TInv, Files
<1>2. ASSUME NEW k \in Key, NEW g \in File PROVE disk'[k][g] \in {Missing, Rotten, prefilled(k, g)}
  <2>1. disk[k][g] \in {Missing, Rotten, prefilled(k, g)}
    BY DEF Contents, Prefilled
  <2>2. CASE k = key
    <3>1. disk'[k] = [disk[k] EXCEPT ![f] = x] /\ disk[k] = [h \in File |-> disk[k][h]]
      BY <1>1, <2>2
    <3>2. disk'[k][g] = IF g = f THEN x ELSE disk[k][g]
      BY <3>1
    <3> QED
      BY <2>1, <2>2, <3>2
  <2>3. CASE k # key
    <3>1. disk'[k] = disk[k]
      BY <1>1, <2>3
    <3> QED
      BY <2>1, <3>1
  <2> QED
    BY <2>2, <2>3
<1>3. row' = row /\ cache' = cache /\ cell' = cell
  BY DEF engineUnchanged
<1>4. Prefilled'
  <2>1. saving' # NoSave => \A g \in File : saving'.files[g] = prefilled(saving'.key, g)
    BY DEF Contents, Prefilled
  <2> QED
    BY <1>2, <1>3, <2>1 DEF Contents, Prefilled, ragged
<1>5. Served' /\ Apart'
  BY <1>3, StillServes DEF Contents
<1> QED
  BY <1>4, <1>5 DEF Contents

LEMMA SavingContents == ASSUME TInv, Contents, Saving PROVE Contents'
<1>1. PICK key, f, x : key = saving.key /\ f = Head(saving.left) /\ x = saving.files[f]
  OBVIOUS
<1>2. /\ saving # NoSave /\ disk' = [disk EXCEPT ![key][f] = x]
      /\ saving' = (IF Len(saving.left) = 1 THEN NoSave ELSE [saving EXCEPT !.left = Tail(@)])
      /\ process' = process /\ weights' = weights /\ engineUnchanged
  BY <1>1 DEF Saving, SaveMove
<1>3. /\ key \in Key /\ saving.left \in Lefts
      /\ saving = [key |-> saving.key, left |-> saving.left,
                   files |-> [aux |-> saving.files.aux, k |-> saving.files.k, v |-> saving.files.v,
                              manifest |-> saving.files.manifest]]
  BY <1>1, <1>2 DEF TInv, Files
<1>4. f \in File
  BY <1>1, <1>3 DEF Lefts, File
<1>5. x \in {Rotten, prefilled(key, f)}
  BY <1>1, <1>2, <1>4 DEF Contents, Prefilled
<1>6. saving' # NoSave => saving'.key = saving.key /\ saving'.files = saving.files
  <2>1. PICK left : left = Tail(saving.left)
    OBVIOUS
  <2>2. CASE Len(saving.left) # 1
    <3>1. saving' = [saving EXCEPT !.left = left]
      BY <1>2, <2>1, <2>2
    <3>2. saving'.key = saving.key /\ saving'.files = saving.files
      BY <1>3, <3>1
    <3> QED
      BY <3>2
  <2> QED
    BY <1>2, <2>2
<1> QED
  BY <1>2, <1>3, <1>4, <1>5, <1>6, DiskContents

LEMMA DamageContents == ASSUME TInv, Contents, Damage PROVE Contents'
<1>1. PICK key \in Key, f \in File : Rot(key, f)
  BY DEF Damage
<1>2. /\ process' = process /\ weights' = weights /\ engineUnchanged
      /\ disk' = [disk EXCEPT ![key][f] = Rotten] /\ saving' = saving
  BY <1>1 DEF Damage, Rot
<1>3. PICK x : x = Rotten
  OBVIOUS
<1>4. disk' = [disk EXCEPT ![key][f] = x] /\ x \in {Rotten, prefilled(key, f)}
  BY <1>2, <1>3
<1> QED
  BY <1>2, <1>4, DiskContents

\* The next process has nothing but the disk.
LEMMA NextProcessContents == ASSUME TInv, Contents, SavesWholePages, NextProcess PROVE Contents'
<1>1. /\ weights' = 0 /\ cache' = emptyStore /\ saving' = NoSave /\ disk' = disk
      /\ row' = [r \in Request |-> IF row[r].phase = "new" /\ Process[r] > process THEN row[r] ELSE goneRow(r)]
  BY DEF NextProcess, SaveLost
<1>2. ASSUME NEW r \in Request PROVE row'[r].phase \in {"new", "gone"} /\ row'[r].text = Prompt[r]
  <2>1. CASE row'[r] = row[r] /\ row[r].phase = "new"
    <3>1. row[r].text = Prompt[r]
      <4>1. row[r] = [newRow(r) EXCEPT !.phase = row[r].phase]
        BY <2>1, RowOf DEF RowRight
      <4>2. PICK p : p = row[r].phase
        OBVIOUS
      <4>3. [newRow(r) EXCEPT !.phase = p].text = Prompt[r]
        BY DEF newRow
      <4> QED
        BY <4>1, <4>2, <4>3
    <3> QED
      BY <2>1, <3>1
  <2>2. CASE row'[r] = goneRow(r)
    BY <2>2 DEF goneRow, newRow
  <2> QED
    BY <1>1, <2>1, <2>2
<1>3. running' = {} /\ \A q \in Request : ~ (row'[q].phase \in {"prefill", "decode"})
  BY <1>2 DEF running, inEngine
<1>4. Served'
  <2>1. Range(emptyStore.entries) = {} /\ Range(emptyStore.held) = {}
    BY DEF emptyStore, Range
  <2> QED
    BY <1>1, <1>3, <2>1 DEF Served, StoreServes, inEngine
<1>5. Apart'
  BY <1>3 DEF Apart
<1>6. Prefilled'
  <2>1. \A q \in Saves \cap Request : ~ ragged(row'[q].text)
    BY <1>2 DEF SavesWholePages
  <2> QED
    BY <1>1, <2>1 DEF Contents, Prefilled, ragged
<1> QED
  BY <1>4, <1>5, <1>6 DEF Contents

LEMMA StillContents == ASSUME Contents, UNCHANGED vars PROVE Contents'
<1>1. /\ process' = process /\ weights' = weights /\ row' = row /\ cache' = cache /\ cell' = cell
      /\ disk' = disk /\ saving' = saving
  BY DEF vars
<1>2. Served' /\ Apart'
  BY <1>1, StillServes DEF Contents
<1>3. Prefilled'
  BY <1>1 DEF Contents, Prefilled, ragged
<1> QED
  BY <1>2, <1>3 DEF Contents

\* Every step keeps the contents, if no prompt of whole pages boots.
LEMMA NextContents ==
  ASSUME TInv, Contents, SavesWholePages, [Next]_vars, ~ WholeBoot
  PROVE  Contents'
<1>1. CASE AdmitNot
  BY <1>1, AdmitNotContents
<1>2. CASE AdmitAdopts
  BY <1>2, AdmitAdoptsContents
<1>3. CASE AdmitBoots
  BY <1>3, AdmitBootsContents
<1>4. CASE Update
  BY <1>4, UpdateContents
<1>5. CASE Saving
  BY <1>5, SavingContents
<1>6. CASE NextProcess
  BY <1>6, NextProcessContents
<1>7. CASE Damage
  BY <1>7, DamageContents
<1>8. ASSUME NEW r \in Request, Submit(r) \/ Leave(r) \/ CancelWaiting(r) \/ SaveBoot(r)
      PROVE  Contents'
  BY <1>8, SubmitContents, LeaveContents, CancelWaitingContents, SaveBootContents
<1>9. ASSUME NEW r \in Request, Forward(r)
      PROVE  Contents'
  <2>1. CASE PrefillEnds(r)
    BY <2>1, PrefillEndsContents
  <2>2. CASE Decode(r)
    BY <2>2, DecodeContents
  <2>3. CASE DecodeFails(r)
    BY <2>3, DecodeFailsContents
  <2>4. ASSUME NEW to \in 1 .. NumBlocks, PrefillOn(r, to)
        PROVE  Contents'
    BY <2>4, PrefillOnContents
  <2> QED
    BY <1>9, <2>1, <2>2, <2>3, <2>4 DEF Forward
<1>10. CASE UNCHANGED vars
  BY <1>10, StillContents
<1> QED
  BY <1>1, <1>2, <1>3, <1>4, <1>5, <1>6, <1>7, <1>8, <1>9, <1>10 DEF Next

LEMMA InitContents == ASSUME SavesWholePages, Init PROVE Contents
<1>1. /\ row = [r \in Request |-> newRow(r)] /\ cache = emptyStore /\ weights = 0
      /\ disk = [key \in Key |-> [f \in File |-> Missing]] /\ saving = NoSave
  BY DEF Init, BootInit
<1>2. \A r \in Request : row[r].phase = "new" /\ row[r].text = Prompt[r]
  BY <1>1 DEF newRow
<1>3. running = {} /\ \A r \in Request : ~ inEngine(r)
  BY <1>2 DEF running, inEngine
<1>4. Range(cache.entries) = {} /\ Range(cache.held) = {}
  BY <1>1 DEF emptyStore, Range
<1>5. Served
  BY <1>3, <1>4 DEF Served, StoreServes
<1>6. Apart
  BY <1>3 DEF Apart
<1>7. Prefilled
  BY <1>1, <1>2 DEF Prefilled, SavesWholePages, ragged
<1> QED
  BY <1>5, <1>6, <1>7 DEF Contents

-----------------------------------------------------------------------------
(* What the contents say *)

LEMMA ContentsRows == ASSUME TInv, Contents PROVE RowExact
<1> SUFFICES ASSUME NEW r \in running PROVE rowExact(r)
  BY DEF RowExact
<1>1. r \in Request /\ RowServes(row[r], cell, weights) /\ row[r].from \in Nat
  BY RowOf DEF running, Contents, Served
<1>2. row[r].state = exact(row[r].text, row[r].from)
  BY <1>1, ExactAt DEF RowServes
<1>3. ASSUME NEW i \in 1 .. row[r].from PROVE cell[row[r].blocks[i]] = exact(row[r].text, i)
  <2>1. i \in Nat
    OBVIOUS
  <2>2. cell[row[r].blocks[i]] = at(row[r].text, i, weights)
    BY <1>1 DEF RowServes, pagesRight
  <2> QED
    BY <2>1, <2>2, ExactAt
<1> QED
  BY <1>2, <1>3 DEF rowExact

LEMMA ContentsEntries == ASSUME TInv, Contents PROVE EntryServes
<1>1. Books(cache, ownedIn(row)) /\ StoreServes(cache, cell, weights)
  BY DEF TInv, Contents, Served
<1>2. ASSUME NEW i \in DOMAIN cache.entries, NEW e, e = cache.entries[i], NEW n, n = Len(e.text)
      PROVE  /\ \A p \in 1 .. n : cell[e.blocks[p]] = exact(e.text, p)
             /\ ~e.demoted => e.state = exact(e.text, n)
             /\ \A k \in heldFor(cache, e.text) : cache.held[k].state = exact(e.text, n)
  <2>1. e \in Range(cache.entries)
    BY <1>1, <1>2, BooksOf
  <2>2. e.text \in Seq(Page)
    BY <1>1, <2>1, BooksOf
  <2>3. n \in Nat
    BY <1>2, <2>2
  <2>4. \A p \in Nat : exact(e.text, p) = at(e.text, p, weights)
    BY ExactAt
  <2>5. ASSUME NEW p \in 1 .. n PROVE cell[e.blocks[p]] = exact(e.text, p)
    <3>1. p \in Nat /\ cell[e.blocks[p]] = at(e.text, p, weights)
      BY <1>1, <1>2, <2>1 DEF StoreServes, pagesRight
    <3> QED
      BY <2>4, <3>1
  <2>6. ~ e.demoted => e.state = exact(e.text, n)
    BY <1>1, <1>2, <2>1, <2>3, <2>4 DEF StoreServes
  <2>7. ASSUME NEW k \in heldFor(cache, e.text) PROVE cache.held[k].state = exact(e.text, n)
    <3>1. k \in DOMAIN cache.held /\ cache.held[k].text = e.text
      BY DEF heldFor
    <3>2. cache.held[k] \in Range(cache.held)
      BY <1>1, <3>1, BooksOf
    <3>3. cache.held[k].state = at(e.text, n, weights)
      BY <1>1, <1>2, <3>1, <3>2 DEF StoreServes
    <3> QED
      BY <2>3, <2>4, <3>3
  <2> QED
    BY <2>5, <2>6, <2>7
<1> QED
  BY <1>2 DEF EntryServes

\* A save starts with what the boot store's specification asks of it.
LEMMA SaveBoots ==
  ASSUME TInv, Contents, KeysPrefilled, NEW r \in Request, SaveBoot(r)
  PROVE  BootNext
<1>1. PICK key, kv : key = wholePages(row[r].text) /\ kv = [i \in DOMAIN key |-> cell[row[r].blocks[i]]]
  OBVIOUS
<1>2. key \in Key /\ SaveBegin(key, kv, row[r].state)
  BY <1>1 DEF SaveBoot
<1>3. kv = kvOf(key) /\ row[r].state = at(key, Len(key), 0)
  BY <1>1, SavedPrefill
<1> QED
  BY <1>2, <1>3 DEF BootNext, KeysPrefilled

LEMMA NextBoots ==
  ASSUME TInv, Contents, KeysPrefilled, [Next]_vars
  PROVE  [BootNext]_bootVars
<1>1. CASE AdmitNot \/ AdmitAdopts \/ AdmitBoots
  BY <1>1 DEF AdmitNot, AdmitAdopts, AdmitBoots, worldUnchanged
<1>2. CASE Update
  BY <1>2 DEF Update
<1>3. CASE Saving
  BY <1>3 DEF Saving, BootNext
<1>4. CASE NextProcess
  BY <1>4 DEF NextProcess, BootNext
<1>5. CASE Damage
  BY <1>5 DEF Damage, BootNext
<1>6. ASSUME NEW r \in Request, Submit(r) \/ Leave(r) \/ CancelWaiting(r)
      PROVE  UNCHANGED bootVars
  BY <1>6 DEF Submit, Leave, CancelWaiting, worldUnchanged
<1>7. ASSUME NEW r \in Request, Forward(r)
      PROVE  UNCHANGED bootVars
  <2>1. CASE PrefillEnds(r)
    BY <2>1 DEF PrefillEnds, worldUnchanged
  <2>2. CASE Decode(r)
    BY <2>2 DEF Decode, worldUnchanged
  <2>3. CASE DecodeFails(r)
    BY <2>3 DEF DecodeFails, worldUnchanged
  <2>4. ASSUME NEW to \in 1 .. NumBlocks, PrefillOn(r, to)
        PROVE  UNCHANGED bootVars
    BY <2>4 DEF PrefillOn, worldUnchanged
  <2> QED
    BY <1>7, <2>1, <2>2, <2>3, <2>4 DEF Forward
<1>8. ASSUME NEW r \in Request, SaveBoot(r)
      PROVE  BootNext
  BY <1>8, SaveBoots
<1>9. CASE UNCHANGED vars
  BY <1>9 DEF vars, bootVars
<1> QED
  BY <1>1, <1>2, <1>3, <1>4, <1>5, <1>6, <1>7, <1>8, <1>9 DEF Next

-----------------------------------------------------------------------------

\* The tiers, the rows and the disk keep the books of TiersInv.tla, whatever is admitted,
\* evicted, demoted, promoted, booted, saved, cancelled, damaged or restarted.
THEOREM TiersInductive == Spec => []TInv
<1>1. Init => TInv
  BY InitTInv
<1>2. TInv /\ [Next]_vars => TInv'
  BY NextTInv
<1> QED
  BY <1>1, <1>2, PTL DEF Spec

\* Every variable keeps its type: no refcount, byte count or resident count is ever
\* negative, and a row in the engine has one block for each of its pages and none twice.
THEOREM TiersTypeCorrect == Spec => []TypeOK
<1>1. TInv => TypeOK
  BY TInvTypes
<1> QED
  BY <1>1, TiersInductive, PTL

\* The books of the card and of the host agree with what they hold, and every block is
\* held once by each row and each entry that has it: evict, demote, promote, replace,
\* retire, adopt and release lose no block and free none that is in use.
THEOREM TiersAccounts == Spec => []AccountsExact
<1>1. TInv => AccountsExact
  BY TInvAccounts
<1> QED
  BY <1>1, TiersInductive, PTL

\* What the rows, the store and the disk hold, as TiersInv.tla has it, for as long as
\* only whole rows are saved and no prompt of whole pages boots.
THEOREM TiersContents == ASSUME SavesWholePages PROVE Spec /\ [][~ WholeBoot]_vars => []Contents
<1>1. Init => Contents
  BY InitContents
<1>2. TInv /\ Contents /\ [Next]_vars /\ [~ WholeBoot]_vars => Contents'
  <2>1. CASE ~ WholeBoot
    BY <2>1, NextContents
  <2>2. CASE UNCHANGED vars
    BY <2>2, StillContents
  <2> QED
    BY <2>1, <2>2
<1> QED
  BY <1>1, <1>2, TiersInductive, PTL DEF Spec

\* Whatever a row adopted, promoted from the host, booted from disk, shares with an entry
\* or wrote itself, its K/V and its state are those of its own text, each page once, under
\* the weights of today: for as long as only whole rows are saved and no prompt of whole
\* pages boots (the run boot_aligned shows that one that does consumes its last page twice).
THEOREM TiersRowExact == ASSUME SavesWholePages PROVE Spec /\ [][~ WholeBoot]_vars => []RowExact
<1>1. TInv /\ Contents => RowExact
  BY ContentsRows
<1> QED
  BY <1>1, TiersInductive, TiersContents, PTL

\* What the store can still serve is right under the same conditions: the pages of every
\* entry, and its snapshot on the card or with the host, under the weights of today,
\* whatever was evicted, demoted, replaced, dropped or invalidated.
THEOREM TiersEntryServes == ASSUME SavesWholePages PROVE Spec /\ [][~ WholeBoot]_vars => []EntryServes
<1>1. TInv /\ Contents => EntryServes
  BY ContentsEntries
<1> QED
  BY <1>1, TiersInductive, TiersContents, PTL

\* The engine saves, loses and damages contexts as the specification of the boot store
\* allows: every save begins with what a prefill of its key computes, whatever the row that
\* is saved adopted, evicted for or shared.
THEOREM TiersSavesPrefills ==
  ASSUME SavesWholePages, KeysPrefilled
  PROVE  Spec /\ [][~ WholeBoot]_vars => SavesPrefills
<1>1. Init => BootInit
  BY DEF Init
<1>2. TInv /\ Contents /\ [Next]_vars => [BootNext]_bootVars
  BY NextBoots
<1> QED
  BY <1>1, <1>2, TiersInductive, TiersContents, PTL DEF Spec, SavesPrefills, BootSpec

\* So an entry of the engine that exists, and has not been damaged, is whole, wherever the
\* process that saved it died, and what boot accepts is the key's own K, V and state.
THEOREM TiersBootWhole ==
  ASSUME SavesWholePages, KeysPrefilled
  PROVE  Spec /\ [][~ WholeBoot]_vars => []BootWhole
BY TiersSavesPrefills, BootStoreWhole, PTL DEF SavesPrefills
=============================================================================
