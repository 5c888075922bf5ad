--------------------------- MODULE SequenceFacts ---------------------------
(***************************************************************************)
(* Facts about numbers, sequences and recursive functions that the proofs  *)
(* about the models share.  The induction theorems of the library have an  *)
(* operator as a parameter; these have a set or a function in its place.   *)
(***************************************************************************)
EXTENDS Kept, FiniteSets, SequencesExt, FiniteSetTheorems, SequenceTheorems,
        WellFoundedInduction, TLAPS

\* A set of numbers that is not empty has a least one.
LEMMA LeastOf ==
  ASSUME NEW T \in SUBSET Nat, T # {}
  PROVE  \E m \in T : \A n \in T : m <= n
<1>1. OpToRel(<, Nat) = {ss \in Nat \X Nat : ss[1] < ss[2]}
  BY Zenon DEF OpToRel
<1> DEFINE R == {ss \in Nat \X Nat : ss[1] < ss[2]}
<1>2. IsWellFoundedOn(R, Nat)
  BY <1>1, NatLessThanWellFounded
<1>3. PICK m \in T : \A n \in T : ~ (<<n, m>> \in R)
  <2> HIDE DEF R
  <2> QED
    BY <1>2, WFMin
<1>4. ASSUME NEW n \in T, n < m PROVE FALSE
  <2>1. <<n, m>> \in Nat \X Nat /\ <<n, m>>[1] = n /\ <<n, m>>[2] = m
    OBVIOUS
  <2>2. <<n, m>> \in R
    BY <1>4, <2>1
  <2> QED
    BY <1>3, <2>2
<1> QED
  BY <1>4

\* One that is not empty and has a bound has a greatest.
LEMMA GreatestOf ==
  ASSUME NEW T \in SUBSET Nat, T # {}, NEW bound \in Nat, \A n \in T : n <= bound
  PROVE  \E m \in T : \A n \in T : n <= m
<1> DEFINE back == {k \in Nat : k <= bound /\ bound - k \in T}
<1>1. back \in SUBSET Nat /\ back # {}
  <2>1. PICK n \in T : TRUE
    OBVIOUS
  <2>2. bound - n \in Nat /\ bound - n <= bound /\ bound - (bound - n) = n
    BY <2>1
  <2>3. bound - n \in back
    BY <2>2
  <2> QED
    BY <2>3
<1>2. PICK k \in back : \A j \in back : k <= j
  <2> HIDE DEF back
  <2> QED
    BY <1>1, LeastOf
<1>3. ASSUME NEW n \in T PROVE n <= bound - k
  <2>1. bound - n \in Nat /\ bound - n <= bound /\ bound - (bound - n) = n
    OBVIOUS
  <2>2. bound - n \in back
    BY <2>1
  <2>3. k <= bound - n
    <3> HIDE DEF back
    <3> QED
      BY <1>2, <2>2
  <2> QED
    BY <2>3
<1> QED
  BY <1>2, <1>3

\* So has one that is not empty and finite.
LEMMA GreatestOfFinite ==
  ASSUME NEW T \in SUBSET Nat, T # {}, IsFiniteSet(T)
  PROVE  \E m \in T : \A n \in T : n <= m
<1> DEFINE upFrom(m) == {n \in T : m <= n}
           U == {upFrom(m) : m \in T}
<1>1. U \subseteq FiniteSubsetsOf(Nat) /\ U # {}
  <2>1. ASSUME NEW m \in T PROVE IsFiniteSet(upFrom(m)) /\ upFrom(m) \in SUBSET Nat
    BY FS_Subset
  <2> QED
    BY <2>1 DEF FiniteSubsetsOf
<1>2. IsWellFoundedOn(StrictSubsetOrdering(Nat), FiniteSubsetsOf(Nat))
  BY FS_StrictSubsetOrderingWellFounded
<1>3. PICK x \in U : \A y \in U : ~ (<<y, x>> \in StrictSubsetOrdering(Nat))
  <2> HIDE DEF U
  <2> QED
    BY <1>1, <1>2, WFMin
<1>4. PICK m \in T : x = upFrom(m)
  BY <1>3
<1>5. ASSUME NEW n \in T, m < n PROVE FALSE
  <2>1. upFrom(n) \in U /\ upFrom(n) \in SUBSET Nat /\ x \in SUBSET Nat
    BY <1>4
  <2>2. upFrom(n) \subseteq x /\ m \in x /\ m \notin upFrom(n)
    <3>1. m \in upFrom(m) /\ m \notin upFrom(n)
      BY <1>5
    <3>2. ASSUME NEW k \in upFrom(n) PROVE k \in upFrom(m)
      BY <1>5
    <3> QED
      BY <1>4, <3>1, <3>2
  <2>3. <<upFrom(n), x>> \in StrictSubsetOrdering(Nat)
    <3> DEFINE p == <<upFrom(n), x>>
    <3>1. p \in (SUBSET Nat) \X (SUBSET Nat) /\ p[1] = upFrom(n) /\ p[2] = x
      BY <2>1
    <3>2. p[1] \subseteq p[2] /\ p[1] # p[2]
      BY <2>2, <3>1
    <3> QED
      BY <3>1, <3>2 DEF StrictSubsetOrdering
  <2> QED
    BY <1>3, <2>1, <2>3
<1> QED
  BY <1>5

\* Induction: a set of numbers with 0 in it and with every number its successor is all
\* of them.
LEMMA AllOf ==
  ASSUME NEW T \in SUBSET Nat, 0 \in T, \A n \in T : n + 1 \in T
  PROVE  T = Nat
<1>1. SUFFICES ASSUME Nat \ T # {} PROVE FALSE
  OBVIOUS
<1>2. PICK m \in Nat \ T : \A n \in Nat \ T : m <= n
  <2>1. Nat \ T \in SUBSET Nat
    OBVIOUS
  <2> QED
    BY <1>1, <2>1, LeastOf
<1>3. m # 0 /\ m - 1 \in Nat
  BY <1>2
<1>4. m - 1 \in T
  BY <1>2, <1>3
<1> QED
  BY <1>2, <1>3, <1>4

\* G takes a value of V, at each place up to N, to a value of V; and f has v0 at 0 and
\* goes on from there by G.
StepsOn(N, V, G) == \A i \in 1 .. N, v \in V : G[<<i, v>>] \in V
StepsFrom(f, N, V, v0, G) ==
  f \in [0 .. N -> V] /\ f[0] = v0 /\ \A i \in 1 .. N : f[i] = G[<<i, f[i - 1]>>]

\* Recursion: such a function exists.
LEMMA Recursion ==
  ASSUME NEW N \in Nat, NEW V, NEW v0 \in V, NEW G, StepsOn(N, V, G)
  PROVE  \E f : StepsFrom(f, N, V, v0, G)
<1> DEFINE T == {n \in Nat : n <= N => \E f : StepsFrom(f, n, V, v0, G)}
<1>1. 0 \in T
  <2>1. StepsFrom([i \in 0 .. 0 |-> v0], 0, V, v0, G)
    BY DEF StepsFrom
  <2> QED
    BY <2>1
<1>2. ASSUME NEW n \in T PROVE n + 1 \in T
  <2>1. SUFFICES ASSUME n + 1 <= N PROVE \E f : StepsFrom(f, n + 1, V, v0, G)
    OBVIOUS
  <2>2. PICK f : StepsFrom(f, n, V, v0, G)
    BY <2>1
  <2> DEFINE g == [i \in 0 .. n + 1 |-> IF i = n + 1 THEN G[<<n + 1, f[n]>>] ELSE f[i]]
  <2>3. f[n] \in V /\ n + 1 \in 1 .. N
    BY <2>1, <2>2 DEF StepsFrom
  <2>4. G[<<n + 1, f[n]>>] \in V
    BY <2>3 DEF StepsOn
  <2>5. g \in [0 .. n + 1 -> V] /\ g[0] = v0
    BY <2>2, <2>4 DEF StepsFrom
  <2>6. ASSUME NEW i \in 1 .. n + 1 PROVE g[i] = G[<<i, g[i - 1]>>]
    <3>1. i - 1 \in 0 .. n /\ g[i - 1] = f[i - 1]
      OBVIOUS
    <3>2. CASE i = n + 1
      <4>1. i - 1 = n /\ g[i] = G[<<i, f[n]>>]
        BY <3>2
      <4> HIDE DEF g
      <4> QED
        BY <3>1, <4>1
    <3>3. CASE i # n + 1
      BY <2>2, <3>1, <3>3 DEF StepsFrom
    <3> QED
      BY <3>2, <3>3
  <2>7. StepsFrom(g, n + 1, V, v0, G)
    BY <2>5, <2>6 DEF StepsFrom
  <2> QED
    BY <2>7
<1>3. T = Nat
  <2> HIDE DEF T
  <2>1. T \in SUBSET Nat
    BY DEF T
  <2> QED
    BY <1>1, <1>2, <2>1, AllOf
<1> QED
  BY <1>3

-----------------------------------------------------------------------------
(* Sequences without repetitions *)

\* Where the elements of a sequence are.
LEMMA RangeOf ==
  ASSUME NEW S, NEW s \in Seq(S)
  PROVE  /\ Range(s) = {s[i] : i \in 1 .. Len(s)} /\ Range(s) \subseteq S
         /\ IsInjective(s) <=> \A i, j \in 1 .. Len(s) : s[i] = s[j] => i = j
BY DEF Range, IsInjective

\* A sequence is one of its own elements.
LEMMA OfItsOwn ==
  ASSUME NEW S, NEW s \in Seq(S)
  PROVE  s \in Seq(Range(s))
<1>1. Len(s) \in Nat /\ s \in [1 .. Len(s) -> S] /\ Range(s) = {s[i] : i \in 1 .. Len(s)}
  BY RangeOf
<1>2. \A i \in 1 .. Len(s) : s[i] \in Range(s)
  BY <1>1
<1> DEFINE t == [i \in 1 .. Len(s) |-> s[i]]
<1>3. t \in Seq(Range(s))
  BY <1>1, <1>2, IsASeq
<1>4. s = t
  BY <1>1
<1> QED
  BY <1>3, <1>4

\* RemoveAt closes the gap.
LEMMA RemoveAtOf ==
  ASSUME NEW S, NEW s \in Seq(S), NEW k \in 1 .. Len(s)
  PROVE  /\ RemoveAt(s, k) \in Seq(S) /\ Len(RemoveAt(s, k)) = Len(s) - 1
         /\ \A i \in 1 .. Len(s) - 1 : RemoveAt(s, k)[i] = IF i < k THEN s[i] ELSE s[i + 1]
<1> DEFINE a == SubSeq(s, 1, k - 1)
           b == SubSeq(s, k + 1, Len(s))
<1>1. a \in Seq(S) /\ Len(a) = k - 1 /\ \A i \in 1 .. k - 1 : a[i] = s[i]
  OBVIOUS
<1>2. b \in Seq(S) /\ Len(b) = Len(s) - k /\ \A i \in 1 .. Len(s) - k : b[i] = s[k + i]
  OBVIOUS
<1>3. RemoveAt(s, k) = a \o b
  BY DEF RemoveAt
<1> HIDE DEF a, b
<1>4. Len(s) \in Nat /\ k \in Nat
  OBVIOUS
<1>5. a \o b \in Seq(S) /\ Len(a \o b) = Len(s) - 1
  <2>1. a \o b \in Seq(S) /\ Len(a \o b) = Len(a) + Len(b)
    BY <1>1, <1>2, ConcatProperties
  <2>2. (k - 1) + (Len(s) - k) = Len(s) - 1
    BY <1>4
  <2> QED
    BY <1>1, <1>2, <2>1, <2>2
<1>6. ASSUME NEW i \in 1 .. Len(s) - 1 PROVE (a \o b)[i] = IF i < k THEN s[i] ELSE s[i + 1]
  <2>1. CASE i < k
    <3>1. i \in 1 .. Len(a) /\ i \in 1 .. Len(a) + Len(b)
      BY <1>1, <1>2, <1>4, <2>1
    <3>2. (a \o b)[i] = a[i]
      BY <1>1, <1>2, <3>1, ConcatProperties
    <3> QED
      BY <1>1, <2>1, <3>1, <3>2
  <2>2. CASE ~(i < k)
    <3>1. i \in 1 .. Len(a) + Len(b) /\ ~(i <= Len(a)) /\ i - Len(a) = i - k + 1 /\ i - k + 1 \in 1 .. Len(s) - k
          /\ k + (i - k + 1) = i + 1
      BY <1>1, <1>2, <1>4, <2>2
    <3>2. (a \o b)[i] = b[i - Len(a)]
      BY <1>1, <1>2, <3>1, ConcatProperties
    <3> QED
      BY <1>2, <2>2, <3>1, <3>2
  <2> QED
    BY <2>1, <2>2
<1> QED
  BY <1>3, <1>5, <1>6

\* Of a sequence without repetitions it takes one element, and leaves none twice.
LEMMA RemovedOnce ==
  ASSUME NEW S, NEW s \in Seq(S), IsInjective(s), NEW k \in 1 .. Len(s)
  PROVE  IsInjective(RemoveAt(s, k)) /\ Range(RemoveAt(s, k)) = Range(s) \ {s[k]}
<1> DEFINE t == RemoveAt(s, k)
<1>1. /\ t \in Seq(S) /\ Len(t) = Len(s) - 1 /\ Len(s) \in Nat
      /\ \A i \in 1 .. Len(s) - 1 : t[i] = IF i < k THEN s[i] ELSE s[i + 1]
  BY RemoveAtOf
<1>2. \A i, j \in 1 .. Len(s) : s[i] = s[j] => i = j
  BY RangeOf
<1> HIDE DEF t
<1>3. IsInjective(t)
  <2>1. ASSUME NEW i \in 1 .. Len(t), NEW j \in 1 .. Len(t), t[i] = t[j] PROVE i = j
    BY <1>1, <1>2, <2>1
  <2> QED
    BY <1>1, <2>1, RangeOf
<1>4. Range(t) = Range(s) \ {s[k]}
  <2>1. Range(t) = {t[i] : i \in 1 .. Len(t)} /\ Range(s) = {s[i] : i \in 1 .. Len(s)}
    BY <1>1, RangeOf
  <2>2. ASSUME NEW i \in 1 .. Len(t) PROVE t[i] \in Range(s) /\ t[i] # s[k]
    BY <1>1, <1>2, <2>1
  <2>3. ASSUME NEW i \in 1 .. Len(s), s[i] # s[k] PROVE \E j \in 1 .. Len(t) : t[j] = s[i]
    <3>1. CASE i < k
      BY <1>1, <3>1
    <3>2. CASE i > k
      <4>1. i - 1 \in 1 .. Len(t) /\ t[i - 1] = s[i]
        BY <1>1, <3>2
      <4> QED
        BY <4>1
    <3> QED
      BY <2>3, <3>1, <3>2
  <2> QED
    BY <2>1, <2>2, <2>3
<1> QED
  BY <1>3, <1>4 DEF t

\* RemoveFirst is RemoveAt, somewhere.
LEMMA RemoveFirstOf ==
  ASSUME NEW S, NEW s \in Seq(S), NEW e \in Range(s)
  PROVE  \E k \in 1 .. Len(s) : s[k] = e /\ RemoveFirst(s, e) = RemoveAt(s, k)
<1> DEFINE I == {i \in 1 .. Len(s) : s[i] = e}
<1>1. I # {} /\ I \in SUBSET Nat
  BY RangeOf
<1>2. \E m \in I : \A n \in I : m <= n
  <2> HIDE DEF I
  <2> QED
    BY <1>1, LeastOf
<1>3. Min(I) \in I
  BY <1>2 DEF Min
<1>4. RemoveFirst(s, e) = RemoveAt(s, Min(I))
  BY <1>1 DEF RemoveFirst, SelectInSeq
<1> QED
  BY <1>3, <1>4

\* RemoveFirst takes one element out, and keeps the others apart.
LEMMA RemovedFirst ==
  ASSUME NEW S, NEW s \in Seq(S), IsInjective(s), NEW e \in Range(s)
  PROVE  /\ RemoveFirst(s, e) \in Seq(S) /\ IsInjective(RemoveFirst(s, e))
         /\ Range(RemoveFirst(s, e)) = Range(s) \ {e} /\ Len(RemoveFirst(s, e)) = Len(s) - 1
<1>1. PICK k \in 1 .. Len(s) : s[k] = e /\ RemoveFirst(s, e) = RemoveAt(s, k)
  BY RemoveFirstOf
<1> QED
  <2>1. RemoveAt(s, k) \in Seq(S) /\ Len(RemoveAt(s, k)) = Len(s) - 1
    BY RemoveAtOf
  <2>2. IsInjective(RemoveAt(s, k)) /\ Range(RemoveAt(s, k)) = Range(s) \ {s[k]}
    BY RemovedOnce
  <2> QED
    BY <1>1, <2>1, <2>2

\* An element that is not there yet keeps a sequence without repetitions so.
LEMMA AppendedOnce ==
  ASSUME NEW S, NEW s \in Seq(S), NEW e \in S
  PROVE  /\ Append(s, e) \in Seq(S) /\ Len(Append(s, e)) = Len(s) + 1
         /\ Range(Append(s, e)) = Range(s) \cup {e}
         /\ IsInjective(s) /\ e \notin Range(s) => IsInjective(Append(s, e))
<1> DEFINE t == Append(s, e)
<1>1. t \in Seq(S) /\ Len(t) = Len(s) + 1 /\ Len(s) \in Nat /\ \A i \in 1 .. Len(s) : t[i] = s[i]
  OBVIOUS
<1>2. t[Len(s) + 1] = e
  OBVIOUS
<1> HIDE DEF t
<1>3. Range(t) = {t[i] : i \in 1 .. Len(t)} /\ Range(s) = {s[i] : i \in 1 .. Len(s)}
  BY <1>1, RangeOf
<1>4. Range(t) = Range(s) \cup {e}
  BY <1>1, <1>2, <1>3
<1>5. ASSUME IsInjective(s), e \notin Range(s) PROVE IsInjective(t)
  <2>1. \A i, j \in 1 .. Len(s) : s[i] = s[j] => i = j
    BY <1>5, RangeOf
  <2>2. ASSUME NEW i \in 1 .. Len(t), NEW j \in 1 .. Len(t), t[i] = t[j] PROVE i = j
    BY <1>1, <1>2, <1>3, <1>5, <2>1, <2>2
  <2> QED
    BY <1>1, <2>2, RangeOf
<1> QED
  BY <1>1, <1>4, <1>5 DEF t

\* The elements of two sequences, one after the other.
LEMMA JoinedOnce ==
  ASSUME NEW S, NEW s \in Seq(S), NEW t \in Seq(S)
  PROVE  /\ s \o t \in Seq(S) /\ Len(s \o t) = Len(s) + Len(t)
         /\ Range(s \o t) = Range(s) \cup Range(t)
         /\ IsInjective(s) /\ IsInjective(t) /\ Range(s) \cap Range(t) = {} => IsInjective(s \o t)
<1> DEFINE u == s \o t
<1>1. /\ u \in Seq(S) /\ Len(u) = Len(s) + Len(t) /\ Len(s) \in Nat /\ Len(t) \in Nat
      /\ \A i \in 1 .. Len(s) + Len(t) : u[i] = IF i <= Len(s) THEN s[i] ELSE t[i - Len(s)]
  BY ConcatProperties
<1> HIDE DEF u
<1>2. /\ Range(u) = {u[i] : i \in 1 .. Len(u)} /\ Range(s) = {s[i] : i \in 1 .. Len(s)}
      /\ Range(t) = {t[i] : i \in 1 .. Len(t)}
  <2>1. Range(u) = {u[i] : i \in 1 .. Len(u)}
    <3>1. u \in Seq(S)
      BY <1>1
    <3> QED
      BY ONLY <3>1, RangeOf
  <2>2. Range(s) = {s[i] : i \in 1 .. Len(s)}
    BY RangeOf
  <2>3. Range(t) = {t[i] : i \in 1 .. Len(t)}
    BY RangeOf
  <2> QED
    BY <2>1, <2>2, <2>3
<1>3. Range(u) = Range(s) \cup Range(t)
  <2>1. ASSUME NEW i \in 1 .. Len(u) PROVE u[i] \in Range(s) \cup Range(t)
    <3>1. CASE i <= Len(s)
      BY <1>1, <1>2, <3>1
    <3>2. CASE ~(i <= Len(s))
      <4>1. i - Len(s) \in 1 .. Len(t) /\ u[i] = t[i - Len(s)]
        BY <1>1, <3>2
      <4> QED
        BY <1>2, <4>1
    <3> QED
      BY <3>1, <3>2
  <2>2. ASSUME NEW i \in 1 .. Len(s) PROVE s[i] \in Range(u)
    BY <1>1, <1>2
  <2>3. ASSUME NEW i \in 1 .. Len(t) PROVE t[i] \in Range(u)
    <3>1. Len(s) + i \in 1 .. Len(u) /\ u[Len(s) + i] = t[i]
      BY <1>1
    <3> QED
      BY <1>2, <3>1
  <2> QED
    BY <1>2, <2>1, <2>2, <2>3
<1>4. ASSUME IsInjective(s), IsInjective(t), Range(s) \cap Range(t) = {} PROVE IsInjective(u)
  <2>1. (\A i, j \in 1 .. Len(s) : s[i] = s[j] => i = j) /\ (\A i, j \in 1 .. Len(t) : t[i] = t[j] => i = j)
    BY <1>4, RangeOf
  <2>2. \A i \in 1 .. Len(s), j \in 1 .. Len(t) : s[i] # t[j]
    BY <1>2, <1>4
  <2>3. ASSUME NEW i \in 1 .. Len(u), NEW j \in 1 .. Len(u), u[i] = u[j] PROVE i = j
    <3>1. CASE i <= Len(s) /\ j <= Len(s)
      BY <1>1, <2>1, <2>3, <3>1
    <3>2. CASE ~(i <= Len(s)) /\ ~(j <= Len(s))
      <4>1. i - Len(s) \in 1 .. Len(t) /\ j - Len(s) \in 1 .. Len(t) /\ t[i - Len(s)] = t[j - Len(s)]
        BY <1>1, <2>3, <3>2
      <4>2. i - Len(s) = j - Len(s)
        BY <2>1, <4>1
      <4> QED
        BY <1>1, <4>2
    <3>3. CASE i <= Len(s) /\ ~(j <= Len(s))
      <4>1. i \in 1 .. Len(s) /\ j - Len(s) \in 1 .. Len(t) /\ s[i] = t[j - Len(s)]
        BY <1>1, <2>3, <3>3
      <4> QED
        BY <2>2, <4>1
    <3>4. CASE ~(i <= Len(s)) /\ j <= Len(s)
      <4>1. j \in 1 .. Len(s) /\ i - Len(s) \in 1 .. Len(t) /\ s[j] = t[i - Len(s)]
        BY <1>1, <2>3, <3>4
      <4> QED
        BY <2>2, <4>1
    <3> QED
      BY <3>1, <3>2, <3>3, <3>4
  <2> QED
    BY <1>1, <2>3, RangeOf
<1> QED
  BY <1>1, <1>3, <1>4 DEF u

\* A piece of a sequence without repetitions has none.
LEMMA PieceOnce ==
  ASSUME NEW S, NEW s \in Seq(S), NEW m \in Nat \ {0}, NEW n \in Nat, n <= Len(s)
  PROVE  /\ SubSeq(s, m, n) \in Seq(S)
         /\ Range(SubSeq(s, m, n)) = {s[i] : i \in m .. n}
         /\ IsInjective(s) => IsInjective(SubSeq(s, m, n))
<1> DEFINE t == SubSeq(s, m, n)
<1>1. /\ t \in Seq(S) /\ Len(s) \in Nat
      /\ Len(t) = IF m <= n THEN n - m + 1 ELSE 0
      /\ \A i \in 1 .. n - m + 1 : t[i] = s[m + i - 1]
  BY SubSeqProperties
<1> HIDE DEF t
<1>2. Range(t) = {t[i] : i \in 1 .. Len(t)} /\ Range(s) = {s[i] : i \in 1 .. Len(s)}
  BY <1>1, RangeOf
<1>3. Range(t) = {s[i] : i \in m .. n}
  <2>1. ASSUME NEW i \in 1 .. Len(t) PROVE t[i] \in {s[j] : j \in m .. n}
    <3>1. i \in 1 .. n - m + 1 /\ m + i - 1 \in m .. n
      BY <1>1
    <3> QED
      BY <1>1, <3>1
  <2>2. ASSUME NEW i \in m .. n PROVE s[i] \in Range(t)
    <3>1. i - m + 1 \in 1 .. Len(t) /\ i - m + 1 \in 1 .. n - m + 1 /\ m + (i - m + 1) - 1 = i
      BY <1>1
    <3> QED
      BY <1>1, <1>2, <3>1
  <2> QED
    BY <1>2, <2>1, <2>2
<1>4. ASSUME IsInjective(s) PROVE IsInjective(t)
  <2>1. \A i, j \in 1 .. Len(s) : s[i] = s[j] => i = j
    BY <1>4, RangeOf
  <2>2. ASSUME NEW i \in 1 .. Len(t), NEW j \in 1 .. Len(t), t[i] = t[j] PROVE i = j
    <3>1. /\ m + i - 1 \in 1 .. Len(s) /\ m + j - 1 \in 1 .. Len(s)
          /\ i \in 1 .. n - m + 1 /\ j \in 1 .. n - m + 1
      BY <1>1
    <3>2. m + i - 1 = m + j - 1
      BY <1>1, <2>1, <2>2, <3>1
    <3> QED
      BY <3>2
  <2> QED
    BY <1>1, <2>2, RangeOf
<1> QED
  BY <1>1, <1>3, <1>4 DEF t

\* Without its last element.
LEMMA FrontOf ==
  ASSUME NEW S, NEW s \in Seq(S), s # <<>>
  PROVE  /\ Front(s) \in Seq(S) /\ Last(s) \in Range(s) /\ Last(s) \in S
         /\ IsInjective(s) => IsInjective(Front(s)) /\ Range(Front(s)) = Range(s) \ {Last(s)}
<1>1. Len(s) \in Nat /\ Len(s) # 0 /\ Len(s) - 1 \in Nat /\ Len(s) \in 1 .. Len(s)
  OBVIOUS
<1>2. /\ Front(s) \in Seq(S) /\ Range(Front(s)) = {s[i] : i \in 1 .. Len(s) - 1}
      /\ IsInjective(s) => IsInjective(Front(s))
  BY <1>1, PieceOnce DEF Front
<1>3. Last(s) \in Range(s) /\ Last(s) \in S
  BY <1>1, RangeOf DEF Last
<1>4. ASSUME IsInjective(s) PROVE Range(Front(s)) = Range(s) \ {Last(s)}
  <2>1. Range(s) = {s[i] : i \in 1 .. Len(s)} /\ \A i, j \in 1 .. Len(s) : s[i] = s[j] => i = j
    BY <1>4, RangeOf
  <2> QED
    BY <1>1, <1>2, <2>1 DEF Last
<1> QED
  BY <1>2, <1>3, <1>4

\* Without its first element.
LEMMA TailOf ==
  ASSUME NEW S, NEW s \in Seq(S), s # <<>>
  PROVE  /\ Tail(s) \in Seq(S) /\ Head(s) \in Range(s) /\ Head(s) \in S
         /\ Len(Tail(s)) = Len(s) - 1 /\ \A i \in 1 .. Len(s) - 1 : Tail(s)[i] = s[i + 1]
         /\ IsInjective(s) => IsInjective(Tail(s)) /\ Range(Tail(s)) = Range(s) \ {Head(s)}
<1>1. Len(s) \in Nat /\ Len(s) # 0 /\ 1 \in 1 .. Len(s) /\ Head(s) = s[1]
  OBVIOUS
<1>2. /\ Tail(s) \in Seq(S) /\ Len(Tail(s)) = Len(s) - 1
      /\ \A i \in 1 .. Len(s) - 1 : Tail(s)[i] = s[i + 1]
  OBVIOUS
<1>3. Head(s) \in Range(s) /\ Head(s) \in S
  BY <1>1, RangeOf
<1>4. ASSUME IsInjective(s) PROVE IsInjective(Tail(s)) /\ Range(Tail(s)) = Range(s) \ {Head(s)}
  <2> DEFINE t == Tail(s)
  <2>1. Range(s) = {s[i] : i \in 1 .. Len(s)} /\ \A i, j \in 1 .. Len(s) : s[i] = s[j] => i = j
    BY <1>4, RangeOf
  <2> HIDE DEF t
  <2>2. t \in Seq(S) /\ Len(t) = Len(s) - 1 /\ \A i \in 1 .. Len(s) - 1 : t[i] = s[i + 1]
    BY <1>2 DEF t
  <2>3. Range(t) = {t[i] : i \in 1 .. Len(t)}
    BY <2>2, RangeOf
  <2>4. ASSUME NEW i \in 1 .. Len(t), NEW j \in 1 .. Len(t), t[i] = t[j] PROVE i = j
    <3>1. i + 1 \in 1 .. Len(s) /\ j + 1 \in 1 .. Len(s) /\ s[i + 1] = s[j + 1]
      BY <1>1, <2>2, <2>4
    <3>2. i + 1 = j + 1
      BY <2>1, <3>1
    <3> QED
      BY <3>2
  <2>5. ASSUME NEW i \in 1 .. Len(t) PROVE t[i] \in Range(s) /\ t[i] # s[1]
    <3>1. i + 1 \in 1 .. Len(s) /\ t[i] = s[i + 1] /\ i + 1 # 1
      BY <1>1, <2>2
    <3> QED
      BY <1>1, <2>1, <3>1
  <2>6. ASSUME NEW i \in 1 .. Len(s), s[i] # s[1] PROVE s[i] \in Range(t)
    <3>1. i - 1 \in 1 .. Len(t) /\ t[i - 1] = s[i]
      <4>1. i # 1
        BY <2>6
      <4> QED
        BY <1>1, <2>2, <4>1
    <3> QED
      BY <2>3, <3>1
  <2>7. IsInjective(t)
    BY <2>2, <2>4, RangeOf
  <2>8. Range(t) = Range(s) \ {s[1]}
    BY <2>1, <2>3, <2>5, <2>6
  <2> QED
    BY <1>1, <2>7, <2>8 DEF t
<1> QED
  BY <1>2, <1>3, <1>4

\* Two elements, one after the other.
LEMMA PairOf ==
  ASSUME NEW x, NEW y
  PROVE  <<x>> \o <<y>> = <<x, y>>
<1> DEFINE s == <<x>>
           t == <<y>>
           u == <<x, y>>
           S == {x, y}
<1>1. s \in Seq(S) /\ t \in Seq(S) /\ u \in Seq(S)
  OBVIOUS
<1>2. Len(s) = 1 /\ Len(t) = 1 /\ Len(u) = 2 /\ s[1] = x /\ t[1] = y /\ u[1] = x /\ u[2] = y
  OBVIOUS
<1> HIDE DEF s, t, u, S
<1>3. /\ s \o t \in Seq(S) /\ Len(s \o t) = 2 /\ (s \o t)[1] = s[1] /\ (s \o t)[2] = t[1]
  <2>1. /\ s \o t \in Seq(S) /\ Len(s \o t) = Len(s) + Len(t)
        /\ \A i \in 1 .. Len(s) + Len(t) : (s \o t)[i] = IF i <= Len(s) THEN s[i] ELSE t[i - Len(s)]
    BY <1>1, ConcatProperties
  <2>2. 1 \in 1 .. Len(s) + Len(t) /\ 2 \in 1 .. Len(s) + Len(t)
    BY <1>2
  <2>3. (s \o t)[1] = s[1]
    BY <1>2, <2>1, <2>2
  <2>4. (s \o t)[2] = t[1]
    BY <1>2, <2>1, <2>2
  <2> QED
    BY <1>2, <2>1, <2>3, <2>4
<1> DEFINE v == s \o t
<1>4. v \in Seq(S) /\ Len(v) = Len(u) /\ \A i \in 1 .. Len(v) : v[i] = u[i]
  BY <1>2, <1>3
<1> HIDE DEF v
<1>5. v = u
  BY <1>1, <1>4, SeqEqual
<1> QED
  BY <1>5 DEF v, s, t, u

\* What is kept of an element: it, if it is in T.
keptOrNot(s, T, i, v) == IF s[i] \in T THEN Append(v, s[i]) ELSE v

\* those keeps the elements of s that are in T, and their order.
LEMMA ThoseOf ==
  ASSUME NEW S, NEW s \in Seq(S), NEW T
  PROVE  /\ those(s, T) \in Seq(S) /\ Len(those(s, T)) <= Len(s)
         /\ Range(those(s, T)) = Range(s) \cap T
         /\ IsInjective(s) => IsInjective(those(s, T))
<1> DEFINE N == Len(s)
           G == [p \in (1 .. N) \X Seq(S) |-> keptOrNot(s, T, p[1], p[2])]
           Def(g) == g = [i \in 0 .. N |-> IF i = 0 THEN <<>>
                                           ELSE keptOrNot(s, T, i, g[i - 1])]
           kept == CHOOSE g : Def(g)
<1>1. N \in Nat /\ \A i \in 1 .. N : s[i] \in S
  OBVIOUS
<1>2. ASSUME NEW i \in 1 .. N, NEW v \in Seq(S) PROVE G[<<i, v>>] = keptOrNot(s, T, i, v) /\ keptOrNot(s, T, i, v) \in Seq(S)
  <2>1. s[i] \in S
    BY <1>1
  <2> QED
    BY <2>1 DEF keptOrNot
<1>3. PICK f : StepsFrom(f, N, Seq(S), <<>>, G)
  <2>1. <<>> \in Seq(S)
    BY EmptySeq
  <2> HIDE DEF G, N
  <2>2. StepsOn(N, Seq(S), G)
    BY <1>2 DEF StepsOn
  <2> QED
    BY <1>1, <2>1, <2>2, Recursion
<1>4. /\ f \in [0 .. N -> Seq(S)] /\ f[0] = <<>>
      /\ \A i \in 1 .. N : f[i - 1] \in Seq(S) /\ f[i] = keptOrNot(s, T, i, f[i - 1])
  <2> HIDE DEF G, N
  <2>1. f \in [0 .. N -> Seq(S)] /\ f[0] = <<>> /\ \A i \in 1 .. N : f[i] = G[<<i, f[i - 1]>>]
    BY <1>3 DEF StepsFrom
  <2>2. ASSUME NEW i \in 1 .. N PROVE f[i - 1] \in Seq(S) /\ f[i] = keptOrNot(s, T, i, f[i - 1])
    <3>1. i - 1 \in 0 .. N
      BY <1>1
    <3> QED
      BY <1>2, <2>1, <3>1
  <2> QED
    BY <2>1, <2>2
<1>5. Def(f)
  <2> HIDE DEF N
  <2> QED
    BY <1>1, <1>4
<1>6. Def(kept)
  <2> HIDE DEF Def
  <2> QED
    BY <1>5
<1>7. kept[0] = <<>> /\ \A i \in 1 .. N : kept[i] = keptOrNot(s, T, i, kept[i - 1])
  <2> HIDE DEF kept
  <2>1. kept[0] = <<>>
    BY <1>1, <1>6
  <2>2. ASSUME NEW i \in 1 .. N PROVE kept[i] = keptOrNot(s, T, i, kept[i - 1])
    BY <1>1, <1>6
  <2> QED
    BY <2>1, <2>2
<1>8. those(s, T) = kept[N]
  BY DEF those, keptOrNot
<1> HIDE DEF kept, G
<1> DEFINE Good(n) == /\ kept[n] \in Seq(S) /\ Len(kept[n]) <= n
                      /\ Range(kept[n]) = {s[j] : j \in 1 .. n} \cap T
                      /\ IsInjective(s) => IsInjective(kept[n])
           U == {n \in Nat : n <= N => Good(n)}
<1>9. 0 \in U
  <2>1. <<>> \in Seq(S) /\ Range(<<>>) = {} /\ IsInjective(<<>>) /\ Len(<<>>) <= 0
    BY DEF Range, IsInjective
  <2>2. {s[j] : j \in 1 .. 0} \cap T = {}
    OBVIOUS
  <2>3. Good(0)
    BY <1>7, <2>1, <2>2
  <2> HIDE DEF Good
  <2> QED
    BY <2>3
<1>10. ASSUME NEW n \in U PROVE n + 1 \in U
  <2>1. SUFFICES ASSUME n + 1 <= N PROVE Good(n + 1)
    OBVIOUS
  <2>2. Good(n) /\ n \in Nat /\ n + 1 \in 1 .. N /\ (n + 1) - 1 = n
    BY <1>1, <2>1
  <2>3. kept[n + 1] = keptOrNot(s, T, n + 1, kept[n])
    BY <1>7, <2>2
  <2>4. s[n + 1] \in S
    BY <1>1, <2>2
  <2>5. {s[j] : j \in 1 .. n + 1} = {s[j] : j \in 1 .. n} \cup {s[n + 1]}
    BY <2>2
  <2>6. CASE s[n + 1] \in T
    <3>1. kept[n + 1] = Append(kept[n], s[n + 1])
      BY <2>3, <2>6 DEF keptOrNot
    <3>2. /\ Append(kept[n], s[n + 1]) \in Seq(S) /\ Len(Append(kept[n], s[n + 1])) = Len(kept[n]) + 1
          /\ Range(Append(kept[n], s[n + 1])) = Range(kept[n]) \cup {s[n + 1]}
          /\ IsInjective(kept[n]) /\ s[n + 1] \notin Range(kept[n])
               => IsInjective(Append(kept[n], s[n + 1]))
      BY <2>2, <2>4, AppendedOnce
    <3>3. ASSUME IsInjective(s) PROVE s[n + 1] \notin Range(kept[n])
      <4>1. \A i, j \in 1 .. N : s[i] = s[j] => i = j
        BY <3>3, RangeOf
      <4>2. s[n + 1] \notin {s[j] : j \in 1 .. n}
        BY <1>1, <2>1, <2>2, <4>1
      <4> QED
        BY <2>2, <4>2
    <3>4. Range(kept[n + 1]) = {s[j] : j \in 1 .. n + 1} \cap T
      BY <2>2, <2>5, <2>6, <3>1, <3>2
    <3>5. Len(kept[n + 1]) <= n + 1
      BY <2>2, <3>1, <3>2
    <3> QED
      BY <2>2, <3>1, <3>2, <3>3, <3>4, <3>5
  <2>7. CASE s[n + 1] \notin T
    <3>1. kept[n + 1] = kept[n]
      BY <2>3, <2>7 DEF keptOrNot
    <3>2. Range(kept[n + 1]) = {s[j] : j \in 1 .. n + 1} \cap T
      BY <2>2, <2>5, <2>7, <3>1
    <3>3. Len(kept[n + 1]) <= n + 1
      BY <2>2, <3>1
    <3> QED
      BY <2>2, <3>1, <3>2, <3>3
  <2> QED
    BY <2>6, <2>7
<1>11. N \in U
  <2>1. U \in SUBSET Nat
    OBVIOUS
  <2> HIDE DEF U
  <2>2. U = Nat
    BY <1>9, <1>10, <2>1, AllOf
  <2> QED
    BY <1>1, <2>2
<1>12. Good(N)
  BY <1>1, <1>11
<1>13. Range(s) = {s[j] : j \in 1 .. N}
  BY RangeOf
<1> QED
  BY <1>8, <1>12, <1>13
=============================================================================
