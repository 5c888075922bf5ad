---------------------------- MODULE EngineProofs ----------------------------
(***************************************************************************)
(* What every behaviour of a dense engine without a drafter keeps, for any *)
(* requests, prompts, budgets and sizes of pool, batch and store: the      *)
(* types; that no block, slot or charge leaks or is given back twice; that *)
(* no request is lost; and that no block of a prefix entry is free.        *)
(*                                                                         *)
(* The invariant is EngineInv.  There is a lemma for each action of Engine *)
(* (the name says what happened: RowGrown, EntryPublished, ...), and       *)
(* before them the lemmas the actions share: what the recursive functions  *)
(* of the model return, how an agenda is put together, what the operations *)
(* of the pools do to counts and lists, and what of a row a call may need. *)
(*                                                                         *)
(* With a drafter two of the theorems are false of the code (finish_twice  *)
(* and the leak beside it), hence the hypothesis Drafter = "none".  What   *)
(* the pages hold is the subject of ContentsProofs.                        *)
(***************************************************************************)
EXTENDS EngineInv, SequenceFacts

-----------------------------------------------------------------------------
(* The recursive functions of the model *)

\* g has the sums of the beginnings of s.
SumsUp(g, s) ==
  /\ g[0] = 0
  /\ \A i \in 1 .. Len(s) : g[i - 1] \in Int /\ g[i] = g[i - 1] + s[i]
  /\ g[Len(s)] \in Int

\* total adds a sequence up from the left.
LEMMA TotalIs ==
  ASSUME NEW s \in Seq(Int)
  PROVE  \E g : SumsUp(g, s) /\ total(s) = g[Len(s)]
<1> DEFINE N == Len(s)
           G == [p \in (1 .. N) \X Int |-> p[2] + s[p[1]]]
           Def(g) == g = [i \in 0 .. N |-> IF i = 0 THEN 0 ELSE g[i - 1] + s[i]]
           upTo == CHOOSE g : Def(g)
<1>1. N \in Nat /\ \A i \in 1 .. N : s[i] \in Int
  OBVIOUS
<1>2. ASSUME NEW i \in 1 .. N, NEW v \in Int PROVE G[<<i, v>>] = v + s[i] /\ G[<<i, v>>] \in Int
  BY <1>1
<1>3. PICK f : StepsFrom(f, N, Int, 0, G)
  <2> HIDE DEF G, N
  <2>1. StepsOn(N, Int, G)
    BY <1>2 DEF StepsOn
  <2> QED
    BY <1>1, <2>1, Recursion, 0 \in Int
<1>4. /\ f \in [0 .. N -> Int] /\ f[0] = 0
      /\ \A i \in 1 .. N : f[i - 1] \in Int /\ f[i] = f[i - 1] + s[i]
  <2> HIDE DEF G, N
  <2>1. f \in [0 .. N -> Int] /\ f[0] = 0 /\ \A i \in 1 .. N : f[i] = G[<<i, f[i - 1]>>]
    BY <1>3 DEF StepsFrom
  <2>2. ASSUME NEW i \in 1 .. N PROVE f[i - 1] \in Int /\ f[i] = f[i - 1] + s[i]
    <3>1. i - 1 \in 0 .. N
      BY <1>1
    <3> QED
      BY <1>2, <2>1, <3>1
  <2> QED
    BY <2>1, <2>2
<1>5. Def(f)
  <2> HIDE DEF N
  <2> QED
    BY <1>1, <1>4
<1>6. Def(upTo)
  <2> HIDE DEF Def
  <2> QED
    BY <1>5
<1>7. total(s) = upTo[N]
  BY DEF total
<1> HIDE DEF upTo, G
<1>8. upTo[0] = 0 /\ \A i \in 1 .. N : upTo[i] = upTo[i - 1] + s[i]
  <2>1. upTo[0] = 0
    BY <1>1, <1>6
  <2>2. ASSUME NEW i \in 1 .. N PROVE upTo[i] = upTo[i - 1] + s[i]
    BY <1>1, <1>6
  <2> QED
    BY <2>1, <2>2
<1> DEFINE U == {n \in Nat : n <= N => upTo[n] \in Int}
<1>9. U = Nat
  <2>1. 0 \in U
    BY <1>8
  <2>2. ASSUME NEW n \in U PROVE n + 1 \in U
    <3>1. SUFFICES ASSUME n + 1 <= N PROVE upTo[n + 1] \in Int
      OBVIOUS
    <3>2. n + 1 \in 1 .. N /\ (n + 1) - 1 = n /\ upTo[n] \in Int
      BY <1>1, <3>1
    <3>3. upTo[n + 1] = upTo[n] + s[n + 1] /\ s[n + 1] \in Int
      BY <1>1, <1>8, <3>2
    <3> QED
      BY <3>2, <3>3
  <2>3. U \in SUBSET Nat
    OBVIOUS
  <2> HIDE DEF U
  <2> QED
    BY <2>1, <2>2, <2>3, AllOf
<1>10. \A n \in 0 .. N : upTo[n] \in Int
  BY <1>1, <1>9
<1>11. SumsUp(upTo, s)
  <2>1. ASSUME NEW i \in 1 .. N PROVE upTo[i - 1] \in Int
    <3>1. i - 1 \in 0 .. N
      BY <1>1
    <3> QED
      BY <1>10, <3>1
  <2>2. upTo[N] \in Int
    BY <1>1, <1>10
  <2> QED
    BY <1>8, <2>1, <2>2 DEF SumsUp
<1> QED
  BY <1>7, <1>11

\* Two sums over sequences that agree from m on keep their difference.
LEMMA SumsWhole ==
  ASSUME NEW s \in Seq(Int), NEW f, SumsUp(f, s)
  PROVE  \A i \in 0 .. Len(s) : f[i] \in Int
<1>1. SUFFICES ASSUME NEW i \in 0 .. Len(s) PROVE f[i] \in Int
  OBVIOUS
<1>2. CASE i = Len(s)
  BY <1>2 DEF SumsUp
<1>3. CASE i # Len(s)
  <2>1. Len(s) \in Nat /\ i \in Nat /\ i <= Len(s)
    OBVIOUS
  <2>2. i + 1 \in 1 .. Len(s) /\ (i + 1) - 1 = i
    BY <1>3, <2>1
  <2> QED
    BY <2>2 DEF SumsUp
<1> QED
  BY <1>2, <1>3

SameFrom(s, t, k, m) ==
  /\ k \in 0 .. Len(s) /\ m \in 0 .. Len(t) /\ Len(s) - k = Len(t) - m
  /\ \A i \in 1 .. Len(s) - k : t[m + i] = s[k + i]

KeptApart(f, g, s, t, k, m) == g[Len(t)] - g[m] = f[Len(s)] - f[k]

\* Where two sequences go on alike, their sums differ by the same amount.
LEMMA SumsRunAlong ==
  ASSUME NEW s \in Seq(Int), NEW t \in Seq(Int), NEW f, NEW g, SumsUp(f, s), SumsUp(g, t),
         NEW k, NEW m, SameFrom(s, t, k, m)
  PROVE  KeptApart(f, g, s, t, k, m)
<1>0. /\ k \in 0 .. Len(s) /\ m \in 0 .. Len(t) /\ Len(s) - k = Len(t) - m
      /\ \A i \in 1 .. Len(s) - k : t[m + i] = s[k + i]
  BY DEF SameFrom
<1> DEFINE L == Len(s) - k
           Same(n) == g[m + n] - g[m] = f[k + n] - f[k]
           U == {n \in Nat : n <= L => Same(n)}
<1>1. /\ Len(s) \in Nat /\ Len(t) \in Nat /\ L \in Nat /\ k \in Nat /\ m \in Nat
      /\ m + L = Len(t) /\ k + L = Len(s)
  BY <1>0
<1>2. (\A i \in 0 .. Len(s) : f[i] \in Int) /\ (\A i \in 0 .. Len(t) : g[i] \in Int)
  BY SumsWhole
<1>3. Same(0)
  <2>1. k + 0 = k /\ m + 0 = m /\ f[k] \in Int /\ g[m] \in Int
    BY <1>1, <1>2
  <2> QED
    BY <2>1
<1>4. ASSUME NEW n \in Nat, n + 1 <= L, Same(n) PROVE Same(n + 1)
  <2> HIDE DEF L
  <2>1. /\ n + 1 \in 1 .. L
        /\ k + (n + 1) \in 1 .. Len(s) /\ (k + (n + 1)) - 1 = k + n /\ k + n \in 0 .. Len(s)
        /\ m + (n + 1) \in 1 .. Len(t) /\ (m + (n + 1)) - 1 = m + n /\ m + n \in 0 .. Len(t)
    BY <1>1, <1>4
  <2>2. f[k + (n + 1)] = f[k + n] + s[k + (n + 1)] /\ g[m + (n + 1)] = g[m + n] + t[m + (n + 1)]
    BY <2>1 DEF SumsUp
  <2>3. t[m + (n + 1)] = s[k + (n + 1)] /\ s[k + (n + 1)] \in Int
    <3>1. s[k + (n + 1)] \in Int
      BY <2>1, ElementOfSeq
    <3> QED
      BY <1>0, <2>1, <3>1 DEF L
  <2>4. f[k + n] \in Int /\ f[k] \in Int /\ g[m + n] \in Int /\ g[m] \in Int
    BY <1>0, <1>2, <2>1
  <2>5. \A a, b, c, d, e \in Int : b - c = d - e => (b + a) - c = (d + a) - e
    OBVIOUS
  <2>6. g[m + n] - g[m] = f[k + n] - f[k]
    BY <1>4
  <2>7. (g[m + n] + s[k + (n + 1)]) - g[m] = (f[k + n] + s[k + (n + 1)]) - f[k]
    <3>1. PICK a \in Int, b \in Int, c \in Int, d \in Int, e \in Int :
            a = s[k + (n + 1)] /\ b = g[m + n] /\ c = g[m] /\ d = f[k + n] /\ e = f[k]
      BY ONLY <2>3, <2>4
    <3>2. b - c = d - e
      BY ONLY <2>6, <3>1
    <3>3. (b + a) - c = (d + a) - e
      BY ONLY <3>2, b - c = d - e
    <3> QED
      BY ONLY <3>1, <3>3
  <2> QED
    BY <2>2, <2>3, <2>7
<1> HIDE DEF Same
<1>5. U = Nat
  <2>1. 0 \in U
    BY <1>3
  <2>2. ASSUME NEW n \in U PROVE n + 1 \in U
    <3>1. SUFFICES ASSUME n + 1 <= L PROVE Same(n + 1)
      OBVIOUS
    <3>2. n \in Nat /\ n <= L
      BY <1>1, <3>1
    <3> QED
      BY <1>4, <3>1, <3>2
  <2>3. U \in SUBSET Nat
    OBVIOUS
  <2> HIDE DEF U
  <2> QED
    BY <2>1, <2>2, <2>3, AllOf
<1>6. Same(L)
  <2>1. L \in U
    <3> HIDE DEF U, L
    <3> QED
      BY <1>1, <1>5
  <2> HIDE DEF L, Same
  <2> QED
    BY <2>1
<1>7. g[m + L] - g[m] = f[k + L] - f[k]
  BY <1>6 DEF Same
<1> HIDE DEF L
<1> QED
  BY <1>1, <1>7 DEF KeptApart

\* A sum with one term changed, and with one term more or less.
LEMMA TotalChanged ==
  ASSUME NEW s \in Seq(Int), NEW t \in Seq(Int), NEW k \in 1 .. Len(s), NEW d \in Int,
         Len(t) = Len(s), t[k] = s[k] + d, \A i \in 1 .. Len(s) : i # k => t[i] = s[i]
  PROVE  total(t) = total(s) + d
<1>1. PICK f : SumsUp(f, s) /\ total(s) = f[Len(s)]
  BY TotalIs
<1>2. PICK g : SumsUp(g, t) /\ total(t) = g[Len(t)]
  BY TotalIs
<1>3. f[k] = f[k - 1] + s[k] /\ g[k] = g[k - 1] + t[k] /\ f[k - 1] \in Int /\ g[k - 1] \in Int /\ s[k] \in Int
  BY <1>1, <1>2 DEF SumsUp
<1> DEFINE a == SubSeq(s, 1, k - 1)
           b == SubSeq(t, 1, k - 1)
<1>4. a \in Seq(Int) /\ Len(a) = k - 1 /\ \A i \in 1 .. k - 1 : a[i] = s[i]
  OBVIOUS
<1>5. SumsUp(f, a) /\ SumsUp(g, a)
  <2> HIDE DEF a
  <2>1. \A i \in 1 .. k - 1 : i \in 1 .. Len(s) /\ i \in 1 .. Len(t) /\ t[i] = s[i]
    OBVIOUS
  <2> QED
    BY <1>1, <1>2, <1>3, <1>4, <2>1 DEF SumsUp
<1>6. g[k - 1] = f[k - 1]
  <2> HIDE DEF a
  <2>1. SameFrom(a, a, 0, 0)
    BY <1>4 DEF SameFrom
  <2>4. KeptApart(f, g, a, a, 0, 0)
    BY <1>4, <1>5, <2>1, SumsRunAlong
  <2>2. g[Len(a)] - g[0] = f[Len(a)] - f[0]
    BY <2>4 DEF KeptApart
  <2>3. f[0] = 0 /\ g[0] = 0
    BY <1>1, <1>2 DEF SumsUp
  <2> QED
    BY <1>3, <1>4, <2>2, <2>3
<1> HIDE DEF a, b
<1>7. g[Len(t)] - g[k] = f[Len(s)] - f[k]
  <2>1. SameFrom(s, t, k, k)
    BY DEF SameFrom
  <2>2. KeptApart(f, g, s, t, k, k)
    BY <1>1, <1>2, <2>1, SumsRunAlong
  <2> QED
    BY <2>2 DEF KeptApart
<1>8. f[Len(s)] \in Int /\ g[Len(t)] \in Int
  BY <1>1, <1>2 DEF SumsUp
<1>9. g[Len(t)] = f[Len(s)] + d
  <2>1. g[k] = f[k] + d /\ f[k] \in Int
    <3>1. PICK x \in Int, y \in Int : x = f[k - 1] /\ y = s[k]
      BY <1>3
    <3>2. f[k] = x + y /\ g[k] = x + (y + d)
      BY <1>3, <1>6, <3>1
    <3>3. x + (y + d) = (x + y) + d /\ x + y \in Int
      BY ONLY x \in Int, y \in Int, d \in Int
    <3> QED
      BY ONLY <3>2, <3>3
  <2>2. PICK x \in Int, y \in Int, z \in Int : x = f[k] /\ y = g[Len(t)] /\ z = f[Len(s)]
    BY ONLY <1>8, <2>1
  <2>3. y - (x + d) = z - x
    BY ONLY <1>7, <2>1, <2>2
  <2>4. y = z + d
    BY ONLY <2>3, d \in Int
  <2> QED
    BY ONLY <2>2, <2>4
<1> QED
  BY <1>1, <1>2, <1>9

\* An element at the end adds itself to the total.
LEMMA TotalAppended ==
  ASSUME NEW s \in Seq(Int), NEW e \in Int
  PROVE  total(Append(s, e)) = total(s) + e
<1> DEFINE t == Append(s, e)
<1>1. PICK f : SumsUp(f, s) /\ total(s) = f[Len(s)]
  BY TotalIs
<1>2. t \in Seq(Int) /\ Len(t) = Len(s) + 1 /\ t[Len(s) + 1] = e /\ \A i \in 1 .. Len(s) : t[i] = s[i]
  OBVIOUS
<1> HIDE DEF t
<1>3. PICK g : SumsUp(g, t) /\ total(t) = g[Len(t)]
  BY <1>2, TotalIs
<1>4. Len(s) \in Nat /\ Len(s) + 1 \in 1 .. Len(t) /\ (Len(s) + 1) - 1 = Len(s)
  BY <1>2
<1>5. g[Len(t)] = g[Len(s)] + e /\ g[Len(s)] \in Int /\ g[0] = 0
  BY <1>2, <1>3, <1>4 DEF SumsUp
<1>6. SumsUp(g, s)
  <2>1. \A i \in 1 .. Len(s) : i \in 1 .. Len(t)
    BY <1>2
  <2> QED
    BY <1>2, <1>3, <1>5, <2>1 DEF SumsUp
<1>7. g[Len(s)] - g[0] = f[Len(s)] - f[0]
  <2>1. SameFrom(s, s, 0, 0)
    BY DEF SameFrom
  <2>2. KeptApart(f, g, s, s, 0, 0)
    BY <1>1, <1>6, <2>1, SumsRunAlong
  <2> QED
    BY <2>2 DEF KeptApart
<1> QED
  BY <1>1, <1>3, <1>5, <1>7 DEF t, SumsUp

\* An element taken out anywhere takes itself off the total.
LEMMA TotalRemoved ==
  ASSUME NEW s \in Seq(Int), NEW k \in 1 .. Len(s)
  PROVE  total(RemoveAt(s, k)) = total(s) - s[k]
<1> DEFINE t == RemoveAt(s, k)
<1>1. PICK f : SumsUp(f, s) /\ total(s) = f[Len(s)]
  BY TotalIs
<1>2. /\ t \in Seq(Int) /\ Len(t) = Len(s) - 1
      /\ \A i \in 1 .. Len(s) - 1 : t[i] = IF i < k THEN s[i] ELSE s[i + 1]
  BY RemoveAtOf
<1> HIDE DEF t
<1>3. PICK g : SumsUp(g, t) /\ total(t) = g[Len(t)]
  BY <1>2, TotalIs
<1>4. f[k] = f[k - 1] + s[k] /\ f[k - 1] \in Int /\ s[k] \in Int /\ k \in Nat /\ k - 1 \in Nat /\ Len(s) \in Nat
  BY <1>1 DEF SumsUp
<1> DEFINE a == SubSeq(s, 1, k - 1)
<1>5. a \in Seq(Int) /\ Len(a) = k - 1 /\ \A i \in 1 .. k - 1 : a[i] = s[i]
  OBVIOUS
<1>6. g[k - 1] \in Int
  <2>1. CASE k - 1 = Len(t)
    BY <1>3, <2>1 DEF SumsUp
  <2>2. CASE k - 1 # Len(t)
    <3>1. k \in 1 .. Len(t)
      BY <1>2, <1>4, <2>2
    <3> QED
      BY <1>3, <3>1 DEF SumsUp
  <2> QED
    BY <2>1, <2>2
<1>7. SumsUp(f, a) /\ SumsUp(g, a)
  <2> HIDE DEF a
  <2>1. ASSUME NEW i \in 1 .. k - 1 PROVE i \in 1 .. Len(s) /\ i \in 1 .. Len(t) /\ t[i] = s[i]
    <3>1. i \in 1 .. Len(s) - 1 /\ i < k /\ i \in 1 .. Len(s)
      BY <1>4
    <3>2. t[i] = s[i]
      BY <1>2, <3>1
    <3> QED
      BY <1>2, <3>1, <3>2
  <2> QED
    BY <1>1, <1>3, <1>4, <1>5, <1>6, <2>1 DEF SumsUp
<1>8. g[k - 1] = f[k - 1]
  <2> HIDE DEF a
  <2>1. SameFrom(a, a, 0, 0)
    BY <1>4, <1>5 DEF SameFrom
  <2>4. KeptApart(f, g, a, a, 0, 0)
    BY <1>5, <1>7, <2>1, SumsRunAlong
  <2>2. g[Len(a)] - g[0] = f[Len(a)] - f[0]
    BY <2>4 DEF KeptApart
  <2>3. f[0] = 0 /\ g[0] = 0
    BY <1>1, <1>3 DEF SumsUp
  <2> QED
    BY <1>4, <1>5, <1>6, <2>2, <2>3
<1>9. g[Len(t)] - g[k - 1] = f[Len(s)] - f[k]
  <2>1. /\ k \in 0 .. Len(s) /\ k - 1 \in 0 .. Len(t) /\ Len(s) - k = Len(t) - (k - 1)
    BY <1>2, <1>4
  <2>2. ASSUME NEW i \in 1 .. Len(s) - k PROVE t[(k - 1) + i] = s[k + i]
    <3>1. (k - 1) + i \in 1 .. Len(s) - 1 /\ ~((k - 1) + i < k) /\ ((k - 1) + i) + 1 = k + i
      BY <1>4
    <3> QED
      BY <1>2, <3>1
  <2>3. SameFrom(s, t, k, k - 1)
    BY <2>1, <2>2 DEF SameFrom
  <2>4. KeptApart(f, g, s, t, k, k - 1)
    BY <1>1, <1>2, <1>3, <2>3, SumsRunAlong
  <2> QED
    BY <2>4 DEF KeptApart
<1>10. f[Len(s)] \in Int /\ g[Len(t)] \in Int
  BY <1>1, <1>3 DEF SumsUp
<1>11. g[Len(t)] = f[Len(s)] - s[k]
  <2>1. PICK x \in Int, y \in Int, z \in Int, w \in Int :
          x = f[k - 1] /\ y = s[k] /\ z = f[Len(s)] /\ w = g[Len(t)]
    BY ONLY <1>4, <1>10
  <2>2. w - x = z - (x + y)
    BY ONLY <1>4, <1>8, <1>9, <2>1
  <2>3. w = z - y
    BY ONLY <2>2, x \in Int, y \in Int, z \in Int, w \in Int
  <2> QED
    BY ONLY <2>1, <2>3
<1> QED
  BY <1>1, <1>3, <1>11 DEF t

-----------------------------------------------------------------------------
(* The agenda *)

\* What is first on the agenda, and what is left when it is taken off.
LEMMA TakenCall ==
  ASSUME NEW a, AgendaRight(a), a # <<>>
  PROVE  /\ Range(a) = {Head(a)} \cup Range(Tail(a))
         /\ CallType(Head(a)) /\ (Head(a).op = "forward" => ForwardType(Head(a)))
         /\ AgendaRight(Tail(a))
         /\ \A c \in Range(Tail(a)) :
              /\ Head(a).op \in Lone => c.op = "end"
              /\ c.op \in Lone => Head(a).op \in ahead(c.op)
              /\ \A r \in Req : forRow(Head(a), r) /\ forRow(c, r) => turn(Head(a).op) < turn(c.op)
<1> DEFINE S == Range(a)
           t == Tail(a)
<1>1. a \in Seq(S)
  BY DEF AgendaRight
<1> HIDE DEF S
<1>2. /\ t \in Seq(S) /\ Head(a) \in Range(a) /\ Len(t) = Len(a) - 1 /\ Len(a) \in Nat /\ Len(a) # 0
      /\ \A i \in 1 .. Len(a) - 1 : t[i] = a[i + 1]
  BY <1>1, TailOf
<1>3. Head(a) = a[1]
  BY <1>1
<1>4. Range(a) = {a[i] : i \in 1 .. Len(a)} /\ Range(t) = {t[i] : i \in 1 .. Len(t)}
  <2>1. Range(a) = {a[i] : i \in 1 .. Len(a)}
    BY <1>1, RangeOf
  <2> HIDE DEF t
  <2>2. Range(t) = {t[i] : i \in 1 .. Len(t)}
    BY <1>2, RangeOf
  <2> QED
    BY <2>1, <2>2
<1> HIDE DEF t
<1>5. ASSUME NEW i \in 1 .. Len(t) PROVE i + 1 \in 1 .. Len(a) /\ t[i] = a[i + 1] /\ 1 < i + 1 /\ 1 \in 1 .. Len(a)
  BY <1>2
<1>6. Range(a) = {Head(a)} \cup Range(t)
  <2>1. ASSUME NEW i \in 1 .. Len(a) PROVE a[i] \in {Head(a)} \cup Range(t)
    <3>1. CASE i = 1
      BY <1>3, <3>1
    <3>2. CASE i # 1
      <4>1. i - 1 \in 1 .. Len(t) /\ t[i - 1] = a[i]
        BY <1>2, <3>2
      <4> QED
        BY <1>4, <4>1
    <3> QED
      BY <3>1, <3>2
  <2>2. \A i \in 1 .. Len(t) : t[i] \in Range(a)
    BY <1>4, <1>5
  <2> QED
    BY <1>2, <1>4, <2>1, <2>2
<1>7. \A c \in Range(a) : CallType(c) /\ (c.op = "forward" => ForwardType(c))
  BY DEF AgendaRight
<1>8. InTurn(a) /\ LoneLast(a)
  BY DEF AgendaRight
<1>9. t \in Seq(Range(t))
  BY <1>2, <1>4
<1>10. InTurn(t)
  <2> SUFFICES ASSUME NEW i \in 1 .. Len(t), NEW j \in 1 .. Len(t), NEW r \in Req,
                      i < j, forRow(t[i], r), forRow(t[j], r)
               PROVE  turn(t[i].op) < turn(t[j].op)
    BY DEF InTurn
  <2>1. i + 1 < j + 1
    OBVIOUS
  <2> QED
    BY <1>5, <1>8, <2>1 DEF InTurn
<1>11. LoneLast(t)
  <2> SUFFICES ASSUME NEW i \in 1 .. Len(t), NEW j \in 1 .. Len(t), t[i].op \in Lone
               PROVE  (i < j => t[j].op = "end") /\ (j < i => t[j].op \in ahead(t[i].op))
    BY DEF LoneLast
  <2>1. (i < j => i + 1 < j + 1) /\ (j < i => j + 1 < i + 1)
    OBVIOUS
  <2> QED
    BY <1>5, <1>8, <2>1 DEF LoneLast
<1>12. AgendaRight(t)
  BY <1>6, <1>7, <1>9, <1>10, <1>11 DEF AgendaRight
<1>13. ASSUME NEW c \in Range(t)
       PROVE  /\ Head(a).op \in Lone => c.op = "end"
              /\ c.op \in Lone => Head(a).op \in ahead(c.op)
              /\ \A r \in Req : forRow(Head(a), r) /\ forRow(c, r) => turn(Head(a).op) < turn(c.op)
  <2>1. PICK i \in 1 .. Len(t) : c = t[i]
    BY <1>4
  <2>2. i + 1 \in 1 .. Len(a) /\ c = a[i + 1] /\ 1 < i + 1 /\ 1 \in 1 .. Len(a)
    BY <1>5, <2>1
  <2>3. Head(a).op \in Lone => c.op = "end"
    BY <1>3, <1>8, <2>2 DEF LoneLast
  <2>4. c.op \in Lone => Head(a).op \in ahead(c.op)
    BY <1>3, <1>8, <2>2 DEF LoneLast
  <2>5. \A r \in Req : forRow(Head(a), r) /\ forRow(c, r) => turn(Head(a).op) < turn(c.op)
    BY <1>3, <1>8, <2>2 DEF InTurn
  <2> QED
    BY <2>3, <2>4, <2>5
<1> QED
  BY <1>2, <1>6, <1>7, <1>12, <1>13 DEF t

\* Calls put before others.
Follows(s, t) ==
  \A c \in Range(s), d \in Range(t) :
    /\ c.op \in Lone => d.op = "end"
    /\ d.op \in Lone => c.op \in ahead(d.op)
    /\ \A r \in Req : forRow(c, r) /\ forRow(d, r) => turn(c.op) < turn(d.op)

\* Two right agendas make one, if what is in the second may follow the first.
LEMMA JoinedCalls ==
  ASSUME NEW s, NEW t, AgendaRight(s), AgendaRight(t), Follows(s, t)
  PROVE  AgendaRight(s \o t) /\ Range(s \o t) = Range(s) \cup Range(t)
<1> DEFINE S == Range(s) \cup Range(t)
           a == s \o t
<1>1. s \in Seq(S) /\ t \in Seq(S)
  BY DEF AgendaRight
<1>2. Range(s) = {s[i] : i \in 1 .. Len(s)} /\ Range(t) = {t[i] : i \in 1 .. Len(t)}
  <2> HIDE DEF S
  <2> QED
    BY <1>1, RangeOf
<1>3. a \in Seq(S) /\ Range(a) = Range(s) \cup Range(t)
  <2> HIDE DEF S
  <2> QED
    BY <1>1, JoinedOnce
<1>4. /\ Len(a) = Len(s) + Len(t) /\ Len(s) \in Nat /\ Len(t) \in Nat
      /\ \A i \in 1 .. Len(s) + Len(t) : a[i] = IF i <= Len(s) THEN s[i] ELSE t[i - Len(s)]
  <2> HIDE DEF S
  <2> QED
    BY <1>1, ConcatProperties
<1> HIDE DEF a
<1>5. InTurn(s) /\ InTurn(t) /\ LoneLast(s) /\ LoneLast(t)
  BY DEF AgendaRight
<1>6. ASSUME NEW i \in 1 .. Len(a)
      PROVE  \/ i \in 1 .. Len(s) /\ a[i] = s[i] /\ a[i] \in Range(s)
             \/ i > Len(s) /\ i - Len(s) \in 1 .. Len(t) /\ a[i] = t[i - Len(s)] /\ a[i] \in Range(t)
  BY <1>2, <1>4
<1>7. ASSUME NEW i \in 1 .. Len(a), NEW j \in 1 .. Len(a), i < j
      PROVE  \/ i \in 1 .. Len(s) /\ j \in 1 .. Len(s) /\ a[i] = s[i] /\ a[j] = s[j]
             \/ /\ i - Len(s) \in 1 .. Len(t) /\ j - Len(s) \in 1 .. Len(t) /\ i - Len(s) < j - Len(s)
                /\ a[i] = t[i - Len(s)] /\ a[j] = t[j - Len(s)]
             \/ a[i] \in Range(s) /\ a[j] \in Range(t)
  BY <1>4, <1>6, <1>7
<1>8. InTurn(a)
  <2> SUFFICES ASSUME NEW i \in 1 .. Len(a), NEW j \in 1 .. Len(a), NEW r \in Req,
                      i < j, forRow(a[i], r), forRow(a[j], r)
               PROVE  turn(a[i].op) < turn(a[j].op)
    BY DEF InTurn
  <2>1. CASE i \in 1 .. Len(s) /\ j \in 1 .. Len(s) /\ a[i] = s[i] /\ a[j] = s[j]
    BY <1>5, <2>1 DEF InTurn
  <2>2. CASE /\ i - Len(s) \in 1 .. Len(t) /\ j - Len(s) \in 1 .. Len(t) /\ i - Len(s) < j - Len(s)
             /\ a[i] = t[i - Len(s)] /\ a[j] = t[j - Len(s)]
    BY <1>5, <2>2 DEF InTurn
  <2>3. CASE a[i] \in Range(s) /\ a[j] \in Range(t)
    BY <2>3 DEF Follows
  <2> QED
    BY <1>7, <2>1, <2>2, <2>3
<1>9. ASSUME NEW i \in 1 .. Len(a), NEW j \in 1 .. Len(a), i < j
      PROVE  (a[i].op \in Lone => a[j].op = "end") /\ (a[j].op \in Lone => a[i].op \in ahead(a[j].op))
  <2>1. CASE i \in 1 .. Len(s) /\ j \in 1 .. Len(s) /\ a[i] = s[i] /\ a[j] = s[j]
    BY <1>5, <1>9, <2>1 DEF LoneLast
  <2>2. CASE /\ i - Len(s) \in 1 .. Len(t) /\ j - Len(s) \in 1 .. Len(t) /\ i - Len(s) < j - Len(s)
             /\ a[i] = t[i - Len(s)] /\ a[j] = t[j - Len(s)]
    BY <1>5, <2>2 DEF LoneLast
  <2>3. CASE a[i] \in Range(s) /\ a[j] \in Range(t)
    BY <2>3 DEF Follows
  <2> QED
    BY <1>7, <1>9, <2>1, <2>2, <2>3
<1>10. LoneLast(a)
  BY <1>9 DEF LoneLast
<1>11. \A c \in Range(a) : CallType(c) /\ (c.op = "forward" => ForwardType(c))
  BY <1>3 DEF AgendaRight
<1>12. a \in Seq(Range(a))
  BY <1>3
<1>13. AgendaRight(a)
  BY <1>8, <1>10, <1>11, <1>12 DEF AgendaRight
<1> QED
  BY <1>3, <1>13 DEF a

\* No call, or one, or the same call for each of some rows.
LEMMA NoCall == AgendaRight(<<>>) /\ Range(<<>>) = {}
<1>1. Range(<<>>) = {} /\ <<>> \in Seq({}) /\ Len(<<>>) = 0
  BY DEF Range
<1> QED
  BY <1>1 DEF AgendaRight, InTurn, LoneLast

\* A single call is a right agenda.
LEMMA OneCall ==
  ASSUME NEW c, CallType(c), c.op = "forward" => ForwardType(c)
  PROVE  AgendaRight(<<c>>) /\ Range(<<c>>) = {c}
<1>1. <<c>> \in Seq({c}) /\ Len(<<c>>) = 1 /\ <<c>>[1] = c
  OBVIOUS
<1>2. Range(<<c>>) = {c}
  <2>1. DOMAIN <<c>> = {1}
    BY <1>1
  <2> QED
    BY <1>1, <2>1 DEF Range
<1>3. InTurn(<<c>>) /\ LoneLast(<<c>>)
  BY <1>1 DEF InTurn, LoneLast
<1> QED
  BY <1>1, <1>2, <1>3 DEF AgendaRight

\* So is one call of the same kind for each of several rows.
LEMMA EachCall ==
  ASSUME NEW S, NEW e \in Seq(S), NEW op \in RowOps,
         \A i \in 1 .. Len(e) : CallType(e[i]) /\ e[i].op = op, Distinct(e)
  PROVE  AgendaRight(e)
<1>1. Range(e) = {e[i] : i \in 1 .. Len(e)} /\ e \in Seq(Range(e))
  BY RangeOf
<1>2. op \notin Lone /\ op # "forward"
  BY DEF RowOps, Lone
<1>3. InTurn(e)
  <2> SUFFICES ASSUME NEW i \in 1 .. Len(e), NEW j \in 1 .. Len(e), NEW r \in Req,
                      i < j, forRow(e[i], r), forRow(e[j], r)
               PROVE  FALSE
    BY DEF InTurn
  <2>1. e[i].r = e[j].r
    BY DEF forRow
  <2>2. i = j
    BY <2>1 DEF Distinct
  <2> QED
    BY <2>2
<1>4. LoneLast(e)
  BY <1>2 DEF LoneLast
<1> QED
  BY <1>1, <1>2, <1>3, <1>4 DEF AgendaRight

-----------------------------------------------------------------------------
(* The pools *)

\* The holders of a block are finitely many.
LEMMA HoldersFinite ==
  ASSUME NEW rn, Queue(rn), NEW st, StoreRight(st), NEW rw, NEW b
  PROVE  /\ IsFiniteSet(rowsWith(rn, rw, b)) /\ Cardinality(rowsWith(rn, rw, b)) \in Nat
         /\ IsFiniteSet(entriesWith(st, b)) /\ Cardinality(entriesWith(st, b)) \in Nat
         /\ Cardinality(rowsWith(rn, rw, b)) = 0 <=> rowsWith(rn, rw, b) = {}
         /\ Cardinality(entriesWith(st, b)) = 0 <=> entriesWith(st, b) = {}
<1>1. ASSUME NEW S, NEW s \in Seq(S) PROVE IsFiniteSet(Range(s))
  <2>1. Range(s) = {s[i] : i \in 1 .. Len(s)} /\ IsFiniteSet(1 .. Len(s))
    <3>1. 1 \in Int /\ Len(s) \in Int
      OBVIOUS
    <3>2. IsFiniteSet(1 .. Len(s))
      BY <3>1, FS_Interval
    <3> QED
      BY <3>2, RangeOf
  <2>2. s \in Surjection(1 .. Len(s), Range(s))
    BY <2>1 DEF Surjection
  <2> QED
    BY <2>1, <2>2, FS_Surjection
<1>2. IsFiniteSet(Range(rn)) /\ IsFiniteSet(Range(st))
  BY <1>1 DEF Queue, StoreRight
<1>3. IsFiniteSet(rowsWith(rn, rw, b)) /\ IsFiniteSet(entriesWith(st, b))
  <2>1. rowsWith(rn, rw, b) \subseteq Range(rn) /\ entriesWith(st, b) \subseteq Range(st)
    BY DEF rowsWith, entriesWith
  <2> QED
    BY <1>2, <2>1, FS_Subset
<1> QED
  BY <1>3, FS_CardinalityType, FS_EmptySet

\* A free block has no holder, and a held one is not free.
LEMMA FreeIsUnheld ==
  ASSUME NEW rn, Queue(rn), NEW st, StoreRight(st), NEW rw, NEW fr, NEW rf,
         RefsRight(rn, rw, st, rf), FreeRight(fr, rf), NEW b \in Range(fr)
  PROVE  b \in Block /\ rf[b] = 0 /\ rowsWith(rn, rw, b) = {} /\ entriesWith(st, b) = {}
<1>1. b \in Block /\ rf[b] = 0
  BY DEF FreeRight
<1>2. 0 = Cardinality(rowsWith(rn, rw, b)) + Cardinality(entriesWith(st, b))
  BY <1>1 DEF RefsRight
<1>3. Cardinality(rowsWith(rn, rw, b)) \in Nat /\ Cardinality(entriesWith(st, b)) \in Nat
  BY HoldersFinite
<1>4. Cardinality(rowsWith(rn, rw, b)) = 0 /\ Cardinality(entriesWith(st, b)) = 0
  BY <1>2, <1>3
<1> QED
  BY <1>1, <1>4, HoldersFinite

\* Rows that keep their blocks, their slots and their charge.
SameHeld(rn, rw, rx) ==
  \A r \in Range(rn) : rx[r].blocks = rw[r].blocks /\ rx[r].slot = rw[r].slot /\ rx[r].own = rw[r].own

\* The pools look at nothing of a row but its blocks, its slot and its charge.
LEMMA RowsKeepTheirs ==
  ASSUME NEW rn, NEW rw, NEW fr, NEW rf, NEW fs, NEW st, NEW used, NEW rx,
         PoolsRight(rn, rw, fr, rf, fs, st, used), SameHeld(rn, rw, rx)
  PROVE  PoolsRight(rn, rx, fr, rf, fs, st, used)
<1>0. Queue(rn) /\ rn \in Seq(Req) /\ Range(rn) = {rn[i] : i \in 1 .. Len(rn)} /\ DOMAIN rn = 1 .. Len(rn)
  BY RangeOf DEF PoolsRight, Queue
<1>1. \A b : rowsWith(rn, rx, b) = rowsWith(rn, rw, b)
  BY DEF rowsWith, SameHeld
<1>2. RefsRight(rn, rx, st, rf)
  BY <1>1 DEF PoolsRight, RefsRight
<1>3. SlotsRight(rn, rx, fs)
  <2>1. {rx[r].slot : r \in Range(rn)} = {rw[r].slot : r \in Range(rn)}
    BY DEF SameHeld
  <2>2. SlotsRight(rn, rw, fs)
    BY DEF PoolsRight
  <2> QED
    BY <2>1, <2>2 DEF SlotsRight, SameHeld
<1>4. BlocksRight(rn, rx, used)
  <2>1. BlocksRight(rn, rw, used)
    BY DEF PoolsRight
  <2>2. owned(rn, rx) = owned(rn, rw)
    <3>1. \A i \in DOMAIN rn : rx[rn[i]].own = rw[rn[i]].own
      BY <1>0 DEF SameHeld
    <3> QED
      BY <3>1 DEF owned
  <2> QED
    BY <2>1, <2>2 DEF BlocksRight, SameHeld
<1> QED
  BY <1>2, <1>3, <1>4 DEF PoolsRight

\* free_block of every block of bs, each of which has one holder more than after.
refsLess(rf, bs) == [b \in Block |-> IF b \in Range(bs) THEN rf[b] - 1 ELSE rf[b]]
freeMore(fr, rf, bs) == fr \o those(bs, {b \in Block : rf[b] = 1})

\* free_block of each block of a table: the counts go down, and those that had one holder are free.
LEMMA FreedBlocks ==
  ASSUME NEW fr, NEW rf, FreeRight(fr, rf), NEW bs \in Seq(Block), IsInjective(bs),
         \A b \in Range(bs) : rf[b] > 0
  PROVE  FreeRight(freeMore(fr, rf, bs), refsLess(rf, bs))
<1> DEFINE T == {b \in Block : rf[b] = 1}
           new == those(bs, T)
           rf2 == refsLess(rf, bs)
<1>1. /\ fr \in Seq(Block) /\ IsInjective(fr) /\ rf \in [Block -> Nat]
      /\ Range(fr) = {b \in Block : rf[b] = 0}
  BY DEF FreeRight
<1>2. new \in Seq(Block) /\ Range(new) = Range(bs) \cap T /\ IsInjective(new) /\ Range(bs) \subseteq Block
  <2> HIDE DEF T
  <2>1. new \in Seq(Block) /\ Range(new) = Range(bs) \cap T /\ (IsInjective(bs) => IsInjective(new))
    BY ThoseOf
  <2> QED
    BY <2>1, RangeOf
<1>3. Range(fr) \cap Range(new) = {}
  <2> HIDE DEF new
  <2> QED
    BY <1>1, <1>2
<1>4. fr \o new \in Seq(Block) /\ IsInjective(fr \o new) /\ Range(fr \o new) = Range(fr) \cup Range(new)
  <2> HIDE DEF new
  <2> QED
    BY <1>1, <1>2, <1>3, JoinedOnce
<1>5. rf2 \in [Block -> Nat]
  <2>1. ASSUME NEW b \in Block PROVE rf2[b] \in Nat
    <3>1. rf[b] \in Nat
      BY <1>1
    <3> QED
      BY <3>1 DEF refsLess
  <2> QED
    BY <2>1 DEF refsLess
<1>6. Range(fr) \cup Range(new) = {b \in Block : rf2[b] = 0}
  <2>1. ASSUME NEW b \in Block PROVE b \in Range(fr) \cup Range(new) <=> rf2[b] = 0
    <3>1. rf[b] \in Nat /\ rf2[b] = IF b \in Range(bs) THEN rf[b] - 1 ELSE rf[b]
      BY <1>1 DEF refsLess
    <3>2. b \in Range(fr) <=> rf[b] = 0
      BY <1>1
    <3>3. b \in Range(new) <=> b \in Range(bs) /\ rf[b] = 1
      BY <1>2
    <3> HIDE DEF new, rf2
    <3> QED
      BY <3>1, <3>2, <3>3
  <2>2. Range(fr) \subseteq Block /\ Range(new) \subseteq Block
    BY <1>1, <1>2
  <2> HIDE DEF new, rf2
  <2> QED
    BY <2>1, <2>2
<1> QED
  BY <1>4, <1>5, <1>6 DEF FreeRight, freeMore

\* Whoever holds blocks keeps them from being free.
LEMMA HeldIsCounted ==
  ASSUME NEW rn, Queue(rn), NEW st, StoreRight(st), NEW rw, NEW rf, RefsRight(rn, rw, st, rf),
         NEW b \in Block, rowsWith(rn, rw, b) # {} \/ entriesWith(st, b) # {}
  PROVE  rf[b] > 0
<1>1. rf[b] = Cardinality(rowsWith(rn, rw, b)) + Cardinality(entriesWith(st, b))
  BY DEF RefsRight
<1>2. Cardinality(rowsWith(rn, rw, b)) \in Nat /\ Cardinality(entriesWith(st, b)) \in Nat
  BY HoldersFinite
<1>3. Cardinality(rowsWith(rn, rw, b)) # 0 \/ Cardinality(entriesWith(st, b)) # 0
  BY HoldersFinite
<1> QED
  BY <1>1, <1>2, <1>3

\* The charges are numbers.
LEMMA OwnedIs ==
  ASSUME NEW rn \in Seq(Req), NEW rw, \A r \in Range(rn) : rw[r].own \in Int
  PROVE  /\ owned(rn, rw) \in Seq(Int) /\ Len(owned(rn, rw)) = Len(rn)
         /\ \A i \in 1 .. Len(rn) : owned(rn, rw)[i] = rw[rn[i]].own
<1>1. Range(rn) = {rn[i] : i \in 1 .. Len(rn)} /\ DOMAIN rn = 1 .. Len(rn) /\ Len(rn) \in Nat
  BY RangeOf
<1>2. \A i \in 1 .. Len(rn) : rw[rn[i]].own \in Int
  BY <1>1
<1> QED
  BY <1>1, <1>2 DEF owned

\* _release of a row that leaves.
LEMMA ReleasedRow ==
  ASSUME NEW rn, NEW rw, NEW fr, NEW rf, NEW fs, NEW st, NEW used,
         PoolsRight(rn, rw, fr, rf, fs, st, used), NEW r \in Range(rn),
         NEW rx, \A q \in Range(rn) \ {r} : rx[q] = rw[q]
  PROVE  PoolsRight(RemoveFirst(rn, r), rx, freeMore(fr, rf, rw[r].blocks),
                    refsLess(rf, rw[r].blocks), Append(fs, rw[r].slot), st, used - rw[r].own)
<1> DEFINE rm == RemoveFirst(rn, r)
           bs == rw[r].blocks
<1>1. /\ Queue(rn) /\ rn \in Seq(Req) /\ IsInjective(rn) /\ StoreRight(st) /\ FreeRight(fr, rf)
      /\ RefsRight(rn, rw, st, rf) /\ SlotsRight(rn, rw, fs) /\ BlocksRight(rn, rw, used)
  BY DEF PoolsRight, Queue
<1>2. PICK k \in 1 .. Len(rn) : rn[k] = r /\ rm = RemoveAt(rn, k)
  BY <1>1, RemoveFirstOf
<1>3. rm \in Seq(Req) /\ IsInjective(rm) /\ Range(rm) = Range(rn) \ {r}
  BY <1>1, RemovedFirst
<1>4. bs \in Seq(Block) /\ IsInjective(bs) /\ Range(bs) \subseteq Block /\ rw[r].own \in Int
  <2>1. bs \in Seq(Block) /\ IsInjective(bs) /\ rw[r].own \in Int
    BY <1>1 DEF BlocksRight
  <2> QED
    BY <2>1, RangeOf
<1> HIDE DEF rm
<1>5. Queue(rm)
  BY <1>3 DEF Queue
<1>6. ASSUME NEW b \in Block
      PROVE  /\ rowsWith(rm, rx, b) = rowsWith(rn, rw, b) \ {r}
             /\ r \in rowsWith(rn, rw, b) <=> b \in Range(bs)
  BY <1>3 DEF rowsWith
<1>7. ASSUME NEW b \in Range(bs) PROVE rf[b] > 0
  <2>1. b \in Block /\ rowsWith(rn, rw, b) # {}
    BY <1>4, <1>6
  <2> QED
    BY <1>1, <2>1, HeldIsCounted
<1>8. FreeRight(freeMore(fr, rf, bs), refsLess(rf, bs))
  <2> HIDE DEF bs
  <2> QED
    BY <1>1, <1>4, <1>7, FreedBlocks
<1>9. RefsRight(rm, rx, st, refsLess(rf, bs))
  <2> SUFFICES ASSUME NEW b \in Block
               PROVE  refsLess(rf, bs)[b] = Cardinality(rowsWith(rm, rx, b)) + Cardinality(entriesWith(st, b))
    BY DEF RefsRight
  <2>1. rf[b] = Cardinality(rowsWith(rn, rw, b)) + Cardinality(entriesWith(st, b))
    BY <1>1 DEF RefsRight
  <2>2. /\ IsFiniteSet(rowsWith(rn, rw, b)) /\ Cardinality(rowsWith(rn, rw, b)) \in Nat
        /\ Cardinality(entriesWith(st, b)) \in Nat
    BY <1>1, HoldersFinite
  <2>3. Cardinality(rowsWith(rm, rx, b)) = IF b \in Range(bs) THEN Cardinality(rowsWith(rn, rw, b)) - 1
                                                             ELSE Cardinality(rowsWith(rn, rw, b))
    <3>1. Cardinality(rowsWith(rn, rw, b) \ {r})
            = IF r \in rowsWith(rn, rw, b) THEN Cardinality(rowsWith(rn, rw, b)) - 1
                                            ELSE Cardinality(rowsWith(rn, rw, b))
      BY <2>2, FS_RemoveElement
    <3> QED
      BY <1>6, <3>1
  <2>4. refsLess(rf, bs)[b] = IF b \in Range(bs) THEN rf[b] - 1 ELSE rf[b]
    BY DEF refsLess
  <2> HIDE DEF bs
  <2> QED
    BY <2>1, <2>2, <2>3, <2>4
<1>10. SlotsRight(rm, rx, Append(fs, rw[r].slot))
  <2>1. /\ fs \in Seq(Slot) /\ IsInjective(fs)
        /\ Range(fs) = Slot \ {rw[q].slot : q \in Range(rn)}
        /\ \A q \in Range(rn) : rw[q].slot \in Slot
        /\ \A p, q \in Range(rn) : rw[p].slot = rw[q].slot => p = q
    BY <1>1 DEF SlotsRight
  <2>2. rw[r].slot \in Slot /\ rw[r].slot \notin Range(fs)
    BY <2>1
  <2>3. /\ Append(fs, rw[r].slot) \in Seq(Slot) /\ IsInjective(Append(fs, rw[r].slot))
        /\ Range(Append(fs, rw[r].slot)) = Range(fs) \cup {rw[r].slot}
    BY <2>1, <2>2, AppendedOnce
  <2>4. {rx[q].slot : q \in Range(rm)} = {rw[q].slot : q \in Range(rn)} \ {rw[r].slot}
    <3>1. ASSUME NEW q \in Range(rm) PROVE rx[q].slot \in {rw[p].slot : p \in Range(rn)} \ {rw[r].slot}
      <4>1. q \in Range(rn) /\ q # r /\ rx[q] = rw[q]
        BY <1>3
      <4> QED
        BY <2>1, <4>1
    <3>2. ASSUME NEW q \in Range(rn), rw[q].slot # rw[r].slot PROVE rw[q].slot \in {rx[p].slot : p \in Range(rm)}
      <4>1. q \in Range(rm) /\ rx[q] = rw[q]
        BY <1>3, <3>2
      <4> QED
        BY <4>1
    <3> QED
      BY <3>1, <3>2
  <2>5. Range(Append(fs, rw[r].slot)) = Slot \ {rx[q].slot : q \in Range(rm)}
    BY <2>1, <2>2, <2>3, <2>4
  <2>6. \A q \in Range(rm) : q \in Range(rn) /\ rx[q] = rw[q]
    BY <1>3
  <2> QED
    BY <2>1, <2>3, <2>5, <2>6 DEF SlotsRight
<1>11. BlocksRight(rm, rx, used - rw[r].own)
  <2>1. /\ \A q \in Range(rn) : rw[q].blocks \in Seq(Block) /\ IsInjective(rw[q].blocks) /\ rw[q].own \in Int
        /\ used = total(owned(rn, rw))
    BY <1>1 DEF BlocksRight
  <2>2. \A q \in Range(rm) : q \in Range(rn) /\ rx[q] = rw[q] /\ rx[q].own \in Int
    BY <1>3, <2>1
  <2>3. /\ owned(rn, rw) \in Seq(Int) /\ Len(owned(rn, rw)) = Len(rn)
        /\ \A i \in 1 .. Len(rn) : owned(rn, rw)[i] = rw[rn[i]].own
    BY <1>1, <2>1, OwnedIs
  <2>4. /\ owned(rm, rx) \in Seq(Int) /\ Len(owned(rm, rx)) = Len(rm)
        /\ \A i \in 1 .. Len(rm) : owned(rm, rx)[i] = rx[rm[i]].own
    BY <1>3, <2>2, OwnedIs
  <2>5. /\ Len(rm) = Len(rn) - 1 /\ Len(rn) \in Nat
        /\ \A i \in 1 .. Len(rn) - 1 : rm[i] = IF i < k THEN rn[i] ELSE rn[i + 1]
    <3>1. /\ Len(RemoveAt(rn, k)) = Len(rn) - 1
          /\ \A i \in 1 .. Len(rn) - 1 : RemoveAt(rn, k)[i] = IF i < k THEN rn[i] ELSE rn[i + 1]
      BY <1>1, RemoveAtOf
    <3> QED
      BY <1>1, <1>2, <3>1
  <2>6. /\ RemoveAt(owned(rn, rw), k) \in Seq(Int) /\ Len(RemoveAt(owned(rn, rw), k)) = Len(rn) - 1
        /\ \A i \in 1 .. Len(rn) - 1 :
              RemoveAt(owned(rn, rw), k)[i] = IF i < k THEN owned(rn, rw)[i] ELSE owned(rn, rw)[i + 1]
    BY <2>3, RemoveAtOf
  <2>7. ASSUME NEW i \in 1 .. Len(rn) - 1 PROVE owned(rm, rx)[i] = RemoveAt(owned(rn, rw), k)[i]
    <3>1. rm[i] \in Range(rm) /\ i \in 1 .. Len(rm)
      BY <1>3, <2>5, RangeOf
    <3>2. owned(rm, rx)[i] = rw[rm[i]].own
      BY <2>2, <2>4, <3>1
    <3>3. i \in 1 .. Len(rn) /\ i + 1 \in 1 .. Len(rn)
      BY <2>5
    <3> QED
      BY <2>3, <2>5, <2>6, <3>2, <3>3
  <2>8. owned(rm, rx) = RemoveAt(owned(rn, rw), k)
    BY <2>4, <2>5, <2>6, <2>7
  <2>9. total(RemoveAt(owned(rn, rw), k)) = total(owned(rn, rw)) - owned(rn, rw)[k]
    <3>1. k \in 1 .. Len(owned(rn, rw))
      BY <2>3
    <3> QED
      BY <2>3, <3>1, TotalRemoved
  <2>10. used - rw[r].own = total(owned(rm, rx))
    BY <1>2, <2>1, <2>3, <2>8, <2>9
  <2> QED
    BY <2>1, <2>2, <2>10 DEF BlocksRight
<1> QED
  BY <1>1, <1>5, <1>8, <1>9, <1>10, <1>11 DEF PoolsRight, rm

\* The store is a sequence of entries without repetitions.
LEMMA EntriesOnce ==
  ASSUME NEW st, StoreRight(st)
  PROVE  /\ st \in Seq(Entry) /\ IsInjective(st) /\ Range(st) = {st[i] : i \in 1 .. Len(st)}
         /\ \A e \in Range(st) : /\ e \in Entry /\ e.tokens \in Seq(Tokens) /\ e.blocks \in Seq(Block)
                                 /\ e.state \in Seq(Tokens) /\ IsInjective(e.blocks)
                                 /\ Len(e.blocks) * BlockTokens = Len(e.tokens)
<1>1. st \in Seq(Entry)
  BY DEF StoreRight
<1>2. Range(st) = {st[i] : i \in 1 .. Len(st)} /\ Range(st) \subseteq Entry
  BY <1>1, RangeOf
<1>3. IsInjective(st)
  <2>1. \A i, j \in 1 .. Len(st) : st[i] = st[j] => i = j
    BY DEF StoreRight
  <2> QED
    BY <1>1, <2>1, RangeOf
<1>4. ASSUME NEW e \in Range(st)
      PROVE  /\ e \in Entry /\ e.tokens \in Seq(Tokens) /\ e.blocks \in Seq(Block) /\ e.state \in Seq(Tokens)
             /\ IsInjective(e.blocks) /\ Len(e.blocks) * BlockTokens = Len(e.tokens)
  <2>1. e \in Entry
    BY <1>2
  <2>2. e.tokens \in Seq(Tokens) /\ e.blocks \in Seq(Block) /\ e.state \in Seq(Tokens)
    BY <2>1 DEF Entry
  <2>3. IsInjective(e.blocks) /\ Len(e.blocks) * BlockTokens = Len(e.tokens)
    BY DEF StoreRight
  <2> QED
    BY <2>1, <2>2, <2>3
<1> QED
  BY <1>1, <1>2, <1>3, <1>4

\* _drop of an entry.
LEMMA DroppedEntry ==
  ASSUME NEW rn, NEW rw, NEW fr, NEW rf, NEW fs, NEW st, NEW used,
         PoolsRight(rn, rw, fr, rf, fs, st, used), NEW k \in 1 .. Len(st)
  PROVE  PoolsRight(rn, rw, freeMore(fr, rf, st[k].blocks), refsLess(rf, st[k].blocks), fs,
                    RemoveAt(st, k), used)
<1> DEFINE sx == RemoveAt(st, k)
           bs == st[k].blocks
<1>1. /\ Queue(rn) /\ StoreRight(st) /\ FreeRight(fr, rf)
      /\ RefsRight(rn, rw, st, rf) /\ SlotsRight(rn, rw, fs) /\ BlocksRight(rn, rw, used)
  BY DEF PoolsRight
<1>2. /\ st \in Seq(Entry) /\ IsInjective(st) /\ Range(st) = {st[i] : i \in 1 .. Len(st)}
      /\ st[k] \in Range(st) /\ bs \in Seq(Block) /\ IsInjective(bs)
  BY <1>1, EntriesOnce
<1>3. Range(bs) \subseteq Block
  BY <1>2, RangeOf
<1>4. /\ sx \in Seq(Entry) /\ Len(sx) = Len(st) - 1 /\ Len(st) \in Nat
      /\ \A i \in 1 .. Len(st) - 1 : sx[i] = IF i < k THEN st[i] ELSE st[i + 1]
  BY <1>2, RemoveAtOf
<1>5. Range(sx) = Range(st) \ {st[k]}
  BY <1>2, RemovedOnce
<1> HIDE DEF sx
<1>6. StoreRight(sx)
  <2>1. ASSUME NEW i \in 1 .. Len(sx), NEW j \in 1 .. Len(sx), sx[i].tokens = sx[j].tokens PROVE i = j
    <3>1. \A m, n \in 1 .. Len(st) : st[m].tokens = st[n].tokens => m = n
      BY <1>1 DEF StoreRight
    <3>2. i \in 1 .. Len(st) /\ j \in 1 .. Len(st) /\ i + 1 \in 1 .. Len(st) /\ j + 1 \in 1 .. Len(st)
      BY <1>4
    <3>3. sx[i] = (IF i < k THEN st[i] ELSE st[i + 1]) /\ sx[j] = (IF j < k THEN st[j] ELSE st[j + 1])
      BY <1>4
    <3> QED
      BY <2>1, <3>1, <3>2, <3>3
  <2>2. \A e \in Range(sx) : Len(e.blocks) * BlockTokens = Len(e.tokens) /\ IsInjective(e.blocks)
    BY <1>1, <1>5 DEF StoreRight
  <2> QED
    BY <1>4, <2>1, <2>2 DEF StoreRight
<1>7. ASSUME NEW b \in Block
      PROVE  /\ entriesWith(sx, b) = entriesWith(st, b) \ {st[k]}
             /\ st[k] \in entriesWith(st, b) <=> b \in Range(bs)
  BY <1>2, <1>5 DEF entriesWith
<1>8. ASSUME NEW b \in Range(bs) PROVE rf[b] > 0
  <2>1. b \in Block /\ entriesWith(st, b) # {}
    BY <1>3, <1>7
  <2> QED
    BY <1>1, <2>1, HeldIsCounted
<1>9. FreeRight(freeMore(fr, rf, bs), refsLess(rf, bs))
  <2> HIDE DEF bs
  <2> QED
    BY <1>1, <1>2, <1>8, FreedBlocks
<1>10. RefsRight(rn, rw, sx, refsLess(rf, bs))
  <2> SUFFICES ASSUME NEW b \in Block
               PROVE  refsLess(rf, bs)[b] = Cardinality(rowsWith(rn, rw, b)) + Cardinality(entriesWith(sx, b))
    BY DEF RefsRight
  <2>1. rf[b] = Cardinality(rowsWith(rn, rw, b)) + Cardinality(entriesWith(st, b))
    BY <1>1 DEF RefsRight
  <2>2. /\ IsFiniteSet(entriesWith(st, b)) /\ Cardinality(rowsWith(rn, rw, b)) \in Nat
        /\ Cardinality(entriesWith(st, b)) \in Nat
    BY <1>1, HoldersFinite
  <2>3. Cardinality(entriesWith(sx, b)) = IF b \in Range(bs) THEN Cardinality(entriesWith(st, b)) - 1
                                                             ELSE Cardinality(entriesWith(st, b))
    <3>1. Cardinality(entriesWith(st, b) \ {st[k]})
            = IF st[k] \in entriesWith(st, b) THEN Cardinality(entriesWith(st, b)) - 1
                                              ELSE Cardinality(entriesWith(st, b))
      BY <2>2, FS_RemoveElement
    <3> HIDE DEF bs
    <3> QED
      BY <1>7, <3>1
  <2>4. refsLess(rf, bs)[b] = IF b \in Range(bs) THEN rf[b] - 1 ELSE rf[b]
    BY DEF refsLess
  <2> HIDE DEF bs
  <2> QED
    BY <2>1, <2>2, <2>3, <2>4
<1> QED
  BY <1>1, <1>6, <1>9, <1>10 DEF PoolsRight, sx

\* The store in another order.
LEMMA ReorderedStore ==
  ASSUME NEW rn, NEW rw, NEW fr, NEW rf, NEW fs, NEW st, NEW used, NEW sx,
         PoolsRight(rn, rw, fr, rf, fs, st, used), StoreRight(sx), Range(sx) = Range(st)
  PROVE  PoolsRight(rn, rw, fr, rf, fs, sx, used)
<1>1. \A b : entriesWith(sx, b) = entriesWith(st, b)
  BY DEF entriesWith
<1> QED
  BY <1>1 DEF PoolsRight, RefsRight

\* insert: an entry over the first blocks of a row.
refsMore(rf, new, shared) ==
  [b \in Block |-> IF b \in Range(new) THEN 1 ELSE IF b \in Range(shared) THEN rf[b] + 1 ELSE rf[b]]

\* PrefixStore.insert retains the first blocks of the row that publishes.
LEMMA InsertedEntry ==
  ASSUME NEW rn, NEW rw, NEW fr, NEW rf, NEW fs, NEW st, NEW used,
         PoolsRight(rn, rw, fr, rf, fs, st, used), NEW r \in Range(rn), NEW m \in Nat, m <= Len(rw[r].blocks),
         NEW e \in Entry, e.blocks = SubSeq(rw[r].blocks, 1, m), Len(e.tokens) = m * BlockTokens,
         \A i \in 1 .. Len(st) : st[i].tokens # e.tokens
  PROVE  PoolsRight(rn, rw, fr, refsMore(rf, <<>>, e.blocks), fs, Append(st, e), used)
<1> DEFINE sx == Append(st, e)
           rf2 == refsMore(rf, <<>>, e.blocks)
<1>1. /\ Queue(rn) /\ StoreRight(st) /\ FreeRight(fr, rf)
      /\ RefsRight(rn, rw, st, rf) /\ SlotsRight(rn, rw, fs) /\ BlocksRight(rn, rw, used)
  BY DEF PoolsRight
<1>2. st \in Seq(Entry) /\ Range(st) = {st[i] : i \in 1 .. Len(st)}
  BY <1>1, EntriesOnce
<1>3. rw[r].blocks \in Seq(Block) /\ IsInjective(rw[r].blocks)
  BY <1>1 DEF BlocksRight
<1>4. /\ e.blocks \in Seq(Block) /\ IsInjective(e.blocks) /\ Len(e.blocks) = m
      /\ Range(e.blocks) \subseteq Range(rw[r].blocks) /\ Range(rw[r].blocks) \subseteq Block
  <2>1. /\ SubSeq(rw[r].blocks, 1, m) \in Seq(Block) /\ IsInjective(SubSeq(rw[r].blocks, 1, m))
        /\ Range(SubSeq(rw[r].blocks, 1, m)) = {rw[r].blocks[i] : i \in 1 .. m}
    <3> DEFINE bs == rw[r].blocks
    <3>1. 1 \in Nat \ {0} /\ bs \in Seq(Block) /\ IsInjective(bs) /\ m <= Len(bs)
      BY <1>3
    <3> HIDE DEF bs
    <3>2. /\ SubSeq(bs, 1, m) \in Seq(Block) /\ (IsInjective(bs) => IsInjective(SubSeq(bs, 1, m)))
          /\ Range(SubSeq(bs, 1, m)) = {bs[i] : i \in 1 .. m}
      BY <3>1, PieceOnce
    <3> QED
      BY <3>1, <3>2 DEF bs
  <2>2. Len(SubSeq(rw[r].blocks, 1, m)) = m
    BY <1>3
  <2>3. Range(rw[r].blocks) = {rw[r].blocks[i] : i \in 1 .. Len(rw[r].blocks)} /\ Range(rw[r].blocks) \subseteq Block
    BY <1>3, RangeOf
  <2>4. \A i \in 1 .. m : i \in 1 .. Len(rw[r].blocks)
    BY <1>3
  <2> QED
    BY <2>1, <2>2, <2>3, <2>4
<1>5. /\ sx \in Seq(Entry) /\ Len(sx) = Len(st) + 1 /\ Range(sx) = Range(st) \cup {e}
      /\ sx[Len(st) + 1] = e /\ \A i \in 1 .. Len(st) : sx[i] = st[i]
  <2>1. sx \in Seq(Entry) /\ Len(sx) = Len(st) + 1 /\ Range(sx) = Range(st) \cup {e}
    BY <1>2, AppendedOnce
  <2> QED
    BY <1>2, <2>1
<1>6. e \notin Range(st)
  BY <1>2
<1> HIDE DEF sx
<1>7. StoreRight(sx)
  <2>1. ASSUME NEW i \in 1 .. Len(sx), NEW j \in 1 .. Len(sx), sx[i].tokens = sx[j].tokens PROVE i = j
    <3>1. \A p, q \in 1 .. Len(st) : st[p].tokens = st[q].tokens => p = q
      BY <1>1 DEF StoreRight
    <3>2. Len(st) \in Nat
      BY <1>2
    <3>3. (i \in 1 .. Len(st) \/ i = Len(st) + 1) /\ (j \in 1 .. Len(st) \/ j = Len(st) + 1)
      BY <1>5, <3>2
    <3> QED
      BY <1>5, <2>1, <3>1, <3>3
  <2>2. \A x \in Range(st) : Len(x.blocks) * BlockTokens = Len(x.tokens) /\ IsInjective(x.blocks)
    BY <1>1 DEF StoreRight
  <2>3. \A x \in Range(sx) : Len(x.blocks) * BlockTokens = Len(x.tokens) /\ IsInjective(x.blocks)
    BY <1>4, <1>5, <2>2
  <2> QED
    BY <1>5, <2>1, <2>3 DEF StoreRight
<1>8. rf \in [Block -> Nat]
  BY <1>1 DEF FreeRight
<1>9. \A b \in Block : rf2[b] = IF b \in Range(e.blocks) THEN rf[b] + 1 ELSE rf[b]
  <2>1. Range(<<>>) = {}
    BY NoCall
  <2> QED
    BY <2>1 DEF refsMore
<1>10. rf2 \in [Block -> Nat]
  <2>1. \A b \in Block : rf2[b] \in Nat
    BY <1>8, <1>9
  <2> QED
    BY <2>1 DEF refsMore
<1> HIDE DEF rf2
<1>11. ASSUME NEW b \in Block
       PROVE  entriesWith(sx, b) = IF b \in Range(e.blocks) THEN entriesWith(st, b) \cup {e} ELSE entriesWith(st, b)
  BY <1>5 DEF entriesWith
<1>12. RefsRight(rn, rw, sx, rf2)
  <2> SUFFICES ASSUME NEW b \in Block
               PROVE  rf2[b] = Cardinality(rowsWith(rn, rw, b)) + Cardinality(entriesWith(sx, b))
    BY DEF RefsRight
  <2>1. rf[b] = Cardinality(rowsWith(rn, rw, b)) + Cardinality(entriesWith(st, b))
    BY <1>1 DEF RefsRight
  <2>2. /\ IsFiniteSet(entriesWith(st, b)) /\ Cardinality(rowsWith(rn, rw, b)) \in Nat
        /\ Cardinality(entriesWith(st, b)) \in Nat
    BY <1>1, HoldersFinite
  <2>3. Cardinality(entriesWith(st, b) \cup {e}) = Cardinality(entriesWith(st, b)) + 1
    <3>1. e \notin entriesWith(st, b)
      BY <1>6 DEF entriesWith
    <3> QED
      BY <2>2, <3>1, FS_AddElement
  <2>4. CASE b \in Range(e.blocks)
    <3>1. rf2[b] = rf[b] + 1 /\ entriesWith(sx, b) = entriesWith(st, b) \cup {e}
      BY <1>9, <1>11, <2>4
    <3> QED
      BY <2>1, <2>2, <2>3, <3>1
  <2>5. CASE b \notin Range(e.blocks)
    <3>1. rf2[b] = rf[b] /\ entriesWith(sx, b) = entriesWith(st, b)
      BY <1>9, <1>11, <2>5
    <3> QED
      BY <2>1, <3>1
  <2> QED
    BY <2>4, <2>5
<1>13. FreeRight(fr, rf2)
  <2>1. ASSUME NEW b \in Range(e.blocks) PROVE rf[b] > 0
    <3>1. b \in Block /\ r \in rowsWith(rn, rw, b)
      BY <1>4 DEF rowsWith
    <3> QED
      BY <1>1, <3>1, HeldIsCounted
  <2>2. \A b \in Block : rf[b] = 0 <=> rf2[b] = 0
    <3>1. \A b \in Block : rf[b] \in Nat
      BY <1>8
    <3> QED
      BY <1>9, <2>1, <3>1
  <2>3. {b \in Block : rf[b] = 0} = {b \in Block : rf2[b] = 0}
    BY <2>2
  <2> QED
    BY <1>1, <1>10, <2>3 DEF FreeRight
<1> QED
  BY <1>1, <1>7, <1>12, <1>13 DEF PoolsRight, sx, rf2

\* alloc_block: blocks from the end of the free list.
freshOf(fr, n) == [i \in 1 .. n |-> fr[Len(fr) - i + 1]]

\* alloc_block and retain: the blocks taken have one holder, the shared ones have one more.
LEMMA FreshBlocks ==
  ASSUME NEW fr, NEW rf, FreeRight(fr, rf), NEW n \in 0 .. Len(fr),
         NEW shared, \A b \in Range(shared) : b \in Block /\ rf[b] > 0
  PROVE  /\ freshOf(fr, n) \in Seq(Block) /\ Len(freshOf(fr, n)) = n /\ IsInjective(freshOf(fr, n))
         /\ Range(freshOf(fr, n)) \subseteq Range(fr)
         /\ FreeRight(SubSeq(fr, 1, Len(fr) - n), refsMore(rf, freshOf(fr, n), shared))
<1> DEFINE new == freshOf(fr, n)
           left == SubSeq(fr, 1, Len(fr) - n)
           rf2 == refsMore(rf, new, shared)
<1>1. /\ fr \in Seq(Block) /\ IsInjective(fr) /\ rf \in [Block -> Nat]
      /\ Range(fr) = {b \in Block : rf[b] = 0} /\ Len(fr) \in Nat /\ n \in Nat /\ n <= Len(fr)
  BY DEF FreeRight
<1>2. Range(fr) = {fr[i] : i \in 1 .. Len(fr)} /\ \A i, j \in 1 .. Len(fr) : fr[i] = fr[j] => i = j
  BY <1>1, RangeOf
<1>3. \A i \in 1 .. n : Len(fr) - i + 1 \in 1 .. Len(fr) /\ fr[Len(fr) - i + 1] \in Block
  <2>1. \A i \in 1 .. n : Len(fr) - i + 1 \in 1 .. Len(fr)
    BY <1>1
  <2> QED
    BY <1>1, <2>1, ElementOfSeq
<1>4. new \in Seq(Block) /\ Len(new) = n /\ \A i \in 1 .. n : new[i] = fr[Len(fr) - i + 1]
  BY <1>1, <1>3 DEF freshOf
<1> HIDE DEF new
<1>5. Range(new) = {new[i] : i \in 1 .. n}
  BY <1>4, RangeOf
<1>6. IsInjective(new)
  <2>1. ASSUME NEW i \in 1 .. n, NEW j \in 1 .. n, new[i] = new[j] PROVE i = j
    <3>1. Len(fr) - i + 1 = Len(fr) - j + 1
      BY <1>2, <1>3, <1>4, <2>1
    <3> QED
      BY <1>1, <3>1
  <2> QED
    BY <1>4, <2>1, RangeOf
<1>7. Range(new) \subseteq Range(fr)
  BY <1>2, <1>3, <1>4, <1>5
<1>8. left \in Seq(Block) /\ IsInjective(left) /\ Range(left) = {fr[i] : i \in 1 .. Len(fr) - n}
  <2>1. 1 \in Nat \ {0} /\ Len(fr) - n \in Nat /\ Len(fr) - n <= Len(fr)
    BY <1>1
  <2> QED
    BY <1>1, <2>1, PieceOnce
<1> HIDE DEF left
<1>9. Range(left) = Range(fr) \ Range(new)
  <2>1. ASSUME NEW i \in 1 .. Len(fr) - n, NEW j \in 1 .. n PROVE i \in 1 .. Len(fr) /\ fr[i] # new[j]
    <3>1. i \in 1 .. Len(fr) /\ i # Len(fr) - j + 1
      BY <1>1
    <3> QED
      BY <1>2, <1>3, <1>4, <3>1
  <2>2. ASSUME NEW i \in 1 .. Len(fr), i \notin 1 .. Len(fr) - n PROVE \E j \in 1 .. n : fr[i] = new[j]
    <3>1. Len(fr) - i + 1 \in 1 .. n /\ Len(fr) - (Len(fr) - i + 1) + 1 = i
      BY <1>1, <2>2
    <3> QED
      BY <1>4, <3>1
  <2> QED
    BY <1>2, <1>5, <1>8, <2>1, <2>2
<1>10. \A b \in Block : rf2[b] = IF b \in Range(new) THEN 1 ELSE IF b \in Range(shared) THEN rf[b] + 1 ELSE rf[b]
  BY DEF refsMore
<1>11. rf2 \in [Block -> Nat]
  <2>1. \A b \in Block : rf[b] \in Nat
    BY <1>1
  <2>2. \A b \in Block : rf2[b] \in Nat
    BY <1>10, <2>1
  <2> QED
    BY <2>2 DEF refsMore
<1> HIDE DEF rf2
<1>12. Range(left) = {b \in Block : rf2[b] = 0}
  <2>1. ASSUME NEW b \in Block PROVE b \in Range(left) <=> rf2[b] = 0
    <3>1. rf[b] \in Nat /\ (b \in Range(fr) <=> rf[b] = 0) /\ (b \in Range(shared) => rf[b] > 0)
      BY <1>1
    <3> QED
      BY <1>7, <1>9, <1>10, <3>1
  <2>2. Range(left) \subseteq Block
    BY <1>1, <1>9
  <2> QED
    BY <2>1, <2>2
<1> QED
  BY <1>4, <1>6, <1>7, <1>8, <1>11, <1>12 DEF FreeRight, new, left, rf2

\* Blocks just taken, and those an entry shares, have one holder more.
LEMMA OneMoreRow ==
  ASSUME NEW rn, Queue(rn), NEW rm, Queue(rm), NEW rw, NEW rx, NEW st, StoreRight(st), NEW fr, NEW rf,
         FreeRight(fr, rf), RefsRight(rn, rw, st, rf), NEW r, NEW new, NEW shared,
         Range(new) \subseteq Range(fr), \A b \in Range(shared) : rf[b] > 0,
         \A b \in Block : /\ rowsWith(rm, rx, b) = IF b \in Range(new) \cup Range(shared)
                                                   THEN rowsWith(rn, rw, b) \cup {r} ELSE rowsWith(rn, rw, b)
                          /\ b \in Range(shared) => r \notin rowsWith(rn, rw, b)
  PROVE  RefsRight(rm, rx, st, refsMore(rf, new, shared))
<1> SUFFICES ASSUME NEW b \in Block
             PROVE  refsMore(rf, new, shared)[b] = Cardinality(rowsWith(rm, rx, b)) + Cardinality(entriesWith(st, b))
  BY DEF RefsRight
<1>1. rf[b] = Cardinality(rowsWith(rn, rw, b)) + Cardinality(entriesWith(st, b))
  BY DEF RefsRight
<1>2. /\ IsFiniteSet(rowsWith(rn, rw, b)) /\ Cardinality(rowsWith(rn, rw, b)) \in Nat
      /\ Cardinality(entriesWith(st, b)) \in Nat
  BY HoldersFinite
<1>3. refsMore(rf, new, shared)[b] = IF b \in Range(new) THEN 1 ELSE IF b \in Range(shared) THEN rf[b] + 1 ELSE rf[b]
  BY DEF refsMore
<1>4. CASE b \in Range(new)
  <2>1. rowsWith(rn, rw, b) = {} /\ entriesWith(st, b) = {}
    <3>1. b \in Range(fr)
      BY <1>4
    <3> QED
      BY <3>1, FreeIsUnheld
  <2>2. rowsWith(rm, rx, b) = {r}
    BY <1>4, <2>1
  <2>3. Cardinality(rowsWith(rm, rx, b)) = 1 /\ Cardinality(entriesWith(st, b)) = 0
    BY <2>1, <2>2, FS_Singleton, FS_EmptySet
  <2> QED
    BY <1>3, <1>4, <2>3
<1>5. CASE b \notin Range(new) /\ b \in Range(shared)
  <2>1. rowsWith(rm, rx, b) = rowsWith(rn, rw, b) \cup {r} /\ r \notin rowsWith(rn, rw, b)
    BY <1>5
  <2>2. Cardinality(rowsWith(rn, rw, b) \cup {r}) = Cardinality(rowsWith(rn, rw, b)) + 1
    BY <1>2, <2>1, FS_AddElement
  <2>3. refsMore(rf, new, shared)[b] = rf[b] + 1
    BY <1>3, <1>5
  <2> QED
    BY <1>1, <1>2, <2>1, <2>2, <2>3
<1>6. CASE b \notin Range(new) /\ b \notin Range(shared)
  <2>1. rowsWith(rm, rx, b) = rowsWith(rn, rw, b) /\ refsMore(rf, new, shared)[b] = rf[b]
    BY <1>3, <1>6
  <2> QED
    BY <1>1, <2>1
<1> QED
  BY <1>4, <1>5, <1>6

\* A row that grows.
LEMMA GrownRow ==
  ASSUME NEW rn, NEW rw, NEW fr, NEW rf, NEW fs, NEW st, NEW used,
         PoolsRight(rn, rw, fr, rf, fs, st, used), NEW r \in Range(rn), NEW n \in 0 .. Len(fr),
         NEW rx, \A q \in Range(rn) \ {r} : rx[q] = rw[q],
         rx[r].blocks = rw[r].blocks \o freshOf(fr, n), rx[r].slot = rw[r].slot, rx[r].own = rw[r].own + n
  PROVE  PoolsRight(rn, rx, SubSeq(fr, 1, Len(fr) - n), refsMore(rf, freshOf(fr, n), <<>>), fs, st, used + n)
<1> DEFINE new == freshOf(fr, n)
           left == SubSeq(fr, 1, Len(fr) - n)
           rf2 == refsMore(rf, new, <<>>)
           bs == rw[r].blocks
<1>1. /\ Queue(rn) /\ rn \in Seq(Req) /\ IsInjective(rn) /\ StoreRight(st) /\ FreeRight(fr, rf)
      /\ RefsRight(rn, rw, st, rf) /\ SlotsRight(rn, rw, fs) /\ BlocksRight(rn, rw, used)
  BY DEF PoolsRight, Queue
<1>2. Range(<<>>) = {}
  BY NoCall
<1>3. /\ new \in Seq(Block) /\ Len(new) = n /\ IsInjective(new) /\ Range(new) \subseteq Range(fr)
      /\ FreeRight(left, rf2)
  <2>1. \A b \in Range(<<>>) : b \in Block /\ rf[b] > 0
    BY <1>2
  <2> QED
    BY <1>1, <2>1, FreshBlocks
<1>4. bs \in Seq(Block) /\ IsInjective(bs) /\ Range(bs) \subseteq Block /\ rw[r].own \in Int /\ n \in Int
  <2>1. bs \in Seq(Block) /\ IsInjective(bs) /\ rw[r].own \in Int
    BY <1>1 DEF BlocksRight
  <2> HIDE DEF bs
  <2>2. Range(bs) \subseteq Block
    BY <2>1, RangeOf
  <2>3. n \in Int
    OBVIOUS
  <2> QED
    BY <2>1, <2>2, <2>3
<1>5. ASSUME NEW b \in Range(new) PROVE b \notin Range(bs)
  <2>1. b \in Range(fr)
    BY <1>3
  <2>2. rowsWith(rn, rw, b) = {}
    BY <1>1, <2>1, FreeIsUnheld
  <2> QED
    BY <2>2 DEF rowsWith
<1> HIDE DEF new
<1>6. rx[r].blocks = bs \o new
  BY DEF new
<1> HIDE DEF bs
<1>7. bs \o new \in Seq(Block) /\ IsInjective(bs \o new) /\ Range(bs \o new) = Range(bs) \cup Range(new)
  <2>1. Range(bs) \cap Range(new) = {}
    BY <1>5
  <2> QED
    BY <1>3, <1>4, <2>1, JoinedOnce
<1>8. ASSUME NEW b \in Block
      PROVE  /\ rowsWith(rn, rx, b) = IF b \in Range(new) \cup Range(<<>>)
                                      THEN rowsWith(rn, rw, b) \cup {r} ELSE rowsWith(rn, rw, b)
             /\ b \in Range(<<>>) => r \notin rowsWith(rn, rw, b)
  <2>1. \A q \in Range(rn) : b \in Range(rx[q].blocks) <=> b \in Range(rw[q].blocks) \/ (q = r /\ b \in Range(new))
    <3>1. ASSUME NEW q \in Range(rn), q # r PROVE rx[q] = rw[q]
      BY <3>1
    <3>2. b \in Range(rx[r].blocks) <=> b \in Range(rw[r].blocks) \/ b \in Range(new)
      BY <1>6, <1>7 DEF bs
    <3> QED
      BY <3>1, <3>2
  <2> QED
    BY <1>2, <2>1 DEF rowsWith
<1>9. RefsRight(rn, rx, st, rf2)
  <2>1. \A b \in Range(<<>>) : rf[b] > 0
    BY <1>2
  <2> QED
    BY <1>1, <1>3, <1>8, <2>1, OneMoreRow
<1>10. SlotsRight(rn, rx, fs)
  <2>1. \A q \in Range(rn) : rx[q].slot = rw[q].slot
    OBVIOUS
  <2>2. {rx[q].slot : q \in Range(rn)} = {rw[q].slot : q \in Range(rn)}
    BY <2>1
  <2>3. SlotsRight(rn, rw, fs)
    BY <1>1
  <2> QED
    BY <2>1, <2>2, <2>3 DEF SlotsRight
<1>11. BlocksRight(rn, rx, used + n)
  <2>1. /\ \A q \in Range(rn) : rw[q].blocks \in Seq(Block) /\ IsInjective(rw[q].blocks) /\ rw[q].own \in Int
        /\ used = total(owned(rn, rw))
    BY <1>1 DEF BlocksRight
  <2>2. ASSUME NEW q \in Range(rn) PROVE rx[q].blocks \in Seq(Block) /\ IsInjective(rx[q].blocks) /\ rx[q].own \in Int
    <3>1. CASE q = r
      <4>1. rx[q].own = rw[r].own + n /\ rw[r].own + n \in Int
        BY <1>4, <3>1
      <4>2. rx[q].blocks = bs \o new
        BY <1>6, <3>1
      <4> QED
        BY <1>7, <4>1, <4>2
    <3>2. CASE q # r
      <4>1. rx[q] = rw[q]
        BY <3>2
      <4> QED
        BY <2>1, <4>1
    <3> QED
      BY <3>1, <3>2
  <2>3. /\ owned(rn, rw) \in Seq(Int) /\ Len(owned(rn, rw)) = Len(rn)
        /\ \A i \in 1 .. Len(rn) : owned(rn, rw)[i] = rw[rn[i]].own
    BY <1>1, <2>1, OwnedIs
  <2>4. /\ owned(rn, rx) \in Seq(Int) /\ Len(owned(rn, rx)) = Len(rn)
        /\ \A i \in 1 .. Len(rn) : owned(rn, rx)[i] = rx[rn[i]].own
    BY <1>1, <2>2, OwnedIs
  <2>5. /\ Range(rn) = {rn[i] : i \in 1 .. Len(rn)} /\ Len(rn) \in Nat
        /\ \A i, j \in 1 .. Len(rn) : rn[i] = rn[j] => i = j
    <3>1. rn \in Seq(Req) /\ IsInjective(rn)
      BY <1>1
    <3>2. /\ Range(rn) = {rn[i] : i \in 1 .. Len(rn)}
          /\ IsInjective(rn) <=> \A i, j \in 1 .. Len(rn) : rn[i] = rn[j] => i = j
      BY <3>1, RangeOf
    <3> QED
      BY <3>1, <3>2
  <2>6. PICK k \in 1 .. Len(rn) : rn[k] = r
    BY <2>5
  <2>7. owned(rn, rx)[k] = owned(rn, rw)[k] + n
    BY <2>3, <2>4, <2>6
  <2>8. ASSUME NEW i \in 1 .. Len(rn), i # k PROVE owned(rn, rx)[i] = owned(rn, rw)[i]
    <3>1. rn[i] \in Range(rn) /\ rn[i] # r
      BY <2>5, <2>6, <2>8
    <3>2. rx[rn[i]] = rw[rn[i]]
      BY <3>1
    <3> QED
      BY <2>3, <2>4, <3>2
  <2>9. total(owned(rn, rx)) = total(owned(rn, rw)) + n
    <3>1. /\ k \in 1 .. Len(owned(rn, rw)) /\ Len(owned(rn, rx)) = Len(owned(rn, rw))
          /\ \A i \in 1 .. Len(owned(rn, rw)) : i # k => owned(rn, rx)[i] = owned(rn, rw)[i]
      BY <2>3, <2>4, <2>8
    <3> QED
      BY <1>4, <2>3, <2>4, <2>7, <3>1, TotalChanged
  <2> QED
    BY <2>1, <2>2, <2>9 DEF BlocksRight
<1> QED
  BY <1>1, <1>3, <1>9, <1>10, <1>11 DEF PoolsRight, left, rf2, new

\* A row that is admitted, over the blocks of an entry and fresh ones.
LEMMA AdoptedRow ==
  ASSUME NEW rn, NEW rw, NEW fr, NEW rf, NEW fs, NEW st, NEW used,
         PoolsRight(rn, rw, fr, rf, fs, st, used), NEW r \in Req \ Range(rn), NEW n \in 0 .. Len(fr), fs # <<>>,
         NEW shared \in Seq(Block), IsInjective(shared),
         shared = <<>> \/ \E e \in Range(st) : e.blocks = shared,
         NEW rx, \A q \in Range(rn) : rx[q] = rw[q],
         rx[r].blocks = shared \o freshOf(fr, n), rx[r].slot = Last(fs), rx[r].own = n
  PROVE  PoolsRight(Append(rn, r), rx, SubSeq(fr, 1, Len(fr) - n), refsMore(rf, freshOf(fr, n), shared),
                    Front(fs), st, used + n)
<1> DEFINE new == freshOf(fr, n)
           left == SubSeq(fr, 1, Len(fr) - n)
           rf2 == refsMore(rf, new, shared)
           rm == Append(rn, r)
<1>1. /\ Queue(rn) /\ rn \in Seq(Req) /\ IsInjective(rn) /\ StoreRight(st) /\ FreeRight(fr, rf)
      /\ RefsRight(rn, rw, st, rf) /\ SlotsRight(rn, rw, fs) /\ BlocksRight(rn, rw, used)
  BY DEF PoolsRight, Queue
<1>2. ASSUME NEW b \in Range(shared) PROVE b \in Block /\ entriesWith(st, b) # {} /\ rf[b] > 0
  <2>1. b \in Block
    BY RangeOf
  <2>2. Range(<<>>) = {}
    BY NoCall
  <2>3. PICK e \in Range(st) : e.blocks = shared
    BY <1>2, <2>2
  <2>4. entriesWith(st, b) # {}
    BY <2>3 DEF entriesWith
  <2> QED
    BY <1>1, <2>1, <2>4, HeldIsCounted
<1>3. /\ new \in Seq(Block) /\ Len(new) = n /\ IsInjective(new) /\ Range(new) \subseteq Range(fr)
      /\ FreeRight(left, rf2)
  <2>1. \A b \in Range(shared) : b \in Block /\ rf[b] > 0
    BY <1>2
  <2> QED
    BY <1>1, <2>1, FreshBlocks
<1>4. Range(shared) \cap Range(new) = {}
  <2>1. ASSUME NEW b \in Range(new) PROVE entriesWith(st, b) = {}
    <3>1. b \in Range(fr)
      BY <1>3
    <3> QED
      BY <1>1, <3>1, FreeIsUnheld
  <2> QED
    BY <1>2, <2>1
<1> HIDE DEF new
<1>5. /\ rx[r].blocks \in Seq(Block) /\ IsInjective(rx[r].blocks)
      /\ Range(rx[r].blocks) = Range(shared) \cup Range(new)
  <2>1. rx[r].blocks = shared \o new
    BY DEF new
  <2>2. /\ shared \o new \in Seq(Block) /\ IsInjective(shared \o new)
        /\ Range(shared \o new) = Range(shared) \cup Range(new)
    BY <1>3, <1>4, JoinedOnce
  <2> QED
    BY <2>1, <2>2
<1>6. rm \in Seq(Req) /\ Len(rm) = Len(rn) + 1 /\ Range(rm) = Range(rn) \cup {r} /\ IsInjective(rm)
  BY <1>1, AppendedOnce
<1>7. Len(rn) \in Nat /\ rm[Len(rn) + 1] = r /\ \A i \in 1 .. Len(rn) : rm[i] = rn[i]
  BY <1>1
<1> HIDE DEF rm
<1>8. Queue(rm)
  BY <1>6 DEF Queue
<1>9. ASSUME NEW b \in Block
      PROVE  /\ rowsWith(rm, rx, b) = IF b \in Range(new) \cup Range(shared)
                                      THEN rowsWith(rn, rw, b) \cup {r} ELSE rowsWith(rn, rw, b)
             /\ b \in Range(shared) => r \notin rowsWith(rn, rw, b)
  <2>1. \A q \in Range(rm) : b \in Range(rx[q].blocks) <=>
          (q \in Range(rn) /\ b \in Range(rw[q].blocks)) \/ (q = r /\ b \in Range(new) \cup Range(shared))
    BY <1>5, <1>6
  <2> QED
    BY <1>6, <2>1 DEF rowsWith
<1>10. RefsRight(rm, rx, st, rf2)
  <2>1. \A b \in Range(shared) : rf[b] > 0
    BY <1>2
  <2> QED
    BY <1>1, <1>3, <1>8, <1>9, <2>1, OneMoreRow
<1>11. SlotsRight(rm, rx, Front(fs))
  <2>1. /\ fs \in Seq(Slot) /\ IsInjective(fs)
        /\ Range(fs) = Slot \ {rw[q].slot : q \in Range(rn)}
        /\ \A q \in Range(rn) : rw[q].slot \in Slot
        /\ \A p, q \in Range(rn) : rw[p].slot = rw[q].slot => p = q
    BY <1>1 DEF SlotsRight
  <2>2. /\ Front(fs) \in Seq(Slot) /\ Last(fs) \in Range(fs) /\ Last(fs) \in Slot
        /\ IsInjective(Front(fs)) /\ Range(Front(fs)) = Range(fs) \ {Last(fs)}
    BY <2>1, FrontOf
  <2>3. \A q \in Range(rn) : rw[q].slot # Last(fs)
    BY <2>1, <2>2
  <2>4. \A q \in Range(rm) : (q \in Range(rn) /\ rx[q].slot = rw[q].slot) \/ (q = r /\ rx[q].slot = Last(fs))
    BY <1>6
  <2>5. {rx[q].slot : q \in Range(rm)} = {rw[q].slot : q \in Range(rn)} \cup {Last(fs)}
    BY <1>6, <2>4
  <2>6. Range(Front(fs)) = Slot \ {rx[q].slot : q \in Range(rm)}
    BY <2>1, <2>2, <2>5
  <2>7. \A q \in Range(rm) : rx[q].slot \in Slot
    BY <2>1, <2>2, <2>4
  <2>8. \A p, q \in Range(rm) : rx[p].slot = rx[q].slot => p = q
    BY <2>1, <2>3, <2>4
  <2> QED
    BY <2>2, <2>6, <2>7, <2>8 DEF SlotsRight
<1>12. BlocksRight(rm, rx, used + n)
  <2>1. /\ \A q \in Range(rn) : rw[q].blocks \in Seq(Block) /\ IsInjective(rw[q].blocks) /\ rw[q].own \in Int
        /\ used = total(owned(rn, rw))
    BY <1>1 DEF BlocksRight
  <2>2. n \in Int
    OBVIOUS
  <2>3. ASSUME NEW q \in Range(rm) PROVE rx[q].blocks \in Seq(Block) /\ IsInjective(rx[q].blocks) /\ rx[q].own \in Int
    <3>1. q \in Range(rn) \/ q = r
      BY <1>6
    <3> QED
      BY <1>5, <2>1, <2>2, <3>1
  <2>4. /\ owned(rn, rw) \in Seq(Int) /\ Len(owned(rn, rw)) = Len(rn)
        /\ \A i \in 1 .. Len(rn) : owned(rn, rw)[i] = rw[rn[i]].own
    BY <1>1, <2>1, OwnedIs
  <2>5. /\ owned(rm, rx) \in Seq(Int) /\ Len(owned(rm, rx)) = Len(rm)
        /\ \A i \in 1 .. Len(rm) : owned(rm, rx)[i] = rx[rm[i]].own
    BY <1>6, <2>3, OwnedIs
  <2>6. owned(rm, rx) = Append(owned(rn, rw), n)
    <3>1. Len(Append(owned(rn, rw), n)) = Len(rn) + 1 /\ Append(owned(rn, rw), n) \in Seq(Int)
      BY <2>2, <2>4
    <3>2. ASSUME NEW i \in 1 .. Len(rn) + 1 PROVE owned(rm, rx)[i] = Append(owned(rn, rw), n)[i]
      <4>1. CASE i = Len(rn) + 1
        BY <1>6, <1>7, <2>2, <2>4, <2>5, <4>1
      <4>2. CASE i # Len(rn) + 1
        <5>1. i \in 1 .. Len(rn) /\ i \in 1 .. Len(rm)
          BY <1>6, <1>7, <4>2
        <5>2. rn[i] \in Range(rn) /\ rm[i] = rn[i]
          BY <1>1, <1>7, <5>1, RangeOf
        <5>3. Append(owned(rn, rw), n)[i] = owned(rn, rw)[i]
          BY <2>2, <2>4, <5>1
        <5> QED
          BY <2>4, <2>5, <5>1, <5>2, <5>3
      <4> QED
        BY <4>1, <4>2
    <3> DEFINE u == owned(rm, rx)
               v == Append(owned(rn, rw), n)
    <3>3. u \in Seq(Int) /\ v \in Seq(Int) /\ Len(u) = Len(v) /\ \A i \in 1 .. Len(u) : u[i] = v[i]
      BY <1>6, <1>7, <2>5, <3>1, <3>2
    <3> HIDE DEF u, v
    <3>4. u = v
      BY <3>3, SeqEqual
    <3> QED
      BY <3>4 DEF u, v
  <2>7. total(owned(rm, rx)) = total(owned(rn, rw)) + n
    BY <2>2, <2>4, <2>6, TotalAppended
  <2> QED
    BY <2>1, <2>3, <2>7 DEF BlocksRight
<1> QED
  BY <1>1, <1>3, <1>8, <1>10, <1>11, <1>12 DEF PoolsRight, left, rf2, new, rm

-----------------------------------------------------------------------------
(* Matching a prompt against the store *)

\* A prefix is the beginning.
LEMMA PrefixIs ==
  ASSUME NEW S, NEW s \in Seq(S), NEW t \in Seq(S), IsPrefix(s, t)
  PROVE  Len(s) \in Nat /\ Len(s) <= Len(t) /\ s = SubSeq(t, 1, Len(s))
<1>1. Len(s) <= Len(t) /\ SubSeq(s, 1, Len(s)) = SubSeq(t, 1, Len(s))
  BY DEF IsPrefix
<1> QED
  BY <1>1, SubSeqFull

\* What a lookup finds, said of the entries and not of their order.
prefixesIn(E, toks) == {e \in E : IsPrefix(e.tokens, toks)}
longestIn(E, toks) ==
  CHOOSE e \in prefixesIn(E, toks) : \A x \in prefixesIn(E, toks) : Len(x.tokens) <= Len(e.tokens)
hitIn(E, toks) ==
  IF prefixesIn(E, toks) = {} THEN NoHit
  ELSE IF Len(longestIn(E, toks).tokens) >= Len(toks) THEN NoHit ELSE longestIn(E, toks)

\* A longest one there is, and only one.
LEMMA LongestIs ==
  ASSUME NEW st, StoreRight(st), NEW toks \in Seq(Tokens), prefixesIn(Range(st), toks) # {}
  PROVE  \E i \in 1 .. Len(st) :
           /\ st[i] = longestIn(Range(st), toks) /\ IsPrefix(st[i].tokens, toks)
           /\ \A j \in 1 .. Len(st) :
                IsPrefix(st[j].tokens, toks) =>
                  Len(st[j].tokens) <= Len(st[i].tokens) /\ (Len(st[j].tokens) = Len(st[i].tokens) => i = j)
<1> DEFINE P == prefixesIn(Range(st), toks)
           T == {n \in Nat : \E e \in P : Len(e.tokens) = n}
<1>1. /\ Range(st) = {st[i] : i \in 1 .. Len(st)}
      /\ \A e \in Range(st) : e.tokens \in Seq(Tokens)
  BY EntriesOnce
<1>2. \A e \in P : e \in Range(st) /\ IsPrefix(e.tokens, toks)
  BY DEF prefixesIn
<1>3. ASSUME NEW e \in P PROVE Len(e.tokens) \in Nat /\ Len(e.tokens) <= Len(toks) /\ e.tokens = SubSeq(toks, 1, Len(e.tokens))
  <2>1. e.tokens \in Seq(Tokens) /\ IsPrefix(e.tokens, toks)
    BY <1>1, <1>2
  <2> QED
    BY <2>1, PrefixIs
<1>4. PICK m \in T : \A n \in T : n <= m
  <2>1. T \in SUBSET Nat /\ T # {}
    <3>1. PICK e \in P : TRUE
      OBVIOUS
    <3> QED
      BY <1>3, <3>1
  <2>2. Len(toks) \in Nat /\ \A n \in T : n <= Len(toks)
    BY <1>3
  <2> HIDE DEF T
  <2> QED
    BY <2>1, <2>2, GreatestOf
<1>5. \E e \in P : \A x \in P : Len(x.tokens) <= Len(e.tokens)
  <2>1. PICK e \in P : Len(e.tokens) = m
    BY <1>4
  <2>2. \A x \in P : Len(x.tokens) <= m
    BY <1>3, <1>4
  <2> QED
    BY <2>1, <2>2
<1> DEFINE l == longestIn(Range(st), toks)
<1>6. l \in P /\ \A x \in P : Len(x.tokens) <= Len(l.tokens)
  BY <1>5 DEF longestIn
<1> HIDE DEF l, P
<1>7. PICK i \in 1 .. Len(st) : st[i] = l
  BY <1>1, <1>2, <1>6
<1>8. ASSUME NEW j \in 1 .. Len(st), IsPrefix(st[j].tokens, toks)
      PROVE  Len(st[j].tokens) <= Len(st[i].tokens) /\ (Len(st[j].tokens) = Len(st[i].tokens) => i = j)
  <2>1. st[j] \in P
    BY <1>1, <1>8 DEF P, prefixesIn
  <2>2. Len(st[j].tokens) <= Len(st[i].tokens)
    BY <1>6, <1>7, <2>1
  <2>3. ASSUME Len(st[j].tokens) = Len(st[i].tokens) PROVE i = j
    <3>1. st[j].tokens = SubSeq(toks, 1, Len(st[j].tokens)) /\ st[i].tokens = SubSeq(toks, 1, Len(st[i].tokens))
      BY <1>3, <1>6, <1>7, <2>1
    <3>2. st[i].tokens = st[j].tokens
      BY <2>3, <3>1
    <3> QED
      BY <3>2 DEF StoreRight
  <2> QED
    BY <2>2, <2>3
<1>9. IsPrefix(st[i].tokens, toks)
  BY <1>2, <1>6, <1>7
<1> QED
  BY <1>7, <1>8, <1>9 DEF l

\* longest is where it is.
LEMMA LookupIs ==
  StoreRight(store) =>
    \A toks \in Seq(Tokens) :
      /\ matches(toks) = {} <=> prefixesIn(Range(store), toks) = {}
      /\ matches(toks) # {} => /\ longest(toks) \in 1 .. Len(store)
                               /\ store[longest(toks)] = longestIn(Range(store), toks)
<1> SUFFICES ASSUME StoreRight(store), NEW toks \in Seq(Tokens)
             PROVE  /\ matches(toks) = {} <=> prefixesIn(Range(store), toks) = {}
                    /\ matches(toks) # {} => /\ longest(toks) \in 1 .. Len(store)
                                             /\ store[longest(toks)] = longestIn(Range(store), toks)
  OBVIOUS
<1>1. Range(store) = {store[i] : i \in 1 .. Len(store)} /\ DOMAIN store = 1 .. Len(store)
  BY EntriesOnce
<1>2. matches(toks) = {i \in 1 .. Len(store) : IsPrefix(store[i].tokens, toks)}
  BY <1>1 DEF matches
<1>3. matches(toks) = {} <=> prefixesIn(Range(store), toks) = {}
  BY <1>1, <1>2 DEF prefixesIn
<1>4. ASSUME matches(toks) # {}
      PROVE  longest(toks) \in 1 .. Len(store) /\ store[longest(toks)] = longestIn(Range(store), toks)
  <2>1. prefixesIn(Range(store), toks) # {}
    BY <1>3, <1>4
  <2>2. PICK i \in 1 .. Len(store) :
           /\ store[i] = longestIn(Range(store), toks) /\ IsPrefix(store[i].tokens, toks)
           /\ \A j \in 1 .. Len(store) :
                IsPrefix(store[j].tokens, toks) =>
                  Len(store[j].tokens) <= Len(store[i].tokens) /\ (Len(store[j].tokens) = Len(store[i].tokens) => i = j)
    BY <2>1, LongestIs
  <2>3. i \in matches(toks) /\ \A j \in matches(toks) : Len(store[j].tokens) <= Len(store[i].tokens)
    BY <1>2, <2>2
  <2> DEFINE k == longest(toks)
  <2>4. k \in matches(toks) /\ \A j \in matches(toks) : Len(store[j].tokens) <= Len(store[k].tokens)
    BY <2>3 DEF longest
  <2> HIDE DEF k
  <2>5. k \in 1 .. Len(store) /\ IsPrefix(store[k].tokens, toks)
    BY <1>2, <2>4
  <2>6. Len(store[k].tokens) \in Nat /\ Len(store[i].tokens) \in Nat
    <3>1. store[k].tokens \in Seq(Tokens) /\ store[i].tokens \in Seq(Tokens)
      BY <1>1, <2>5, EntriesOnce
    <3> QED
      BY <3>1
  <2>7. Len(store[k].tokens) <= Len(store[i].tokens) /\ Len(store[i].tokens) <= Len(store[k].tokens)
    BY <2>2, <2>3, <2>4, <2>5
  <2>8. i = k
    BY <2>2, <2>5, <2>6, <2>7
  <2> QED
    BY <2>2, <2>8 DEF k
<1> QED
  BY <1>3, <1>4

\* matchPrefix, which runs through the store, finds the longest entry that matches.
LEMMA MatchIs ==
  StoreRight(store) => \A toks \in Seq(Tokens) : matchPrefix(toks) = hitIn(Range(store), toks)
<1> SUFFICES ASSUME StoreRight(store), NEW toks \in Seq(Tokens)
             PROVE  matchPrefix(toks) = hitIn(Range(store), toks)
  OBVIOUS
<1>1. CASE matches(toks) = {}
  <2>1. prefixesIn(Range(store), toks) = {}
    BY <1>1, LookupIs
  <2> QED
    BY <1>1, <2>1 DEF matchPrefix, hitIn
<1>2. CASE matches(toks) # {}
  <2>1. prefixesIn(Range(store), toks) # {} /\ store[longest(toks)] = longestIn(Range(store), toks)
    BY <1>2, LookupIs
  <2>2. matchPrefix(toks) = IF Len(store[longest(toks)].tokens) >= Len(toks) THEN NoHit ELSE store[longest(toks)]
    BY <1>2 DEF matchPrefix
  <2>3. hitIn(Range(store), toks) = IF Len(longestIn(Range(store), toks).tokens) >= Len(toks) THEN NoHit
                                    ELSE longestIn(Range(store), toks)
    BY <2>1 DEF hitIn
  <2> QED
    BY <2>1, <2>2, <2>3
<1> QED
  BY <1>1, <1>2

\* A hit is an entry that is shorter than the prompt, or none.
LEMMA HitIs ==
  ASSUME NEW st, StoreRight(st), NEW toks \in Seq(Tokens), toks # <<>>
  PROVE  LET h == hitIn(Range(st), toks)
         IN  /\ h.tokens \in Seq(Tokens) /\ h.blocks \in Seq(Block) /\ h.state \in Seq(Tokens)
             /\ IsInjective(h.blocks) /\ Len(h.blocks) * BlockTokens = Len(h.tokens)
             /\ Len(h.tokens) < Len(toks)
             /\ h.blocks = <<>> \/ \E e \in Range(st) : e.blocks = h.blocks
<1> DEFINE h == hitIn(Range(st), toks)
<1>1. CASE h = NoHit
  <2>1. h.tokens = <<>> /\ h.blocks = <<>> /\ h.state = <<>>
    BY <1>1 DEF NoHit
  <2>2. IsInjective(<<>>) /\ Len(<<>>) = 0 /\ <<>> \in Seq(Tokens) /\ <<>> \in Seq(Block)
    BY EmptySeq DEF IsInjective
  <2>3. 0 * BlockTokens = 0 /\ 0 < Len(toks)
    BY PoolAssumption
  <2> HIDE DEF h
  <2>4. Len(h.blocks) * BlockTokens = Len(h.tokens)
    BY <2>1, <2>2, <2>3
  <2> QED
    BY <2>1, <2>2, <2>3, <2>4 DEF h
<1>2. CASE h # NoHit
  <2>1. prefixesIn(Range(st), toks) # {} /\ h = longestIn(Range(st), toks) /\ ~(Len(h.tokens) >= Len(toks))
    BY <1>2 DEF hitIn
  <2>2. h \in Range(st)
    <3>1. Range(st) = {st[i] : i \in 1 .. Len(st)}
      BY EntriesOnce
    <3> QED
      BY <2>1, <3>1, LongestIs
  <2> HIDE DEF h
  <2>3. /\ h.tokens \in Seq(Tokens) /\ h.blocks \in Seq(Block) /\ h.state \in Seq(Tokens)
        /\ IsInjective(h.blocks) /\ Len(h.blocks) * BlockTokens = Len(h.tokens)
    BY <2>2, EntriesOnce
  <2>4. Len(h.tokens) < Len(toks)
    BY <2>1, <2>3
  <2> QED
    BY <2>2, <2>3, <2>4 DEF h
<1> QED
  BY <1>1, <1>2

\* lookup moves an entry, and keeps them all.
LEMMA TouchedStore ==
  StoreRight(store) =>
    \A toks \in Seq(Tokens) : StoreRight(touched(toks)) /\ Range(touched(toks)) = Range(store)
<1> SUFFICES ASSUME StoreRight(store), NEW toks \in Seq(Tokens)
             PROVE  StoreRight(touched(toks)) /\ Range(touched(toks)) = Range(store)
  OBVIOUS
<1>1. CASE matches(toks) = {}
  BY <1>1 DEF touched
<1>2. CASE matches(toks) # {}
  <2> DEFINE k == longest(toks)
             less == RemoveAt(store, k)
             sx == Append(less, store[k])
  <2>1. k \in 1 .. Len(store)
    BY <1>2, LookupIs
  <2>2. touched(toks) = sx
    BY <1>2 DEF touched
  <2> HIDE DEF k
  <2>3. /\ store \in Seq(Entry) /\ IsInjective(store) /\ Range(store) = {store[i] : i \in 1 .. Len(store)}
        /\ store[k] \in Entry /\ store[k] \in Range(store)
    BY <2>1, EntriesOnce
  <2>4. /\ less \in Seq(Entry) /\ Len(less) = Len(store) - 1 /\ Len(store) \in Nat
    <3>1. RemoveAt(store, k) \in Seq(Entry) /\ Len(RemoveAt(store, k)) = Len(store) - 1
      BY <2>1, <2>3, RemoveAtOf
    <3> HIDE DEF less
    <3>2. store \in Seq(Entry)
      BY <2>3
    <3> QED
      BY <3>1, <3>2 DEF less
  <2>5. IsInjective(less) /\ Range(less) = Range(store) \ {store[k]}
    BY <2>1, <2>3, RemovedOnce
  <2> HIDE DEF less
  <2>6. /\ sx \in Seq(Entry) /\ Len(sx) = Len(less) + 1 /\ Range(sx) = Range(less) \cup {store[k]}
        /\ IsInjective(sx)
    <3>1. store[k] \notin Range(less)
      BY <2>5
    <3> QED
      BY <2>3, <2>4, <2>5, <3>1, AppendedOnce
  <2> HIDE DEF sx
  <2>7. Range(sx) = Range(store)
    BY <2>3, <2>5, <2>6
  <2>8. Range(sx) = {sx[i] : i \in 1 .. Len(sx)} /\ \A i, j \in 1 .. Len(sx) : sx[i] = sx[j] => i = j
    BY <2>6, RangeOf
  <2>9. ASSUME NEW i \in 1 .. Len(sx), NEW j \in 1 .. Len(sx), sx[i].tokens = sx[j].tokens PROVE i = j
    <3>4. sx[i] \in Range(store) /\ sx[j] \in Range(store)
      BY <2>7, <2>8
    <3>1. PICK m \in 1 .. Len(store) : store[m] = sx[i]
      BY <2>3, <3>4
    <3>2. PICK n \in 1 .. Len(store) : store[n] = sx[j]
      BY <2>3, <3>4
    <3>3. m = n
      BY <2>9, <3>1, <3>2 DEF StoreRight
    <3> QED
      BY <2>8, <3>1, <3>2, <3>3
  <2>10. StoreRight(sx)
    BY <2>6, <2>7, <2>9 DEF StoreRight
  <2> QED
    BY <2>2, <2>7, <2>10
<1> QED
  BY <1>1, <1>2

-----------------------------------------------------------------------------
(* The plan of a tick *)

\* Whole multiples.
LEMMA Multiples ==
  ASSUME NEW b \in Nat \ {0}, NEW a \in Int
  PROVE  /\ a \div b \in Int /\ (a \div b) * b \in Int /\ (a \div b) * b <= a /\ a < (a \div b) * b + b
         /\ a % b = a - (a \div b) * b /\ a % b \in 0 .. b - 1
         /\ a \in Nat => a \div b \in Nat /\ (a \div b) * b \in Nat
OBVIOUS

\* The least of two numbers.
LEMMA LesserOf ==
  ASSUME NEW a \in Int, NEW b \in Int
  PROVE  Min({a, b}) \in {a, b} /\ Min({a, b}) <= a /\ Min({a, b}) <= b
<1>1. \E m \in {a, b} : \A n \in {a, b} : m <= n
  OBVIOUS
<1> DEFINE m == Min({a, b})
<1>2. m \in {a, b} /\ \A n \in {a, b} : m <= n
  BY <1>1 DEF Min
<1> QED
  BY <1>2

\* A chunk is not empty and stays within the prompt.
LEMMA ChunkIs ==
  ASSUME NEW n \in Nat, NEW from \in Nat, NEW budget \in Int
  PROVE  /\ chunkOf(n, from, budget) \in Int
         /\ from < n /\ budget > 0 => chunkOf(n, from, budget) \in 1 .. n - from
<1> DEFINE most == Min({n - from, budget})
           aligned == (most \div Bucket) * Bucket
           first == IF from = 0 /\ aligned # 0 THEN aligned ELSE most
           spared == IF n - (from + first) = 1 /\ first > BlockTokens THEN first - BlockTokens ELSE first
           end == from + spared
           whole == (end \div BlockTokens) * BlockTokens - from
           cut == IF end % BlockTokens = 1 THEN whole - BlockTokens ELSE whole
<1>1. BlockTokens \in Nat \ {0} /\ Bucket \in Nat \ {0}
  BY PoolAssumption
<1>2. most \in Int /\ most <= n - from /\ most <= budget /\ most \in {n - from, budget}
  BY LesserOf
<1> HIDE DEF most
<1>3. aligned \in Int /\ aligned <= most /\ (most \in Nat => aligned \in Nat)
  BY <1>1, <1>2, Multiples
<1> HIDE DEF aligned
<1>4. first \in Int /\ first <= n - from /\ (from < n /\ budget > 0 => first >= 1)
  BY <1>2, <1>3
<1> HIDE DEF first
<1>5. spared \in Int /\ spared <= n - from /\ (from < n /\ budget > 0 => spared >= 1)
  BY <1>1, <1>4
<1> HIDE DEF spared
<1>6. end \in Int /\ whole \in Int /\ whole <= spared
  <2>1. end \in Int
    BY <1>5
  <2> HIDE DEF end
  <2>2. (end \div BlockTokens) * BlockTokens \in Int /\ (end \div BlockTokens) * BlockTokens <= end
    BY <1>1, <2>1, Multiples
  <2>3. end = from + spared
    BY DEF end
  <2> QED
    BY <1>5, <2>1, <2>2, <2>3
<1> HIDE DEF whole
<1>7. cut \in Int /\ cut <= spared
  <2> HIDE DEF end
  <2> QED
    BY <1>1, <1>5, <1>6
<1> HIDE DEF cut
<1>8. chunkOf(n, from, budget) = IF end = n /\ end % BlockTokens # 0 /\ whole > 0 /\ cut > 0 THEN cut ELSE spared
  BY DEF chunkOf, cut, whole, spared, first, aligned, most
<1> HIDE DEF end
<1> QED
  BY <1>5, <1>7, <1>8

\* One step of the walk over _running.
widthOf(c) == ((c + Bucket - 1) \div Bucket) * Bucket
visited(decodes, p, r) ==
  IF p.full \/ row[r].phase # "prefill" THEN p
  ELSE IF \/ Len(decodes) + Len(p.rows) >= MaxBatch
          \/ p.budget <= 0
          \/ p.rows # <<>> /\ widthOf(chunkOf(Len(row[r].tokens), row[r].prefillFrom, p.budget)) # p.bucket
       THEN [p EXCEPT !.full = TRUE]
  ELSE [full |-> FALSE, budget |-> p.budget - chunkOf(Len(row[r].tokens), row[r].prefillFrom, p.budget),
        bucket |-> widthOf(chunkOf(Len(row[r].tokens), row[r].prefillFrom, p.budget)),
        rows |-> Append(p.rows, [r |-> r, count |-> chunkOf(Len(row[r].tokens), row[r].prefillFrom, p.budget)])]

Chunk == [r : Req, count : Int]
Walk == [full : BOOLEAN, budget : Int, bucket : Int, rows : Seq(Chunk)]

\* One step of the walk over the running rows plans at most a chunk of a row that prefills.
LEMMA VisitedIs ==
  ASSUME NEW decodes, NEW p \in Walk, NEW r \in Req,
         row[r].tokens \in Seq(Tokens), row[r].prefillFrom \in Nat
  PROVE  /\ visited(decodes, p, r) \in Walk
         /\ \/ visited(decodes, p, r).rows = p.rows
            \/ /\ row[r].phase = "prefill" /\ p.budget > 0
               /\ visited(decodes, p, r).rows =
                    Append(p.rows, [r |-> r, count |-> chunkOf(Len(row[r].tokens), row[r].prefillFrom, p.budget)])
<1> DEFINE c == chunkOf(Len(row[r].tokens), row[r].prefillFrom, p.budget)
<1>1. p.full \in BOOLEAN /\ p.budget \in Int /\ p.bucket \in Int /\ p.rows \in Seq(Chunk)
  BY DEF Walk
<1>2. c \in Int
  <2>1. Len(row[r].tokens) \in Nat
    OBVIOUS
  <2> QED
    BY <1>1, <2>1, ChunkIs
<1> HIDE DEF c
<1>3. widthOf(c) \in Int
  <2>1. Bucket \in Nat \ {0} /\ c + Bucket - 1 \in Int
    BY <1>2, PoolAssumption
  <2> QED
    BY <2>1, Multiples DEF widthOf
<1>4. [r |-> r, count |-> c] \in Chunk
  BY <1>2 DEF Chunk
<1>5. Append(p.rows, [r |-> r, count |-> c]) \in Seq(Chunk)
  BY <1>1, <1>4, AppendedOnce
<1> DEFINE q == [full |-> FALSE, budget |-> p.budget - c, bucket |-> widthOf(c),
                 rows |-> Append(p.rows, [r |-> r, count |-> c])]
<1>6. q \in Walk /\ q.rows = Append(p.rows, [r |-> r, count |-> c])
  BY <1>1, <1>2, <1>3, <1>5 DEF Walk
<1>7. [p EXCEPT !.full = TRUE] \in Walk /\ [p EXCEPT !.full = TRUE].rows = p.rows
  BY DEF Walk
<1>8. \/ visited(decodes, p, r) = p
      \/ visited(decodes, p, r) = [p EXCEPT !.full = TRUE]
      \/ visited(decodes, p, r) = q /\ row[r].phase = "prefill" /\ ~(p.budget <= 0)
  BY DEF visited, c
<1> DEFINE v == visited(decodes, p, r)
<1> HIDE DEF q, v
<1>9. /\ v \in Walk
      /\ \/ v.rows = p.rows
         \/ row[r].phase = "prefill" /\ p.budget > 0 /\ v.rows = Append(p.rows, [r |-> r, count |-> c])
  <2>1. CASE v = p
    BY <2>1
  <2>2. CASE v = [p EXCEPT !.full = TRUE]
    BY <1>7, <2>2
  <2>3. CASE v = q /\ row[r].phase = "prefill" /\ ~(p.budget <= 0)
    BY <1>1, <1>6, <2>3
  <2> QED
    BY <1>8, <2>1, <2>2, <2>3 DEF v
<1> QED
  BY <1>9 DEF c, v

\* The rows that may be planned.
Plannable ==
  /\ Queue(running)
  /\ \A r \in Range(running) : /\ r \in Req /\ row[r].tokens \in Seq(Tokens) /\ row[r].prefillFrom \in Nat
                               /\ row[r].phase = "prefill" => row[r].prefillFrom < Len(row[r].tokens)

\* The plan has at most one chunk for each row, and none beyond its text.
LEMMA PlanIs ==
  ASSUME Plannable, NEW decodes, Len(decodes) \in Int
  PROVE  LET ps == prefillPlan(decodes)
         IN  /\ ps \in Seq(Chunk) /\ Distinct(ps)
             /\ \A i \in 1 .. Len(ps) :
                  /\ ps[i].r \in Range(running) /\ row[ps[i].r].phase = "prefill"
                  /\ ps[i].count \in Nat \ {0} /\ row[ps[i].r].prefillFrom + ps[i].count <= Len(row[ps[i].r].tokens)
<1> DEFINE N == Len(running)
           p0 == [full |-> FALSE, budget |-> MaxBatchedTokens - Len(decodes), bucket |-> 0, rows |-> <<>>]
           G == [p \in (1 .. N) \X Walk |-> visited(decodes, p[2], running[p[1]])]
           Def(g) == g = [i \in 0 .. N |-> IF i = 0 THEN p0 ELSE visited(decodes, g[i - 1], running[i])]
           plan == CHOOSE g : Def(g)
<1>0. prefillPlan(decodes) = plan[N].rows
  BY DEF prefillPlan, visited, widthOf
<1>1. /\ N \in Nat /\ Range(running) = {running[i] : i \in 1 .. N}
      /\ \A i \in 1 .. N : running[i] \in Range(running) /\ running[i] \in Req
      /\ \A i, j \in 1 .. N : running[i] = running[j] => i = j
  <2>1. running \in Seq(Req) /\ IsInjective(running)
    BY DEF Plannable, Queue
  <2> QED
    BY <2>1, RangeOf
<1>2. ASSUME NEW i \in 1 .. N, NEW v \in Walk
      PROVE  G[<<i, v>>] = visited(decodes, v, running[i]) /\ visited(decodes, v, running[i]) \in Walk
  <2>1. /\ running[i] \in Req /\ row[running[i]].tokens \in Seq(Tokens)
        /\ row[running[i]].prefillFrom \in Nat
    BY <1>1 DEF Plannable
  <2>2. visited(decodes, v, running[i]) \in Walk
    BY <2>1, VisitedIs
  <2> QED
    BY <2>2
<1>3. p0 \in Walk
  <2>1. <<>> \in Seq(Chunk) /\ MaxBatchedTokens \in Int
    BY PoolAssumption, EmptySeq
  <2> QED
    BY <2>1 DEF Walk
<1>4. PICK f : StepsFrom(f, N, Walk, p0, G)
  <2> HIDE DEF G, N, p0
  <2>1. StepsOn(N, Walk, G)
    BY <1>2 DEF StepsOn
  <2> QED
    BY <1>1, <1>3, <2>1, Recursion
<1>5. /\ f \in [0 .. N -> Walk] /\ f[0] = p0
      /\ \A i \in 1 .. N : f[i - 1] \in Walk /\ f[i] = visited(decodes, f[i - 1], running[i])
  <2> HIDE DEF G, N, p0
  <2>1. f \in [0 .. N -> Walk] /\ f[0] = p0 /\ \A i \in 1 .. N : f[i] = G[<<i, f[i - 1]>>]
    BY <1>4 DEF StepsFrom
  <2>2. ASSUME NEW i \in 1 .. N PROVE f[i - 1] \in Walk /\ f[i] = visited(decodes, f[i - 1], running[i])
    <3>1. i - 1 \in 0 .. N
      BY <1>1
    <3>2. f[i - 1] \in Walk /\ f[i] = G[<<i, f[i - 1]>>]
      BY <2>1, <3>1
    <3>3. G[<<i, f[i - 1]>>] = visited(decodes, f[i - 1], running[i])
      BY <1>2, <3>2
    <3> QED
      BY <3>2, <3>3
  <2> QED
    BY <2>1, <2>2
<1>6. Def(f)
  <2> HIDE DEF N, p0, G
  <2> QED
    BY <1>1, <1>5
<1>7. Def(plan)
  <2> HIDE DEF Def
  <2> QED
    BY <1>6
<1>8. plan[0] = p0 /\ \A i \in 1 .. N : plan[i] = visited(decodes, plan[i - 1], running[i])
  <2> HIDE DEF plan, p0
  <2>1. plan[0] = p0
    BY <1>1, <1>7
  <2>2. ASSUME NEW i \in 1 .. N PROVE plan[i] = visited(decodes, plan[i - 1], running[i])
    BY <1>1, <1>7
  <2> QED
    BY <2>1, <2>2
<1> HIDE DEF plan, G, Def
<1> DEFINE Sound(c) == /\ row[c.r].phase = "prefill" /\ c.count \in Nat \ {0}
                       /\ row[c.r].prefillFrom + c.count <= Len(row[c.r].tokens)
           Among(ps, n) == \A k \in 1 .. Len(ps) : \E j \in 1 .. n : ps[k].r = running[j]
           AllSound(ps) == \A k \in 1 .. Len(ps) : Sound(ps[k])
           Good(n) == plan[n] \in Walk /\ Distinct(plan[n].rows) /\ Among(plan[n].rows, n) /\ AllSound(plan[n].rows)
           U == {n \in Nat : n <= N => Good(n)}
<1>9. 0 \in U
  <2>1. p0.rows = <<>> /\ Len(p0.rows) = 0
    OBVIOUS
  <2>2. Good(0)
    BY <1>3, <1>8, <2>1 DEF Distinct
  <2> HIDE DEF Good
  <2> QED
    BY <2>2
<1>10. ASSUME NEW n \in U PROVE n + 1 \in U
  <2>1. SUFFICES ASSUME n + 1 <= N PROVE Good(n + 1)
    OBVIOUS
  <2>2. Good(n) /\ n \in Nat /\ n + 1 \in 1 .. N /\ (n + 1) - 1 = n
    BY <1>1, <2>1
  <2> DEFINE v == plan[n]
             w == plan[n + 1]
             r == running[n + 1]
             from == row[r].prefillFrom
             len == Len(row[r].tokens)
             c == chunkOf(len, from, v.budget)
  <2>3. w = visited(decodes, v, r)
    BY <1>8, <2>2
  <2>4. r \in Range(running) /\ r \in Req /\ row[r].tokens \in Seq(Tokens) /\ from \in Nat
    BY <1>1, <2>2 DEF Plannable
  <2>5. v \in Walk /\ v.rows \in Seq(Chunk) /\ v.budget \in Int
    BY <2>2 DEF Walk
  <2>6. /\ w \in Walk
        /\ w.rows = v.rows
           \/ (row[r].phase = "prefill" /\ v.budget > 0 /\ w.rows = Append(v.rows, [r |-> r, count |-> c]))
    <3> HIDE DEF r, v, w
    <3> QED
      BY <2>3, <2>4, <2>5, VisitedIs
  <2>7. CASE w.rows = v.rows
    <3> HIDE DEF v, w
    <3>1. Distinct(w.rows) /\ AllSound(w.rows)
      BY <2>2, <2>7 DEF v
    <3>2. Among(w.rows, n + 1)
      <4>1. ASSUME NEW k \in 1 .. Len(w.rows) PROVE \E j \in 1 .. n + 1 : w.rows[k].r = running[j]
        <5>1. PICK j \in 1 .. n : v.rows[k].r = running[j]
          BY <2>2, <2>7, <4>1 DEF v
        <5>2. j \in 1 .. n + 1
          BY <2>2
        <5> QED
          BY <2>7, <5>1, <5>2
      <4> QED
        BY <4>1
    <3> QED
      BY <2>6, <3>1, <3>2 DEF w
  <2>8. CASE row[r].phase = "prefill" /\ v.budget > 0 /\ w.rows = Append(v.rows, [r |-> r, count |-> c])
    <3> DEFINE e == [r |-> r, count |-> c]
    <3>1. len \in Nat /\ from < len
      BY <2>4, <2>8 DEF Plannable
    <3>2. c \in 1 .. len - from
      <4> HIDE DEF len, from, v
      <4> QED
        BY <2>4, <2>5, <2>8, <3>1, ChunkIs
    <3>3. Sound(e)
      <4> HIDE DEF c, r
      <4>1. e.r = r /\ e.count = c
        OBVIOUS
      <4>2. c \in Nat \ {0} /\ from + c <= len
        <5> HIDE DEF from, len
        <5> QED
          BY <2>4, <3>1, <3>2
      <4> HIDE DEF e
      <4> QED
        BY <2>8, <4>1, <4>2
    <3> HIDE DEF c, r
    <3>4. /\ Len(w.rows) = Len(v.rows) + 1 /\ Len(v.rows) \in Nat
          /\ \A k \in 1 .. Len(v.rows) : w.rows[k] = v.rows[k]
          /\ w.rows[Len(v.rows) + 1] = e
      <4> HIDE DEF w, v, e
      <4> QED
        BY <2>5, <2>8 DEF e
    <3>5. AllSound(w.rows)
      <4>1. AllSound(v.rows)
        BY <2>2
      <4> HIDE DEF w, v, e, Sound
      <4>2. ASSUME NEW k \in 1 .. Len(w.rows) PROVE Sound(w.rows[k])
        <5>1. CASE k = Len(v.rows) + 1
          BY <3>3, <3>4, <5>1
        <5>2. CASE k # Len(v.rows) + 1
          BY <3>4, <4>1, <5>2
        <5> QED
          BY <5>1, <5>2
      <4> QED
        BY <4>2
    <3>6. Among(w.rows, n + 1)
      <4>1. Among(v.rows, n)
        BY <2>2
      <4>0. e.r = running[n + 1]
        BY DEF r
      <4> HIDE DEF w, v, e
      <4>2. ASSUME NEW k \in 1 .. Len(w.rows) PROVE \E j \in 1 .. n + 1 : w.rows[k].r = running[j]
        <5>1. CASE k = Len(v.rows) + 1
          <6>1. w.rows[k].r = running[n + 1] /\ n + 1 \in 1 .. n + 1
            BY <2>2, <3>4, <4>0, <5>1
          <6> QED
            BY <6>1
        <5>2. CASE k # Len(v.rows) + 1
          <6>1. k \in 1 .. Len(v.rows) /\ w.rows[k] = v.rows[k]
            BY <3>4, <5>2
          <6>2. PICK j \in 1 .. n : v.rows[k].r = running[j]
            BY <4>1, <6>1
          <6>3. j \in 1 .. n + 1
            BY <2>2
          <6> QED
            BY <6>1, <6>2, <6>3
        <5> QED
          BY <5>1, <5>2
      <4> QED
        BY <4>2
    <3>7. Distinct(w.rows)
      <4>1. Among(v.rows, n) /\ Distinct(v.rows)
        BY <2>2
      <4>0. e.r = running[n + 1]
        BY DEF r
      <4>2. ASSUME NEW k \in 1 .. Len(v.rows) PROVE v.rows[k].r # e.r
        <5> HIDE DEF w, v, e
        <5>1. PICK j \in 1 .. n : v.rows[k].r = running[j]
          BY <4>1
        <5>2. j \in 1 .. N /\ j # n + 1
          BY <1>1, <2>2
        <5> QED
          BY <1>1, <2>2, <4>0, <5>1, <5>2
      <4> HIDE DEF w, v, e
      <4>3. ASSUME NEW i \in 1 .. Len(w.rows), NEW j \in 1 .. Len(w.rows), w.rows[i].r = w.rows[j].r PROVE i = j
        <5>1. CASE i \in 1 .. Len(v.rows) /\ j \in 1 .. Len(v.rows)
          BY <3>4, <4>1, <4>3, <5>1 DEF Distinct
        <5>2. CASE i \in 1 .. Len(v.rows) /\ j = Len(v.rows) + 1
          BY <3>4, <4>2, <4>3, <5>2
        <5>3. CASE i = Len(v.rows) + 1 /\ j \in 1 .. Len(v.rows)
          BY <3>4, <4>2, <4>3, <5>3
        <5>4. CASE i = Len(v.rows) + 1 /\ j = Len(v.rows) + 1
          BY <5>4
        <5> QED
          BY <3>4, <5>1, <5>2, <5>3, <5>4
      <4> QED
        BY <4>3 DEF Distinct
    <3> QED
      BY <2>6, <3>5, <3>6, <3>7
  <2> HIDE DEF w, v
  <2> QED
    BY <2>6, <2>7, <2>8
<1>11. Good(N)
  <2>1. U \in SUBSET Nat
    OBVIOUS
  <2>2. U = Nat
    <3> HIDE DEF U
    <3> QED
      BY <1>9, <1>10, <2>1, AllOf
  <2> HIDE DEF Good
  <2> QED
    BY <1>1, <2>2
<1> DEFINE ps == prefillPlan(decodes)
<1>12. ps = plan[N].rows /\ ps \in Seq(Chunk) /\ Distinct(ps) /\ Among(ps, N) /\ AllSound(ps)
  <2>1. plan[N].rows \in Seq(Chunk)
    BY <1>11 DEF Walk
  <2> QED
    BY <1>0, <1>11, <2>1 DEF plan
<1> HIDE DEF ps
<1>13. ASSUME NEW i \in 1 .. Len(ps) PROVE ps[i].r \in Range(running)
  BY <1>1, <1>12
<1> QED
  BY <1>12, <1>13 DEF ps

-----------------------------------------------------------------------------
(* The calls for a row *)

\* What taking the first call off the agenda leaves of each row's calls.
LEMMA TakenFor ==
  ASSUME NEW a, AgendaRight(a), a # <<>>
  PROVE  \A r \in Req :
           /\ callsFor(a, r) = callsFor(Tail(a), r) \cup (IF forRow(Head(a), r) THEN {Head(a)} ELSE {})
           /\ forRow(Head(a), r) => \A c \in callsFor(Tail(a), r) : turn(Head(a).op) < turn(c.op)
           /\ Head(a).op \in Lone => callsFor(Tail(a), r) = {}
<1>1. /\ Range(a) = {Head(a)} \cup Range(Tail(a))
      /\ \A c \in Range(Tail(a)) :
           /\ Head(a).op \in Lone => c.op = "end"
           /\ \A r \in Req : forRow(Head(a), r) /\ forRow(c, r) => turn(Head(a).op) < turn(c.op)
  BY TakenCall
<1> SUFFICES ASSUME NEW r \in Req
             PROVE  /\ callsFor(a, r) = callsFor(Tail(a), r) \cup (IF forRow(Head(a), r) THEN {Head(a)} ELSE {})
                    /\ forRow(Head(a), r) => \A c \in callsFor(Tail(a), r) : turn(Head(a).op) < turn(c.op)
                    /\ Head(a).op \in Lone => callsFor(Tail(a), r) = {}
  OBVIOUS
<1>2. callsFor(a, r) = callsFor(Tail(a), r) \cup (IF forRow(Head(a), r) THEN {Head(a)} ELSE {})
  BY <1>1 DEF callsFor
<1>3. forRow(Head(a), r) => \A c \in callsFor(Tail(a), r) : turn(Head(a).op) < turn(c.op)
  BY <1>1 DEF callsFor
<1>4. Head(a).op \in Lone => callsFor(Tail(a), r) = {}
  BY <1>1 DEF callsFor, forRow, RowOps
<1> QED
  BY <1>2, <1>3, <1>4

\* A call that is not for a row leaves the row's calls as they are.
LEMMA TakenForNone ==
  ASSUME NEW a, AgendaRight(a), a # <<>>, NEW r \in Req, ~ forRow(Head(a), r)
  PROVE  callsFor(Tail(a), r) = callsFor(a, r)
<1>1. callsFor(a, r) = callsFor(Tail(a), r) \cup (IF forRow(Head(a), r) THEN {Head(a)} ELSE {})
  BY TakenFor
<1> QED
  BY <1>1

\* s in the place of the first call of a.
InPlace(s, a) ==
  /\ Head(a).op \notin {"evict", "grow"}
  /\ \A c \in Range(s) :
       /\ c.op \in Lone => Head(a).op \in Lone
       /\ \A r \in Req : forRow(c, r) =>
            Head(a).op \in Lone \/ (forRow(Head(a), r) /\ turn(c.op) <= turn(Head(a).op))

\* A call's place may be taken by calls that may stand there.
LEMMA Replaced ==
  ASSUME NEW a, AgendaRight(a), a # <<>>, NEW s, AgendaRight(s), InPlace(s, a)
  PROVE  /\ AgendaRight(s \o Tail(a)) /\ Range(s \o Tail(a)) = Range(s) \cup Range(Tail(a))
         /\ \A r \in Req : callsFor(s \o Tail(a), r) = callsFor(s, r) \cup callsFor(Tail(a), r)
         /\ \A c \in Range(s \o Tail(a)) : c.op \in Lone => c \in Range(s)
<1> DEFINE t == Tail(a)
<1>1. /\ AgendaRight(t)
      /\ \A c \in Range(t) :
           /\ Head(a).op \in Lone => c.op = "end"
           /\ c.op \in Lone => Head(a).op \in ahead(c.op)
           /\ \A r \in Req : forRow(Head(a), r) /\ forRow(c, r) => turn(Head(a).op) < turn(c.op)
  BY TakenCall
<1>2. \A op : ahead(op) \subseteq {"evict", "grow"}
  BY DEF ahead
<1>3. \A c \in Range(t) : c.op \notin Lone
  BY <1>1, <1>2 DEF InPlace
<1>4. ASSUME NEW c \in Range(s), NEW d \in Range(t), NEW r \in Req, forRow(c, r), forRow(d, r)
      PROVE  turn(c.op) < turn(d.op)
  <2>1. Head(a).op \notin Lone
    BY <1>1, <1>4 DEF forRow, RowOps
  <2>2. forRow(Head(a), r) /\ turn(c.op) <= turn(Head(a).op)
    BY <1>4, <2>1 DEF InPlace
  <2>3. turn(Head(a).op) < turn(d.op)
    BY <1>1, <1>4, <2>2
  <2>4. \A op : turn(op) \in Int
    BY DEF turn
  <2> QED
    BY <2>2, <2>3, <2>4
<1>5. Follows(s, t)
  <2>1. ASSUME NEW c \in Range(s), NEW d \in Range(t)
        PROVE  /\ c.op \in Lone => d.op = "end"
               /\ d.op \in Lone => c.op \in ahead(d.op)
               /\ \A r \in Req : forRow(c, r) /\ forRow(d, r) => turn(c.op) < turn(d.op)
    BY <1>1, <1>3, <1>4 DEF InPlace
  <2> QED
    BY <2>1 DEF Follows
<1> HIDE DEF t
<1>6. AgendaRight(s \o t) /\ Range(s \o t) = Range(s) \cup Range(t)
  BY <1>1, <1>5, JoinedCalls
<1>7. ASSUME NEW r \in Req PROVE callsFor(s \o t, r) = callsFor(s, r) \cup callsFor(t, r)
  BY <1>6 DEF callsFor
<1> QED
  BY <1>3, <1>6, <1>7 DEF t

\* Nothing in its place.
LEMMA Dropped ==
  ASSUME NEW a, AgendaRight(a), a # <<>>
  PROVE  /\ <<>> \o Tail(a) = Tail(a) /\ AgendaRight(Tail(a)) /\ Range(Tail(a)) \subseteq Range(a)
         /\ Head(a).op \notin {"evict", "grow"} => \A c \in Range(Tail(a)) : c.op \notin Lone
<1>1. /\ Range(a) = {Head(a)} \cup Range(Tail(a)) /\ AgendaRight(Tail(a))
      /\ \A c \in Range(Tail(a)) : c.op \in Lone => Head(a).op \in ahead(c.op)
  BY TakenCall
<1>2. \A op : ahead(op) \subseteq {"evict", "grow"}
  BY DEF ahead
<1>3. <<>> \o Tail(a) = Tail(a)
  <2>1. Tail(a) \in Seq(Range(Tail(a)))
    BY <1>1 DEF AgendaRight
  <2> HIDE DEF AgendaRight
  <2> DEFINE t == Tail(a)
             S == Range(Tail(a))
  <2>2. t \in Seq(S)
    BY <2>1
  <2> HIDE DEF t, S
  <2>3. <<>> \o t = t
    BY <2>2
  <2> QED
    BY <2>3 DEF t
<1> QED
  BY <1>1, <1>2, <1>3

\* One call in its place.
LEMMA OneFor ==
  ASSUME NEW c
  PROVE  \A r : callsFor(<<c>>, r) = IF forRow(c, r) THEN {c} ELSE {}
<1>1. Range(<<c>>) = {c}
  BY DEF Range
<1> QED
  BY <1>1 DEF callsFor

\* An empty agenda has no call for anyone.
LEMMA NoneFor == \A r : callsFor(<<>>, r) = {}
<1>1. Range(<<>>) = {}
  BY DEF Range
<1> QED
  BY <1>1 DEF callsFor

-----------------------------------------------------------------------------
(* What the parts give *)

Contents ==
  /\ row \in [Req -> RowType]
  /\ result \in [Req -> {"none", "finished", "failed", "taken"}]
  /\ cell \in [Block -> [Offset -> Seq(Tokens)]] /\ state \in [Slot -> Seq(Tokens)]

\* The types follow from the pools and from what the pools do not speak of.
LEMMA TypesFromParts == Contents /\ Queue(waiting) /\ Pools => TypeOK
<1> SUFFICES ASSUME Contents, Queue(waiting), Pools PROVE TypeOK
  OBVIOUS
<1>1. /\ Queue(running) /\ FreeRight(free, ref) /\ SlotsRight(running, row, freeSlots)
      /\ BlocksRight(running, row, blocksUsed) /\ StoreRight(store)
  BY DEF Pools, PoolsRight
<1>2. running \in Seq(Req) /\ waiting \in Seq(Req)
  BY <1>1 DEF Queue
<1>3. blocksUsed \in Int
  <2>1. \A r \in Range(running) : row[r].own \in Int
    BY <1>1 DEF BlocksRight
  <2>2. owned(running, row) \in Seq(Int) /\ blocksUsed = total(owned(running, row))
    BY <1>1, <1>2, <2>1, OwnedIs DEF BlocksRight
  <2> DEFINE s == owned(running, row)
  <2> HIDE DEF s
  <2>3. \E g : SumsUp(g, s) /\ total(s) = g[Len(s)]
    BY <2>2, TotalIs DEF s
  <2> QED
    BY <2>2, <2>3 DEF SumsUp, s
<1>4. /\ free \in Seq(Block) /\ ref \in [Block -> Nat] /\ freeSlots \in Seq(Slot)
      /\ store \in Seq([tokens : Seq(Tokens), blocks : Seq(Block), state : Seq(Tokens)])
  BY <1>1 DEF FreeRight, SlotsRight, StoreRight, Entry
<1> QED
  BY <1>2, <1>3, <1>4 DEF TypeOK, Contents

\* What of the types the pools do not speak of.
LEMMA PartsFromTypes == TypeOK => Contents
  BY DEF TypeOK, Contents

-----------------------------------------------------------------------------
(* Steps that touch no row *)

\* The parts make the whole.
LEMMA Together ==
  /\ Contents /\ AgendaRight(agenda) /\ Queue(waiting) /\ Pools /\ Rows /\ Forwards /\ Admission
  => EngineInv
  BY TypesFromParts DEF EngineInv

\* The rows, their calls and the queues stay as they are.
LEMMA QuietStep ==
  ASSUME EngineInv, UNCHANGED <<waiting, running, row, result>>,
         \A r \in Req : callsFor(agenda', r) = callsFor(agenda, r),
         AgendaRight(agenda'), Pools', Forwards', Admission', UNCHANGED <<cell, state>>
  PROVE  EngineInv'
<1>1. Contents'
  BY DEF EngineInv, TypeOK, Contents
<1>2. (Queue(waiting))' /\ (AgendaRight(agenda))'
  BY DEF EngineInv
<1>3. Rows'
  <2>1. ASSUME NEW r \in Req
        PROVE  (RowRight(r, row[r], callsFor(agenda, r), Live(r), Queued(r), result[r]))'
    <3>1. RowRight(r, row[r], callsFor(agenda, r), Live(r), Queued(r), result[r])
      BY DEF EngineInv, Rows
    <3>2. Live(r)' = Live(r) /\ Queued(r)' = Queued(r)
      BY DEF Live, Queued
    <3> QED
      BY <3>1, <3>2
  <2> QED
    BY <2>1 DEF Rows
<1> QED
  BY <1>1, <1>2, <1>3, Together, PTL

\* No lone call is left that says something of the pools or of the rows.
LEMMA NoneLone ==
  ASSUME \A c \in Range(agenda') : c.op \notin {"forward", "adopt", "readmit"}
  PROVE  Forwards' /\ Admission'
BY DEF Forwards, Admission

\* A step that leaves rows and pools alone leaves them right.
LEMMA PoolsStand ==
  ASSUME Pools, UNCHANGED <<running, row, free, ref, freeSlots, store, blocksUsed>>
  PROVE  Pools'
BY DEF Pools

\* The tick's first call, with what is known of it.
LEMMA Doing ==
  ASSUME EngineInv, NEW op, doing(op)
  PROVE  /\ agenda # <<>> /\ AgendaRight(agenda) /\ call.op = op /\ CallType(call)
         /\ op = "forward" => ForwardType(call)
         /\ call \in Range(agenda) /\ Range(agenda) = {call} \cup Range(Tail(agenda))
<1>1. agenda # <<>> /\ AgendaRight(agenda) /\ call.op = op
  BY DEF EngineInv, doing, call
<1> QED
  BY <1>1, TakenCall DEF call

\* step takes the lock and starts to plan.
LEMMA StepBegins == EngineInv /\ StepBegin => EngineInv'
<1> SUFFICES ASSUME EngineInv, StepBegin PROVE EngineInv'
  OBVIOUS
<1> DEFINE p == [op |-> "plan"]
           e == [op |-> "end"]
<1>1. agenda = <<>> /\ agenda' = <<p, e>>
  BY DEF StepBegin, idle
<1>2. p.op = "plan" /\ e.op = "end"
  OBVIOUS
<1> HIDE DEF p, e
<1>3. CallType(p) /\ CallType(e) /\ p.op # "forward" /\ e.op # "forward"
  BY <1>2 DEF CallType, RowOps, Lone
<1>4. AgendaRight(<<p>>) /\ Range(<<p>>) = {p} /\ AgendaRight(<<e>>) /\ Range(<<e>>) = {e}
  BY <1>3, OneCall
<1>5. Follows(<<p>>, <<e>>)
  BY <1>2, <1>4 DEF Follows, Lone, forRow, RowOps
<1>6. <<p>> \o <<e>> = <<p, e>>
  BY PairOf
<1>7. AgendaRight(agenda') /\ Range(agenda') = {p, e}
  <2>1. AgendaRight(<<p>> \o <<e>>) /\ Range(<<p>> \o <<e>>) = Range(<<p>>) \cup Range(<<e>>)
    BY <1>4, <1>5, JoinedCalls
  <2>2. agenda' = <<p>> \o <<e>>
    BY <1>1, <1>6
  <2> QED
    BY <1>4, <2>1, <2>2
<1>8. ASSUME NEW r \in Req PROVE callsFor(agenda', r) = callsFor(agenda, r)
  <2>1. callsFor(agenda', r) = {}
    BY <1>2, <1>7 DEF callsFor, forRow, RowOps
  <2>2. callsFor(agenda, r) = {}
    BY <1>1, NoneFor
  <2> QED
    BY <2>1, <2>2
<1>9. Forwards' /\ Admission'
  BY <1>2, <1>7, NoneLone
<1>10. Pools'
  BY PoolsStand DEF EngineInv, StepBegin
<1> QED
  BY <1>7, <1>8, <1>9, <1>10, QuietStep DEF StepBegin, EngineInv

\* A call for no row makes way for others for no row.
LEMMA CallsStand ==
  ASSUME NEW a, AgendaRight(a), a # <<>>, Head(a).op \notin RowOps,
         NEW s, AgendaRight(s), InPlace(s, a), \A c \in Range(s) : c.op \notin RowOps
  PROVE  \A r \in Req : callsFor(s \o Tail(a), r) = callsFor(a, r)
<1> SUFFICES ASSUME NEW r \in Req PROVE callsFor(s \o Tail(a), r) = callsFor(a, r)
  OBVIOUS
<1>1. callsFor(s \o Tail(a), r) = callsFor(s, r) \cup callsFor(Tail(a), r)
  BY Replaced
<1>2. callsFor(a, r) = callsFor(Tail(a), r) \cup (IF forRow(Head(a), r) THEN {Head(a)} ELSE {})
  BY TakenFor
<1>3. callsFor(s, r) = {} /\ ~ forRow(Head(a), r)
  BY DEF callsFor, forRow
<1> QED
  BY <1>1, <1>2, <1>3

\* One lone call that is planned for nothing takes the place of another.
LEMMA LoneForLone ==
  ASSUME NEW a, AgendaRight(a), a # <<>>, Head(a).op \in Lone, NEW c, CallType(c), c.op \in Lone \ {"forward"}
  PROVE  /\ AgendaRight(<<c>> \o Tail(a)) /\ \A r \in Req : callsFor(<<c>> \o Tail(a), r) = callsFor(a, r)
         /\ \A d \in Range(<<c>> \o Tail(a)) : d.op \in Lone => d = c
<1>1. AgendaRight(<<c>>) /\ Range(<<c>>) = {c}
  BY OneCall
<1>2. InPlace(<<c>>, a)
  BY <1>1 DEF InPlace, Lone, forRow, RowOps
<1>3. Head(a).op \notin RowOps /\ c.op \notin RowOps
  BY DEF Lone, RowOps
<1> QED
  BY <1>1, <1>2, <1>3, Replaced, CallsStand

\* Nobody is admitted: no slot, or no room in the batch.
LEMMA NoneAdmitted == EngineInv /\ AdmitNone => EngineInv'
<1> SUFFICES ASSUME EngineInv, AdmitNone PROVE EngineInv'
  OBVIOUS
<1> DEFINE c == [op |-> "batch"]
<1>1. agenda # <<>> /\ AgendaRight(agenda) /\ Head(agenda).op = "plan"
  BY Doing DEF AdmitNone, call
<1>2. agenda' = <<c>> \o Tail(agenda)
  BY DEF AdmitNone, next
<1>3. c.op = "batch"
  OBVIOUS
<1> HIDE DEF c
<1>4. CallType(c) /\ c.op \in Lone \ {"forward"} /\ Head(agenda).op \in Lone
  BY <1>1, <1>3 DEF CallType, RowOps, Lone
<1>5. /\ AgendaRight(agenda') /\ \A r \in Req : callsFor(agenda', r) = callsFor(agenda, r)
      /\ \A d \in Range(agenda') : d.op \in Lone => d = c
  BY <1>1, <1>2, <1>4, LoneForLone
<1>6. Forwards' /\ Admission'
  BY <1>3, <1>5, NoneLone DEF Lone
<1>7. Pools'
  BY PoolsStand DEF EngineInv, AdmitNone
<1> QED
  BY <1>5, <1>6, <1>7, QuietStep DEF AdmitNone, EngineInv

\* The forward raises, and step's handler is next.
LEMMA ForwardRaised == EngineInv /\ ForwardRaises => EngineInv'
<1> SUFFICES ASSUME EngineInv, ForwardRaises PROVE EngineInv'
  OBVIOUS
<1> DEFINE c == [op |-> "failall"]
<1>1. agenda # <<>> /\ AgendaRight(agenda) /\ Head(agenda).op = "forward"
  BY Doing DEF ForwardRaises, call
<1>2. agenda' = <<c>> \o Tail(agenda)
  BY DEF ForwardRaises, next
<1>3. c.op = "failall"
  OBVIOUS
<1> HIDE DEF c
<1>4. CallType(c) /\ c.op \in Lone \ {"forward"} /\ Head(agenda).op \in Lone
  BY <1>1, <1>3 DEF CallType, RowOps, Lone
<1>5. /\ AgendaRight(agenda') /\ \A r \in Req : callsFor(agenda', r) = callsFor(agenda, r)
      /\ \A d \in Range(agenda') : d.op \in Lone => d = c
  BY <1>1, <1>2, <1>4, LoneForLone
<1>6. Forwards' /\ Admission'
  BY <1>3, <1>5, NoneLone DEF Lone
<1>7. Pools'
  BY PoolsStand DEF EngineInv, ForwardRaises
<1> QED
  BY <1>5, <1>6, <1>7, QuietStep DEF ForwardRaises, EngineInv

-----------------------------------------------------------------------------
(* Steps of the pools alone *)

neededIn(E, toks) == blocksForTokens(Len(toks)) - Len(hitIn(E, toks).blocks)

\* What _admit counts as needed for the head of the queue.
LEMMA NeededIs ==
  StoreRight(store) /\ row \in [Req -> RowType] =>
    \A r \in Req : row[r].tokens \in Seq(Tokens) /\ needed(r) = neededIn(Range(store), row[r].tokens)
<1> SUFFICES ASSUME StoreRight(store), row \in [Req -> RowType], NEW r \in Req
             PROVE  row[r].tokens \in Seq(Tokens) /\ needed(r) = neededIn(Range(store), row[r].tokens)
  OBVIOUS
<1>1. row[r].tokens \in Seq(Tokens)
  BY DEF RowType
<1> QED
  BY <1>1, MatchIs DEF needed, neededIn

\* It is a number.
LEMMA NeededInt ==
  ASSUME EngineInv, NEW r \in Req
  PROVE  Len(free) \in Int /\ needed(r) \in Int
<1>1. PoolsRight(running, row, free, ref, freeSlots, store, blocksUsed) /\ row \in [Req -> RowType]
  BY DEF EngineInv, Pools, TypeOK
<1>2. Len(free) \in Int
  BY <1>1 DEF PoolsRight, FreeRight
<1> DEFINE toks == row[r].tokens
           E == Range(store)
<1>3. needed(r) = neededIn(E, toks) /\ toks \in Seq(Tokens) /\ StoreRight(store)
  BY <1>1, NeededIs DEF PoolsRight
<1> HIDE DEF toks
<1>4. hitIn(E, toks).blocks \in Seq(Block)
  <2>1. CASE toks # <<>>
    BY <1>3, <2>1, HitIs
  <2>2. CASE toks = <<>>
    <3>1. hitIn(E, toks) = NoHit \/ longestIn(E, toks) \in E
      BY <1>3, LongestIs, EntriesOnce DEF hitIn
    <3>2. NoHit.blocks \in Seq(Block)
      BY DEF NoHit
    <3>3. \A x \in E : x.blocks \in Seq(Block)
      BY <1>3, EntriesOnce
    <3> QED
      BY <3>1, <3>2, <3>3 DEF hitIn
  <2> QED
    BY <2>1, <2>2
<1>5. blocksForTokens(Len(toks)) \in Int
  <2>1. Len(toks) \in Nat /\ BlockTokens \in Nat \ {0}
    BY <1>3, PoolAssumption
  <2> QED
    BY <2>1 DEF blocksForTokens
<1> QED
  BY <1>2, <1>3, <1>4, <1>5 DEF neededIn

\* What the invariant says of the pools and of the head of the queue.
LEMMA WaitingHead ==
  ASSUME EngineInv, waiting # <<>>
  PROVE  /\ Head(waiting) \in Req /\ Head(waiting) \in Range(waiting) /\ row \in [Req -> RowType]
         /\ row[Head(waiting)].tokens \in Seq(Tokens)
         /\ StoreRight(store) /\ PoolsRight(running, row, free, ref, freeSlots, store, blocksUsed)
<1>1. Queue(waiting) /\ row \in [Req -> RowType]
  BY DEF EngineInv, TypeOK
<1>2. Head(waiting) \in Req /\ Head(waiting) \in Range(waiting)
  BY <1>1, TailOf DEF Queue
<1>3. row[Head(waiting)].tokens \in Seq(Tokens)
  BY <1>1, <1>2 DEF RowType
<1>4. PoolsRight(running, row, free, ref, freeSlots, store, blocksUsed)
  BY DEF EngineInv, Pools
<1> QED
  BY <1>1, <1>2, <1>3, <1>4 DEF PoolsRight

\* A lookup reorders the store, and changes nothing a row's admission depends on.
LEMMA LookedUp ==
  ASSUME EngineInv, waiting # <<>>, store' = touched(row[Head(waiting)].tokens),
         UNCHANGED <<running, row, free, ref, freeSlots, blocksUsed>>
  PROVE  Pools' /\ \A r \in Req : needed(r)' = needed(r)
<1>1. /\ Head(waiting) \in Req /\ Head(waiting) \in Range(waiting) /\ row \in [Req -> RowType]
      /\ row[Head(waiting)].tokens \in Seq(Tokens)
      /\ StoreRight(store) /\ PoolsRight(running, row, free, ref, freeSlots, store, blocksUsed)
  BY WaitingHead
<1>2. StoreRight(store') /\ Range(store') = Range(store)
  BY <1>1, TouchedStore
<1>3. PoolsRight(running, row, free, ref, freeSlots, store', blocksUsed)
  BY <1>1, <1>2, ReorderedStore
<1>4. Pools'
  BY <1>3 DEF Pools
<1>5. (StoreRight(store) /\ row \in [Req -> RowType])'
  BY <1>1, <1>2
<1>6. (\A r \in Req : row[r].tokens \in Seq(Tokens) /\ needed(r) = neededIn(Range(store), row[r].tokens))'
  BY <1>5, NeededIs, PTL
<1>7. \A r \in Req : needed(r)' = neededIn(Range(store), row[r].tokens)
  BY <1>2, <1>6
<1>8. \A r \in Req : needed(r) = neededIn(Range(store), row[r].tokens)
  BY <1>1, NeededIs
<1> QED
  BY <1>4, <1>7, <1>8

\* The head of the queue is looked at, and what _admit does next is on the agenda.
LEMMA HeadAdmitted == EngineInv /\ AdmitHead => EngineInv'
<1> SUFFICES ASSUME EngineInv, AdmitHead PROVE EngineInv'
  OBVIOUS
<1> DEFINE r == Head(waiting)
           a == [op |-> "adopt"]
           b == [op |-> "batch"]
           e == [op |-> "evict", until |-> needed(r)]
           o == [op |-> "readmit"]
<1>1. agenda # <<>> /\ AgendaRight(agenda) /\ Head(agenda).op = "plan"
  BY Doing DEF AdmitHead, call
<1>2. /\ waiting # <<>> /\ roomForOne /\ store' = touched(row[r].tokens)
      /\ UNCHANGED <<waiting, running, row, result, free, ref, cell, freeSlots, state, blocksUsed>>
  BY DEF AdmitHead, roomForOne
<1>3. Pools' /\ \A q \in Req : needed(q)' = needed(q)
  <2> HIDE DEF r
  <2> QED
    BY <1>2, LookedUp DEF r
<1>4. roomForOne'
  BY <1>2 DEF roomForOne
<1>5. r \in Req /\ r' = r
  BY <1>2, WaitingHead
<1>6. \/ Len(free) >= needed(r) /\ agenda' = <<a>> \o Tail(agenda)
      \/ agenda' = <<b>> \o Tail(agenda)
      \/ agenda' = <<e, o>> \o Tail(agenda)
  BY DEF AdmitHead, next, admitVerdict
<1>7. a.op = "adopt" /\ b.op = "batch" /\ e.op = "evict" /\ o.op = "readmit"
  OBVIOUS
<1> HIDE DEF a, b, e, o
<1>8. /\ CallType(a) /\ CallType(b) /\ CallType(e) /\ CallType(o)
      /\ a.op \in Lone \ {"forward"} /\ b.op \in Lone \ {"forward"} /\ Head(agenda).op \in Lone
  BY <1>1, <1>7 DEF CallType, RowOps, Lone
<1>9. ASSUME AgendaRight(agenda'), \A q \in Req : callsFor(agenda', q) = callsFor(agenda, q),
             \A d \in Range(agenda') : d.op # "forward" /\ (d.op = "adopt" => needed(r) <= Len(free))
      PROVE  EngineInv'
  <2>1. Forwards'
    BY <1>9 DEF Forwards
  <2>2. Admission'
    BY <1>2, <1>3, <1>4, <1>5, <1>9 DEF Admission
  <2> HIDE DEF r
  <2> QED
    BY <1>2, <1>3, <1>9, <2>1, <2>2, QuietStep DEF EngineInv
<1>10. CASE Len(free) >= needed(r) /\ agenda' = <<a>> \o Tail(agenda)
  <2>1. /\ AgendaRight(agenda') /\ \A q \in Req : callsFor(agenda', q) = callsFor(agenda, q)
        /\ \A d \in Range(agenda') : d.op \in Lone => d = a
    BY <1>1, <1>8, <1>10, LoneForLone
  <2>2. \A d \in Range(agenda') : d.op # "forward" /\ (d.op = "adopt" => needed(r) <= Len(free))
    <3>1. needed(r) <= Len(free)
      <4>2. Len(free) \in Int /\ needed(r) \in Int
        <5> HIDE DEF r
        <5> QED
          BY <1>5, NeededInt
      <4> QED
        BY <1>10, <4>2
    <3> QED
      BY <1>7, <2>1, <3>1 DEF Lone
  <2> QED
    BY <1>9, <2>1, <2>2
<1>11. CASE agenda' = <<b>> \o Tail(agenda)
  <2>1. /\ AgendaRight(agenda') /\ \A q \in Req : callsFor(agenda', q) = callsFor(agenda, q)
        /\ \A d \in Range(agenda') : d.op \in Lone => d = b
    BY <1>1, <1>8, <1>11, LoneForLone
  <2>2. \A d \in Range(agenda') : d.op # "forward" /\ d.op # "adopt"
    BY <1>7, <2>1 DEF Lone
  <2> QED
    BY <1>9, <2>1, <2>2
<1>12. CASE agenda' = <<e, o>> \o Tail(agenda)
  <2> DEFINE s == <<e, o>>
  <2>1. AgendaRight(s) /\ Range(s) = {e, o}
    <3>1. AgendaRight(<<e>>) /\ Range(<<e>>) = {e} /\ AgendaRight(<<o>>) /\ Range(<<o>>) = {o}
      BY <1>7, <1>8, OneCall
    <3>2. Follows(<<e>>, <<o>>)
      BY <1>7, <3>1 DEF Follows, Lone, ahead, forRow, RowOps
    <3>3. AgendaRight(<<e>> \o <<o>>) /\ Range(<<e>> \o <<o>>) = Range(<<e>>) \cup Range(<<o>>)
      BY <3>1, <3>2, JoinedCalls
    <3>4. s = <<e>> \o <<o>>
      BY PairOf
    <3> QED
      BY <3>1, <3>3, <3>4
  <2> HIDE DEF s
  <2>2. InPlace(s, agenda)
    BY <1>1, <1>7, <1>8, <2>1 DEF InPlace, forRow, RowOps
  <2>3. Head(agenda).op \notin RowOps /\ \A c \in Range(s) : c.op \notin RowOps
    BY <1>1, <1>7, <2>1 DEF RowOps
  <2>4. agenda' = s \o Tail(agenda)
    BY <1>12 DEF s
  <2>5. /\ AgendaRight(agenda') /\ \A c \in Range(agenda') : c.op \in Lone => c \in Range(s)
        /\ \A q \in Req : callsFor(agenda', q) = callsFor(agenda, q)
    BY <1>1, <2>1, <2>2, <2>3, <2>4, Replaced, CallsStand
  <2>6. \A d \in Range(agenda') : d.op # "forward" /\ d.op # "adopt"
    BY <1>7, <2>1, <2>5 DEF Lone
  <2> QED
    BY <1>9, <2>5, <2>6
<1> QED
  BY <1>6, <1>10, <1>11, <1>12

\* After an eviction _admit looks again.
LEMMA ReadmittedHead == EngineInv /\ Readmit => EngineInv'
<1> SUFFICES ASSUME EngineInv, Readmit PROVE EngineInv'
  OBVIOUS
<1> DEFINE r == Head(waiting)
           a == [op |-> "adopt"]
           b == [op |-> "batch"]
<1>1. agenda # <<>> /\ AgendaRight(agenda) /\ Head(agenda).op = "readmit" /\ Head(agenda) \in Range(agenda)
  BY Doing DEF Readmit, call
<1>2. /\ store' = touched(row[r].tokens)
      /\ UNCHANGED <<waiting, running, row, result, free, ref, cell, freeSlots, state, blocksUsed>>
  BY DEF Readmit
<1>3. roomForOne /\ waiting # <<>>
  BY <1>1 DEF EngineInv, Admission, roomForOne
<1>4. Pools' /\ \A q \in Req : needed(q)' = needed(q)
  <2> HIDE DEF r
  <2> QED
    BY <1>2, <1>3, LookedUp DEF r
<1>5. roomForOne'
  BY <1>2, <1>3 DEF roomForOne
<1>6. r \in Req /\ r' = r
  BY <1>2, <1>3, WaitingHead
<1>7. Len(free) \in Int /\ needed(r) \in Int
  <2> HIDE DEF r
  <2> QED
    BY <1>6, NeededInt
<1>8. \/ Len(free) >= needed(r) /\ agenda' = <<a>> \o Tail(agenda)
      \/ agenda' = <<b>> \o Tail(agenda)
  BY <1>7 DEF Readmit, next
<1>9. a.op = "adopt" /\ b.op = "batch"
  OBVIOUS
<1> HIDE DEF a, b
<1>10. /\ CallType(a) /\ CallType(b)
       /\ a.op \in Lone \ {"forward"} /\ b.op \in Lone \ {"forward"} /\ Head(agenda).op \in Lone
  BY <1>1, <1>9 DEF CallType, RowOps, Lone
<1>11. ASSUME AgendaRight(agenda'), \A q \in Req : callsFor(agenda', q) = callsFor(agenda, q),
              \A d \in Range(agenda') : d.op # "forward" /\ (d.op = "adopt" => needed(r) <= Len(free))
       PROVE  EngineInv'
  <2>1. Forwards'
    BY <1>11 DEF Forwards
  <2>2. Admission'
    BY <1>2, <1>4, <1>5, <1>6, <1>11 DEF Admission
  <2> HIDE DEF r
  <2> QED
    BY <1>2, <1>4, <1>11, <2>1, <2>2, QuietStep DEF EngineInv
<1>12. CASE Len(free) >= needed(r) /\ agenda' = <<a>> \o Tail(agenda)
  <2>1. /\ AgendaRight(agenda') /\ \A q \in Req : callsFor(agenda', q) = callsFor(agenda, q)
        /\ \A d \in Range(agenda') : d.op \in Lone => d = a
    BY <1>1, <1>10, <1>12, LoneForLone
  <2>2. needed(r) <= Len(free)
    BY <1>7, <1>12
  <2>3. \A d \in Range(agenda') : d.op # "forward" /\ (d.op = "adopt" => needed(r) <= Len(free))
    BY <1>9, <2>1, <2>2 DEF Lone
  <2> QED
    BY <1>11, <2>1, <2>3
<1>13. CASE agenda' = <<b>> \o Tail(agenda)
  <2>1. /\ AgendaRight(agenda') /\ \A q \in Req : callsFor(agenda', q) = callsFor(agenda, q)
        /\ \A d \in Range(agenda') : d.op \in Lone => d = b
    BY <1>1, <1>10, <1>13, LoneForLone
  <2>2. \A d \in Range(agenda') : d.op # "forward" /\ d.op # "adopt"
    BY <1>9, <2>1 DEF Lone
  <2> QED
    BY <1>11, <2>1, <2>2
<1> QED
  BY <1>8, <1>12, <1>13

\* Dropping an entry keeps the pools right.
LEMMA EntryDropped ==
  ASSUME EngineInv, NEW k \in 1 .. Len(store), dropEntry(k),
         UNCHANGED <<running, row, freeSlots, blocksUsed>>
  PROVE  Pools'
<1>1. PoolsRight(running, row, free, ref, freeSlots, store, blocksUsed)
  BY DEF EngineInv, Pools
<1>2. PoolsRight(running, row, freeMore(free, ref, store[k].blocks), refsLess(ref, store[k].blocks), freeSlots,
                 RemoveAt(store, k), blocksUsed)
  BY <1>1, DroppedEntry
<1> QED
  BY <1>2 DEF Pools, dropEntry, refsFreed, freeAfter, freeMore, refsLess

\* evict_until_free drops the oldest entry.
LEMMA OneEvicted == EngineInv /\ EvictOne => EngineInv'
<1> SUFFICES ASSUME EngineInv, EvictOne PROVE EngineInv'
  OBVIOUS
<1>1. agenda # <<>> /\ AgendaRight(agenda) /\ Head(agenda).op = "evict" /\ Range(agenda) = {Head(agenda)} \cup Range(Tail(agenda))
  BY Doing DEF EvictOne, call
<1>2. UNCHANGED <<waiting, running, row, result, cell, freeSlots, state, blocksUsed, agenda>>
  BY DEF EvictOne
<1>3. 1 \in 1 .. Len(store)
  <2>1. store \in Seq(Entry) /\ store # <<>>
    BY DEF EvictOne, EngineInv, Pools, PoolsRight, StoreRight
  <2> QED
    BY <2>1
<1>4. Pools'
  BY <1>2, <1>3, EntryDropped DEF EvictOne
<1>5. Forwards'
  <2>1. Forwards
    BY DEF EngineInv
  <2> QED
    BY <1>2, <2>1 DEF Forwards, ForwardFits, Live
<1>6. Admission'
  <2>1. \A c \in Range(agenda) : c.op # "adopt"
    BY <1>1, TakenCall DEF ahead, Lone
  <2>2. Admission
    BY DEF EngineInv
  <2> QED
    BY <1>2, <2>1, <2>2 DEF Admission, roomForOne
<1> QED
  BY <1>1, <1>2, <1>4, <1>5, <1>6, QuietStep DEF EngineInv

\* It stops when there is enough.
LEMMA EnoughEvicted == EngineInv /\ EvictEnough => EngineInv'
<1> SUFFICES ASSUME EngineInv, EvictEnough PROVE EngineInv'
  OBVIOUS
<1>1. agenda # <<>> /\ AgendaRight(agenda) /\ Head(agenda).op = "evict" /\ Range(agenda) = {Head(agenda)} \cup Range(Tail(agenda))
  BY Doing DEF EvictEnough, call
<1>2. UNCHANGED <<waiting, running, row, result, free, ref, cell, freeSlots, state, store, blocksUsed>>
  BY DEF EvictEnough
<1>3. agenda' = Tail(agenda) /\ AgendaRight(agenda') /\ Range(agenda') \subseteq Range(agenda)
  BY <1>1, Dropped DEF EvictEnough, next
<1>4. ASSUME NEW r \in Req PROVE callsFor(agenda', r) = callsFor(agenda, r)
  <2>1. ~ forRow(Head(agenda), r)
    BY <1>1 DEF forRow, RowOps
  <2> QED
    BY <1>1, <1>3, <2>1, TakenForNone
<1>5. Forwards'
  <2>1. ASSUME NEW c \in Range(agenda'), c.op = "forward" PROVE ForwardFits(c)'
    <3>1. ForwardFits(c) /\ ForwardType(c)
      BY <1>1, <1>3, <2>1 DEF EngineInv, Forwards, AgendaRight
    <3>2. \A d \in Range(c.decodes) : opsFor(agenda', d.r) = opsFor(agenda, d.r)
      BY <1>4, <3>1 DEF opsFor, ForwardType
    <3> QED
      BY <1>2, <3>1, <3>2 DEF ForwardFits, Live
  <2> QED
    BY <2>1 DEF Forwards
<1>6. Admission'
  <2>1. \A c \in Range(agenda) : c.op # "adopt"
    BY <1>1, TakenCall DEF ahead, Lone
  <2>2. Admission
    BY DEF EngineInv
  <2> QED
    BY <1>2, <1>3, <2>1, <2>2 DEF Admission, roomForOne
<1>7. Pools'
  BY PoolsStand DEF EngineInv, EvictEnough
<1> QED
  BY <1>2, <1>3, <1>4, <1>5, <1>6, <1>7, QuietStep DEF EngineInv

\* insert drops the oldest entry when the store is full.
LEMMA StoreTrimmed == EngineInv /\ Trim => EngineInv'
<1> SUFFICES ASSUME EngineInv, Trim PROVE EngineInv'
  OBVIOUS
<1>1. agenda # <<>> /\ AgendaRight(agenda) /\ Head(agenda).op = "trim" /\ Range(agenda) = {Head(agenda)} \cup Range(Tail(agenda))
  BY Doing DEF Trim, call
<1>2. UNCHANGED <<waiting, running, row, result, cell, freeSlots, state, blocksUsed>>
  BY DEF Trim
<1>3. agenda' = Tail(agenda) \/ agenda' = agenda
  BY <1>1, Dropped DEF Trim, next
<1>4. AgendaRight(agenda') /\ Range(agenda') \subseteq Range(agenda)
  BY <1>1, <1>3, Dropped
<1>5. ASSUME NEW r \in Req PROVE callsFor(agenda', r) = callsFor(agenda, r)
  <2>1. ~ forRow(Head(agenda), r)
    BY <1>1 DEF forRow, RowOps
  <2> QED
    BY <1>1, <1>3, <2>1, TakenForNone
<1>6. Forwards' /\ Admission'
  <2>1. \A c \in Range(agenda) : c.op \notin Lone
    <3>1. \A c \in Range(Tail(agenda)) : c.op \in Lone => Head(agenda).op \in ahead(c.op)
      BY <1>1, TakenCall
    <3>2. \A op : "trim" \notin ahead(op)
      BY DEF ahead
    <3> QED
      BY <1>1, <3>1, <3>2 DEF Lone
  <2> QED
    BY <1>4, <2>1, NoneLone DEF Lone
<1>7. Pools'
  <2>1. CASE Len(store) > Capacity
    <3>1. 1 \in 1 .. Len(store)
      <4>1. store \in Seq(Entry) /\ Capacity \in Nat
        BY PoolAssumption DEF EngineInv, Pools, PoolsRight, StoreRight
      <4> QED
        BY <2>1, <4>1
    <3> QED
      BY <1>2, <2>1, <3>1, EntryDropped DEF Trim
  <2>2. CASE ~ (Len(store) > Capacity)
    BY <1>2, <2>2, PoolsStand DEF Trim, EngineInv
  <2> QED
    BY <2>1, <2>2
<1> QED
  BY <1>2, <1>4, <1>5, <1>6, <1>7, QuietStep DEF EngineInv

\* retire drops the entry the row has outgrown.
LEMMA EntryRetired == EngineInv /\ Retire => EngineInv'
<1> SUFFICES ASSUME EngineInv, Retire PROVE EngineInv'
  OBVIOUS
<1>1. agenda # <<>> /\ AgendaRight(agenda) /\ Head(agenda).op = "retire" /\ Range(agenda) = {Head(agenda)} \cup Range(Tail(agenda))
  BY Doing DEF Retire, call
<1>2. UNCHANGED <<waiting, running, row, result, cell, freeSlots, state, blocksUsed>>
  BY DEF Retire
<1>3. agenda' = Tail(agenda) /\ AgendaRight(agenda') /\ Range(agenda') \subseteq Range(agenda)
      /\ \A c \in Range(agenda') : c.op \notin Lone
  BY <1>1, Dropped DEF Retire, next
<1>4. ASSUME NEW r \in Req PROVE callsFor(agenda', r) = callsFor(agenda, r)
  <2>1. ~ forRow(Head(agenda), r)
    BY <1>1 DEF forRow, RowOps
  <2> QED
    BY <1>1, <1>3, <2>1, TakenForNone
<1>5. Forwards' /\ Admission'
  BY <1>3, NoneLone DEF Lone
<1>6. Pools'
  <2>1. CASE stored(call.key)
    <3>1. indexOf(call.key) \in 1 .. Len(store)
      <4>1. store \in Seq(Entry)
        BY DEF EngineInv, Pools, PoolsRight, StoreRight
      <4>2. DOMAIN store = 1 .. Len(store)
        BY <4>1
      <4>3. \E i \in DOMAIN store : store[i].tokens = call.key
        BY <2>1 DEF stored
      <4> QED
        BY <4>2, <4>3 DEF indexOf
    <3> QED
      BY <1>2, <2>1, <3>1, EntryDropped DEF Retire
  <2>2. CASE ~ stored(call.key)
    BY <1>2, <2>2, PoolsStand DEF Retire, EngineInv
  <2> QED
    BY <2>1, <2>2
<1> QED
  BY <1>2, <1>3, <1>4, <1>5, <1>6, QuietStep DEF EngineInv

-----------------------------------------------------------------------------
(* Steps of one row *)

\* Only row r, its calls and its place change.
LEMMA RowStep ==
  ASSUME EngineInv, NEW r \in Req,
         \A q \in Req \ {r} : /\ row'[q] = row[q] /\ result'[q] = result[q]
                              /\ callsFor(agenda', q) = callsFor(agenda, q)
                              /\ Live(q)' <=> Live(q)
                              /\ Queued(q)' <=> Queued(q),
         RowRight(r, row'[r], callsFor(agenda', r), Live(r)', Queued(r)', result'[r]),
         Contents', AgendaRight(agenda'), Queue(waiting'), Pools', Forwards', Admission'
  PROVE  EngineInv'
<1>1. Rows'
  <2>1. ASSUME NEW q \in Req
        PROVE  (RowRight(q, row[q], callsFor(agenda, q), Live(q), Queued(q), result[q]))'
    <3>1. CASE q = r
      BY <3>1
    <3>2. CASE q # r
      <4>1. RowRight(q, row[q], callsFor(agenda, q), Live(q), Queued(q), result[q])
        BY DEF EngineInv, Rows
      <4>2. Live(q)' = Live(q) /\ Queued(q)' = Queued(q)
        BY <3>2 DEF Live, Queued
      <4> QED
        BY <3>2, <4>1, <4>2
    <3> QED
      BY <3>1, <3>2
  <2> QED
    BY <2>1 DEF Rows
<1>2. (Queue(waiting))' /\ (AgendaRight(agenda))'
  OBVIOUS
<1> QED
  BY <1>1, <1>2, Together, PTL

\* What is known of a row of the engine.
LEMMA RowKnown ==
  ASSUME EngineInv, NEW r \in Req
  PROVE  /\ row \in [Req -> RowType] /\ row[r] \in RowType
         /\ RowRight(r, row[r], callsFor(agenda, r), Live(r), Queued(r), result[r])
         /\ Live(r) => /\ LiveRight(row[r], r, callsFor(agenda, r), opsFor(agenda, r)) /\ result[r] = "none"
                       /\ ~ Queued(r) /\ row[r].slot \in Slot /\ state[row[r].slot] \in Seq(Tokens)
         /\ \/ Live(r) \/ callsFor(agenda, r) = {} \/ opsFor(agenda, r) \subseteq {"complete"}
<1>1. RowRight(r, row[r], callsFor(agenda, r), Live(r), Queued(r), result[r])
  BY DEF EngineInv, Rows
<1>2. row \in [Req -> RowType] /\ row[r] \in RowType /\ state \in [Slot -> Seq(Tokens)]
  BY DEF EngineInv, TypeOK
<1>3. Live(r) => row[r].slot \in Slot
  BY DEF EngineInv, Pools, PoolsRight, SlotsRight, Live
<1>4. \/ Live(r) \/ callsFor(agenda, r) = {} \/ opsFor(agenda, r) \subseteq {"complete"}
  BY <1>1 DEF RowRight, opsFor
<1> QED
  BY <1>1, <1>2, <1>3, <1>4 DEF RowRight, opsFor

\* The row of a call.
LEMMA CallOfLive ==
  ASSUME EngineInv, NEW op \in RowOps, doing(op)
  PROVE  /\ call.r \in Req /\ forRow(call, call.r)
         /\ op # "complete" => Live(call.r)
         /\ callsFor(agenda, call.r) = callsFor(Tail(agenda), call.r) \cup {call}
         /\ opsFor(agenda, call.r) = opsFor(Tail(agenda), call.r) \cup {op}
         /\ \A o \in opsFor(Tail(agenda), call.r) : o \in RowOps /\ turn(op) < turn(o)
         /\ \A q \in Req \ {call.r} : callsFor(agenda, q) = callsFor(Tail(agenda), q)
<1>1. agenda # <<>> /\ AgendaRight(agenda) /\ call.op = op /\ CallType(call)
  BY Doing
<1>2. call.r \in Req /\ forRow(call, call.r)
  BY <1>1 DEF CallType, forRow
<1>3. /\ callsFor(agenda, call.r) = callsFor(Tail(agenda), call.r) \cup {call}
      /\ \A c \in callsFor(Tail(agenda), call.r) : turn(op) < turn(c.op)
      /\ \A q \in Req \ {call.r} : callsFor(agenda, q) = callsFor(Tail(agenda), q)
  <2>1. \A q \in Req :
           /\ callsFor(agenda, q) = callsFor(Tail(agenda), q) \cup (IF forRow(call, q) THEN {call} ELSE {})
           /\ forRow(call, q) => \A c \in callsFor(Tail(agenda), q) : turn(op) < turn(c.op)
    BY <1>1, TakenFor DEF call
  <2>2. \A q \in Req \ {call.r} : ~ forRow(call, q)
    BY DEF forRow
  <2> QED
    BY <1>2, <2>1, <2>2
<1>4. op # "complete" => Live(call.r)
  <2>1. op \in opsFor(agenda, call.r) /\ callsFor(agenda, call.r) # {}
    BY <1>1, <1>3 DEF opsFor
  <2> QED
    BY <1>2, <2>1, RowKnown
<1>5. opsFor(agenda, call.r) = opsFor(Tail(agenda), call.r) \cup {op}
  BY <1>1, <1>3 DEF opsFor
<1>6. \A o \in opsFor(Tail(agenda), call.r) : o \in RowOps /\ turn(op) < turn(o)
  BY <1>3 DEF opsFor, callsFor, forRow
<1> QED
  BY <1>2, <1>3, <1>4, <1>5, <1>6

\* A row that finishes.
LEMMA FinishedRow ==
  ASSUME EngineInv, NEW r \in Range(running), NEW answer \in {"finished", "failed"}, finish(r, answer),
         store' = store
  PROVE  /\ r \in Req /\ Pools' /\ row' \in [Req -> RowType]
         /\ result' \in [Req -> {"none", "finished", "failed", "taken"}]
         /\ Range(running') = Range(running) \ {r}
         /\ \A q \in Req \ {r} : row'[q] = row[q] /\ result'[q] = result[q]
         /\ row'[r].phase = "done" /\ result'[r] = answer
<1>1. PoolsRight(running, row, free, ref, freeSlots, store, blocksUsed) /\ Queue(running)
  BY DEF EngineInv, Pools, PoolsRight
<1>2. running \in Seq(Req) /\ IsInjective(running) /\ r \in Req
  BY <1>1, RangeOf DEF Queue
<1>3. row \in [Req -> RowType] /\ result \in [Req -> {"none", "finished", "failed", "taken"}]
  BY DEF EngineInv, TypeOK
<1>4. /\ row' = [row EXCEPT ![r].phase = "done", ![r].pending = NoSnapshot]
      /\ ref' = refsFreed(row[r].blocks) /\ free' = freeAfter(row[r].blocks)
      /\ blocksUsed' = blocksUsed - row[r].own /\ freeSlots' = Append(freeSlots, row[r].slot)
      /\ result' = [result EXCEPT ![r] = answer] /\ running' = RemoveFirst(running, r)
  BY DEF finish, release
<1>5. \A q \in Req \ {r} : row'[q] = row[q] /\ result'[q] = result[q]
  BY <1>3, <1>4
<1>6. row'[r].phase = "done" /\ result'[r] = answer /\ row'[r] \in RowType
  <2>1. NoSnapshot \in [len : Nat, state : Seq(Tokens)]
    <3>1. <<>> \in Seq(Tokens)
      BY EmptySeq
    <3> QED
      BY <3>1 DEF NoSnapshot
  <2>2. row[r] \in RowType
    BY <1>2, <1>3
  <2>3. row'[r] = [[row[r] EXCEPT !.phase = "done"] EXCEPT !.pending = NoSnapshot]
    BY <1>2, <1>3, <1>4
  <2>4. row'[r] \in RowType /\ row'[r].phase = "done"
    BY <2>1, <2>2, <2>3 DEF RowType
  <2> QED
    BY <1>2, <1>3, <1>4, <2>4
<1>7. row' \in [Req -> RowType] /\ result' \in [Req -> {"none", "finished", "failed", "taken"}]
  <2>1. DOMAIN row' = Req /\ DOMAIN row = Req
    BY <1>3, <1>4
  <2>2. \A q \in Req : row'[q] \in RowType
    BY <1>3, <1>5, <1>6
  <2>3. row' = [q \in Req |-> row'[q]]
    BY <1>3, <1>4
  <2> QED
    BY <1>2, <1>3, <1>4, <2>2, <2>3
<1>8. Range(running') = Range(running) \ {r}
  BY <1>2, <1>4, RemovedFirst
<1>9. PoolsRight(RemoveFirst(running, r), row', freeMore(free, ref, row[r].blocks),
                 refsLess(ref, row[r].blocks), Append(freeSlots, row[r].slot), store, blocksUsed - row[r].own)
  <2>1. Range(running) \subseteq Req
    BY <1>2, RangeOf
  <2>2. \A q \in Range(running) \ {r} : row'[q] = row[q]
    BY <1>5, <2>1
  <2> QED
    BY <1>1, <2>2, ReleasedRow
<1>10. Pools'
  BY <1>4, <1>9 DEF Pools, refsFreed, freeAfter, freeMore, refsLess
<1> QED
  BY <1>2, <1>5, <1>6, <1>7, <1>8, <1>10

\* A row that has finished, with nothing but its completion to come.
LEMMA DoneRight ==
  ASSUME NEW r, NEW rw, rw.phase = "done", NEW res, res # "none", NEW C, {c.op : c \in C} \subseteq {"complete"},
         NEW live, ~ live, NEW queued, ~ queued
  PROVE  RowRight(r, rw, C, live, queued, res)
BY DEF RowRight

\* _finish releases a row: blocks, slot and charge together.
LEMMA RowFinished == EngineInv /\ Finish => EngineInv'
<1> SUFFICES ASSUME EngineInv, Finish PROVE EngineInv'
  OBVIOUS
<1>1. doing("finish") /\ "finish" \in RowOps
  BY DEF Finish, RowOps
<1>0. PICK r \in Req : r = call.r
  BY <1>1, CallOfLive
<1>2. agenda # <<>> /\ AgendaRight(agenda) /\ Head(agenda).op = "finish"
  BY <1>1, Doing DEF call
<1>3. /\ r \in Req /\ Live(r)
      /\ \A o \in opsFor(Tail(agenda), r) : o \in RowOps /\ turn("finish") < turn(o)
      /\ \A q \in Req \ {r} : callsFor(agenda, q) = callsFor(Tail(agenda), q)
  BY <1>0, <1>1, CallOfLive
<1>4. /\ agenda' = Tail(agenda) /\ AgendaRight(agenda') /\ \A c \in Range(agenda') : c.op \notin Lone
  BY <1>2, Dropped DEF Finish, next
<1>5. opsFor(agenda', r) \subseteq {"complete"}
  BY <1>3, <1>4 DEF turn, RowOps
<1>6. finish(r, "finished") /\ UNCHANGED <<waiting, cell, state, store>> /\ r \in Range(running) /\ ~ Queued(r)
  BY <1>0, <1>3, RowKnown DEF Finish, Live
<1>7. /\ Pools' /\ row' \in [Req -> RowType]
      /\ result' \in [Req -> {"none", "finished", "failed", "taken"}]
      /\ Range(running') = Range(running) \ {r}
      /\ \A q \in Req \ {r} : row'[q] = row[q] /\ result'[q] = result[q]
      /\ row'[r].phase = "done" /\ result'[r] = "finished"
  BY <1>6, FinishedRow
<1>8. \A q \in Req \ {r} : (Live(q)' <=> Live(q)) /\ (Queued(q)' <=> Queued(q))
  BY <1>6, <1>7 DEF Live, Queued
<1>9. RowRight(r, row'[r], callsFor(agenda', r), Live(r)', Queued(r)', result'[r])
  <2>1. ~ Live(r)' /\ ~ Queued(r)'
    BY <1>6, <1>7 DEF Live, Queued
  <2>2. {c.op : c \in callsFor(agenda', r)} \subseteq {"complete"}
    BY <1>5 DEF opsFor
  <2> QED
    BY <1>7, <2>1, <2>2, DoneRight
<1>10. Forwards' /\ Admission'
  BY <1>4, NoneLone DEF Lone
<1>11. Contents' /\ Queue(waiting')
  BY <1>6, <1>7 DEF Contents, EngineInv, TypeOK
<1> QED
  BY <1>3, <1>4, <1>7, <1>8, <1>9, <1>10, <1>11, RowStep

\* step's handler fails every row that runs.
LEMMA AllFailed == EngineInv /\ FailAll => EngineInv'
<1> SUFFICES ASSUME EngineInv, FailAll PROVE EngineInv'
  OBVIOUS
<1>1. agenda # <<>> /\ AgendaRight(agenda) /\ Head(agenda).op = "failall" /\ Range(agenda) = {Head(agenda)} \cup Range(Tail(agenda))
  BY Doing DEF FailAll, call
<1>2. UNCHANGED <<waiting, cell, state, store>>
  BY DEF FailAll
<1>3. Head(agenda).op \in Lone /\ \A r \in Req : ~ forRow(Head(agenda), r)
  BY <1>1 DEF Lone, forRow, RowOps
<1>4. \A r \in Req : callsFor(Tail(agenda), r) = {} /\ callsFor(agenda, r) = {}
  BY <1>1, <1>3, TakenFor
<1>5. \A c \in Range(agenda) : c.op \notin {"forward", "adopt", "readmit"}
  BY <1>1, <1>3, TakenCall
<1>6. CASE running = <<>>
  <2>1. UNCHANGED <<running, row, result, free, ref, freeSlots, blocksUsed>> /\ agenda' = <<>> \o Tail(agenda)
    BY <1>6 DEF FailAll, next
  <2>2. agenda' = Tail(agenda) /\ AgendaRight(agenda') /\ Range(agenda') \subseteq Range(agenda)
    BY <1>1, <2>1, Dropped
  <2>3. Forwards' /\ Admission'
    BY <1>5, <2>2, NoneLone
  <2>4. Pools'
    BY <1>2, <2>1, PoolsStand DEF EngineInv
  <2> QED
    BY <1>2, <1>4, <2>1, <2>2, <2>3, <2>4, QuietStep DEF EngineInv
<1>7. CASE running # <<>>
  <2>0. PICK r \in Req : r = Head(running)
    <3>1. running \in Seq(Req)
      BY DEF EngineInv, TypeOK
    <3> QED
      BY <1>7, <3>1, TailOf
  <2>1. finish(r, "failed") /\ agenda' = agenda
    BY <1>7, <2>0 DEF FailAll
  <2>2. r \in Range(running) /\ r \in Req
    <3>1. running \in Seq(Req)
      BY DEF EngineInv, TypeOK
    <3> QED
      BY <1>7, <2>0, <3>1, TailOf
  <2>3. /\ Pools' /\ row' \in [Req -> RowType]
        /\ result' \in [Req -> {"none", "finished", "failed", "taken"}]
        /\ Range(running') = Range(running) \ {r}
        /\ \A q \in Req \ {r} : row'[q] = row[q] /\ result'[q] = result[q]
        /\ row'[r].phase = "done" /\ result'[r] = "failed"
    BY <1>2, <2>1, <2>2, FinishedRow
  <2>4. \A q \in Req \ {r} : (Live(q)' <=> Live(q)) /\ (Queued(q)' <=> Queued(q))
    BY <1>2, <2>3 DEF Live, Queued
  <2>5. RowRight(r, row'[r], callsFor(agenda', r), Live(r)', Queued(r)', result'[r])
    <3>1. ~ Queued(r)
      BY <2>2, RowKnown DEF Live
    <3>2. ~ Live(r)' /\ ~ Queued(r)'
      BY <1>2, <2>3, <3>1 DEF Live, Queued
    <3>3. {c.op : c \in callsFor(agenda', r)} \subseteq {"complete"}
      BY <1>4, <2>1, <2>2
    <3> QED
      BY <2>3, <3>2, <3>3, DoneRight
  <2>6. Forwards' /\ Admission'
    BY <1>5, <2>1, NoneLone
  <2>7. Contents' /\ Queue(waiting')
    BY <1>2, <2>3 DEF Contents, EngineInv, TypeOK
  <2> QED
    BY <1>1, <2>1, <2>2, <2>3, <2>4, <2>5, <2>6, <2>7, RowStep
<1> QED
  BY <1>6, <1>7

-----------------------------------------------------------------------------
(* Steps that replace a row's call and leave the row *)

\* A row's call makes way for s, calls of the same row.
LEMMA RowCallReplaced ==
  ASSUME EngineInv, NEW op \in RowOps \ {"grow"}, doing(op), NEW r \in Req, r = call.r, NEW s, AgendaRight(s),
         \A c \in Range(s) : /\ c.op \notin Lone
                             /\ c.op \in RowOps => c.r = r /\ turn(c.op) <= turn(op),
         agenda' = s \o Tail(agenda)
  PROVE  /\ AgendaRight(agenda') /\ Forwards' /\ Admission'
         /\ callsFor(agenda', r) = callsFor(s, r) \cup callsFor(Tail(agenda), r)
         /\ \A q \in Req \ {r} : callsFor(agenda', q) = callsFor(agenda, q)
<1>1. agenda # <<>> /\ AgendaRight(agenda) /\ Head(agenda).op = op
  BY Doing DEF call
<1>2. forRow(Head(agenda), r) /\ \A q \in Req \ {r} : callsFor(agenda, q) = callsFor(Tail(agenda), q)
  BY CallOfLive DEF call
<1>3. InPlace(s, agenda)
  <2>1. op # "evict"
    BY DEF RowOps
  <2>2. \A q \in Req : \A c \in Range(s) : forRow(c, q) => forRow(Head(agenda), q) /\ turn(c.op) <= turn(op)
    BY <1>2 DEF forRow
  <2> QED
    BY <1>1, <2>1, <2>2 DEF InPlace
<1>4. /\ AgendaRight(agenda')
      /\ \A q \in Req : callsFor(agenda', q) = callsFor(s, q) \cup callsFor(Tail(agenda), q)
      /\ \A c \in Range(agenda') : c.op \in Lone => c \in Range(s)
  BY <1>1, <1>3, Replaced
<1>5. \A q \in Req \ {r} : callsFor(s, q) = {}
  BY DEF callsFor, forRow
<1>6. \A c \in Range(agenda') : c.op \notin Lone
  BY <1>4
<1>7. Forwards' /\ Admission'
  BY <1>6, NoneLone DEF Lone
<1>8. ASSUME NEW q \in Req \ {r} PROVE callsFor(agenda', q) = callsFor(agenda, q)
  <2>1. callsFor(agenda', q) = callsFor(s, q) \cup callsFor(Tail(agenda), q)
    BY <1>4
  <2>2. callsFor(s, q) = {} /\ callsFor(agenda, q) = callsFor(Tail(agenda), q)
    BY <1>2, <1>5
  <2> QED
    BY <2>1, <2>2
<1>9. callsFor(agenda', r) = callsFor(s, r) \cup callsFor(Tail(agenda), r)
  BY <1>4
<1> QED
  BY <1>4, <1>7, <1>8, <1>9

\* One call of the row in the place of another.
LEMMA RowCallForAnother ==
  ASSUME EngineInv, NEW op \in RowOps \ {"grow"}, doing(op), NEW r \in Req, r = call.r, NEW c, CallType(c),
         c.op \in RowOps, c.r = r, turn(c.op) <= turn(op), agenda' = <<c>> \o Tail(agenda)
  PROVE  /\ AgendaRight(agenda') /\ Forwards' /\ Admission'
         /\ callsFor(agenda', r) = {c} \cup callsFor(Tail(agenda), r)
         /\ \A q \in Req \ {r} : callsFor(agenda', q) = callsFor(agenda, q)
<1>1. c.op \notin Lone
  BY DEF RowOps, Lone
<1>2. AgendaRight(<<c>>) /\ Range(<<c>>) = {c}
  BY <1>1, OneCall DEF Lone
<1>3. callsFor(<<c>>, r) = {c}
  BY OneFor DEF forRow
<1>4. /\ AgendaRight(agenda') /\ Forwards' /\ Admission'
      /\ callsFor(agenda', r) = callsFor(<<c>>, r) \cup callsFor(Tail(agenda), r)
      /\ \A q \in Req \ {r} : callsFor(agenda', q) = callsFor(agenda, q)
  <2> DEFINE s == <<c>>
  <2>1. /\ AgendaRight(s) /\ agenda' = s \o Tail(agenda)
        /\ \A d \in Range(s) : d.op \notin Lone /\ (d.op \in RowOps => d.r = r /\ turn(d.op) <= turn(op))
    BY <1>1, <1>2
  <2> HIDE DEF s
  <2>2. /\ AgendaRight(agenda') /\ Forwards' /\ Admission'
        /\ callsFor(agenda', r) = callsFor(s, r) \cup callsFor(Tail(agenda), r)
        /\ \A q \in Req \ {r} : callsFor(agenda', q) = callsFor(agenda, q)
    BY <2>1, RowCallReplaced
  <2> QED
    BY <2>2 DEF s
<1> QED
  BY <1>3, <1>4

\* The row's call is over.
LEMMA RowCallDone ==
  ASSUME EngineInv, NEW op \in RowOps \ {"grow"}, doing(op), NEW r \in Req, r = call.r,
         agenda' = <<>> \o Tail(agenda)
  PROVE  /\ AgendaRight(agenda') /\ Forwards' /\ Admission'
         /\ callsFor(agenda', r) = callsFor(Tail(agenda), r)
         /\ \A q \in Req \ {r} : callsFor(agenda', q) = callsFor(agenda, q)
<1>1. AgendaRight(<<>>) /\ Range(<<>>) = {}
  BY NoCall
<1>2. callsFor(<<>>, r) = {}
  BY NoneFor
<1> QED
  BY <1>1, <1>2, RowCallReplaced

\* A token is sampled.
LEMMA RowSampled == EngineInv /\ Sample => EngineInv'
<1> SUFFICES ASSUME EngineInv, Sample PROVE EngineInv'
  OBVIOUS
<1>1. doing("sample") /\ "sample" \in RowOps \ {"grow"}
  BY DEF Sample, RowOps
<1>2. PICK r \in Req : r = call.r
  BY <1>1, CallOfLive
<1>3. PICK tok \in Draw : agenda' = <<[op |-> "commit", r |-> r, toks |-> <<tok>>]>> \o Tail(agenda)
  BY <1>2 DEF Sample, next
<1> DEFINE c == [op |-> "commit", r |-> r, toks |-> <<tok>>]
           T == callsFor(Tail(agenda), r)
<1>4. c.op = "commit" /\ c.r = r /\ c.toks = <<tok>>
  OBVIOUS
<1>5. agenda' = <<c>> \o Tail(agenda)
  BY <1>3
<1> HIDE DEF c
<1>6. CallType(c) /\ c.op \in RowOps /\ turn(c.op) <= turn("sample")
  BY <1>4 DEF CallType, RowOps, turn
<1>7. /\ AgendaRight(agenda') /\ Forwards' /\ Admission'
      /\ callsFor(agenda', r) = {c} \cup T
      /\ \A q \in Req \ {r} : callsFor(agenda', q) = callsFor(agenda, q)
  BY <1>1, <1>2, <1>4, <1>5, <1>6, RowCallForAnother
<1>8. /\ Live(r) /\ opsFor(agenda, r) = opsFor(Tail(agenda), r) \cup {"sample"}
      /\ callsFor(agenda, r) = T \cup {call} /\ call.op = "sample"
      /\ \A o \in opsFor(Tail(agenda), r) : o \in RowOps /\ turn("sample") < turn(o)
  BY <1>1, <1>2, CallOfLive DEF doing, call
<1>9. /\ opsFor(Tail(agenda), r) \subseteq {"complete"}
  BY <1>8 DEF turn, RowOps
<1> DEFINE ops == opsFor(agenda, r)
           new == {d.op : d \in {c} \cup T}
<1>10. new = opsFor(Tail(agenda), r) \cup {"commit"}
  BY <1>4 DEF opsFor
<1>11. LiveRight(row[r], r, callsFor(agenda, r), ops) /\ result[r] = "none" /\ ~ Queued(r)
  BY <1>8, RowKnown
<1> HIDE DEF T
<1>12. LiveRight(row[r], r, {c} \cup T, new)
  <2>1. PrefillRight(row[r], r, ops) => PrefillRight(row[r], r, new)
    BY <1>8, <1>9, <1>10 DEF PrefillRight
  <2>2. DecodeRight(row[r], r, ops) => DecodeRight(row[r], r, new)
    BY <1>8, <1>9, <1>10 DEF DecodeRight
  <2>3. \A d \in {c} \cup T : CallFits(d, row[r], r, new)
    <3>1. CallFits(c, row[r], r, new)
      BY <1>4 DEF CallFits
    <3>2. ASSUME NEW d \in T PROVE CallFits(d, row[r], r, new)
      <4>1. d.op \in opsFor(Tail(agenda), r)
        BY <3>2 DEF opsFor, T
      <4>2. d.op = "complete"
        BY <1>9, <4>1
      <4> QED
        BY <4>2 DEF CallFits
    <3> QED
      BY <3>1, <3>2
  <2> HIDE DEF new, ops
  <2> QED
    BY <1>11, <2>1, <2>2, <2>3 DEF LiveRight
<1>13. RowRight(r, row'[r], callsFor(agenda', r), r \in Range(running'), r \in Range(waiting'), result'[r])
  BY <1>7, <1>8, <1>11, <1>12 DEF RowRight, Sample, Live, Queued
<1>14. Pools' /\ Contents' /\ Queue(waiting')
  BY PoolsStand, PartsFromTypes DEF Sample, EngineInv, Contents
<1>15. \A q \in Req \ {r} : /\ row'[q] = row[q] /\ result'[q] = result[q]
                            /\ Live(q)' <=> Live(q)
                            /\ Queued(q)' <=> Queued(q)
  BY DEF Sample, Live, Queued
<1> QED
  BY <1>7, <1>13, <1>14, <1>15, RowStep DEF Live, Queued

\* A stop token ends a row without being kept.
LEMMA StopCommitted == EngineInv /\ CommitStop => EngineInv'
<1> SUFFICES ASSUME EngineInv, CommitStop PROVE EngineInv'
  OBVIOUS
<1>1. doing("commit") /\ "commit" \in RowOps \ {"grow"}
  BY DEF CommitStop, RowOps
<1>2. PICK r \in Req : r = call.r
  BY <1>1, CallOfLive
<1> DEFINE c == [op |-> "finish", r |-> r]
           T == callsFor(Tail(agenda), r)
<1>4. c.op = "finish" /\ c.r = r
  OBVIOUS
<1>5. agenda' = <<c>> \o Tail(agenda)
  BY <1>2 DEF CommitStop, next
<1> HIDE DEF c
<1>6. CallType(c) /\ c.op \in RowOps /\ turn(c.op) <= turn("commit")
  BY <1>4 DEF CallType, RowOps, turn
<1>7. /\ AgendaRight(agenda') /\ Forwards' /\ Admission'
      /\ callsFor(agenda', r) = {c} \cup T
      /\ \A q \in Req \ {r} : callsFor(agenda', q) = callsFor(agenda, q)
  BY <1>1, <1>2, <1>4, <1>5, <1>6, RowCallForAnother
<1>8. /\ Live(r) /\ opsFor(agenda, r) = opsFor(Tail(agenda), r) \cup {"commit"}
      /\ callsFor(agenda, r) = T \cup {call} /\ call.op = "commit"
      /\ \A o \in opsFor(Tail(agenda), r) : o \in RowOps /\ turn("commit") < turn(o)
  BY <1>1, <1>2, CallOfLive DEF doing, call
<1>9. /\ opsFor(Tail(agenda), r) \subseteq {"complete"}
  BY <1>8 DEF turn, RowOps
<1> DEFINE ops == opsFor(agenda, r)
           new == {d.op : d \in {c} \cup T}
<1>10. new = opsFor(Tail(agenda), r) \cup {"finish"}
  BY <1>4 DEF opsFor
<1>11. LiveRight(row[r], r, callsFor(agenda, r), ops) /\ result[r] = "none" /\ ~ Queued(r)
  BY <1>8, RowKnown
<1> HIDE DEF T
<1>12. LiveRight(row[r], r, {c} \cup T, new)
  <2>1. PrefillRight(row[r], r, ops) => PrefillRight(row[r], r, new)
    BY <1>8, <1>9, <1>10 DEF PrefillRight
  <2>2. DecodeRight(row[r], r, ops) => DecodeRight(row[r], r, new)
    BY <1>8, <1>9, <1>10 DEF DecodeRight
  <2>3. \A d \in {c} \cup T : CallFits(d, row[r], r, new)
    <3>1. CallFits(c, row[r], r, new)
      BY <1>4 DEF CallFits
    <3>2. ASSUME NEW d \in T PROVE CallFits(d, row[r], r, new)
      <4>1. d.op \in opsFor(Tail(agenda), r)
        BY <3>2 DEF opsFor, T
      <4>2. d.op = "complete"
        BY <1>9, <4>1
      <4> QED
        BY <4>2 DEF CallFits
    <3> QED
      BY <3>1, <3>2
  <2> HIDE DEF new, ops
  <2> QED
    BY <1>11, <2>1, <2>2, <2>3 DEF LiveRight
<1>13. RowRight(r, row'[r], callsFor(agenda', r), r \in Range(running'), r \in Range(waiting'), result'[r])
  BY <1>7, <1>8, <1>11, <1>12 DEF RowRight, CommitStop, Live, Queued
<1>14. Pools' /\ Contents' /\ Queue(waiting')
  BY PoolsStand, PartsFromTypes DEF CommitStop, EngineInv, Contents
<1>15. \A q \in Req \ {r} : /\ row'[q] = row[q] /\ result'[q] = result[q]
                            /\ Live(q)' <=> Live(q)
                            /\ Queued(q)' <=> Queued(q)
  BY DEF CommitStop, Live, Queued
<1> QED
  BY <1>7, <1>13, <1>14, <1>15, RowStep DEF Live, Queued

-----------------------------------------------------------------------------
(* The forced end of the thinking *)

\* A sequence that stands at the end of another is its suffix.
LEMMA SuffixIs ==
  ASSUME NEW S, NEW s \in Seq(S), NEW t \in Seq(S), Len(s) <= Len(t),
         \A i \in 1 .. Len(s) : t[Len(t) - Len(s) + i] = s[i]
  PROVE  IsSuffix(s, t)
<1> DEFINE m == Len(s)
           n == Len(t)
           a == Reverse(s)
           b == Reverse(t)
<1>1. m \in Nat /\ n \in Nat /\ m <= n
  OBVIOUS
<1>2. a \in Seq(S) /\ Len(a) = m /\ \A j \in 1 .. m : a[j] = s[m - j + 1]
  BY <1>1 DEF Reverse
<1>3. b \in Seq(S) /\ Len(b) = n /\ \A j \in 1 .. n : b[j] = t[n - j + 1]
  BY <1>1 DEF Reverse
<1>4. ASSUME NEW j \in 1 .. m PROVE a[j] = b[j]
  <2>1. m - j + 1 \in 1 .. m /\ n - m + (m - j + 1) = n - j + 1 /\ j \in 1 .. n
    BY <1>1
  <2>2. t[n - m + (m - j + 1)] = s[m - j + 1]
    BY <2>1
  <2> QED
    BY <1>2, <1>3, <2>1, <2>2
<1> HIDE DEF a, b, m, n
<1>5. /\ SubSeq(a, 1, m) \in Seq(S) /\ Len(SubSeq(a, 1, m)) = m /\ \A j \in 1 .. m : SubSeq(a, 1, m)[j] = a[j]
  BY <1>1, <1>2
<1>6. /\ SubSeq(b, 1, m) \in Seq(S) /\ Len(SubSeq(b, 1, m)) = m /\ \A j \in 1 .. m : SubSeq(b, 1, m)[j] = b[j]
  BY <1>1, <1>3
<1> DEFINE u == SubSeq(a, 1, m)
           v == SubSeq(b, 1, m)
<1>7. u \in Seq(S) /\ v \in Seq(S) /\ Len(u) = Len(v) /\ \A j \in 1 .. Len(u) : u[j] = v[j]
  BY <1>4, <1>5, <1>6
<1> HIDE DEF u, v
<1>8. u = v
  BY <1>7, SeqEqual
<1>9. IsPrefix(a, b)
  BY <1>1, <1>2, <1>3, <1>8 DEF IsPrefix, u, v
<1> QED
  BY <1>9 DEF IsSuffix, a, b

\* The next forced token of a row, and the row's reply closed by it.
forcedNow(rw, r) ==
  /\ ThinkCap[r] # NoCap /\ EndThink # <<>>
  /\ ~ rw.closed /\ Len(rw.tokens) - promptLen(r) >= ThinkCap[r]
closedBy(rw, r, toks) ==
  rw.closed \/ (EndThink # <<>> /\ IsSuffix(EndThink, SubSeq(toks, promptLen(r) + 1, Len(toks))))
committed(rw, r, raw) ==
  IF forcedNow(rw, r) THEN EndThink[Len(rw.tokens) - promptLen(r) - ThinkCap[r] + 1] ELSE raw

\* The tokens a request may be given are tokens.
LEMMA TokensAre ==
  /\ Draw \subseteq Tokens /\ EndThink \in Seq(Tokens)
  /\ \A r \in Req : Prompt[r] \in Seq(Tokens) /\ promptLen(r) \in Nat \ {0} /\ ThinkCap[r] \in Nat \cup {NoCap}
<1>1. Draw \subseteq Tokens /\ Range(EndThink) \subseteq Tokens
  BY DEF Tokens
<1>2. EndThink \in Seq(Tokens)
  BY <1>1, EndThinkAssumption
<1>3. ASSUME NEW r \in Req PROVE Prompt[r] \in Seq(Tokens) /\ promptLen(r) \in Nat \ {0} /\ ThinkCap[r] \in Nat \cup {NoCap}
  <2>1. Prompt[r] \in Seq(Range(Prompt[r])) /\ Len(Prompt[r]) > 0 /\ ThinkCap[r] \in Nat \cup {NoCap}
    BY RequestAssumption
  <2>2. Range(Prompt[r]) \subseteq Tokens
    BY DEF Tokens
  <2>3. Prompt[r] \in Seq(Tokens)
    BY <2>1, <2>2
  <2>4. Len(Prompt[r]) \in Nat
    BY <2>3
  <2> QED
    BY <2>1, <2>3, <2>4 DEF promptLen
<1> QED
  BY <1>1, <1>2, <1>3

\* The forced end of the thinking goes on where it was.
LEMMA ForcedStays ==
  ASSUME NEW r \in Req, NEW rw, rw.tokens \in Seq(Tokens), rw.closed \in BOOLEAN, promptLen(r) <= Len(rw.tokens),
         ForcedRight(rw, r), NEW raw \in Draw, NEW rx,
         rx.tokens = Append(rw.tokens, committed(rw, r, raw)), rx.closed = closedBy(rw, r, rx.tokens)
  PROVE  committed(rw, r, raw) \in Tokens /\ ForcedRight(rx, r)
<1> DEFINE n == promptLen(r)
           cap == ThinkCap[r]
           L == Len(EndThink)
           old == rw.tokens
           k == Len(old) - n - cap
           tok == committed(rw, r, raw)
           toks == rx.tokens
           N == Len(toks)
<1>1. /\ n \in Nat \ {0} /\ cap \in Nat \cup {NoCap} /\ EndThink \in Seq(Tokens) /\ L \in Nat /\ NoCap = -1
      /\ old \in Seq(Tokens) /\ Len(old) \in Nat /\ n <= Len(old) /\ raw \in Tokens
  BY TokensAre DEF NoCap
<1>2. ForcedRight(rw, r) <=>
        (cap # NoCap /\ EndThink # <<>> /\ ~rw.closed /\ k > 0 =>
           k < L /\ \A i \in 1 .. k : old[Len(old) - k + i] = EndThink[i])
  BY DEF ForcedRight
<1>3. ForcedRight(rx, r) <=>
        (cap # NoCap /\ EndThink # <<>> /\ ~rx.closed /\ N - n - cap > 0 =>
           N - n - cap < L /\ \A i \in 1 .. N - n - cap : toks[N - (N - n - cap) + i] = EndThink[i])
  BY DEF ForcedRight
<1>4. /\ EndThink # <<>> => L > 0
      /\ n \in Nat \ {0} /\ cap \in Int /\ (cap # NoCap => cap \in Nat) /\ k \in Int /\ k = Len(old) - n - cap
      /\ L = Len(EndThink) /\ N = Len(toks)
  BY <1>1
<1>A. /\ forcedNow(rw, r) <=> cap # NoCap /\ EndThink # <<>> /\ ~rw.closed /\ Len(old) - n >= cap
      /\ tok = IF forcedNow(rw, r) THEN EndThink[k + 1] ELSE raw
      /\ toks = Append(old, tok)
      /\ rx.closed <=> (rw.closed \/ (EndThink # <<>> /\ IsSuffix(EndThink, SubSeq(toks, n + 1, N))))
  BY DEF forcedNow, committed, closedBy
<1> HIDE DEF n, cap, L, old, k, tok, toks, N
<1>5. CASE forcedNow(rw, r)
  <2>1. /\ cap # NoCap /\ EndThink # <<>> /\ ~rw.closed /\ k >= 0 /\ cap \in Nat /\ k \in Nat
        /\ tok = EndThink[k + 1]
    BY <1>1, <1>4, <1>A, <1>5
  <2>2. k < L /\ \A i \in 1 .. k : old[Len(old) - k + i] = EndThink[i]
    <3>1. CASE k = 0
      BY <1>4, <2>1, <3>1
    <3>2. CASE k > 0
      BY <1>2, <2>1, <3>2
    <3> QED
      BY <2>1, <3>1, <3>2
  <2>3. k + 1 \in 1 .. L
    BY <1>1, <2>1, <2>2
  <2>4. tok \in Tokens
    BY <1>1, <1>4, <2>1, <2>3
  <2>5. /\ toks \in Seq(Tokens) /\ N = Len(old) + 1 /\ toks[N] = tok
        /\ \A i \in 1 .. Len(old) : toks[i] = old[i]
    BY <1>1, <1>4, <1>A, <2>4
  <2>6. N - n - cap = k + 1 /\ N \in Nat
    BY <1>1, <1>4, <2>1, <2>5
  <2>7. ASSUME NEW i \in 1 .. k + 1 PROVE toks[N - (k + 1) + i] = EndThink[i]
    <3>1. CASE i = k + 1
      <4>1. N - (k + 1) + i = N
        BY <2>1, <2>6, <3>1
      <4> QED
        BY <2>1, <2>5, <3>1, <4>1
    <3>2. CASE i # k + 1
      <4>1. i \in 1 .. k /\ N - (k + 1) + i = Len(old) - k + i /\ Len(old) - k + i \in 1 .. Len(old)
        <5>1. k <= Len(old)
          BY <1>1, <1>4, <2>1
        <5> QED
          BY <1>1, <2>1, <2>5, <3>2, <5>1
      <4>2. toks[N - (k + 1) + i] = old[Len(old) - k + i]
        BY <2>5, <4>1
      <4> QED
        BY <2>2, <4>1, <4>2
    <3> QED
      BY <3>1, <3>2
  <2>8. ~ rx.closed => k + 1 < L
    <3>1. SUFFICES ASSUME k + 1 = L PROVE rx.closed
      BY <1>1, <2>1, <2>2
    <3> DEFINE out == SubSeq(toks, n + 1, N)
    <3>2. out \in Seq(Tokens) /\ Len(out) = N - n /\ \A i \in 1 .. N - n : out[i] = toks[n + i]
      <4>1. n + 1 \in 1 .. N + 1 /\ N - n \in Nat /\ N <= Len(toks)
        BY <1>1, <1>4, <2>5
      <4>2. \A i \in 1 .. N - n : n + 1 + i - 1 = n + i
        BY <1>4, <2>6
      <4>3. /\ out \in Seq(Tokens) /\ Len(out) = N - n
            /\ \A i \in 1 .. N - n : out[i] = toks[n + 1 + i - 1]
        <5>1. n + 1 \in Int /\ N \in Int /\ N - (n + 1) + 1 = N - n /\ (n + 1 <= N \/ N - n = 0)
          BY <1>4, <2>6, <4>1
        <5>2. \A i \in n + 1 .. N : toks[i] \in Tokens
          <6>1. ASSUME NEW i \in n + 1 .. N PROVE i \in 1 .. Len(toks)
            BY <1>4, <2>6
          <6>2. \A i \in 1 .. Len(toks) : toks[i] \in Tokens
            BY <2>5
          <6> QED
            BY <6>1, <6>2
        <5> DEFINE m == n + 1
        <5>3. m \in Int /\ \A i \in m .. N : toks[i] \in Tokens
          BY <5>1, <5>2
        <5> HIDE DEF m
        <5>4. /\ SubSeq(toks, m, N) \in Seq(Tokens)
              /\ Len(SubSeq(toks, m, N)) = IF m <= N THEN N - m + 1 ELSE 0
              /\ \A i \in 1 .. N - m + 1 : SubSeq(toks, m, N)[i] = toks[m + i - 1]
          BY <5>1, <5>3, SubSeqProperties
        <5>5. m = n + 1
          BY DEF m
        <5> HIDE DEF out
        <5>6. out = SubSeq(toks, m, N)
          BY DEF out, m
        <5> QED
          BY <5>1, <5>4, <5>5, <5>6
      <4> HIDE DEF out
      <4> QED
        BY <4>2, <4>3
    <3> HIDE DEF out
    <3>3. Len(EndThink) <= Len(out)
      BY <1>1, <1>4, <2>1, <2>6, <3>1, <3>2
    <3>4. ASSUME NEW i \in 1 .. Len(EndThink) PROVE out[Len(out) - Len(EndThink) + i] = EndThink[i]
      <4>1. N - n - L + i \in 1 .. N - n /\ n + (N - n - L + i) = N - (k + 1) + i
        <5>1. N - n >= L /\ i \in 1 .. L /\ N \in Int /\ n \in Int /\ L \in Int /\ k \in Int
          BY <1>1, <1>4, <2>1, <2>6, <3>1
        <5> QED
          BY ONLY <3>1, <5>1
      <4>2. out[N - n - L + i] = toks[N - (k + 1) + i]
        BY <3>2, <4>1
      <4>3. Len(out) - Len(EndThink) + i = N - n - L + i
        BY <1>4, <3>2
      <4>4. i \in 1 .. k + 1
        BY <1>4, <3>1
      <4> QED
        BY <2>7, <4>2, <4>3, <4>4
    <3>5. IsSuffix(EndThink, out)
      BY <1>1, <3>2, <3>3, <3>4, SuffixIs
    <3> QED
      BY <1>A, <2>1, <3>5 DEF out
  <2>9. ForcedRight(rx, r)
    BY <1>3, <2>6, <2>7, <2>8
  <2> QED
    BY <2>4, <2>9 DEF tok
<1>6. CASE ~ forcedNow(rw, r)
  <2>1. tok = raw /\ tok \in Tokens
    BY <1>1, <1>6, <1>A
  <2>2. N = Len(old) + 1
    BY <1>1, <1>4, <1>A, <2>1
  <2>3. cap = NoCap \/ EndThink = <<>> \/ rw.closed \/ k < 0
    BY <1>1, <1>4, <1>6, <1>A
  <2>4. rw.closed => rx.closed
    BY <1>A
  <2>5. cap # NoCap /\ EndThink # <<>> /\ ~rx.closed => ~ (N - n - cap > 0)
    <3> SUFFICES ASSUME cap # NoCap, EndThink # <<>>, ~rx.closed PROVE ~ (N - n - cap > 0)
      OBVIOUS
    <3>1. k < 0 /\ cap \in Nat
      BY <1>4, <2>3, <2>4
    <3> QED
      BY <1>1, <1>4, <2>2, <3>1
  <2> QED
    BY <1>3, <2>1, <2>5 DEF tok
<1> QED
  BY <1>5, <1>6

-----------------------------------------------------------------------------
(* A token is committed *)

\* Other rows, and the places of all, stay as they are.
LEMMA OneRowStep ==
  ASSUME EngineInv, NEW r \in Req, Live(r), NEW rx \in RowType, row' = [row EXCEPT ![r] = rx],
         UNCHANGED <<waiting, running, result, cell, state>>,
         AgendaRight(agenda'), Forwards', Admission', Pools',
         \A q \in Req \ {r} : callsFor(agenda', q) = callsFor(agenda, q),
         LiveRight(rx, r, callsFor(agenda', r), opsFor(agenda', r))
  PROVE  EngineInv'
<1>1. row \in [Req -> RowType] /\ result[r] = "none" /\ ~ Queued(r)
  BY RowKnown
<1>2. row'[r] = rx /\ row' \in [Req -> RowType] /\ \A q \in Req \ {r} : row'[q] = row[q]
  BY <1>1
<1>3. \A q \in Req : (q \in Range(running') <=> Live(q)) /\ (q \in Range(waiting') <=> Queued(q)) /\ result'[q] = result[q]
  BY DEF Live, Queued
<1>4. RowRight(r, row'[r], callsFor(agenda', r), r \in Range(running'), r \in Range(waiting'), result'[r])
  BY <1>1, <1>2, <1>3 DEF RowRight, opsFor
<1>5. Contents' /\ Queue(waiting')
  BY <1>2 DEF Contents, EngineInv, TypeOK
<1> QED
  BY <1>2, <1>3, <1>4, <1>5, RowStep DEF Live, Queued

\* The pools are right still when a row's tokens, counts and marks change.
LEMMA SameBlocks ==
  ASSUME EngineInv, NEW r \in Req, NEW rx, row' = [row EXCEPT ![r] = rx],
         rx.blocks = row[r].blocks, rx.slot = row[r].slot, rx.own = row[r].own,
         UNCHANGED <<running, free, ref, freeSlots, store, blocksUsed>>
  PROVE  Pools'
<1>1. row \in [Req -> RowType] /\ PoolsRight(running, row, free, ref, freeSlots, store, blocksUsed)
  BY DEF EngineInv, TypeOK, Pools
<1>2. Range(running) \subseteq Req
  BY RangeOf DEF EngineInv, TypeOK
<1>3. SameHeld(running, row, row')
  BY <1>1, <1>2 DEF SameHeld
<1>4. PoolsRight(running, row', free, ref, freeSlots, store, blocksUsed)
  BY <1>1, <1>3, RowsKeepTheirs
<1> QED
  BY <1>4 DEF Pools

\* A token is committed: it may end the row, and it may begin the end of the thinking.
LEMMA TokenCommitted == EngineInv /\ CommitToken => EngineInv'
<1> SUFFICES ASSUME EngineInv, CommitToken PROVE EngineInv'
  OBVIOUS
<1>1. doing("commit") /\ "commit" \in RowOps \ {"grow"}
  BY DEF CommitToken, RowOps
<1>2. PICK r \in Req : r = call.r
  BY <1>1, CallOfLive
<1>3. PICK raw \in Draw : call.toks = <<raw>>
  BY <1>1, Doing DEF CallType
<1>4. Head(call.toks) = raw /\ Tail(call.toks) = <<>>
  BY <1>3
<1> DEFINE rw == row[r]
           T == callsFor(Tail(agenda), r)
           opsT == opsFor(Tail(agenda), r)
           ops == opsFor(agenda, r)
<1>5. /\ Live(r) /\ ops = opsT \cup {"commit"}
      /\ callsFor(agenda, r) = T \cup {call} /\ opsT \subseteq {"complete"}
  <2>1. /\ Live(r) /\ ops = opsT \cup {"commit"} /\ callsFor(agenda, r) = T \cup {call}
        /\ \A o \in opsT : o \in RowOps /\ turn("commit") < turn(o)
    BY <1>1, <1>2, CallOfLive
  <2> HIDE DEF opsT, ops, T
  <2> QED
    BY <2>1 DEF turn, RowOps
<1>6. /\ row \in [Req -> RowType] /\ rw \in RowType /\ LiveRight(rw, r, callsFor(agenda, r), ops)
      /\ rw.slot \in Slot /\ state[rw.slot] \in Seq(Tokens)
  BY <1>5, RowKnown
<1>7. /\ rw.tokens \in Seq(Tokens) /\ rw.closed \in BOOLEAN /\ rw.seqLen \in Nat /\ rw.blocks \in Seq(Block)
      /\ Len(rw.tokens) \in Nat /\ rw.prefillFrom \in Nat /\ promptLen(r) \in Nat
  <2>1. rw.tokens \in Seq(Tokens) /\ rw.closed \in BOOLEAN /\ rw.seqLen \in Nat /\ rw.blocks \in Seq(Block) /\ rw.prefillFrom \in Nat
    BY <1>6 DEF RowType
  <2>2. promptLen(r) \in Nat
    BY TokensAre
  <2> HIDE DEF rw
  <2> QED
    BY <2>1, <2>2
<1> DEFINE tok == committed(rw, r, raw)
           toks == Append(rw.tokens, tok)
           closed == closedBy(rw, r, toks)
           f == [op |-> "finish", r |-> r]
           p == [op |-> "publish", r |-> r, len |-> rw.seqLen, state |-> state[rw.slot], decode |-> TRUE]
           publish == IF decodeBoundary(r, TRUE) THEN <<p>> ELSE <<>>
           rx == [rw EXCEPT !.tokens = toks, !.closed = closed, !.seqLen = @ + 1]
<1>8. /\ row' = [row EXCEPT ![r] = rx]
      /\ \/ agenda' = <<f>> \o Tail(agenda)
         \/ agenda' = (publish \o <<f>>) \o Tail(agenda)
         \/ agenda' = (publish \o <<>>) \o Tail(agenda)
  <2>1. forced(r) <=> forcedNow(rw, r)
    BY DEF forced, forcedNow, outLen, promptLen
  <2>2. tok = IF forced(r) THEN EndThink[outLen(r) - ThinkCap[r] + 1] ELSE raw
    BY <2>1 DEF committed, outLen, promptLen
  <2>3. closed = closes(r, toks)
    BY DEF closedBy, closes, promptLen
  <2>4. decodeBoundary(r, <<>> = <<>>) = decodeBoundary(r, TRUE)
    OBVIOUS
  <2> HIDE DEF tok, closed
  <2>5. row' = [row EXCEPT ![r].tokens = toks, ![r].closed = closed, ![r].seqLen = @ + 1]
    BY <1>2, <1>4, <2>2, <2>3 DEF CommitToken
  <2>6. row' = [row EXCEPT ![r] = rx]
    BY <1>6, <2>5
  <2>7. \/ agenda' = <<f>> \o Tail(agenda)
        \/ agenda' = (publish \o <<f>>) \o Tail(agenda)
        \/ agenda' = (publish \o <<>>) \o Tail(agenda)
    BY <1>2, <1>4, <2>2, <2>3, <2>4 DEF CommitToken, next
  <2> QED
    BY <2>6, <2>7
<1>9. /\ promptLen(r) <= Len(rw.tokens)
      /\ rw.phase \in {"prefill", "decode"} /\ rw.drafts = <<>> /\ rw.prefillFrom <= promptLen(r)
      /\ rw.pending.len <= promptLen(r) /\ rw.pending.len % BlockTokens = 0 /\ ForcedRight(rw, r)
  <2> HIDE DEF rw
  <2>1. CASE rw.phase = "prefill"
    BY <1>6, <1>7, <2>1 DEF LiveRight, PrefillRight
  <2>2. CASE rw.phase = "decode"
    BY <1>6, <1>7, <2>2 DEF LiveRight, DecodeRight
  <2> QED
    BY <1>6, <2>1, <2>2 DEF LiveRight
<1>10. tok \in Tokens /\ closed \in BOOLEAN
  <2>1. tok \in Tokens
    <3> DEFINE ry == [tokens |-> toks, closed |-> closed]
    <3>1. ry.tokens = Append(rw.tokens, committed(rw, r, raw)) /\ ry.closed = closedBy(rw, r, ry.tokens)
      OBVIOUS
    <3> HIDE DEF ry, rw
    <3> QED
      BY <1>7, <1>9, <3>1, ForcedStays DEF tok
  <2> QED
    BY <1>7, <2>1 DEF closedBy
<1> HIDE DEF tok, closed
<1>11. /\ toks \in Seq(Tokens) /\ Len(toks) = Len(rw.tokens) + 1
  <2> HIDE DEF rw
  <2> QED
    BY <1>7, <1>10
<1>12. /\ rx \in RowType /\ rx.tokens = toks /\ rx.closed = closed /\ rx.seqLen = rw.seqLen + 1
       /\ rx.phase = rw.phase /\ rx.drafts = rw.drafts /\ rx.prefillFrom = rw.prefillFrom
       /\ rx.pending = rw.pending /\ rx.blocks = rw.blocks /\ rx.own = rw.own /\ rx.slot = rw.slot
  <2> DEFINE n == rw.seqLen + 1
             x1 == [rw EXCEPT !.tokens = toks]
             x2 == [x1 EXCEPT !.closed = closed]
             x3 == [x2 EXCEPT !.seqLen = n]
  <2>1. n \in Nat
    BY <1>7
  <2> HIDE DEF toks, rw, n
  <2>2. x1 \in RowType
    BY <1>6, <1>11 DEF RowType
  <2>3. x2 \in RowType
    <3> HIDE DEF x1
    <3> QED
      BY <1>10, <2>2 DEF RowType
  <2>4. x3 \in RowType
    <3> HIDE DEF x2
    <3> QED
      BY <2>1, <2>3 DEF RowType
  <2>5. rx = x3
    BY <1>6 DEF RowType, n
  <2>6. /\ x3.tokens = toks /\ x3.closed = closed /\ x3.seqLen = n
        /\ x3.phase = rw.phase /\ x3.drafts = rw.drafts /\ x3.prefillFrom = rw.prefillFrom
        /\ x3.pending = rw.pending /\ x3.blocks = rw.blocks /\ x3.own = rw.own /\ x3.slot = rw.slot
    BY <1>6 DEF RowType
  <2> HIDE DEF x3, rx
  <2> QED
    BY <2>4, <2>5, <2>6 DEF n
<1>13. ForcedRight(rx, r)
  <2>1. rx.tokens = Append(rw.tokens, committed(rw, r, raw)) /\ rx.closed = closedBy(rw, r, rx.tokens)
    BY <1>12 DEF tok, closed
  <2> HIDE DEF rx, rw
  <2> QED
    BY <1>7, <1>9, <2>1, ForcedStays
<1>14. f.op = "finish" /\ f.r = r /\ p.op = "publish" /\ p.r = r /\ p.len = rw.seqLen /\ p.state = state[rw.slot] /\ p.decode = TRUE
  OBVIOUS
<1> HIDE DEF f, p
<1>15. held(rx) = held(rw)
  BY <1>12 DEF held
<1>16. CASE rw.phase = "decode"
  <2>1. rw.seqLen = Len(rw.tokens) /\ promptLen(r) < rw.seqLen /\ rw.seqLen <= held(rw) /\ opsT = {}
    <3>1. DecodeRight(rw, r, ops)
      BY <1>6, <1>16 DEF LiveRight
    <3> HIDE DEF rw, ops, opsT
    <3> QED
      BY <1>5, <3>1 DEF DecodeRight
  <2>2. CallType(p) /\ CallType(f) /\ p.op # "forward" /\ f.op # "forward"
    <3>1. rw.seqLen \in Nat \ {0}
      BY <1>7, <2>1
    <3> QED
      BY <1>6, <1>14, <3>1 DEF CallType, RowOps, Lone
  <2>3. \E s : /\ AgendaRight(s) /\ Range(s) \subseteq {p, f} /\ agenda' = s \o Tail(agenda)
               /\ p \in Range(s) => rw.seqLen % BlockTokens = 0
    <3>1. AgendaRight(<<f>>) /\ Range(<<f>>) = {f} /\ AgendaRight(<<>>) /\ Range(<<>>) = {}
      BY <2>2, OneCall, NoCall
    <3>2. /\ AgendaRight(publish) /\ Range(publish) \subseteq {p}
          /\ p \in Range(publish) => rw.seqLen % BlockTokens = 0
      <4>1. CASE decodeBoundary(r, TRUE)
        <5>1. AgendaRight(<<p>>) /\ Range(<<p>>) = {p}
          BY <2>2, OneCall
        <5>2. rw.seqLen % BlockTokens = 0
          BY <4>1 DEF decodeBoundary
        <5> QED
          BY <4>1, <5>1, <5>2
      <4>2. CASE ~ decodeBoundary(r, TRUE)
        BY <3>1, <4>2
      <4> QED
        BY <4>1, <4>2
    <3> HIDE DEF publish
    <3>3. Follows(publish, <<f>>) /\ Follows(publish, <<>>)
      <4>1. \A c \in Range(publish) : c = p
        BY <3>2
      <4> QED
        BY <1>14, <3>1, <4>1 DEF Follows, Lone, turn, forRow, RowOps
    <3>4. /\ AgendaRight(publish \o <<f>>) /\ Range(publish \o <<f>>) = Range(publish) \cup {f}
          /\ AgendaRight(publish \o <<>>) /\ Range(publish \o <<>>) = Range(publish)
      BY <3>1, <3>2, <3>3, JoinedCalls
    <3>5. p # f
      BY <1>14
    <3>6. CASE agenda' = <<f>> \o Tail(agenda)
      BY <3>1, <3>5, <3>6
    <3>7. CASE agenda' = (publish \o <<f>>) \o Tail(agenda)
      <4> WITNESS publish \o <<f>>
      <4> QED
        BY <3>2, <3>4, <3>5, <3>7
    <3>8. CASE agenda' = (publish \o <<>>) \o Tail(agenda)
      <4> WITNESS publish \o <<>>
      <4> QED
        BY <3>2, <3>4, <3>8
    <3> QED
      BY <1>8, <3>6, <3>7, <3>8
  <2>4. PICK s : /\ AgendaRight(s) /\ Range(s) \subseteq {p, f} /\ agenda' = s \o Tail(agenda)
                 /\ p \in Range(s) => rw.seqLen % BlockTokens = 0
    BY <2>3
  <2>5. /\ AgendaRight(agenda') /\ Forwards' /\ Admission'
        /\ callsFor(agenda', r) = callsFor(s, r) \cup T
        /\ \A q \in Req \ {r} : callsFor(agenda', q) = callsFor(agenda, q)
    <3>1. \A c \in Range(s) : /\ c.op \notin Lone
                              /\ c.op \in RowOps => c.r = r /\ turn(c.op) <= turn("commit")
      BY <1>14, <2>4 DEF Lone, turn
    <3> QED
      BY <1>1, <1>2, <2>4, <3>1, RowCallReplaced
  <2>6. T = {}
    BY <2>1 DEF opsFor
  <2>7. callsFor(agenda', r) \subseteq {p, f} /\ (p \in callsFor(agenda', r) => rw.seqLen % BlockTokens = 0)
    BY <2>4, <2>5, <2>6 DEF callsFor
  <2>8. LiveRight(rx, r, callsFor(agenda', r), opsFor(agenda', r))
    <3> DEFINE C == callsFor(agenda', r)
               new == opsFor(agenda', r)
    <3>1. new \subseteq {"publish", "finish"}
      BY <1>14, <2>7 DEF opsFor
    <3>2. \A c \in C : CallFits(c, rx, r, new)
      <4>1. f \in C => CallFits(f, rx, r, new)
        BY <1>14 DEF CallFits
      <4>2. p \in C => CallFits(p, rx, r, new)
        <5> SUFFICES ASSUME p \in C PROVE CallFits(p, rx, r, new)
          OBVIOUS
        <5>1. p.len % BlockTokens = 0 /\ p.len <= Len(rx.tokens) /\ p.len <= held(rx)
          BY <1>7, <1>11, <1>12, <1>14, <1>15, <2>1, <2>7
        <5> QED
          BY <1>14, <5>1 DEF CallFits
      <4> QED
        BY <2>7, <4>1, <4>2
    <3> HIDE DEF C, new, rx
    <3>3. DecodeRight(rx, r, new)
      <4>1. rx.seqLen = Len(rx.tokens) /\ promptLen(r) < rx.seqLen /\ rx.seqLen - 1 <= held(rx)
        BY <1>7, <1>11, <1>12, <1>15, <2>1
      <4> QED
        BY <3>1, <4>1 DEF DecodeRight
    <3>4. rx.phase = "decode" /\ rx.drafts = <<>> /\ rx.prefillFrom <= promptLen(r)
          /\ rx.pending.len <= promptLen(r) /\ rx.pending.len % BlockTokens = 0
      BY <1>9, <1>12, <1>16
    <3> QED
      BY <1>13, <3>2, <3>3, <3>4 DEF LiveRight, C, new
  <2>9. Pools'
    <3> HIDE DEF rx
    <3> QED
      BY <1>8, <1>12, SameBlocks DEF CommitToken
  <2> HIDE DEF rx
  <2> QED
    BY <1>5, <1>8, <1>12, <2>5, <2>8, <2>9, OneRowStep DEF CommitToken
<1>17. CASE rw.phase = "prefill"
  <2>1. /\ opsT = {"complete"} /\ Len(rw.tokens) = promptLen(r) /\ rw.prefillFrom = promptLen(r)
        /\ rw.seqLen = rw.prefillFrom /\ promptLen(r) <= held(rw)
    <3>1. PrefillRight(rw, r, ops)
      BY <1>6, <1>17 DEF LiveRight
    <3> HIDE DEF rw, ops, opsT
    <3>2. "complete" \in ops /\ Len(rw.tokens) = promptLen(r) /\ "advance" \notin ops
      BY <1>5, <3>1 DEF PrefillRight
    <3>3. opsT = {"complete"}
      BY <1>5, <3>2
    <3>4. rw.prefillFrom = promptLen(r) /\ promptLen(r) <= held(rw) /\ rw.seqLen = rw.prefillFrom + Len(rw.tokens) - promptLen(r)
      BY <3>1, <3>2 DEF PrefillRight
    <3>5. rw.seqLen = rw.prefillFrom
      BY <1>7, <3>2, <3>4
    <3> QED
      BY <3>2, <3>3, <3>4, <3>5
  <2>2. publish = <<>>
    BY <1>17 DEF decodeBoundary
  <2>3. CallType(f) /\ f.op # "forward"
    BY <1>14 DEF CallType, RowOps, Lone
  <2>4. \E s : AgendaRight(s) /\ Range(s) \subseteq {f} /\ agenda' = s \o Tail(agenda)
    <3>1. AgendaRight(<<f>>) /\ Range(<<f>>) = {f} /\ AgendaRight(<<>>) /\ Range(<<>>) = {}
      BY <2>3, OneCall, NoCall
    <3>2. publish \o <<f>> = <<f>> /\ publish \o <<>> = <<>>
      <4>1. <<f>> \in Seq({f}) /\ <<>> \in Seq({f})
        OBVIOUS
      <4> DEFINE g == <<f>>
      <4> HIDE DEF g
      <4>2. <<>> \o g = g /\ <<>> \o <<>> = <<>>
        BY <4>1 DEF g
      <4> QED
        BY <2>2, <4>2 DEF g
    <3> QED
      BY <1>8, <3>1, <3>2
  <2>5. PICK s : AgendaRight(s) /\ Range(s) \subseteq {f} /\ agenda' = s \o Tail(agenda)
    BY <2>4
  <2>6. /\ AgendaRight(agenda') /\ Forwards' /\ Admission'
        /\ callsFor(agenda', r) = callsFor(s, r) \cup T
        /\ \A q \in Req \ {r} : callsFor(agenda', q) = callsFor(agenda, q)
    <3>1. \A c \in Range(s) : /\ c.op \notin Lone
                              /\ c.op \in RowOps => c.r = r /\ turn(c.op) <= turn("commit")
      BY <1>14, <2>5 DEF Lone, turn
    <3> QED
      BY <1>1, <1>2, <2>5, <3>1, RowCallReplaced
  <2>7. /\ opsFor(agenda', r) \subseteq {"complete", "finish"} /\ "complete" \in opsFor(agenda', r)
        /\ \A c \in callsFor(agenda', r) : c.op \in {"complete", "finish"}
    <3>1. callsFor(s, r) \subseteq {f}
      BY <2>5 DEF callsFor
    <3>2. \A c \in T : c.op = "complete"
      BY <2>1 DEF opsFor
    <3>3. \E c \in T : c.op = "complete"
      BY <2>1 DEF opsFor
    <3> HIDE DEF T
    <3> QED
      BY <1>14, <2>6, <3>1, <3>2, <3>3 DEF opsFor
  <2>8. LiveRight(rx, r, callsFor(agenda', r), opsFor(agenda', r))
    <3> DEFINE C == callsFor(agenda', r)
               new == opsFor(agenda', r)
    <3>1. \A c \in C : CallFits(c, rx, r, new)
      BY <2>7 DEF CallFits
    <3> HIDE DEF C, new, rx
    <3>2. new \subseteq {"complete", "finish"} /\ "complete" \in new
      BY <2>7 DEF new
    <3>3. PrefillRight(rx, r, new)
      <4>1. /\ rx.seqLen = rx.prefillFrom + Len(rx.tokens) - promptLen(r)
            /\ Len(rx.tokens) = promptLen(r) + 1 /\ rx.prefillFrom = promptLen(r)
            /\ promptLen(r) <= held(rx) /\ Len(rx.tokens) > promptLen(r)
        BY <1>7, <1>11, <1>12, <1>15, <2>1
      <4> QED
        BY <3>2, <4>1 DEF PrefillRight
    <3>4. rx.phase = "prefill" /\ rx.drafts = <<>> /\ rx.prefillFrom <= promptLen(r)
          /\ rx.pending.len <= promptLen(r) /\ rx.pending.len % BlockTokens = 0
      BY <1>9, <1>12, <1>17
    <3> QED
      BY <1>13, <3>1, <3>3, <3>4 DEF LiveRight, C, new
  <2>9. Pools'
    <3> HIDE DEF rx
    <3> QED
      BY <1>8, <1>12, SameBlocks DEF CommitToken
  <2> HIDE DEF rx
  <2> QED
    BY <1>5, <1>8, <1>12, <2>6, <2>8, <2>9, OneRowStep DEF CommitToken
<1> QED
  BY <1>9, <1>16, <1>17

-----------------------------------------------------------------------------
(* An entry is published *)

\* Nothing of a row hangs on its publishing, nor on the mark it leaves.
LEMMA PublishingOver ==
  ASSUME NEW r, NEW rw, NEW C, NEW T, C \subseteq T, NEW ops, NEW opsT, opsT = ops \cup {"publish"},
         LiveRight(rw, r, T, opsT), NEW rx,
         rx.tokens = rw.tokens, rx.closed = rw.closed, rx.seqLen = rw.seqLen,
         rx.phase = rw.phase, rx.drafts = rw.drafts, rx.prefillFrom = rw.prefillFrom,
         rx.pending = rw.pending, rx.blocks = rw.blocks
  PROVE  LiveRight(rx, r, C, ops)
<1>1. held(rx) = held(rw)
  BY DEF held
<1>2. PrefillRight(rw, r, opsT) => PrefillRight(rx, r, ops)
  BY <1>1 DEF PrefillRight
<1>3. DecodeRight(rw, r, opsT) => DecodeRight(rx, r, ops)
  BY <1>1 DEF DecodeRight
<1>4. ForcedRight(rx, r) <=> ForcedRight(rw, r)
  BY DEF ForcedRight
<1>5. \A c \in C : CallFits(c, rw, r, opsT) => CallFits(c, rx, r, ops)
  BY <1>1 DEF CallFits
<1> QED
  BY <1>2, <1>3, <1>4, <1>5 DEF LiveRight

\* _publish_prefix inserts the row's whole blocks as an entry.
LEMMA EntryPublished == EngineInv /\ Publish => EngineInv'
<1> SUFFICES ASSUME EngineInv, Publish PROVE EngineInv'
  OBVIOUS
<1>1. doing("publish") /\ "publish" \in RowOps \ {"grow"}
  BY DEF Publish, RowOps
<1>2. PICK r \in Req : r = call.r
  BY <1>1, CallOfLive
<1> DEFINE rw == row[r]
           T == callsFor(Tail(agenda), r)
           opsT == opsFor(Tail(agenda), r)
           ops == opsFor(agenda, r)
           n == call.len
           key == SubSeq(rw.tokens, 1, n)
<1>3. Live(r) /\ ops = opsT \cup {"publish"} /\ callsFor(agenda, r) = T \cup {call}
  BY <1>1, <1>2, CallOfLive
<1>4. /\ row \in [Req -> RowType] /\ rw \in RowType /\ LiveRight(rw, r, callsFor(agenda, r), ops)
  BY <1>3, RowKnown
<1>5. n \in Nat \ {0} /\ call.state \in Seq(Tokens) /\ call.op = "publish"
  BY <1>1, Doing DEF CallType
<1>6. /\ rw.tokens \in Seq(Tokens) /\ rw.blocks \in Seq(Block) /\ Len(rw.tokens) \in Nat /\ Len(rw.blocks) \in Nat
      /\ rw.decodeEntry \in Nat
  <2>1. rw.tokens \in Seq(Tokens) /\ rw.blocks \in Seq(Block) /\ rw.decodeEntry \in Nat
    BY <1>4 DEF RowType
  <2> HIDE DEF rw
  <2> QED
    BY <2>1
<1>7. n % BlockTokens = 0 /\ n <= Len(rw.tokens) /\ n <= held(rw)
  <2>1. CallFits(call, rw, r, ops)
    BY <1>3, <1>4 DEF LiveRight
  <2> QED
    BY <1>5, <2>1 DEF CallFits
<1>8. CASE stored(key)
  <2>1. UNCHANGED <<waiting, running, row, result, free, ref, cell, freeSlots, state, store, blocksUsed>>
        /\ agenda' = <<>> \o Tail(agenda)
    BY <1>2, <1>8 DEF Publish, next
  <2>2. /\ AgendaRight(agenda') /\ Forwards' /\ Admission'
        /\ callsFor(agenda', r) = T
        /\ \A q \in Req \ {r} : callsFor(agenda', q) = callsFor(agenda, q)
    BY <1>1, <1>2, <2>1, RowCallDone
  <2>3. opsFor(agenda', r) = opsT
    BY <2>2 DEF opsFor
  <2>4. row' = [row EXCEPT ![r] = rw]
    BY <1>4, <2>1
  <2> HIDE DEF rw, T, opsT, ops
  <2>5. LiveRight(rw, r, T, opsT)
    BY <1>3, <1>4, PublishingOver
  <2>6. Pools'
    BY <2>1, PoolsStand DEF EngineInv
  <2> QED
    BY <1>3, <1>4, <2>1, <2>2, <2>3, <2>4, <2>5, <2>6, OneRowStep
<1>9. CASE ~ stored(key)
  <2> DEFINE mark == IF call.decode THEN n ELSE rw.decodeEntry
             rx == [rw EXCEPT !.decodeEntry = mark]
             t == [op |-> "trim"]
             o == [op |-> "retire", key |-> SubSeq(key, 1, rw.decodeEntry)]
             older == IF call.decode /\ rw.decodeEntry > 0 THEN <<o>> ELSE <<>>
             m == n \div BlockTokens
             bs == SubSeq(rw.blocks, 1, m)
             e == [tokens |-> key, blocks |-> bs, state |-> call.state]
  <2>1. /\ UNCHANGED <<waiting, running, result, free, cell, freeSlots, state, blocksUsed>>
        /\ agenda' = (<<t>> \o older) \o Tail(agenda)
        /\ row' = [row EXCEPT ![r] = rx]
        /\ store' = Append(store, e) /\ ref' = refsTaken(<<>>, bs)
    <3>1. row' = [row EXCEPT ![r].decodeEntry = mark]
      BY <1>2, <1>9 DEF Publish
    <3> HIDE DEF mark
    <3>2. row' = [row EXCEPT ![r] = rx]
      BY <1>4, <3>1
    <3>3. /\ UNCHANGED <<waiting, running, result, free, cell, freeSlots, state, blocksUsed>>
          /\ agenda' = (<<t>> \o older) \o Tail(agenda)
      BY <1>2, <1>9 DEF Publish, next
    <3>4. insertEntry(key, bs, call.state)
      BY <1>2, <1>9 DEF Publish
    <3> QED
      BY <3>2, <3>3, <3>4 DEF insertEntry
  <2>2. mark \in Nat
    BY <1>5, <1>6
  <2> HIDE DEF mark
  <2>3. /\ rx \in RowType
        /\ rx.tokens = rw.tokens /\ rx.closed = rw.closed /\ rx.seqLen = rw.seqLen
        /\ rx.phase = rw.phase /\ rx.drafts = rw.drafts /\ rx.prefillFrom = rw.prefillFrom
        /\ rx.pending = rw.pending /\ rx.blocks = rw.blocks /\ rx.own = rw.own /\ rx.slot = rw.slot
    <3> HIDE DEF rw
    <3> QED
      BY <1>4, <2>2 DEF RowType
  <2> HIDE DEF rx
  <2>4. t.op = "trim" /\ o.op = "retire"
    OBVIOUS
  <2> HIDE DEF t, o
  <2>5. AgendaRight(<<t>> \o older) /\ Range(<<t>> \o older) \subseteq {t, o}
    <3>1. CallType(t) /\ CallType(o) /\ t.op # "forward" /\ o.op # "forward"
      BY <2>4 DEF CallType, RowOps, Lone
    <3>2. AgendaRight(<<t>>) /\ Range(<<t>>) = {t} /\ AgendaRight(older) /\ Range(older) \subseteq {o}
      BY <3>1, OneCall, NoCall
    <3> HIDE DEF older
    <3>3. Follows(<<t>>, older)
      <4>1. \A c \in Range(older) : c = o
        BY <3>2
      <4> QED
        BY <2>4, <3>2, <4>1 DEF Follows, Lone, forRow, RowOps
    <3> QED
      BY <3>2, <3>3, JoinedCalls
  <2> DEFINE s == <<t>> \o older
  <2> HIDE DEF older
  <2>6. /\ AgendaRight(agenda') /\ Forwards' /\ Admission'
        /\ callsFor(agenda', r) = callsFor(s, r) \cup T
        /\ \A q \in Req \ {r} : callsFor(agenda', q) = callsFor(agenda, q)
    <3>1. AgendaRight(s) /\ \A c \in Range(s) : /\ c.op \notin Lone
                                                /\ c.op \in RowOps => c.r = r /\ turn(c.op) <= turn("publish")
      BY <2>4, <2>5 DEF Lone, RowOps
    <3>2. agenda' = s \o Tail(agenda)
      BY <2>1
    <3> HIDE DEF s
    <3> QED
      BY <1>1, <1>2, <3>1, <3>2, RowCallReplaced
  <2>7. callsFor(s, r) = {}
    BY <2>4, <2>5 DEF callsFor, forRow, RowOps
  <2>8. callsFor(agenda', r) = T /\ opsFor(agenda', r) = opsT
    BY <2>6, <2>7 DEF opsFor
  <2>9. LiveRight(rx, r, T, opsT)
    <3> HIDE DEF rw, T, opsT, ops
    <3> QED
      BY <1>3, <1>4, <2>3, PublishingOver
  <2>10. /\ m \in Nat /\ m <= Len(rw.blocks) /\ m * BlockTokens = n
    <3>1. BlockTokens \in Nat \ {0}
      BY PoolAssumption
    <3>2. m \in Nat /\ n = m * BlockTokens
      <4> HIDE DEF n
      <4>1. n \in Nat /\ n % BlockTokens = 0
        BY <1>5, <1>7
      <4>2. /\ (n \div BlockTokens) * BlockTokens \in Int /\ n % BlockTokens = n - (n \div BlockTokens) * BlockTokens
            /\ n \div BlockTokens \in Nat
        BY <3>1, <4>1, Multiples
      <4> HIDE DEF m
      <4>3. m = n \div BlockTokens
        BY DEF m
      <4> QED
        BY <4>1, <4>2, <4>3
    <3> HIDE DEF m, n
    <3>3. m * BlockTokens <= Len(rw.blocks) * BlockTokens
      BY <1>7, <3>2 DEF held
    <3>4. m <= Len(rw.blocks)
      <4> PICK x \in Nat : x = Len(rw.blocks)
        BY <1>6
      <4>1. m * BlockTokens <= x * BlockTokens
        BY <3>3
      <4>2. m <= x
        BY ONLY <3>1, <3>2, <4>1, m \in Nat, x \in Nat
      <4> QED
        BY <4>2
    <3> QED
      BY <3>2, <3>4
  <2>11. key \in Seq(Tokens) /\ Len(key) = n
    <3> HIDE DEF rw, n
    <3> QED
      BY <1>5, <1>6, <1>7
  <2>12. bs \in Seq(Block)
    <3> HIDE DEF rw, m
    <3> QED
      BY <1>6, <2>10
  <2>13. \A i \in 1 .. Len(store) : store[i].tokens # key
    <3>1. store \in Seq(Entry)
      BY DEF EngineInv, Pools, PoolsRight, StoreRight
    <3>2. DOMAIN store = 1 .. Len(store)
      BY <3>1
    <3> HIDE DEF key
    <3> QED
      BY <1>9, <3>2 DEF stored
  <2>14. /\ e \in Entry /\ e.tokens = key /\ e.blocks = bs
    <3> HIDE DEF key, bs
    <3> QED
      BY <1>5, <2>11, <2>12 DEF Entry
  <2>15. PoolsRight(running, row, free, refsMore(ref, <<>>, bs), freeSlots, Append(store, e), blocksUsed)
    <3>1. PoolsRight(running, row, free, ref, freeSlots, store, blocksUsed) /\ r \in Range(running)
      BY <1>3 DEF EngineInv, Pools, Live
    <3>2. e.blocks = SubSeq(row[r].blocks, 1, m) /\ Len(e.tokens) = m * BlockTokens
      BY <2>10, <2>11, <2>14
    <3>3. \A i \in 1 .. Len(store) : store[i].tokens # e.tokens
      BY <2>13, <2>14
    <3>4. m \in Nat /\ m <= Len(row[r].blocks)
      BY <2>10
    <3> HIDE DEF e, m, rw, n
    <3>5. PoolsRight(running, row, free, refsMore(ref, <<>>, e.blocks), freeSlots, Append(store, e), blocksUsed)
      BY <2>14, <3>1, <3>2, <3>3, <3>4, InsertedEntry
    <3> QED
      BY <2>14, <3>5
  <2>16. Pools'
    <3> HIDE DEF e, bs, rw
    <3>1. ref' = refsMore(ref, <<>>, bs)
      BY <2>1 DEF refsTaken, refsMore
    <3>2. SameHeld(running, row, row')
      <4>1. Range(running) \subseteq Req
        BY RangeOf DEF EngineInv, TypeOK
      <4> QED
        BY <1>4, <2>1, <2>3, <4>1 DEF SameHeld, rw
    <3>3. PoolsRight(running, row', free, refsMore(ref, <<>>, bs), freeSlots, Append(store, e), blocksUsed)
      BY <2>15, <3>2, RowsKeepTheirs
    <3> QED
      BY <2>1, <3>1, <3>3 DEF Pools
  <2> QED
    BY <1>3, <2>1, <2>3, <2>6, <2>8, <2>9, <2>16, OneRowStep
<1> QED
  BY <1>8, <1>9

-----------------------------------------------------------------------------
(* The chunks and the ends of the prompts *)

\* _finish_prefills takes a row past the chunk that was forwarded.
LEMMA RowAdvanced == EngineInv /\ Advance => EngineInv'
<1> SUFFICES ASSUME EngineInv, Advance PROVE EngineInv'
  OBVIOUS
<1>1. doing("advance") /\ "advance" \in RowOps \ {"grow"}
  BY DEF Advance, RowOps
<1>2. PICK r \in Req : r = call.r
  BY <1>1, CallOfLive
<1> DEFINE rw == row[r]
           T == callsFor(Tail(agenda), r)
           opsT == opsFor(Tail(agenda), r)
           ops == opsFor(agenda, r)
           n == Len(rw.tokens)
           to == rw.prefillFrom + call.count
           interior == to < n /\ to % BlockTokens = 0
           late == interior /\ rw.interior > 0 /\ n % BlockTokens # 0 /\ to >= lastPrefillBoundary(n)
           snap == [len |-> to, state |-> state[rw.slot]]
           count == IF interior THEN rw.interior + 1 ELSE rw.interior
           pending == IF late THEN snap ELSE rw.pending
           rx == [rw EXCEPT !.prefillFrom = to, !.seqLen = to, !.interior = count, !.pending = pending]
           c == [op |-> "publish", r |-> r, len |-> to, state |-> state[rw.slot], decode |-> FALSE]
           first == interior /\ rw.interior = 0
<1>3. /\ Live(r) /\ ops = opsT \cup {"advance"} /\ callsFor(agenda, r) = T \cup {call}
      /\ opsT \subseteq {"sample", "commit", "finish", "complete"}
  <2>1. /\ Live(r) /\ ops = opsT \cup {"advance"} /\ callsFor(agenda, r) = T \cup {call}
        /\ \A o \in opsT : o \in RowOps /\ turn("advance") < turn(o)
    BY <1>1, <1>2, CallOfLive
  <2> HIDE DEF opsT, ops, T
  <2> QED
    BY <2>1 DEF turn, RowOps
<1>4. /\ row \in [Req -> RowType] /\ rw \in RowType /\ LiveRight(rw, r, callsFor(agenda, r), ops)
      /\ state[rw.slot] \in Seq(Tokens)
  BY <1>3, RowKnown
<1>5. /\ rw.tokens \in Seq(Tokens) /\ n \in Nat /\ rw.prefillFrom \in Nat /\ call.count \in Nat \ {0}
      /\ rw.interior \in Nat /\ rw.pending \in [len : Nat, state : Seq(Tokens)] /\ promptLen(r) \in Nat \ {0}
      /\ call.op = "advance" /\ rw.seqLen \in Nat /\ rw.blocks \in Seq(Block)
  <2>1. /\ rw.tokens \in Seq(Tokens) /\ rw.prefillFrom \in Nat /\ rw.interior \in Nat /\ rw.seqLen \in Nat
        /\ rw.pending \in [len : Nat, state : Seq(Tokens)] /\ rw.blocks \in Seq(Block)
    BY <1>4 DEF RowType
  <2>2. call.op = "advance" /\ CallType(call)
    BY <1>1, Doing
  <2>3. call.count \in Nat \ {0} /\ promptLen(r) \in Nat \ {0}
    BY <2>2, TokensAre DEF CallType
  <2> HIDE DEF rw
  <2> QED
    BY <2>1, <2>2, <2>3
<1>6. /\ rw.phase = "prefill" /\ PrefillRight(rw, r, ops) /\ to <= promptLen(r)
      /\ to = promptLen(r) <=> "complete" \in ops
      /\ rw.drafts = <<>> /\ ForcedRight(rw, r) /\ rw.pending.len <= promptLen(r) /\ rw.pending.len % BlockTokens = 0
  <2>1. CallFits(call, rw, r, ops)
    BY <1>3, <1>4 DEF LiveRight
  <2>2. to <= promptLen(r) /\ (to = promptLen(r) <=> "complete" \in ops)
    BY <1>5, <2>1 DEF CallFits
  <2>3. ~ DecodeRight(rw, r, ops)
    BY <1>3 DEF DecodeRight
  <2> HIDE DEF rw, ops
  <2> QED
    BY <1>4, <2>2, <2>3 DEF LiveRight
<1>7. /\ row' = [row EXCEPT ![r] = rx]
      /\ agenda' = (IF first THEN <<c>> ELSE <<>>) \o Tail(agenda)
      /\ UNCHANGED <<waiting, running, result, free, ref, cell, freeSlots, state, store, blocksUsed>>
  <2>1. row' = [row EXCEPT ![r].prefillFrom = to, ![r].seqLen = to, ![r].interior = count, ![r].pending = pending]
    <3>1. row' = [row EXCEPT ![r].prefillFrom = to, ![r].seqLen = to,
                             ![r].interior = IF interior THEN @ + 1 ELSE @,
                             ![r].pending = IF late THEN snap ELSE @]
      BY <1>2 DEF Advance
    <3> HIDE DEF interior, late, to, snap
    <3> QED
      BY <1>4, <3>1
  <2> HIDE DEF to, count, pending
  <2>2. row' = [row EXCEPT ![r] = rx]
    BY <1>4, <2>1
  <2>3. /\ agenda' = (IF first THEN <<c>> ELSE <<>>) \o Tail(agenda)
        /\ UNCHANGED <<waiting, running, result, free, ref, cell, freeSlots, state, store, blocksUsed>>
    BY <1>2 DEF Advance, next, publishPrompt, to
  <2> QED
    BY <2>2, <2>3
<1>8. to \in Nat \ {0} /\ count \in Nat /\ snap \in [len : Nat, state : Seq(Tokens)]
      /\ snap.len = to /\ c.op = "publish" /\ c.r = r /\ c.len = to /\ c.state = state[rw.slot] /\ c.decode = FALSE
  <2>1. to \in Nat \ {0}
    <3> HIDE DEF rw
    <3> QED
      BY <1>5
  <2> HIDE DEF to, rw
  <2> QED
    BY <1>4, <1>5, <2>1
<1> HIDE DEF snap, c, count
<1>9. /\ pending \in [len : Nat, state : Seq(Tokens)]
      /\ pending.len <= promptLen(r) /\ pending.len % BlockTokens = 0
  <2>1. CASE late
    <3>1. pending = snap /\ interior
      BY <2>1
    <3> HIDE DEF pending, late, to, rw
    <3> QED
      BY <1>6, <1>8, <3>1
  <2>2. CASE ~ late
    <3>1. pending = rw.pending
      BY <2>2
    <3> HIDE DEF pending, late, to, rw
    <3> QED
      BY <1>5, <1>6, <3>1
  <2> QED
    BY <2>1, <2>2
<1> HIDE DEF pending, late
<1>10. /\ rx \in RowType
       /\ rx.tokens = rw.tokens /\ rx.closed = rw.closed /\ rx.seqLen = to
       /\ rx.phase = rw.phase /\ rx.drafts = rw.drafts /\ rx.prefillFrom = to
       /\ rx.pending = pending /\ rx.blocks = rw.blocks /\ rx.own = rw.own /\ rx.slot = rw.slot
  <2> HIDE DEF rw, to
  <2> QED
    BY <1>4, <1>8, <1>9 DEF RowType
<1> HIDE DEF rx
<1>11. n = promptLen(r) /\ promptLen(r) <= held(rw)
  <2>1. /\ n \in {promptLen(r), promptLen(r) + 1} /\ (n > promptLen(r) => rw.prefillFrom = promptLen(r))
        /\ promptLen(r) <= held(rw)
    BY <1>6 DEF PrefillRight
  <2>2. rw.prefillFrom # promptLen(r)
    BY <1>5, <1>6
  <2> HIDE DEF rw, n
  <2> QED
    BY <1>5, <2>1, <2>2
<1>12. CallType(c)
  BY <1>4, <1>8 DEF CallType, RowOps, Lone
<1>13. /\ AgendaRight(agenda') /\ Forwards' /\ Admission'
       /\ callsFor(agenda', r) = T \cup (IF first THEN {c} ELSE {})
       /\ \A q \in Req \ {r} : callsFor(agenda', q) = callsFor(agenda, q)
  <2>1. c.op \in RowOps /\ turn(c.op) <= turn("advance")
    BY <1>8 DEF RowOps, turn
  <2>2. CASE first
    <3>1. agenda' = <<c>> \o Tail(agenda)
      BY <1>7, <2>2
    <3> HIDE DEF first
    <3>2. /\ AgendaRight(agenda') /\ Forwards' /\ Admission'
          /\ callsFor(agenda', r) = {c} \cup callsFor(Tail(agenda), r)
          /\ \A q \in Req \ {r} : callsFor(agenda', q) = callsFor(agenda, q)
      BY <1>1, <1>2, <1>8, <1>12, <2>1, <3>1, RowCallForAnother
    <3> QED
      BY <2>2, <3>2
  <2>3. CASE ~ first
    <3>1. agenda' = <<>> \o Tail(agenda)
      BY <1>7, <2>3
    <3> HIDE DEF first
    <3>2. /\ AgendaRight(agenda') /\ Forwards' /\ Admission'
          /\ callsFor(agenda', r) = callsFor(Tail(agenda), r)
          /\ \A q \in Req \ {r} : callsFor(agenda', q) = callsFor(agenda, q)
      BY <1>1, <1>2, <3>1, RowCallDone
    <3> QED
      BY <2>3, <3>2
  <2> QED
    BY <2>2, <2>3
<1>14. opsFor(agenda', r) = opsT \cup (IF first THEN {"publish"} ELSE {})
  <2> HIDE DEF first
  <2> QED
    BY <1>8, <1>13 DEF opsFor
<1>15. LiveRight(rx, r, callsFor(agenda', r), opsFor(agenda', r))
  <2> DEFINE C == callsFor(agenda', r)
             new == opsFor(agenda', r)
  <2>1. ASSUME NEW d \in C PROVE CallFits(d, rx, r, new)
    <3>1. CASE d \in T
      <4>1. d.op \in opsT
        BY <3>1 DEF opsFor
      <4>2. d.op # "publish" /\ d.op # "advance"
        BY <1>3, <4>1
      <4> QED
        BY <4>2 DEF CallFits
    <3>2. CASE d \notin T
      <4>1. d = c /\ interior
        BY <1>13, <2>1, <3>2
      <4>2. to % BlockTokens = 0 /\ to <= Len(rx.tokens) /\ to <= held(rx)
        <5>1. held(rx) = held(rw) /\ Len(rx.tokens) = n /\ to % BlockTokens = 0
          BY <1>10, <4>1 DEF held
        <5>2. held(rw) \in Int
          <6>1. Len(rw.blocks) \in Nat /\ BlockTokens \in Nat
            <7> HIDE DEF rw
            <7> QED
              BY <1>5, PoolAssumption
          <6> HIDE DEF rw
          <6> QED
            BY <6>1 DEF held
        <5> HIDE DEF rw, to, n
        <5> QED
          BY <1>5, <1>6, <1>8, <1>11, <5>1, <5>2
      <4> QED
        BY <1>8, <4>1, <4>2 DEF CallFits
    <3> QED
      BY <3>1, <3>2
  <2>2. PrefillRight(rx, r, new)
    <3>1. "complete" \in new <=> "complete" \in ops
      BY <1>3, <1>14
    <3>2. \A x \in {"sample", "commit", "finish"} : x \in new <=> x \in ops
      BY <1>3, <1>14
    <3>3. "advance" \notin new /\ "grow" \notin new
      BY <1>3, <1>14
    <3> HIDE DEF new, rw, to, n, ops
    <3>4. /\ rx.seqLen = rx.prefillFrom + Len(rx.tokens) - promptLen(r)
          /\ Len(rx.tokens) = promptLen(r) /\ ~ (Len(rx.tokens) > promptLen(r))
          /\ promptLen(r) <= held(rx)
      BY <1>5, <1>8, <1>10, <1>11 DEF held, n
    <3>5. "advance" \in ops
      BY <1>3 DEF ops
    <3>6. "complete" \in ops <=> "sample" \in ops
      BY <1>6, <3>5 DEF PrefillRight
    <3>7. ("sample" \in ops \/ "commit" \in ops) => "complete" \in ops
      BY <1>6 DEF PrefillRight
    <3>8. rx.prefillFrom = promptLen(r) <=> "complete" \in new
      BY <1>6, <1>10, <3>1
    <3> QED
      BY <3>1, <3>2, <3>3, <3>4, <3>6, <3>7, <3>8 DEF PrefillRight
  <2>3. ForcedRight(rx, r)
    BY <1>6, <1>10 DEF ForcedRight
  <2>4. rx.phase = "prefill" /\ rx.drafts = <<>> /\ rx.prefillFrom <= promptLen(r)
        /\ rx.pending.len <= promptLen(r) /\ rx.pending.len % BlockTokens = 0
    BY <1>6, <1>9, <1>10
  <2> HIDE DEF C, new
  <2> QED
    BY <2>1, <2>2, <2>3, <2>4 DEF LiveRight, C, new
<1>16. Pools'
  BY <1>7, <1>10, SameBlocks
<1> QED
  BY <1>3, <1>7, <1>10, <1>13, <1>15, <1>16, OneRowStep

\* _finish_prefills turns a row whose prompt is through to decoding.
LEMMA PromptCompleted == EngineInv /\ Complete => EngineInv'
<1> SUFFICES ASSUME EngineInv, Complete PROVE EngineInv'
  OBVIOUS
<1>1. doing("complete") /\ "complete" \in RowOps \ {"grow"}
  BY DEF Complete, RowOps
<1>2. PICK r \in Req : r = call.r
  BY <1>1, CallOfLive
<1> DEFINE rw == row[r]
           T == callsFor(Tail(agenda), r)
           opsT == opsFor(Tail(agenda), r)
           ops == opsFor(agenda, r)
           n == promptLen(r)
<1>3. /\ ops = opsT \cup {"complete"} /\ callsFor(agenda, r) = T \cup {call}
      /\ opsT = {} /\ T = {}
  <2>1. /\ ops = opsT \cup {"complete"} /\ callsFor(agenda, r) = T \cup {call}
        /\ \A o \in opsT : o \in RowOps /\ turn("complete") < turn(o)
    BY <1>1, <1>2, CallOfLive
  <2>2. opsT = {}
    <3> HIDE DEF opsT, ops, T
    <3> QED
      BY <2>1 DEF turn, RowOps
  <2>3. T = {}
    BY <2>2 DEF opsFor
  <2> QED
    BY <2>1, <2>2, <2>3
<1>4. /\ row \in [Req -> RowType] /\ rw \in RowType
      /\ RowRight(r, rw, callsFor(agenda, r), Live(r), Queued(r), result[r])
  BY RowKnown
<1>5. CASE rw.phase = "done"
  <2>1. agenda' = <<>> \o Tail(agenda)
        /\ UNCHANGED <<waiting, running, row, result, free, ref, cell, freeSlots, state, store, blocksUsed>>
    BY <1>2, <1>5 DEF Complete, next
  <2>2. /\ AgendaRight(agenda') /\ Forwards' /\ Admission'
        /\ callsFor(agenda', r) = T
        /\ \A q \in Req \ {r} : callsFor(agenda', q) = callsFor(agenda, q)
    BY <1>1, <1>2, <2>1, RowCallDone
  <2>3. ~ Live(r) /\ ~ Queued(r) /\ result[r] # "none"
    <3>1. ~ Live(r)
      BY <1>4, <1>5 DEF RowRight, LiveRight
    <3>2. callsFor(agenda, r) # {}
      BY <1>3
    <3> QED
      BY <1>4, <3>1, <3>2 DEF RowRight
  <2>4. RowRight(r, row'[r], callsFor(agenda', r), r \in Range(running'), r \in Range(waiting'), result'[r])
    <3>1. callsFor(agenda', r) = {}
      BY <1>3, <2>2
    <3> QED
      BY <1>5, <2>1, <2>3, <3>1, DoneRight DEF Live, Queued
  <2>5. Pools' /\ Contents' /\ Queue(waiting')
    BY <2>1, PoolsStand, PartsFromTypes DEF EngineInv, Contents
  <2>6. \A q \in Req \ {r} : /\ row'[q] = row[q] /\ result'[q] = result[q]
                             /\ Live(q)' <=> Live(q)
                             /\ Queued(q)' <=> Queued(q)
    BY <2>1 DEF Live, Queued
  <2> QED
    BY <2>2, <2>4, <2>5, <2>6, RowStep DEF Live, Queued
<1>6. CASE rw.phase # "done"
  <2> DEFINE rx == [rw EXCEPT !.phase = "decode", !.pending = NoSnapshot]
             pub(len, snap) == [op |-> "publish", r |-> r, len |-> len, state |-> snap, decode |-> FALSE]
  <2>1. Live(r)
    <3>1. callsFor(agenda, r) # {}
      BY <1>3
    <3> QED
      BY <1>4, <1>6, <3>1 DEF RowRight
  <2>2. LiveRight(rw, r, callsFor(agenda, r), ops) /\ state[rw.slot] \in Seq(Tokens)
    BY <2>1, RowKnown
  <2>3. /\ rw.tokens \in Seq(Tokens) /\ Len(rw.tokens) \in Nat /\ rw.prefillFrom \in Nat /\ n \in Nat \ {0}
        /\ rw.pending.len \in Nat /\ rw.pending.state \in Seq(Tokens) /\ rw.seqLen \in Nat
        /\ rw.blocks \in Seq(Block) /\ held(rw) \in Nat /\ BlockTokens \in Nat \ {0}
    <3>1. /\ rw.tokens \in Seq(Tokens) /\ rw.prefillFrom \in Nat /\ rw.seqLen \in Nat
          /\ rw.pending \in [len : Nat, state : Seq(Tokens)] /\ rw.blocks \in Seq(Block)
      BY <1>4 DEF RowType
    <3>2. n \in Nat \ {0} /\ BlockTokens \in Nat \ {0}
      BY TokensAre, PoolAssumption
    <3> HIDE DEF rw, n
    <3>3. Len(rw.tokens) \in Nat /\ Len(rw.blocks) \in Nat
      BY <3>1
    <3>4. held(rw) \in Nat
      BY <3>2, <3>3 DEF held
    <3> QED
      BY <3>1, <3>2, <3>3, <3>4
  <2>4. /\ rw.phase = "prefill" /\ rw.prefillFrom = n /\ Len(rw.tokens) = n + 1 /\ rw.seqLen = Len(rw.tokens)
        /\ n <= held(rw) /\ rw.drafts = <<>> /\ ForcedRight(rw, r)
        /\ rw.pending.len <= n /\ rw.pending.len % BlockTokens = 0
    <3>1. ops = {"complete"}
      BY <1>3
    <3> HIDE DEF rw, ops
    <3>2. ~ DecodeRight(rw, r, ops)
      BY <3>1 DEF DecodeRight
    <3>3. rw.phase = "prefill" /\ PrefillRight(rw, r, ops)
      BY <2>2, <3>2 DEF LiveRight
    <3>4. rw.prefillFrom = n /\ Len(rw.tokens) > n /\ Len(rw.tokens) \in {n, n + 1} /\ n <= held(rw)
          /\ rw.seqLen = rw.prefillFrom + Len(rw.tokens) - n
      BY <3>1, <3>3 DEF PrefillRight
    <3> HIDE DEF n
    <3>5. Len(rw.tokens) = n + 1 /\ rw.seqLen = Len(rw.tokens)
      BY <2>3, <3>4
    <3> QED
      BY <2>2, <3>3, <3>4, <3>5 DEF LiveRight, n
  <2>5. /\ row' = [row EXCEPT ![r] = rx]
        /\ agenda' = completionEntry(r) \o Tail(agenda)
        /\ UNCHANGED <<waiting, running, result, free, ref, cell, freeSlots, state, store, blocksUsed>>
    <3>1. row' = [row EXCEPT ![r].phase = "decode", ![r].pending = NoSnapshot]
      BY <1>2, <1>6 DEF Complete
    <3>2. row' = [row EXCEPT ![r] = rx]
      BY <1>4, <3>1
    <3> QED
      BY <1>2, <1>6, <3>2 DEF Complete, next
  <2>6. /\ rx \in RowType
        /\ rx.tokens = rw.tokens /\ rx.closed = rw.closed /\ rx.seqLen = rw.seqLen
        /\ rx.phase = "decode" /\ rx.drafts = rw.drafts /\ rx.prefillFrom = rw.prefillFrom
        /\ rx.pending = NoSnapshot /\ rx.blocks = rw.blocks /\ rx.own = rw.own /\ rx.slot = rw.slot
    <3>1. NoSnapshot \in [len : Nat, state : Seq(Tokens)]
      <4>1. <<>> \in Seq(Tokens)
        BY EmptySeq
      <4> QED
        BY <4>1 DEF NoSnapshot
    <3> HIDE DEF rw
    <3> QED
      BY <1>4, <3>1 DEF RowType
  <2>7. completionEntry(r) = <<>> \/
          \E len \in Nat \ {0}, snap \in Seq(Tokens) :
            len % BlockTokens = 0 /\ len <= n /\ completionEntry(r) = <<pub(len, snap)>>
    <3>1. completionEntry(r) =
            IF n % BlockTokens = 0 THEN <<pub(n, state[rw.slot])>>
            ELSE IF rw.pending.len > 0 THEN <<pub(rw.pending.len, rw.pending.state)>> ELSE <<>>
      BY DEF completionEntry, publishPrompt, promptLen
    <3> HIDE DEF pub, n, rw
    <3>2. CASE n % BlockTokens = 0
      BY <2>2, <2>3, <3>1, <3>2
    <3>3. CASE n % BlockTokens # 0 /\ rw.pending.len > 0
      <4>1. rw.pending.len \in Nat \ {0}
        BY <2>3, <3>3
      <4>2. completionEntry(r) = <<pub(rw.pending.len, rw.pending.state)>>
        BY <3>1, <3>3
      <4> QED
        BY <2>3, <2>4, <4>1, <4>2 DEF n
    <3>4. CASE n % BlockTokens # 0 /\ ~ (rw.pending.len > 0)
      BY <3>1, <3>4
    <3> QED
      BY <3>2, <3>3, <3>4
  <2>8. /\ AgendaRight(agenda') /\ Forwards' /\ Admission'
        /\ \A q \in Req \ {r} : callsFor(agenda', q) = callsFor(agenda, q)
        /\ \A d \in callsFor(agenda', r) :
             d.op = "publish" /\ d.len \in Nat /\ d.len % BlockTokens = 0 /\ d.len <= n
    <3>1. CASE completionEntry(r) = <<>>
      <4>1. agenda' = <<>> \o Tail(agenda)
        BY <2>5, <3>1
      <4>2. /\ AgendaRight(agenda') /\ Forwards' /\ Admission'
            /\ callsFor(agenda', r) = T
            /\ \A q \in Req \ {r} : callsFor(agenda', q) = callsFor(agenda, q)
        BY <1>1, <1>2, <4>1, RowCallDone
      <4> QED
        BY <1>3, <4>2
    <3>2. CASE \E len \in Nat \ {0}, snap \in Seq(Tokens) :
                 len % BlockTokens = 0 /\ len <= n /\ completionEntry(r) = <<pub(len, snap)>>
      <4>1. PICK len \in Nat \ {0}, snap \in Seq(Tokens) :
              len % BlockTokens = 0 /\ len <= n /\ completionEntry(r) = <<pub(len, snap)>>
        BY <3>2
      <4> DEFINE c == pub(len, snap)
      <4>2. c.op = "publish" /\ c.r = r /\ c.len = len /\ c.state = snap /\ c.decode = FALSE
        OBVIOUS
      <4>3. agenda' = <<c>> \o Tail(agenda)
        BY <2>5, <4>1
      <4> HIDE DEF c
      <4>4. CallType(c) /\ c.op \in RowOps /\ turn(c.op) <= turn("complete")
        <5>1. c.len \in Nat \ {0} /\ c.state \in Seq(Tokens) /\ c.decode \in BOOLEAN /\ c.r \in Req
          BY <4>2
        <5> QED
          BY <4>2, <5>1 DEF CallType, RowOps, Lone, turn
      <4>5. /\ AgendaRight(agenda') /\ Forwards' /\ Admission'
            /\ callsFor(agenda', r) = {c} \cup callsFor(Tail(agenda), r)
            /\ \A q \in Req \ {r} : callsFor(agenda', q) = callsFor(agenda, q)
        BY <1>1, <1>2, <4>2, <4>3, <4>4, RowCallForAnother
      <4> QED
        BY <1>3, <4>1, <4>2, <4>5
    <3> HIDE DEF pub
    <3> QED
      BY <2>7, <3>1, <3>2
  <2>9. LiveRight(rx, r, callsFor(agenda', r), opsFor(agenda', r))
    <3> DEFINE C == callsFor(agenda', r)
               new == opsFor(agenda', r)
    <3>1. new \subseteq {"publish"}
      BY <2>8 DEF opsFor
    <3>2. held(rx) = held(rw)
      BY <2>6 DEF held
    <3> HIDE DEF C, new, rx, rw
    <3>3. \A c \in C : CallFits(c, rx, r, new)
      <4> SUFFICES ASSUME NEW c \in C PROVE CallFits(c, rx, r, new)
        OBVIOUS
      <4>1. c.op = "publish" /\ c.len \in Nat /\ c.len % BlockTokens = 0 /\ c.len <= n
        BY <2>8 DEF C
      <4> HIDE DEF n
      <4>2. c.len <= Len(rx.tokens) /\ c.len <= held(rx)
        BY <2>3, <2>4, <2>6, <3>2, <4>1 DEF n
      <4> QED
        BY <4>1, <4>2 DEF CallFits
    <3>4. DecodeRight(rx, r, new)
      <4>1. rx.seqLen = Len(rx.tokens) /\ promptLen(r) < rx.seqLen /\ rx.seqLen - 1 <= held(rx)
        <5> HIDE DEF n
        <5>1. n < rx.seqLen /\ rx.seqLen - 1 <= held(rx)
          BY <2>3, <2>4, <2>6, <3>2 DEF n
        <5> QED
          BY <2>4, <2>6, <5>1 DEF n
      <4> QED
        BY <3>1, <4>1 DEF DecodeRight
    <3>5. ForcedRight(rx, r)
      BY <2>4, <2>6 DEF ForcedRight
    <3>6. rx.phase = "decode" /\ rx.drafts = <<>> /\ rx.prefillFrom <= promptLen(r)
          /\ rx.pending.len <= promptLen(r) /\ rx.pending.len % BlockTokens = 0
      <4>1. rx.pending.len = 0
        BY <2>6 DEF NoSnapshot
      <4>2. 0 % BlockTokens = 0
        BY <2>3, Multiples
      <4> QED
        BY <2>3, <2>4, <2>6, <4>1, <4>2
    <3> QED
      BY <3>3, <3>4, <3>5, <3>6 DEF LiveRight, C, new
  <2>10. Pools'
    <3> HIDE DEF rx
    <3> QED
      BY <2>5, <2>6, SameBlocks
  <2> HIDE DEF rx
  <2> QED
    BY <2>1, <2>5, <2>6, <2>8, <2>9, <2>10, OneRowStep
<1> QED
  BY <1>5, <1>6

-----------------------------------------------------------------------------
(* A decoding row takes its next block *)

\* The greatest of two numbers.
LEMMA GreaterOf ==
  ASSUME NEW a \in Int, NEW b \in Int
  PROVE  Max({a, b}) \in {a, b} /\ a <= Max({a, b}) /\ b <= Max({a, b})
<1>1. \E m \in {a, b} : \A n \in {a, b} : n <= m
  OBVIOUS
<1> DEFINE m == Max({a, b})
<1>2. m \in {a, b} /\ \A n \in {a, b} : m >= n
  BY <1>1 DEF Max
<1> QED
  BY <1>2

\* More blocks hold more.
LEMMA TimesMore ==
  ASSUME NEW n \in Nat, NEW a \in Int, NEW b \in Int, a <= b
  PROVE  a * n <= b * n
OBVIOUS

\* What a row lacks for a chain of one token is what it needs for its sequence.
LEMMA RoomFor ==
  ASSUME NEW s \in Nat, NEW h \in Nat
  PROVE  decodeExtraBlocks(s, 1, h) \in Nat /\ s <= (h + decodeExtraBlocks(s, 1, h)) * BlockTokens
<1> DEFINE B == BlockTokens
           z == s + 1 - 2 + B
           x == z \div B
           need == decodeExtraBlocks(s, 1, h)
<1>1. B \in Nat \ {0}
  BY PoolAssumption
<1> HIDE DEF B
<1>2. z \in Int /\ z = s - 1 + B
  BY <1>1
<1> HIDE DEF z
<1>3. x \in Int /\ z < x * B + B
  BY <1>1, <1>2, Multiples
<1>4. need = Max({0, x - h})
  BY DEF decodeExtraBlocks, z, B
<1> HIDE DEF x, need
<1>5. need \in Nat /\ x <= h + need
  <2> DEFINE y == x - h
  <2>1. y \in Int
    BY <1>3
  <2> HIDE DEF y
  <2>2. Max({0, y}) \in {0, y} /\ 0 <= Max({0, y}) /\ y <= Max({0, y})
    BY <2>1, GreaterOf
  <2>3. need = Max({0, y})
    BY <1>4 DEF y
  <2> QED
    BY <1>3, <2>1, <2>2, <2>3 DEF y
<1>6. x * B <= (h + need) * B
  <2> DEFINE y == h + need
  <2>1. y \in Int /\ x <= y
    BY <1>5
  <2> HIDE DEF y
  <2>2. x * B <= y * B
    BY <1>1, <1>3, <2>1, TimesMore
  <2> QED
    BY <2>2 DEF y
<1>7. s <= x * B
  BY <1>1, <1>2, <1>3
<1>8. x * B \in Int /\ (h + need) * B \in Int
  BY <1>1, <1>3, <1>5
<1>9. s <= (h + need) * B
  <2> DEFINE u == x * B
             v == (h + need) * B
  <2>1. u \in Int /\ v \in Int /\ u <= v /\ s <= u
    BY <1>6, <1>7, <1>8
  <2> HIDE DEF u, v
  <2>2. s <= v
    BY <2>1
  <2> QED
    BY <2>2 DEF v
<1> QED
  BY <1>5, <1>9 DEF need, B

\* A decoding row takes a block, or fails for want of one, and the other rows go on.
LEMMA RowGrown == EngineInv /\ Grow => EngineInv'
<1> SUFFICES ASSUME EngineInv, Grow PROVE EngineInv'
  OBVIOUS
<1>1. doing("grow") /\ "grow" \in RowOps
  BY DEF Grow, RowOps
<1>2. PICK r \in Req : r = call.r
  BY <1>1, CallOfLive
<1> DEFINE rw == row[r]
           T == callsFor(Tail(agenda), r)
           ops == opsFor(agenda, r)
           need == decodeExtraBlocks(rw.seqLen, 1, Len(rw.blocks))
<1>3. /\ Live(r) /\ "grow" \in ops
      /\ \A o \in opsFor(Tail(agenda), r) : o \in RowOps /\ turn("grow") < turn(o)
      /\ ops = opsFor(Tail(agenda), r) \cup {"grow"}
      /\ \A q \in Req \ {r} : callsFor(agenda, q) = callsFor(Tail(agenda), q)
  BY <1>1, <1>2, CallOfLive
<1>4. agenda # <<>> /\ AgendaRight(agenda) /\ Head(agenda).op = "grow" /\ call.q = 1
  BY <1>1, Doing DEF call, CallType
<1>5. agenda' = Tail(agenda) /\ AgendaRight(agenda') /\ Range(agenda') \subseteq Range(agenda)
  BY <1>4, Dropped DEF Grow, next
<1>6. /\ row \in [Req -> RowType] /\ rw \in RowType /\ LiveRight(rw, r, callsFor(agenda, r), ops) /\ ~ Queued(r)
  BY <1>3, RowKnown
<1>7. /\ rw.tokens \in Seq(Tokens) /\ rw.blocks \in Seq(Block) /\ Len(rw.blocks) \in Nat /\ rw.seqLen \in Nat
      /\ Len(rw.tokens) \in Nat /\ promptLen(r) \in Nat /\ rw.own \in Nat
  <2>1. rw.tokens \in Seq(Tokens) /\ rw.blocks \in Seq(Block) /\ rw.seqLen \in Nat /\ rw.own \in Nat
    BY <1>6 DEF RowType
  <2>2. promptLen(r) \in Nat
    BY TokensAre
  <2> HIDE DEF rw
  <2> QED
    BY <2>1, <2>2
<1>8. /\ rw.phase = "decode" /\ DecodeRight(rw, r, ops) /\ T = {}
  <2>1. rw.phase = "decode" /\ DecodeRight(rw, r, ops)
    <3> HIDE DEF rw, ops
    <3>1. ~ PrefillRight(rw, r, ops)
      BY <1>3 DEF PrefillRight
    <3> QED
      BY <1>6, <3>1 DEF LiveRight
  <2>2. ops = {"grow"}
    <3> HIDE DEF ops
    <3> QED
      BY <1>3, <2>1 DEF DecodeRight
  <2>3. opsFor(Tail(agenda), r) = {}
    <3> HIDE DEF ops
    <3>1. turn("grow") = 0
      BY DEF turn
    <3>2. ~ (0 < 0)
      OBVIOUS
    <3>3. "grow" \notin opsFor(Tail(agenda), r)
      BY <1>3, <3>1, <3>2
    <3> QED
      BY <1>3, <2>2, <3>3
  <2> QED
    BY <2>1, <2>3 DEF opsFor
<1>9. /\ callsFor(agenda', r) = {} /\ opsFor(agenda', r) = {}
      /\ \A q \in Req \ {r} : callsFor(agenda', q) = callsFor(agenda, q) /\ opsFor(agenda', q) = opsFor(agenda, q)
  BY <1>3, <1>5, <1>8 DEF opsFor
<1>10. Admission'
  <2>1. \A c \in Range(agenda') : c.op \notin {"adopt", "readmit"}
    <3>1. \A c \in Range(Tail(agenda)) : c.op \in Lone => "grow" \in ahead(c.op)
      BY <1>4, TakenCall
    <3> QED
      BY <1>5, <3>1 DEF Lone, ahead
  <2> QED
    BY <2>1 DEF Admission
<1>11. need \in Nat /\ rw.seqLen <= (Len(rw.blocks) + need) * BlockTokens
  <2> HIDE DEF rw
  <2> QED
    BY <1>7, RoomFor
<1>12. \A c \in Range(agenda') : c.op = "forward" => ForwardType(c) /\ ForwardFits(c)
  BY <1>4, <1>5 DEF EngineInv, Forwards, AgendaRight
<1>13. UNCHANGED <<waiting, cell, state, store>>
  BY DEF Grow
<1> HIDE DEF need
<1>14. CASE need > Len(free)
  <2>1. finish(r, "failed") /\ r \in Range(running)
    BY <1>2, <1>3, <1>4, <1>14 DEF Grow, Live, need
  <2>2. /\ Pools' /\ row' \in [Req -> RowType]
        /\ result' \in [Req -> {"none", "finished", "failed", "taken"}]
        /\ Range(running') = Range(running) \ {r}
        /\ \A q \in Req \ {r} : row'[q] = row[q] /\ result'[q] = result[q]
        /\ row'[r].phase = "done" /\ result'[r] = "failed"
    BY <1>13, <2>1, FinishedRow
  <2>3. \A q \in Req \ {r} : (Live(q)' <=> Live(q)) /\ (Queued(q)' <=> Queued(q))
    BY <1>13, <2>2 DEF Live, Queued
  <2>4. RowRight(r, row'[r], callsFor(agenda', r), Live(r)', Queued(r)', result'[r])
    <3>1. ~ Live(r)' /\ ~ Queued(r)'
      BY <1>6, <1>13, <2>2 DEF Live, Queued
    <3>2. {c.op : c \in callsFor(agenda', r)} \subseteq {"complete"}
      BY <1>9
    <3> QED
      BY <2>2, <3>1, <3>2, DoneRight
  <2>5. Forwards'
    <3>1. ASSUME NEW c \in Range(agenda'), c.op = "forward" PROVE ForwardFits(c)'
      <4>1. ForwardType(c) /\ ForwardFits(c)
        BY <1>12, <3>1
      <4>2. ASSUME NEW d \in Range(c.decodes)
            PROVE  \/ row'[d.r].phase = "done"
                   \/ /\ Live(d.r)' /\ row'[d.r].phase = "decode"
                      /\ "grow" \in opsFor(agenda', d.r) \/ row'[d.r].seqLen <= held(row'[d.r])
        <5>1. d.r \in Req
          BY <4>1 DEF ForwardType
        <5>2. CASE d.r = r
          BY <2>2, <5>2
        <5>3. CASE d.r # r
          BY <1>9, <2>2, <4>1, <5>1, <5>3 DEF ForwardFits, Live
        <5> QED
          BY <5>2, <5>3
      <4>3. ASSUME NEW f \in Range(c.prefills)
            PROVE  /\ Live(f.r)' /\ row'[f.r].phase = "prefill"
                   /\ row'[f.r].prefillFrom + f.count <= promptLen(f.r)
        <5>1. f.r \in Req /\ row[f.r].phase = "prefill"
          BY <4>1 DEF ForwardType, ForwardFits
        <5>2. f.r # r
          BY <1>8, <5>1
        <5> QED
          BY <2>2, <4>1, <5>1, <5>2 DEF ForwardFits, Live
      <4> QED
        BY <4>2, <4>3 DEF ForwardFits
    <3> QED
      BY <3>1 DEF Forwards
  <2>6. Contents' /\ Queue(waiting')
    BY <1>13, <2>2 DEF Contents, EngineInv, TypeOK
  <2> QED
    BY <1>5, <1>9, <1>10, <2>2, <2>3, <2>4, <2>5, <2>6, RowStep
<1>15. CASE ~ (need > Len(free))
  <2> DEFINE bs == rw.blocks \o freshOf(free, need)
             own == rw.own + need
             rx == [rw EXCEPT !.blocks = bs, !.own = own]
  <2>1. /\ row' = [row EXCEPT ![r] = rx]
        /\ free' = SubSeq(free, 1, Len(free) - need)
        /\ ref' = refsMore(ref, freshOf(free, need), <<>>)
        /\ blocksUsed' = blocksUsed + need /\ UNCHANGED <<running, result, freeSlots>>
    <3>1. /\ row' = [row EXCEPT ![r].blocks = @ \o fresh(need), ![r].own = @ + need]
          /\ free' = freeWithout(need) /\ ref' = refsTaken(fresh(need), <<>>)
          /\ blocksUsed' = blocksUsed + need /\ UNCHANGED <<running, result, freeSlots>>
      BY <1>2, <1>4, <1>15 DEF Grow, need
    <3>2. fresh(need) = freshOf(free, need)
      BY DEF fresh, freshOf
    <3>3. row' = [row EXCEPT ![r] = rx]
      BY <1>6, <3>1, <3>2
    <3> QED
      BY <3>1, <3>2, <3>3 DEF freeWithout, refsTaken, refsMore
  <2>2. PoolsRight(running, row, free, ref, freeSlots, store, blocksUsed) /\ r \in Range(running)
    BY <1>3 DEF EngineInv, Pools, Live
  <2>3. need \in 0 .. Len(free) /\ FreeRight(free, ref)
    <3>1. free \in Seq(Block) /\ FreeRight(free, ref)
      BY <2>2 DEF PoolsRight, FreeRight
    <3> QED
      BY <1>11, <1>15, <3>1
  <2>4. freshOf(free, need) \in Seq(Block) /\ Len(freshOf(free, need)) = need
    <3>1. \A b \in Range(<<>>) : b \in Block /\ ref[b] > 0
      BY DEF Range
    <3> QED
      BY <2>3, <3>1, FreshBlocks
  <2> DEFINE new == freshOf(free, need)
  <2> HIDE DEF new
  <2>5. bs \in Seq(Block) /\ Len(bs) = Len(rw.blocks) + need /\ own \in Nat
    <3>1. new \in Seq(Block) /\ Len(new) = need /\ bs = rw.blocks \o new
      BY <2>4 DEF new
    <3>2. rw.blocks \in Seq(Block) /\ rw.own \in Nat /\ need \in Nat
      BY <1>7, <1>11
    <3>3. own \in Nat
      <4> HIDE DEF rw, need
      <4> QED
        BY <3>2
    <3>4. rw.blocks \o new \in Seq(Block) /\ Len(rw.blocks \o new) = Len(rw.blocks) + Len(new)
      <4> HIDE DEF rw
      <4> QED
        BY <3>1, <3>2, ConcatProperties
    <3> HIDE DEF bs, rw, own
    <3> QED
      BY <3>1, <3>3, <3>4
  <2>6. /\ rx \in RowType /\ rx.tokens = rw.tokens /\ rx.closed = rw.closed /\ rx.seqLen = rw.seqLen
        /\ rx.phase = rw.phase /\ rx.drafts = rw.drafts /\ rx.prefillFrom = rw.prefillFrom
        /\ rx.pending = rw.pending /\ rx.blocks = bs /\ rx.own = own /\ rx.slot = rw.slot
    <3> HIDE DEF rw, bs, own
    <3> QED
      BY <1>6, <2>5 DEF RowType
  <2> HIDE DEF rx
  <2>7. row' \in [Req -> RowType] /\ row'[r] = rx /\ \A q \in Req \ {r} : row'[q] = row[q]
    BY <1>6, <2>1, <2>6
  <2>8. Pools'
    <3>1. Range(running) \subseteq Req
      BY RangeOf DEF EngineInv, TypeOK
    <3>2. /\ \A q \in Range(running) \ {r} : row'[q] = row[q]
          /\ row'[r].blocks = row[r].blocks \o freshOf(free, need) /\ row'[r].slot = row[r].slot
          /\ row'[r].own = row[r].own + need
      BY <2>6, <2>7, <3>1
    <3>3. PoolsRight(running, row', SubSeq(free, 1, Len(free) - need), refsMore(ref, freshOf(free, need), <<>>),
                     freeSlots, store, blocksUsed + need)
      BY <2>2, <2>3, <3>2, GrownRow
    <3> QED
      BY <1>13, <2>1, <3>3 DEF Pools
  <2>9. held(rx) \in Nat /\ held(rw) \in Nat /\ held(rw) <= held(rx) /\ rw.seqLen <= held(rx)
    <3>1. BlockTokens \in Nat \ {0}
      BY PoolAssumption
    <3>2. held(rx) = (Len(rw.blocks) + need) * BlockTokens
      BY <2>5, <2>6 DEF held
    <3> DEFINE m == Len(rw.blocks)
    <3>3. m \in Nat /\ need \in Nat /\ held(rw) = m * BlockTokens /\ held(rx) = (m + need) * BlockTokens
          /\ rw.seqLen <= (m + need) * BlockTokens
      BY <1>7, <1>11, <3>2 DEF held
    <3> HIDE DEF m, rw
    <3>4. m * BlockTokens <= (m + need) * BlockTokens
      <4> DEFINE y == m + need
      <4>1. y \in Int /\ m <= y
        BY <3>3
      <4> HIDE DEF y
      <4>2. m * BlockTokens <= y * BlockTokens
        BY <3>1, <3>3, <4>1, TimesMore
      <4> QED
        BY <4>2 DEF y
    <3>5. m * BlockTokens \in Nat /\ (m + need) * BlockTokens \in Nat
      BY <3>1, <3>3
    <3> QED
      BY <3>3, <3>4, <3>5
  <2>10. LiveRight(rx, r, callsFor(agenda', r), opsFor(agenda', r))
    <3> HIDE DEF rw, bs, own, ops
    <3>1. DecodeRight(rx, r, {})
      <4>1. rx.seqLen = Len(rx.tokens) /\ promptLen(r) < rx.seqLen
        BY <1>8, <2>6 DEF DecodeRight
      <4>2. rx.seqLen - 1 <= held(rx) /\ rx.seqLen <= held(rx)
        BY <1>7, <2>6, <2>9
      <4> QED
        BY <4>1, <4>2 DEF DecodeRight
    <3>2. ForcedRight(rx, r)
      BY <1>6, <2>6 DEF ForcedRight, LiveRight
    <3> QED
      BY <1>6, <1>8, <1>9, <2>6, <3>1, <3>2 DEF LiveRight
  <2>11. Forwards'
    <3>1. ASSUME NEW c \in Range(agenda'), c.op = "forward" PROVE ForwardFits(c)'
      <4>1. ForwardType(c) /\ ForwardFits(c)
        BY <1>12, <3>1
      <4>2. ASSUME NEW d \in Range(c.decodes)
            PROVE  \/ row'[d.r].phase = "done"
                   \/ /\ Live(d.r)' /\ row'[d.r].phase = "decode"
                      /\ "grow" \in opsFor(agenda', d.r) \/ row'[d.r].seqLen <= held(row'[d.r])
        <5>1. d.r \in Req
          BY <4>1 DEF ForwardType
        <5>2. CASE d.r = r
          <6>1. row'[d.r] = rx /\ row'[d.r].phase = "decode" /\ row'[d.r].seqLen <= held(row'[d.r])
            BY <1>8, <2>6, <2>7, <2>9, <5>2
          <6>2. d.r \in Range(running')
            BY <1>3, <2>1, <5>2 DEF Live
          <6> QED
            BY <6>1, <6>2 DEF Live
        <5>3. CASE d.r # r
          BY <1>9, <2>1, <2>7, <4>1, <5>1, <5>3 DEF ForwardFits, Live
        <5> QED
          BY <5>2, <5>3
      <4>3. ASSUME NEW f \in Range(c.prefills)
            PROVE  /\ Live(f.r)' /\ row'[f.r].phase = "prefill"
                   /\ row'[f.r].prefillFrom + f.count <= promptLen(f.r)
        <5>1. f.r \in Req /\ row[f.r].phase = "prefill"
          BY <4>1 DEF ForwardType, ForwardFits
        <5>2. f.r # r
          BY <1>8, <5>1
        <5> QED
          BY <2>1, <2>7, <4>1, <5>1, <5>2 DEF ForwardFits, Live
      <4> QED
        BY <4>2, <4>3 DEF ForwardFits
    <3> QED
      BY <3>1 DEF Forwards
  <2> QED
    BY <1>3, <1>5, <1>9, <1>10, <1>13, <2>1, <2>6, <2>8, <2>10, <2>11, OneRowStep
<1> QED
  BY <1>14, <1>15

-----------------------------------------------------------------------------
(* The batch of a tick *)

\* A row that has drafted nothing is forwarded its last token alone.
Chained == [r : Req, chain : Seq(Tokens)]

\* Without a drafter every chain of a batch is one token.
LEMMA ChainsIs ==
  ASSUME NEW D \in Seq(Req), NEW ps,
         \A r \in Range(D) : row[r].drafts = <<>> /\ row[r].tokens \in Seq(Tokens) /\ row[r].tokens # <<>>
  PROVE  LET ds == chainsOf(D, ps)
         IN  /\ ds \in Seq(Chained) /\ Len(ds) = Len(D) /\ DOMAIN ds = 1 .. Len(D)
             /\ \A i \in 1 .. Len(D) : ds[i].r = D[i] /\ Len(ds[i].chain) = 1
             /\ \A i \in 1 .. Len(D) : ds[i].chain = <<Last(row[D[i]].tokens)>>
<1> DEFINE kept(r) == IF ps = <<>> THEN row[r].drafts ELSE <<>>
           widest == Max({0} \cup {Len(kept(r)) : r \in Range(D)})
           chain(r) == <<Last(row[r].tokens)>> \o kept(r)
           padded(r) == chain(r) \o [i \in 1 .. widest - Len(kept(r)) |-> Last(chain(r))]
           ds == chainsOf(D, ps)
<1>1. ds = [i \in DOMAIN D |-> [r |-> D[i], chain |-> padded(D[i])]]
  BY DEF chainsOf
<1>2. \A r \in Range(D) : kept(r) = <<>> /\ Len(kept(r)) = 0
  OBVIOUS
<1> HIDE DEF kept
<1>3. widest = 0
  <2>1. {0} \cup {Len(kept(r)) : r \in Range(D)} = {0, 0}
    BY <1>2
  <2>2. \A a \in Int : Max({a, a}) \in {a, a}
    BY GreaterOf
  <2> QED
    BY <2>1, <2>2
<1> HIDE DEF widest
<1>4. ASSUME NEW r \in Range(D)
      PROVE  padded(r) \in Seq(Tokens) /\ Len(padded(r)) = 1 /\ padded(r) = <<Last(row[r].tokens)>>
  <2>1. Last(row[r].tokens) \in Tokens
    BY FrontOf
  <2> DEFINE x == Last(row[r].tokens)
             tail == [i \in 1 .. widest - Len(kept(r)) |-> Last(chain(r))]
  <2>2. <<x>> \in Seq(Tokens) /\ Len(<<x>>) = 1
    BY <2>1
  <2>3. kept(r) \in Seq(Tokens) /\ Len(kept(r)) = 0
    <3>1. <<>> \in Seq(Tokens) /\ Len(<<>>) = 0
      OBVIOUS
    <3> QED
      BY <1>2, <3>1
  <2>4. tail = <<>>
    <3>1. 1 .. widest - Len(kept(r)) = {}
      BY <1>3, <2>3
    <3> HIDE DEF chain
    <3> QED
      BY <3>1
  <2>5. tail \in Seq(Tokens) /\ Len(tail) = 0
    <3>1. <<>> \in Seq(Tokens) /\ Len(<<>>) = 0
      OBVIOUS
    <3> HIDE DEF tail
    <3> QED
      BY <2>4, <3>1
  <2> HIDE DEF x, tail
  <2>6. chain(r) \in Seq(Tokens) /\ Len(chain(r)) = 1 /\ chain(r) = <<x>>
    <3>1. chain(r) = <<x>> \o kept(r)
      BY DEF x
    <3> HIDE DEF chain
    <3>2. kept(r) = <<>>
      BY <1>2
    <3> QED
      BY <2>2, <3>1, <3>2, ConcatEmptySeq
  <2> HIDE DEF chain
  <2>7. chain(r) \o tail \in Seq(Tokens) /\ Len(chain(r) \o tail) = 1 /\ chain(r) \o tail = <<x>>
    BY <2>4, <2>6, ConcatEmptySeq
  <2> QED
    BY <2>7 DEF tail, x
<1> HIDE DEF padded
<1>5. \A i \in 1 .. Len(D) : D[i] \in Req /\ D[i] \in Range(D)
  BY RangeOf
<1>6. \A i \in 1 .. Len(D) : [r |-> D[i], chain |-> padded(D[i])] \in Chained
  BY <1>4, <1>5 DEF Chained
<1>7. DOMAIN D = 1 .. Len(D) /\ Len(D) \in Nat
  OBVIOUS
<1> HIDE DEF ds
<1>8. ds \in Seq(Chained) /\ Len(ds) = Len(D)
  BY <1>1, <1>6, <1>7
<1>9. \A i \in 1 .. Len(D) : ds[i].r = D[i] /\ Len(ds[i].chain) = 1 /\ ds[i].chain = <<Last(row[D[i]].tokens)>>
  BY <1>1, <1>4, <1>5, <1>7
<1> QED
  BY <1>8, <1>9 DEF ds

\* The calls of the batch: every decoding row grows, then the forward.
growOf(r) == [op |-> "grow", r |-> r, q |-> 1]
growsOf(ds) == [i \in DOMAIN ds |-> [op |-> "grow", r |-> ds[i].r, q |-> Len(ds[i].chain)]]

BatchOf(s, work, D) ==
  /\ AgendaRight(s) /\ \A c \in Range(s) : c.op \in Lone => c = work
  /\ \A r \in Req : callsFor(s, r) = IF r \in Range(D) THEN {growOf(r)} ELSE {}

\* The batch has each running row at most once, as a decode or as a chunk.
LEMMA BatchIs ==
  ASSUME NEW D \in Seq(Req), IsInjective(D), NEW ds \in Seq(Chained), Len(ds) = Len(D),
         \A i \in 1 .. Len(D) : ds[i].r = D[i] /\ Len(ds[i].chain) = 1,
         NEW ps \in Seq(Chunk), Distinct(ps), \A i \in 1 .. Len(ps) : ps[i].count \in Nat \ {0},
         NEW work, work.op = "forward", work.decodes = ds, work.prefills = ps
  PROVE  BatchOf(Append(growsOf(ds), work), work, D)
<1> DEFINE S == {growOf(r) : r \in Req}
           grow == growsOf(ds)
<1>1. /\ Len(D) \in Nat /\ DOMAIN ds = 1 .. Len(D) /\ Range(D) = {D[i] : i \in 1 .. Len(D)} /\ Range(D) \subseteq Req
      /\ \A i, j \in 1 .. Len(D) : D[i] = D[j] => i = j
  BY RangeOf
<1>2. grow = [i \in 1 .. Len(D) |-> growOf(D[i])]
  BY <1>1 DEF growOf, growsOf
<1> HIDE DEF grow
<1>3. grow \in Seq(S) /\ Len(grow) = Len(D) /\ \A i \in 1 .. Len(D) : grow[i] = growOf(D[i])
  <2>1. \A i \in 1 .. Len(D) : growOf(D[i]) \in S
    BY <1>1
  <2> HIDE DEF S
  <2> QED
    BY <1>1, <1>2, <2>1
<1>4. \A r : growOf(r).op = "grow" /\ growOf(r).r = r /\ growOf(r).q = 1
  BY DEF growOf
<1>5. AgendaRight(grow)
  <2>1. \A i \in 1 .. Len(grow) : CallType(grow[i]) /\ grow[i].op = "grow"
    BY <1>1, <1>3, <1>4 DEF CallType, RowOps
  <2>2. Distinct(grow)
    BY <1>1, <1>3, <1>4 DEF Distinct
  <2>3. "grow" \in RowOps
    BY DEF RowOps
  <2> HIDE DEF S
  <2> QED
    BY <1>3, <2>1, <2>2, <2>3, EachCall
<1>6. Range(grow) = {growOf(r) : r \in Range(D)}
  <2>1. Range(grow) = {grow[i] : i \in 1 .. Len(grow)}
    <3> HIDE DEF S
    <3> QED
      BY <1>3, RangeOf
  <2> QED
    BY <1>1, <1>3, <2>1
<1>7. ForwardType(work)
  <2>1. ds \in Seq(Range(ds)) /\ Range(ds) = {ds[i] : i \in 1 .. Len(ds)} /\ Range(ds) \subseteq Chained
    BY OfItsOwn, RangeOf
  <2>2. ps \in Seq(Range(ps)) /\ Range(ps) = {ps[i] : i \in 1 .. Len(ps)} /\ Range(ps) \subseteq Chunk
    BY OfItsOwn, RangeOf
  <2>3. Distinct(ds)
    BY <1>1 DEF Distinct
  <2>4. \A d \in Range(ds) : d.r \in Req /\ d.chain \in Seq(Tokens) /\ Len(d.chain) = 1
    BY <2>1 DEF Chained
  <2>5. \A f \in Range(ps) : f.r \in Req /\ f.count \in Nat \ {0}
    BY <2>2 DEF Chunk
  <2> QED
    BY <2>1, <2>2, <2>3, <2>4, <2>5 DEF ForwardType
<1>8. AgendaRight(<<work>>) /\ Range(<<work>>) = {work}
  <2>1. CallType(work)
    BY DEF CallType, Lone, RowOps
  <2> QED
    BY <1>7, <2>1, OneCall
<1>9. "forward" \notin RowOps /\ "grow" \notin Lone /\ "grow" \in ahead("forward") /\ "grow" \in RowOps
  BY DEF RowOps, Lone, ahead
<1>10. Follows(grow, <<work>>)
  BY <1>4, <1>6, <1>8, <1>9 DEF Follows, forRow
<1>11. Append(grow, work) = grow \o <<work>>
  <2> HIDE DEF S
  <2> QED
    BY <1>3, AppendIsConcat
<1>12. /\ AgendaRight(Append(grow, work))
       /\ Range(Append(grow, work)) = {growOf(r) : r \in Range(D)} \cup {work}
  BY <1>5, <1>6, <1>8, <1>10, <1>11, JoinedCalls
<1>13. \A c \in Range(Append(grow, work)) : c.op \in Lone => c = work
  BY <1>4, <1>9, <1>12
<1>14. ASSUME NEW r \in Req PROVE callsFor(Append(grow, work), r) = IF r \in Range(D) THEN {growOf(r)} ELSE {}
  BY <1>4, <1>9, <1>12 DEF callsFor, forRow
<1> QED
  BY <1>12, <1>13, <1>14 DEF BatchOf, grow

\* An eviction before the batch is for no row.
LEMMA BatchEvicts ==
  ASSUME NEW t, NEW work, NEW D, BatchOf(t, work, D), work.op = "forward", NEW e, e.op = "evict"
  PROVE  BatchOf(<<e>> \o t, work, D)
<1>1. CallType(e) /\ e.op # "forward" /\ e.op \notin Lone /\ e.op \notin RowOps /\ "evict" \in ahead("forward")
  BY DEF CallType, Lone, RowOps, ahead
<1>2. AgendaRight(<<e>>) /\ Range(<<e>>) = {e}
  BY <1>1, OneCall
<1>3. Follows(<<e>>, t)
  BY <1>1, <1>2 DEF Follows, BatchOf, forRow
<1>4. AgendaRight(<<e>> \o t) /\ Range(<<e>> \o t) = {e} \cup Range(t)
  BY <1>2, <1>3, JoinedCalls DEF BatchOf
<1>5. \A c \in Range(<<e>> \o t) : c.op \in Lone => c = work
  BY <1>1, <1>4 DEF BatchOf
<1>6. \A r \in Req : callsFor(<<e>> \o t, r) = callsFor(t, r)
  BY <1>1, <1>4 DEF callsFor, forRow
<1> QED
  BY <1>4, <1>5, <1>6 DEF BatchOf

-----------------------------------------------------------------------------
(* The batch is formed *)

\* _build_plan, after its admissions: decodes first, chunks as the budget allows, and the calls they need.
LEMMA BatchFormed == EngineInv /\ FormBatch => EngineInv'
<1> SUFFICES ASSUME EngineInv, FormBatch PROVE EngineInv'
  OBVIOUS
<1> DEFINE D == those(running, {r \in Req : row[r].phase = "decode"})
           ps == prefillPlan(D)
           ds == chainsOf(D, ps)
           work == [op |-> "forward", decodes |-> ds, prefills |-> ps]
           e == [op |-> "evict", until |-> growth(ds)]
           s == IF ds = <<>> /\ ps = <<>> THEN <<>>
                ELSE (IF growth(ds) = 0 THEN <<>> ELSE <<e>>) \o Append(growsOf(ds), work)
<1>1. agenda # <<>> /\ AgendaRight(agenda) /\ Head(agenda).op = "batch"
  BY Doing DEF FormBatch, call
<1>2. /\ agenda' = s \o Tail(agenda)
      /\ UNCHANGED <<waiting, running, row, result, free, ref, cell, freeSlots, state, store, blocksUsed>>
  BY DEF FormBatch, next, growsOf
<1> HIDE DEF D, ps, ds, work, e, s
<1>3. \A r \in Req : callsFor(agenda, r) = {} /\ opsFor(agenda, r) = {} /\ callsFor(Tail(agenda), r) = {}
  <2>1. "batch" \in Lone /\ "batch" \notin RowOps
    BY DEF Lone, RowOps
  <2> QED
    BY <1>1, <2>1, TakenFor DEF opsFor, forRow
<1>4. Queue(running) /\ Range(running) \subseteq Req /\ running \in Seq(Req) /\ IsInjective(running)
  BY RangeOf DEF EngineInv, TypeOK, Pools, PoolsRight, Queue
<1>5. ASSUME NEW r \in Req, Live(r)
      PROVE  /\ row[r] \in RowType /\ LiveRight(row[r], r, {}, {}) /\ promptLen(r) \in Nat
             /\ row[r].tokens \in Seq(Tokens) /\ row[r].prefillFrom \in Nat
             /\ Len(row[r].tokens) \in Nat
  <2>1. row[r] \in RowType /\ LiveRight(row[r], r, {}, {})
    BY <1>3, <1>5, RowKnown
  <2>2. row[r].tokens \in Seq(Tokens) /\ row[r].prefillFrom \in Nat
    BY <2>1 DEF RowType
  <2> QED
    BY <2>1, <2>2, TokensAre
<1>6. ASSUME NEW r \in Req, Live(r), row[r].phase = "prefill"
      PROVE  row[r].prefillFrom < promptLen(r) /\ Len(row[r].tokens) = promptLen(r)
  <2> DEFINE rw == row[r]
  <2>1. PrefillRight(rw, r, {}) /\ rw.prefillFrom <= promptLen(r)
    BY <1>5, <1>6 DEF LiveRight
  <2>2. rw.prefillFrom \in Nat /\ promptLen(r) \in Nat /\ Len(rw.tokens) \in Nat
    BY <1>5, <1>6
  <2> HIDE DEF rw
  <2>3. rw.prefillFrom # promptLen(r)
    BY <2>1 DEF PrefillRight
  <2>4. Len(rw.tokens) \in {promptLen(r), promptLen(r) + 1}
        /\ (Len(rw.tokens) > promptLen(r) => rw.prefillFrom = promptLen(r))
    BY <2>1 DEF PrefillRight
  <2>5. rw.prefillFrom < promptLen(r)
    BY <2>1, <2>2, <2>3
  <2>6. Len(rw.tokens) = promptLen(r)
    BY <2>2, <2>3, <2>4
  <2> QED
    BY <2>5, <2>6 DEF rw
<1>7. Plannable
  BY <1>4, <1>5, <1>6 DEF Plannable, Live
<1>8. /\ D \in Seq(Req) /\ Len(D) \in Int /\ IsInjective(D)
      /\ Range(D) = {r \in Range(running) : row[r].phase = "decode"}
  <2>1. /\ D \in Seq(Req) /\ Range(D) = Range(running) \cap {r \in Req : row[r].phase = "decode"}
        /\ IsInjective(D)
    BY <1>4, ThoseOf DEF D
  <2> QED
    BY <1>4, <2>1
<1>9. /\ ps \in Seq(Chunk) /\ Distinct(ps)
      /\ \A i \in 1 .. Len(ps) :
           /\ ps[i].r \in Range(running) /\ row[ps[i].r].phase = "prefill"
           /\ ps[i].count \in Nat \ {0} /\ row[ps[i].r].prefillFrom + ps[i].count <= Len(row[ps[i].r].tokens)
  BY <1>7, <1>8, PlanIs DEF ps
<1>10. /\ ds \in Seq(Chained) /\ Len(ds) = Len(D)
       /\ \A i \in 1 .. Len(D) : ds[i].r = D[i] /\ Len(ds[i].chain) = 1
  <2>1. ASSUME NEW r \in Range(D)
        PROVE  row[r].drafts = <<>> /\ row[r].tokens \in Seq(Tokens) /\ row[r].tokens # <<>>
    <3>1. r \in Req /\ Live(r) /\ row[r].phase = "decode"
      BY <1>4, <1>8 DEF Live
    <3>2. LiveRight(row[r], r, {}, {}) /\ promptLen(r) \in Nat /\ row[r].tokens \in Seq(Tokens)
      BY <1>5, <3>1
    <3>3. promptLen(r) < Len(row[r].tokens) /\ row[r].drafts = <<>>
      BY <3>1, <3>2 DEF LiveRight, DecodeRight
    <3>4. row[r].tokens # <<>>
      BY <3>2, <3>3
    <3> QED
      BY <3>2, <3>3, <3>4
  <2> QED
    BY <1>8, <2>1, ChainsIs DEF ds
<1>11. work.op = "forward" /\ work.decodes = ds /\ work.prefills = ps /\ e.op = "evict"
  BY DEF work, e
<1>12. BatchOf(s, work, D)
  <2> DEFINE t == Append(growsOf(ds), work)
  <2>1. BatchOf(t, work, D)
    BY <1>8, <1>9, <1>10, <1>11, BatchIs
  <2>2. CASE ds = <<>> /\ ps = <<>>
    <3>1. s = <<>>
      BY <2>2 DEF s
    <3>2. Range(D) = {}
      <4>1. Len(D) = 0
        BY <1>10, <2>2
      <4>2. Range(D) = {D[i] : i \in 1 .. Len(D)}
        BY <1>8, RangeOf
      <4> QED
        BY <4>1, <4>2
    <3> QED
      BY <3>1, <3>2, NoCall, NoneFor DEF BatchOf
  <2>3. CASE ~(ds = <<>> /\ ps = <<>>) /\ growth(ds) = 0
    <3>1. s = <<>> \o t
      BY <2>3 DEF s
    <3>2. <<>> \o t = t
      <4>1. t \in Seq(Range(t))
        BY <2>1 DEF BatchOf, AgendaRight
      <4> HIDE DEF t
      <4> QED
        BY <4>1, ConcatEmptySeq
    <3> QED
      BY <2>1, <3>1, <3>2
  <2>4. CASE ~(ds = <<>> /\ ps = <<>>) /\ ~(growth(ds) = 0)
    <3>1. s = <<e>> \o t
      BY <2>4 DEF s
    <3> HIDE DEF t
    <3> QED
      BY <1>11, <2>1, <3>1, BatchEvicts
  <2> QED
    BY <2>2, <2>3, <2>4
<1>13. /\ AgendaRight(agenda') /\ \A c \in Range(agenda') : c.op \in Lone => c = work
       /\ \A r \in Req : callsFor(agenda', r) = IF r \in Range(D) THEN {growOf(r)} ELSE {}
  <2>1. InPlace(s, agenda)
    BY <1>1, <1>12 DEF InPlace, Lone, BatchOf
  <2>2. /\ AgendaRight(agenda') /\ Range(agenda') = Range(s) \cup Range(Tail(agenda))
        /\ \A r \in Req : callsFor(agenda', r) = callsFor(s, r) \cup callsFor(Tail(agenda), r)
        /\ \A c \in Range(agenda') : c.op \in Lone => c \in Range(s)
    BY <1>1, <1>2, <1>12, <2>1, Replaced DEF BatchOf
  <2> QED
    BY <1>3, <1>12, <2>2 DEF BatchOf
<1>14. \A r \in Req : Live(r)' = Live(r) /\ Queued(r)' = Queued(r)
  BY <1>2 DEF Live, Queued
<1>15. Rows'
  <2>1. ASSUME NEW r \in Req
        PROVE  (RowRight(r, row[r], callsFor(agenda, r), Live(r), Queued(r), result[r]))'
    <3>1. RowRight(r, row[r], {}, Live(r), Queued(r), result[r])
      BY <1>3, RowKnown
    <3>2. CASE r \notin Range(D)
      BY <1>2, <1>13, <1>14, <3>1, <3>2
    <3>3. CASE r \in Range(D)
      <4>1. Live(r) /\ row[r].phase = "decode" /\ ~ Queued(r)
        BY <1>8, <3>1, <3>3 DEF Live, RowRight
      <4> DEFINE rw == row[r]
                 C == {growOf(r)}
                 ops == {c.op : c \in C}
      <4>2. ops = {"grow"}
        BY DEF growOf
      <4>3. LiveRight(rw, r, {}, {})
        BY <1>5, <4>1
      <4> HIDE DEF ops
      <4>4. DecodeRight(rw, r, ops)
        <5>1. DecodeRight(rw, r, {}) /\ "advance" \notin ops /\ "complete" \notin ops
              /\ "sample" \notin ops /\ "commit" \notin ops
          BY <4>1, <4>2, <4>3 DEF LiveRight
        <5> HIDE DEF rw
        <5> QED
          BY <4>2, <5>1 DEF DecodeRight
      <4>5. \A c \in C : CallFits(c, rw, r, ops)
        BY DEF CallFits, growOf
      <4>6. LiveRight(rw, r, C, ops)
        <5>1. rw.phase = "decode"
          BY <4>1
        <5> HIDE DEF rw, C
        <5> QED
          BY <4>3, <4>4, <4>5, <5>1 DEF LiveRight
      <4>7. RowRight(r, rw, C, Live(r), Queued(r), result[r])
        <5> HIDE DEF rw, C
        <5> QED
          BY <3>1, <4>1, <4>6 DEF RowRight, ops, rw
      <4> QED
        BY <1>2, <1>13, <1>14, <3>3, <4>1, <4>7
    <3> QED
      BY <3>2, <3>3
  <2> QED
    BY <2>1 DEF Rows
<1>16. PICK w : w = work
  OBVIOUS
<1>17. ForwardFits(w)'
  <2>1. ASSUME NEW d \in Range(ds)
        PROVE  Live(d.r)' /\ row'[d.r].phase = "decode" /\ "grow" \in opsFor(agenda', d.r)
    <3>1. PICK i \in 1 .. Len(D) : d = ds[i]
      <4>1. Range(ds) = {ds[i] : i \in 1 .. Len(ds)}
        BY <1>10, RangeOf
      <4> QED
        BY <1>10, <4>1
    <3>2. d.r = D[i] /\ D[i] \in Range(D)
      <4>1. Range(D) = {D[j] : j \in 1 .. Len(D)}
        BY <1>8, RangeOf
      <4> QED
        BY <1>10, <3>1, <4>1
    <3>3. d.r \in Req /\ Live(d.r) /\ row[d.r].phase = "decode"
      BY <1>4, <1>8, <3>2 DEF Live
    <3>4. callsFor(agenda', d.r) = {growOf(d.r)} /\ growOf(d.r).op = "grow"
      BY <1>13, <3>2, <3>3 DEF growOf
    <3> QED
      BY <1>2, <1>14, <3>3, <3>4 DEF opsFor
  <2>2. ASSUME NEW f \in Range(ps)
        PROVE  /\ Live(f.r)' /\ row'[f.r].phase = "prefill"
               /\ row'[f.r].prefillFrom + f.count <= promptLen(f.r)
    <3>1. PICK i \in 1 .. Len(ps) : f = ps[i]
      <4>1. Range(ps) = {ps[i] : i \in 1 .. Len(ps)}
        BY <1>9, RangeOf
      <4> QED
        BY <4>1
    <3>2. f.r \in Range(running) /\ row[f.r].phase = "prefill"
          /\ row[f.r].prefillFrom + f.count <= Len(row[f.r].tokens)
      BY <1>9, <3>1
    <3>3. f.r \in Req /\ Live(f.r)
      BY <1>4, <3>2 DEF Live
    <3>4. Len(row[f.r].tokens) = promptLen(f.r)
      BY <1>6, <3>2, <3>3
    <3> QED
      BY <1>2, <1>14, <3>2, <3>3, <3>4
  <2> QED
    <3>1. w.decodes = ds /\ w.prefills = ps
      BY <1>11, <1>16
    <3> QED
      BY <2>1, <2>2, <3>1 DEF ForwardFits
<1>18. Forwards'
  BY <1>13, <1>16, <1>17 DEF Forwards, Lone
<1>19. Admission'
  BY <1>11, <1>13 DEF Admission, Lone
<1>20. Contents' /\ Pools' /\ (Queue(waiting))' /\ (AgendaRight(agenda))'
  <2>1. Pools'
    BY <1>2, PoolsStand DEF EngineInv
  <2>2. Contents'
    BY <1>2 DEF EngineInv, TypeOK, Contents
  <2> QED
    BY <1>2, <1>13, <2>1, <2>2 DEF EngineInv
<1> QED
  BY <1>15, <1>18, <1>20, <1>19, Together, PTL

-----------------------------------------------------------------------------
(* What a forward writes *)

\* The rows of a forward, as it finds them.
RunsDecode(d) ==
  /\ d.r \in Req /\ d.chain \in Seq(Tokens) /\ Len(d.chain) = 1
  /\ row[d.r].tokens \in Seq(Tokens) /\ row[d.r].seqLen = Len(row[d.r].tokens) /\ row[d.r].tokens # <<>>
RunsPrefill(f) ==
  /\ f.r \in Req /\ f.count \in Nat \ {0}
  /\ row[f.r].tokens \in Seq(Tokens) /\ row[f.r].prefillFrom \in Nat
  /\ row[f.r].prefillFrom + f.count <= Len(row[f.r].tokens)

\* What a decode writes, it writes into its row's blocks.
LEMMA DecodeWrites ==
  ASSUME NEW d, RunsDecode(d), NEW w \in decodeWrites(d)
  PROVE  w.kv \in Seq(Tokens)
<1> DEFINE toks == row[d.r].tokens
           n == row[d.r].seqLen
           before == SubSeq(toks, 1, n - 1)
           history == before \o d.chain
<1>1. /\ toks \in Seq(Tokens) /\ n = Len(toks) /\ toks # <<>> /\ d.chain \in Seq(Tokens) /\ Len(d.chain) = 1
  BY DEF RunsDecode
<1>2. n \in Nat /\ n >= 1
  <2> HIDE DEF toks, n
  <2> QED
    BY <1>1, EmptySeq
<1>3. \E p \in n - 1 .. (n - 1) + Len(d.chain) - 1 : w.kv = SubSeq(history, 1, p + 1)
  <2>1. \E p \in n - 1 .. (n - 1) + Len(d.chain) - 1 : w = writeAt(d.r, p, history)
    BY DEF decodeWrites
  <2>2. \A p, h : writeAt(d.r, p, h).kv = SubSeq(h, 1, p + 1)
    BY DEF writeAt
  <2> HIDE DEF history, n
  <2> QED
    BY <2>1, <2>2
<1>4. before \in Seq(Tokens) /\ Len(before) = n - 1
  <2> HIDE DEF toks, n
  <2> QED
    BY <1>1, <1>2, SubSeqProperties
<1> HIDE DEF toks, n, before
<1>5. history \in Seq(Tokens) /\ Len(history) = n
  <2>1. history \in Seq(Tokens) /\ Len(history) = (n - 1) + 1
    <3>1. Len(before \o d.chain) = Len(before) + Len(d.chain) /\ before \o d.chain \in Seq(Tokens)
      BY <1>1, <1>4, ConcatProperties
    <3> HIDE DEF history
    <3> QED
      BY <1>1, <1>4, <3>1 DEF history
  <2> HIDE DEF history
  <2> QED
    BY <1>2, <2>1
<1> HIDE DEF history
<1>6. w.kv = SubSeq(history, 1, n)
  BY <1>1, <1>2, <1>3
<1> QED
  BY <1>2, <1>5, <1>6, SubSeqProperties

\* What a chunk writes, it writes into its row's blocks.
LEMMA PrefillWrites ==
  ASSUME NEW f, RunsPrefill(f), NEW w \in prefillWrites(f)
  PROVE  w.kv \in Seq(Tokens)
<1> DEFINE toks == row[f.r].tokens
           from == row[f.r].prefillFrom
<1>1. toks \in Seq(Tokens) /\ from \in Nat /\ f.count \in Nat \ {0} /\ from + f.count <= Len(toks)
  BY DEF RunsPrefill
<1>2. PICK p \in from .. from + f.count - 1 : w.kv = SubSeq(toks, 1, p + 1)
  BY DEF prefillWrites, writeAt
<1> HIDE DEF toks, from
<1>3. p + 1 \in 1 .. Len(toks)
  BY <1>1, <1>2
<1> QED
  BY <1>1, <1>2, <1>3, SubSeqProperties

\* What a state has consumed is text.
LEMMA Consumed ==
  ASSUME NEW ds, \A d \in Range(ds) : RunsDecode(d), NEW ps, \A f \in Range(ps) : RunsPrefill(f), NEW s
  PROVE  consumed(s, ds, ps) \in Seq(Tokens)
<1> DEFINE D == {x \in Range(ds) : row[x.r].slot = s /\ Len(x.chain) = 1}
           F == {x \in Range(ps) : row[x.r].slot = s}
           d == CHOOSE x \in D : TRUE
           f == CHOOSE x \in F : TRUE
           fed == SubSeq(row[f.r].tokens, row[f.r].prefillFrom + 1, row[f.r].prefillFrom + f.count)
<1>1. consumed(s, ds, ps) = IF D # {} THEN d.chain ELSE IF F # {} THEN fed ELSE <<>>
  BY DEF consumed
<1>2. CASE D # {}
  <2>1. d \in D
    BY <1>2
  <2>2. d.chain \in Seq(Tokens)
    BY <2>1 DEF RunsDecode
  <2> HIDE DEF D, d
  <2> QED
    BY <1>1, <1>2, <2>2
<1>3. CASE D = {} /\ F # {}
  <2>1. f \in F
    BY <1>3
  <2>2. RunsPrefill(f)
    BY <2>1
  <2> HIDE DEF F, f, D, d
  <2> DEFINE toks == row[f.r].tokens
             from == row[f.r].prefillFrom
  <2>3. toks \in Seq(Tokens) /\ from \in Nat /\ f.count \in Nat \ {0} /\ from + f.count <= Len(toks)
    BY <2>2 DEF RunsPrefill
  <2>4. fed = SubSeq(toks, from + 1, from + f.count)
    OBVIOUS
  <2> HIDE DEF toks, from, fed
  <2>5. fed \in Seq(Tokens)
    BY <2>3, <2>4, SubSeqProperties
  <2> QED
    BY <1>1, <1>3, <2>5
<1>4. CASE D = {} /\ F = {}
  <2>1. <<>> \in Seq(Tokens)
    OBVIOUS
  <2> HIDE DEF D, F, d, f, fed
  <2> QED
    BY <1>1, <1>4, <2>1
<1> QED
  BY <1>2, <1>3, <1>4

\* Rows that are distinct in a forward are distinct in part of it.
LEMMA DistinctThose ==
  ASSUME NEW S, NEW s \in Seq(S), Distinct(s), NEW T
  PROVE  Distinct(those(s, T))
<1> DEFINE t == those(s, T)
<1>1. Range(s) = {s[i] : i \in 1 .. Len(s)} /\ (IsInjective(s) <=> \A i, j \in 1 .. Len(s) : s[i] = s[j] => i = j)
  BY RangeOf
<1>2. IsInjective(s)
  BY <1>1 DEF Distinct
<1>3. t \in Seq(S) /\ Range(t) = Range(s) \cap T /\ IsInjective(t)
  BY <1>2, ThoseOf
<1> HIDE DEF t
<1>4. Range(t) = {t[i] : i \in 1 .. Len(t)} /\ \A i, j \in 1 .. Len(t) : t[i] = t[j] => i = j
  BY <1>3, RangeOf
<1>5. ASSUME NEW i \in 1 .. Len(t), NEW j \in 1 .. Len(t), t[i].r = t[j].r PROVE i = j
  <2>0. t[i] \in Range(s) /\ t[j] \in Range(s)
    BY <1>3, <1>4
  <2>1. PICK a \in 1 .. Len(s) : t[i] = s[a]
    BY <1>1, <2>0
  <2>2. PICK b \in 1 .. Len(s) : t[j] = s[b]
    BY <1>1, <2>0
  <2>3. a = b
    BY <1>5, <2>1, <2>2 DEF Distinct
  <2> QED
    BY <1>4, <2>1, <2>2, <2>3
<1> QED
  BY <1>5 DEF Distinct, t

-----------------------------------------------------------------------------
(* The calls that follow a forward *)

callOf(name, r) == [op |-> name, r |-> r]
advanceOf(f) == [op |-> "advance", r |-> f.r, count |-> f.count]
eachOf(name, rows) == [i \in DOMAIN rows |-> [op |-> name, r |-> rows[i].r]]
advancesOf(ps) == [i \in DOMAIN ps |-> [op |-> "advance", r |-> ps[i].r, count |-> ps[i].count]]

\* A call for each element of a sequence.
LEMMA EachIs ==
  ASSUME NEW rows, rows \in Seq(Range(rows)), Distinct(rows), \A x \in Range(rows) : x.r \in Req,
         NEW name \in {"sample", "complete"}
  PROVE  /\ AgendaRight(eachOf(name, rows))
         /\ Range(eachOf(name, rows)) = {callOf(name, x.r) : x \in Range(rows)}
<1> DEFINE S == {callOf(name, r) : r \in Req}
           e == eachOf(name, rows)
<1>1. Range(rows) = {rows[i] : i \in 1 .. Len(rows)} /\ DOMAIN rows = 1 .. Len(rows) /\ Len(rows) \in Nat
  BY RangeOf
<1>2. e = [i \in 1 .. Len(rows) |-> callOf(name, rows[i].r)]
  BY <1>1 DEF eachOf, callOf
<1>3. \A i \in 1 .. Len(rows) : rows[i].r \in Req /\ callOf(name, rows[i].r) \in S
  BY <1>1
<1>4. \A r : callOf(name, r).op = name /\ callOf(name, r).r = r
  BY DEF callOf
<1> HIDE DEF S, e
<1>5. e \in Seq(S) /\ Len(e) = Len(rows) /\ \A i \in 1 .. Len(rows) : e[i] = callOf(name, rows[i].r)
  BY <1>1, <1>2, <1>3
<1>6. Range(e) = {e[i] : i \in 1 .. Len(e)}
  BY <1>5, RangeOf
<1>7. Range(e) = {callOf(name, x.r) : x \in Range(rows)}
  BY <1>1, <1>5, <1>6
<1>8. Distinct(e)
  BY <1>1, <1>4, <1>5 DEF Distinct
<1>9. name \in RowOps /\ name \notin {"grow", "commit", "advance", "publish"}
  BY DEF RowOps
<1>10. \A i \in 1 .. Len(e) : CallType(e[i]) /\ e[i].op = name
  BY <1>3, <1>4, <1>5, <1>9 DEF CallType
<1> QED
  BY <1>5, <1>7, <1>8, <1>9, <1>10, EachCall DEF e

\* The chunks that a forward takes forward.
LEMMA AdvancesAre ==
  ASSUME NEW ps, ps \in Seq(Range(ps)), Distinct(ps), \A f \in Range(ps) : f.r \in Req /\ f.count \in Nat \ {0}
  PROVE  /\ AgendaRight(advancesOf(ps))
         /\ Range(advancesOf(ps)) = {advanceOf(f) : f \in Range(ps)}
<1> DEFINE S == {advanceOf(f) : f \in Range(ps)}
           e == advancesOf(ps)
<1>1. Range(ps) = {ps[i] : i \in 1 .. Len(ps)} /\ DOMAIN ps = 1 .. Len(ps) /\ Len(ps) \in Nat
  BY RangeOf
<1>2. e = [i \in 1 .. Len(ps) |-> advanceOf(ps[i])]
  BY <1>1 DEF advancesOf, advanceOf
<1>3. \A i \in 1 .. Len(ps) : ps[i] \in Range(ps) /\ advanceOf(ps[i]) \in S
  BY <1>1
<1>4. \A f : advanceOf(f).op = "advance" /\ advanceOf(f).r = f.r /\ advanceOf(f).count = f.count
  BY DEF advanceOf
<1> HIDE DEF S, e
<1>5. e \in Seq(S) /\ Len(e) = Len(ps) /\ \A i \in 1 .. Len(ps) : e[i] = advanceOf(ps[i])
  BY <1>1, <1>2, <1>3
<1>6. Range(e) = {e[i] : i \in 1 .. Len(e)}
  BY <1>5, RangeOf
<1>7. Range(e) = {advanceOf(f) : f \in Range(ps)}
  BY <1>1, <1>5, <1>6
<1>8. Distinct(e)
  BY <1>1, <1>4, <1>5 DEF Distinct
<1>9. "advance" \in RowOps
  BY DEF RowOps
<1>10. \A i \in 1 .. Len(e) : CallType(e[i]) /\ e[i].op = "advance"
  BY <1>3, <1>4, <1>5, <1>9 DEF CallType
<1> QED
  BY <1>5, <1>7, <1>8, <1>9, <1>10, EachCall DEF e

\* Calls that take turns.
LEMMA TurnsFollow ==
  ASSUME NEW s, NEW t, \A c \in Range(s) \cup Range(t) : c.op \in RowOps,
         \A c \in Range(s), d \in Range(t) : c.r = d.r => turn(c.op) < turn(d.op)
  PROVE  Follows(s, t)
<1>1. \A op \in RowOps : op \notin Lone
  BY DEF RowOps, Lone
<1> QED
  BY <1>1 DEF Follows, forRow

\* The calls after a forward are in turn and fit the rows as the forward leaves them.
LEMMA CallsAfter ==
  ASSUME Drafter = "none",
         NEW ds, ds \in Seq(Range(ds)), Distinct(ds), \A d \in Range(ds) : d.r \in Req /\ Len(d.chain) = 1,
         NEW ps, ps \in Seq(Range(ps)), Distinct(ps), \A f \in Range(ps) : f.r \in Req /\ f.count \in Nat \ {0},
         \A d \in Range(ds), f \in Range(ps) : d.r # f.r
  PROVE  /\ AgendaRight(afterForward(ds, ps))
         /\ Range(afterForward(ds, ps)) =
              {callOf("sample", d.r) : d \in Range(ds)} \cup {advanceOf(f) : f \in Range(ps)}
              \cup {callOf("sample", f.r) : f \in {g \in Range(ps) : completes(g)}}
              \cup {callOf("complete", f.r) : f \in {g \in Range(ps) : completes(g)}}
<1> DEFINE T == {f \in Range(ps) : completes(f)}
           done == those(ps, T)
           V == eachOf("sample", ds)
           A == advancesOf(ps)
           S == eachOf("sample", done)
           C == eachOf("complete", done)
<1>1. /\ done \in Seq(Range(ps)) /\ Range(done) = Range(ps) \cap T
  BY ThoseOf
<1>2. Range(done) = T
  BY <1>1
<1>3. Distinct(done)
  BY DistinctThose
<1>4. done \in Seq(Range(done)) /\ \A f \in Range(done) : f.r \in Req
  <2> HIDE DEF done, T
  <2>1. \A i \in 1 .. Len(done) : done[i] \in Range(done)
    BY <1>1, RangeOf
  <2>2. done \in Seq(Range(done))
    BY <1>1, <2>1
  <2> QED
    BY <1>1, <2>2
<1>5. DOMAIN ds = 1 .. Len(ds) /\ \A i \in 1 .. Len(ds) : ds[i] \in Range(ds) /\ Len(ds[i].chain) = 1
  BY RangeOf
<1>6. afterForward(ds, ps) = V \o A \o S \o C \o <<>>
  <2>1. [i \in DOMAIN ds |-> IF Len(ds[i].chain) = 1 THEN [op |-> "sample", r |-> ds[i].r]
                             ELSE [op |-> "verify", r |-> ds[i].r, chain |-> ds[i].chain]] = V
    BY <1>5 DEF eachOf
  <2> QED
    BY <2>1 DEF afterForward, eachOf, advancesOf
<1> HIDE DEF T, done, V, A, S, C
<1>7. /\ AgendaRight(V) /\ Range(V) = {callOf("sample", d.r) : d \in Range(ds)}
      /\ AgendaRight(S) /\ Range(S) = {callOf("sample", f.r) : f \in T}
      /\ AgendaRight(C) /\ Range(C) = {callOf("complete", f.r) : f \in T}
      /\ AgendaRight(A) /\ Range(A) = {advanceOf(f) : f \in Range(ps)}
  <2>1. AgendaRight(V) /\ Range(V) = {callOf("sample", d.r) : d \in Range(ds)}
    BY EachIs DEF V
  <2>2. AgendaRight(S) /\ Range(S) = {callOf("sample", f.r) : f \in T}
    BY <1>2, <1>3, <1>4, EachIs DEF S
  <2>3. AgendaRight(C) /\ Range(C) = {callOf("complete", f.r) : f \in T}
    BY <1>2, <1>3, <1>4, EachIs DEF C
  <2>4. AgendaRight(A) /\ Range(A) = {advanceOf(f) : f \in Range(ps)}
    BY AdvancesAre DEF A
  <2> QED
    BY <2>1, <2>2, <2>3, <2>4
<1>8. /\ \A r : callOf("sample", r).op = "sample" /\ callOf("sample", r).r = r
      /\ \A r : callOf("complete", r).op = "complete" /\ callOf("complete", r).r = r
      /\ \A f : advanceOf(f).op = "advance" /\ advanceOf(f).r = f.r
  BY DEF callOf, advanceOf
<1>9. /\ turn("advance") = 0 /\ turn("sample") = 1 /\ turn("complete") = 2 /\ {"advance", "sample", "complete"} \subseteq RowOps
      /\ 0 < 1 /\ 0 < 2 /\ 1 < 2
  BY DEF turn, RowOps
<1>10. T \subseteq Range(ps)
  BY DEF T
<1>11. AgendaRight(V \o A) /\ Range(V \o A) = Range(V) \cup Range(A)
  <2>1. Follows(V, A)
    BY <1>7, <1>8, <1>9, TurnsFollow
  <2> QED
    BY <1>7, <2>1, JoinedCalls
<1>12. AgendaRight(V \o A \o S) /\ Range(V \o A \o S) = Range(V) \cup Range(A) \cup Range(S)
  <2> DEFINE VA == V \o A
  <2>1. \A c \in Range(VA) \cup Range(S) : c.op \in RowOps
    BY <1>7, <1>8, <1>9, <1>11
  <2>2. \A c \in Range(VA), d \in Range(S) : c.r = d.r => turn(c.op) < turn(d.op)
    <3>1. \A c \in Range(V), d \in Range(S) : c.r # d.r
      BY <1>7, <1>8, <1>10
    <3>2. \A c \in Range(A), d \in Range(S) : turn(c.op) < turn(d.op)
      BY <1>7, <1>8, <1>9
    <3> QED
      BY <1>11, <3>1, <3>2
  <2> HIDE DEF VA
  <2>3. Follows(VA, S)
    BY <2>1, <2>2, TurnsFollow
  <2>4. AgendaRight(VA) /\ Range(VA) = Range(V) \cup Range(A)
    BY <1>11 DEF VA
  <2>5. AgendaRight(VA \o S) /\ Range(VA \o S) = Range(VA) \cup Range(S)
    BY <1>7, <2>3, <2>4, JoinedCalls
  <2> QED
    BY <2>4, <2>5 DEF VA
<1> DEFINE VAS == V \o A \o S
<1>13. AgendaRight(VAS) /\ Range(VAS) = Range(V) \cup Range(A) \cup Range(S)
  BY <1>12
<1> HIDE DEF VAS
<1>14. AgendaRight(VAS \o C) /\ Range(VAS \o C) = Range(VAS) \cup Range(C)
  <2>1. \A c \in Range(VAS) \cup Range(C) : c.op \in RowOps
    BY <1>7, <1>8, <1>9, <1>13
  <2>2. \A c \in Range(VAS), d \in Range(C) : turn(c.op) < turn(d.op)
    BY <1>7, <1>8, <1>9, <1>13
  <2>3. Follows(VAS, C)
    BY <2>1, <2>2, TurnsFollow
  <2> QED
    BY <1>7, <1>13, <2>3, JoinedCalls
<1>15. afterForward(ds, ps) = VAS \o C
  <2>1. afterForward(ds, ps) = VAS \o C \o <<>>
    BY <1>6 DEF VAS
  <2> DEFINE a == VAS \o C
  <2>2. a \in Seq(Range(a))
    BY <1>14 DEF AgendaRight
  <2> HIDE DEF a
  <2>3. a \o <<>> = a
    BY <2>2, ConcatEmptySeq
  <2> QED
    BY <2>1, <2>3 DEF a
<1> QED
  BY <1>7, <1>13, <1>14, <1>15 DEF T

-----------------------------------------------------------------------------
(* The forward *)

\* The pool's cells and the recurrent states stay sequences of tokens.
LEMMA ForwardContents ==
  ASSUME Contents, NEW ds, \A d \in Range(ds) : RunsDecode(d), NEW ps, \A f \in Range(ps) : RunsPrefill(f)
  PROVE  LET writes == (UNION {decodeWrites(d) : d \in Range(ds)}) \cup (UNION {prefillWrites(f) : f \in Range(ps)})
             at(b, o) == {w \in writes : w.block = b /\ w.offset = o}
         IN  /\ [b \in Block |-> [o \in Offset |->
                   IF at(b, o) = {} THEN cell[b][o] ELSE (CHOOSE w \in at(b, o) : TRUE).kv]]
                  \in [Block -> [Offset -> Seq(Tokens)]]
             /\ [s \in Slot |-> state[s] \o consumed(s, ds, ps)] \in [Slot -> Seq(Tokens)]
<1> DEFINE X == UNION {decodeWrites(d) : d \in Range(ds)}
           Y == UNION {prefillWrites(f) : f \in Range(ps)}
           writes == X \cup Y
           at(b, o) == {w \in writes : w.block = b /\ w.offset = o}
<1>1. ASSUME NEW w \in writes PROVE w.kv \in Seq(Tokens)
  <2>1. CASE w \in X
    <3>1. PICK d \in Range(ds) : w \in decodeWrites(d)
      BY <2>1
    <3> QED
      BY <3>1, DecodeWrites
  <2>2. CASE w \in Y
    <3>1. PICK f \in Range(ps) : w \in prefillWrites(f)
      BY <2>2
    <3>2. RunsPrefill(f)
      OBVIOUS
    <3> HIDE DEF writes
    <3> QED
      BY <3>1, <3>2, PrefillWrites
  <2> HIDE DEF X, Y
  <2> QED
    BY <2>1, <2>2
<1> HIDE DEF writes
<1>2. ASSUME NEW b \in Block, NEW o \in Offset
      PROVE  (IF at(b, o) = {} THEN cell[b][o] ELSE (CHOOSE w \in at(b, o) : TRUE).kv) \in Seq(Tokens)
  <2>1. cell[b][o] \in Seq(Tokens)
    BY DEF Contents
  <2>2. CASE at(b, o) # {}
    <3> DEFINE w == CHOOSE x \in at(b, o) : TRUE
    <3>1. w \in at(b, o)
      BY <2>2
    <3>2. w.kv \in Seq(Tokens)
      BY <1>1, <3>1
    <3> HIDE DEF at
    <3> QED
      BY <2>2, <3>2
  <2> HIDE DEF at
  <2> QED
    BY <2>1, <2>2
<1>3. \A s \in Slot : state[s] \o consumed(s, ds, ps) \in Seq(Tokens)
  <2>1. ASSUME NEW s \in Slot PROVE state[s] \o consumed(s, ds, ps) \in Seq(Tokens)
    <3>1. state[s] \in Seq(Tokens)
      BY DEF Contents
    <3>2. consumed(s, ds, ps) \in Seq(Tokens)
      BY Consumed
    <3> QED
      BY <3>1, <3>2, ConcatProperties
  <2> QED
    BY <2>1
<1>4. [b \in Block |-> [o \in Offset |->
         IF at(b, o) = {} THEN cell[b][o] ELSE (CHOOSE w \in at(b, o) : TRUE).kv]]
        \in [Block -> [Offset -> Seq(Tokens)]]
  <2> HIDE DEF at
  <2> QED
    BY <1>2
<1> QED
  BY <1>3, <1>4 DEF writes

\* A row whose forward gave its next token.
LEMMA DecodeForwarded ==
  ASSUME NEW r, NEW rw, LiveRight(rw, r, {}, {}), rw.phase = "decode", rw.seqLen <= held(rw),
         NEW C, C = {callOf("sample", r)}
  PROVE  LiveRight(rw, r, C, {c.op : c \in C})
<1> DEFINE ops == {c.op : c \in C}
<1>1. ops = {"sample"} /\ \A c \in C : c.op = "sample"
  BY DEF callOf
<1> HIDE DEF ops
<1>2. DecodeRight(rw, r, ops)
  BY <1>1 DEF LiveRight, DecodeRight
<1>3. \A c \in C : CallFits(c, rw, r, ops)
  BY <1>1 DEF CallFits
<1>4. LiveRight(rw, r, C, ops)
  BY <1>2, <1>3 DEF LiveRight
<1> QED
  BY <1>4 DEF ops

\* A row whose chunk was forwarded, the last one or not.
LEMMA PrefillForwarded ==
  ASSUME NEW r, NEW rw, LiveRight(rw, r, {}, {}), rw.phase = "prefill", NEW f, f.r = r, f.count \in Nat \ {0},
         rw.prefillFrom \in Nat, promptLen(r) \in Nat, rw.prefillFrom + f.count <= promptLen(r),
         Len(rw.tokens) = promptLen(r), NEW C, NEW last \in BOOLEAN, last <=> rw.prefillFrom + f.count = promptLen(r),
         C = {advanceOf(f)} \cup IF last THEN {callOf("sample", r), callOf("complete", r)} ELSE {}
  PROVE  LiveRight(rw, r, C, {c.op : c \in C})
<1> DEFINE ops == {c.op : c \in C}
<1>1. /\ \A c \in C : c.op # "advance" => c.op \in {"sample", "complete"}
      /\ \A c \in C : c.op = "advance" => c = advanceOf(f)
      /\ ops = {"advance"} \cup IF last THEN {"sample", "complete"} ELSE {}
      /\ advanceOf(f).count = f.count
  <2>1. /\ advanceOf(f).op = "advance" /\ advanceOf(f).count = f.count
        /\ callOf("sample", r).op = "sample" /\ callOf("complete", r).op = "complete"
    BY DEF callOf, advanceOf
  <2>2. CASE last
    <3>1. C = {advanceOf(f), callOf("sample", r), callOf("complete", r)}
      BY <2>2
    <3>2. ops = {"advance", "sample", "complete"}
      <4>1. PICK x, y, z : x = advanceOf(f) /\ y = callOf("sample", r) /\ z = callOf("complete", r)
        OBVIOUS
      <4>2. C = {x, y, z} /\ x.op = "advance" /\ y.op = "sample" /\ z.op = "complete"
        BY <2>1, <3>1, <4>1
      <4> QED
        BY ONLY <4>2
    <3> HIDE DEF ops
    <3> QED
      BY <2>1, <2>2, <3>1, <3>2
  <2>3. CASE ~ last
    <3>1. C = {advanceOf(f)}
      BY <2>3
    <3>2. ops = {"advance"}
      BY <2>1, <3>1
    <3> HIDE DEF ops
    <3> QED
      BY <2>1, <2>3, <3>1, <3>2
  <2> QED
    BY <2>2, <2>3
<1> HIDE DEF ops
<1>2. PrefillRight(rw, r, {})
  BY DEF LiveRight
<1>3. rw.prefillFrom # promptLen(r)
  OBVIOUS
<1>4. PrefillRight(rw, r, ops)
  <2>1. CASE last
    BY <1>1, <1>2, <1>3, <2>1 DEF PrefillRight
  <2>2. CASE ~ last
    BY <1>1, <1>2, <1>3, <2>2 DEF PrefillRight
  <2> QED
    BY <2>1, <2>2
<1>5. "complete" \in ops <=> last
  BY <1>1
<1>6. \A c \in C : CallFits(c, rw, r, ops)
  BY <1>1, <1>5 DEF CallFits
<1>7. LiveRight(rw, r, C, ops)
  BY <1>4, <1>6 DEF LiveRight
<1> QED
  BY <1>7 DEF ops

\* The decoding rows of a forward that have not failed in the meantime.
decodesLeft(c) == those(c.decodes, {d \in Range(c.decodes) : row[d.r].phase # "done"})

\* The rows of a forward, as it finds them, and the calls it leaves.
LEMMA ForwardRuns ==
  ASSUME Drafter = "none", EngineInv, Forward
  PROVE  LET ds == decodesLeft(call)
             ps == call.prefills
             a == afterForward(ds, ps)
         IN  /\ call \in Range(agenda) /\ call.op = "forward" /\ Range(ds) \subseteq Range(call.decodes)
             /\ agenda' = a \o Tail(agenda)
             /\ UNCHANGED <<waiting, running, row, result, free, ref, freeSlots, store, blocksUsed>>
             /\ \A r \in Req : callsFor(agenda, r) = {}
             /\ \A d \in Range(ds) : /\ d.r \in Req /\ d.chain \in Seq(Tokens) /\ Len(d.chain) = 1
                                     /\ Live(d.r) /\ row[d.r].phase = "decode"
                                     /\ row[d.r].seqLen <= held(row[d.r]) /\ RunsDecode(d)
             /\ \A f \in Range(ps) : /\ Live(f.r) /\ row[f.r].phase = "prefill"
                                     /\ row[f.r].prefillFrom + f.count <= promptLen(f.r)
                                     /\ Len(row[f.r].tokens) = promptLen(f.r) /\ RunsPrefill(f)
             /\ \A d, e \in Range(ds) : d.r = e.r => d = e
             /\ \A f, g \in Range(ps) : f.r = g.r => f = g
             /\ \A d \in Range(ds), f \in Range(ps) : d.r # f.r
             /\ AgendaRight(agenda') /\ \A c \in Range(agenda') : c.op \notin Lone
             /\ \A r \in Req : callsFor(agenda', r) = callsFor(a, r)
             /\ \A d \in Range(ds) : callsFor(a, d.r) = {callOf("sample", d.r)}
             /\ \A f \in Range(ps) :
                  callsFor(a, f.r) = {advanceOf(f)} \cup IF completes(f) THEN {callOf("sample", f.r), callOf("complete", f.r)} ELSE {}
             /\ \A r \in Req : (\A d \in Range(ds) : d.r # r) /\ (\A f \in Range(ps) : f.r # r) => callsFor(a, r) = {}
<1> DEFINE ds == decodesLeft(call)
           ps == call.prefills
           a == afterForward(ds, ps)
<1>1. agenda # <<>> /\ AgendaRight(agenda) /\ Head(agenda).op = "forward" /\ call = Head(agenda) /\ ForwardType(call)
      /\ call \in Range(agenda)
  BY Doing DEF Forward, call
<1>2. /\ agenda' = a \o Tail(agenda)
      /\ UNCHANGED <<waiting, running, row, result, free, ref, freeSlots, store, blocksUsed>>
  BY DEF Forward, next, decodesLeft
<1>3. \A r \in Req : callsFor(agenda, r) = {} /\ opsFor(agenda, r) = {} /\ callsFor(Tail(agenda), r) = {}
  <2>1. "forward" \in Lone /\ "forward" \notin RowOps
    BY DEF Lone, RowOps
  <2> QED
    BY <1>1, <2>1, TakenFor DEF opsFor, forRow
<1>4. /\ ds \in Seq(Range(ds)) /\ Distinct(ds)
      /\ Range(ds) = {d \in Range(call.decodes) : row[d.r].phase # "done"}
  <2> DEFINE S == Range(call.decodes)
             T == {d \in S : row[d.r].phase # "done"}
             s == call.decodes
  <2>1. s \in Seq(S) /\ Distinct(s)
    BY <1>1 DEF ForwardType
  <2>2. ds = those(s, T)
    BY DEF decodesLeft
  <2>3. T \subseteq S /\ S = Range(s)
    OBVIOUS
  <2> HIDE DEF s, S, ds
  <2>4. ds \in Seq(S) /\ Range(ds) = Range(s) \cap T /\ Distinct(ds)
    <3> HIDE DEF T
    <3> QED
      BY <2>1, <2>2, ThoseOf, DistinctThose
  <2>5. Range(ds) = T
    BY <2>3, <2>4
  <2>6. ds \in Seq(Range(ds))
    <3>1. Range(ds) = {ds[i] : i \in 1 .. Len(ds)}
      BY <2>4, RangeOf
    <3> QED
      BY <2>4, <3>1
  <2> QED
    BY <2>4, <2>5, <2>6 DEF S
<1>5. /\ ps \in Seq(Range(ps)) /\ Distinct(ps)
      /\ \A f \in Range(ps) : f.r \in Req /\ f.count \in Nat \ {0}
  BY <1>1 DEF ForwardType
<1>6. ForwardFits(call)
  BY <1>1, Doing DEF EngineInv, Forwards, Forward
<1> HIDE DEF ds, ps, a
<1>7. ASSUME NEW r \in Req, Live(r)
      PROVE  /\ row[r] \in RowType /\ LiveRight(row[r], r, {}, {}) /\ promptLen(r) \in Nat
             /\ row[r].tokens \in Seq(Tokens) /\ row[r].prefillFrom \in Nat /\ row[r].seqLen \in Nat
             /\ Len(row[r].tokens) \in Nat
  <2>1. row[r] \in RowType /\ LiveRight(row[r], r, {}, {})
    BY <1>3, <1>7, RowKnown
  <2>2. row[r].tokens \in Seq(Tokens) /\ row[r].prefillFrom \in Nat /\ row[r].seqLen \in Nat
    BY <2>1 DEF RowType
  <2> QED
    BY <2>1, <2>2, TokensAre
<1>8. ASSUME NEW d \in Range(ds)
      PROVE  /\ d.r \in Req /\ d.chain \in Seq(Tokens) /\ Len(d.chain) = 1 /\ Live(d.r) /\ row[d.r].phase = "decode"
             /\ row[d.r].seqLen <= held(row[d.r]) /\ RunsDecode(d)
  <2>1. d \in Range(call.decodes) /\ row[d.r].phase # "done"
    BY <1>4
  <2>2. d.r \in Req /\ d.chain \in Seq(Tokens) /\ Len(d.chain) = 1
    BY <1>1, <2>1 DEF ForwardType
  <2>3. Live(d.r) /\ row[d.r].phase = "decode" /\ row[d.r].seqLen <= held(row[d.r])
    BY <1>3, <1>6, <2>1, <2>2 DEF ForwardFits
  <2>4. row[d.r].seqLen = Len(row[d.r].tokens) /\ promptLen(d.r) < row[d.r].seqLen
    BY <1>7, <2>2, <2>3 DEF LiveRight, DecodeRight
  <2>5. row[d.r].tokens # <<>> /\ row[d.r].tokens \in Seq(Tokens)
    BY <1>7, <2>2, <2>3, <2>4
  <2> QED
    BY <2>2, <2>3, <2>4, <2>5 DEF RunsDecode
<1>9. ASSUME NEW f \in Range(ps)
      PROVE  /\ Live(f.r) /\ row[f.r].phase = "prefill" /\ row[f.r].prefillFrom + f.count <= promptLen(f.r)
             /\ Len(row[f.r].tokens) = promptLen(f.r) /\ RunsPrefill(f)
  <2>1. f.r \in Req /\ f.count \in Nat \ {0}
    BY <1>5
  <2>2. Live(f.r) /\ row[f.r].phase = "prefill" /\ row[f.r].prefillFrom + f.count <= promptLen(f.r)
    BY <1>6 DEF ForwardFits, ps
  <2>3. row[f.r].prefillFrom # promptLen(f.r)
    BY <1>7, <2>1, <2>2
  <2>4. PrefillRight(row[f.r], f.r, {})
    BY <1>7, <2>1, <2>2 DEF LiveRight
  <2>5. Len(row[f.r].tokens) = promptLen(f.r)
    <3> DEFINE n == Len(row[f.r].tokens)
    <3>1. n \in {promptLen(f.r), promptLen(f.r) + 1} /\ (n > promptLen(f.r) => FALSE) /\ promptLen(f.r) \in Nat
      BY <1>7, <2>1, <2>2, <2>3, <2>4 DEF PrefillRight
    <3> HIDE DEF n
    <3>2. n = promptLen(f.r)
      BY <3>1
    <3> QED
      BY <3>2 DEF n
  <2>6. RunsPrefill(f)
    BY <1>7, <2>1, <2>2, <2>5 DEF RunsPrefill
  <2> QED
    BY <2>2, <2>5, <2>6
<1>10. ASSUME NEW d \in Range(ds), NEW f \in Range(ps) PROVE d.r # f.r
  BY <1>8, <1>9
<1>11. /\ AgendaRight(a)
       /\ Range(a) = {callOf("sample", d.r) : d \in Range(ds)} \cup {advanceOf(f) : f \in Range(ps)}
                     \cup {callOf("sample", f.r) : f \in {g \in Range(ps) : completes(g)}}
                     \cup {callOf("complete", f.r) : f \in {g \in Range(ps) : completes(g)}}
  <2>1. \A d \in Range(ds) : d.r \in Req /\ Len(d.chain) = 1
    BY <1>8
  <2> QED
    BY <1>4, <1>5, <1>10, <2>1, CallsAfter DEF a
<1>12. /\ \A r : callOf("sample", r).op = "sample" /\ callOf("sample", r).r = r
       /\ \A r : callOf("complete", r).op = "complete" /\ callOf("complete", r).r = r
       /\ \A f : advanceOf(f).op = "advance" /\ advanceOf(f).r = f.r
       /\ {"sample", "complete", "advance"} \subseteq RowOps
  BY DEF callOf, advanceOf, RowOps
<1>13. \A c \in Range(a) : c.op \in {"sample", "complete", "advance"}
  BY <1>11, <1>12
<1>14. /\ AgendaRight(agenda') /\ \A c \in Range(agenda') : c.op \notin Lone
       /\ \A r \in Req : callsFor(agenda', r) = callsFor(a, r)
  <2>1. InPlace(a, agenda)
    BY <1>1 DEF InPlace, Lone
  <2>2. /\ AgendaRight(agenda') /\ Range(agenda') = Range(a) \cup Range(Tail(agenda))
        /\ \A r \in Req : callsFor(agenda', r) = callsFor(a, r) \cup callsFor(Tail(agenda), r)
        /\ \A c \in Range(agenda') : c.op \in Lone => c \in Range(a)
    BY <1>1, <1>2, <1>11, <2>1, Replaced
  <2>3. \A c \in Range(a) : c.op \notin Lone
    BY <1>13 DEF Lone
  <2> QED
    BY <1>3, <2>2, <2>3
<1>15. \A d, e \in Range(ds) : d.r = e.r => d = e
  <2>1. Range(ds) = {ds[i] : i \in 1 .. Len(ds)}
    BY <1>4, RangeOf
  <2> QED
    BY <1>4, <2>1 DEF Distinct
<1>16. \A f, g \in Range(ps) : f.r = g.r => f = g
  <2>1. Range(ps) = {ps[i] : i \in 1 .. Len(ps)}
    BY <1>5, RangeOf
  <2> QED
    BY <1>5, <2>1 DEF Distinct
<1>17. ASSUME NEW d \in Range(ds) PROVE callsFor(a, d.r) = {callOf("sample", d.r)}
  BY <1>10, <1>11, <1>12 DEF callsFor, forRow
<1>18. ASSUME NEW f \in Range(ps)
       PROVE  callsFor(a, f.r) = {advanceOf(f)} \cup IF completes(f) THEN {callOf("sample", f.r), callOf("complete", f.r)} ELSE {}
  <2>1. \A g \in Range(ps) : g.r = f.r => g = f
    BY <1>16
  <2> QED
    BY <1>10, <1>11, <1>12, <2>1 DEF callsFor, forRow
<1>19. ASSUME NEW r \in Req, \A d \in Range(ds) : d.r # r, \A f \in Range(ps) : f.r # r PROVE callsFor(a, r) = {}
  BY <1>11, <1>12, <1>19 DEF callsFor, forRow
<1>20. Range(ds) \subseteq Range(call.decodes)
  BY <1>4
<1> QED
  BY <1>1, <1>2, <1>3, <1>8, <1>9, <1>10, <1>14, <1>15, <1>16, <1>17, <1>18, <1>19, <1>20 DEF ds, ps, a

\* _run_forward writes K/V and states, and puts on the agenda what follows for each row.
LEMMA Forwarded == Drafter = "none" /\ EngineInv /\ Forward => EngineInv'
<1> SUFFICES ASSUME Drafter = "none", EngineInv, Forward PROVE EngineInv'
  OBVIOUS
<1> DEFINE ds == decodesLeft(call)
           ps == call.prefills
           a == afterForward(ds, ps)
<1>1. /\ UNCHANGED <<waiting, running, row, result, free, ref, freeSlots, store, blocksUsed>>
      /\ \A r \in Req : callsFor(agenda, r) = {}
      /\ \A d \in Range(ds) : d.r \in Req /\ Live(d.r) /\ row[d.r].phase = "decode"
                              /\ row[d.r].seqLen <= held(row[d.r]) /\ RunsDecode(d)
      /\ \A f \in Range(ps) : /\ Live(f.r) /\ row[f.r].phase = "prefill"
                              /\ row[f.r].prefillFrom + f.count <= promptLen(f.r)
                              /\ Len(row[f.r].tokens) = promptLen(f.r) /\ RunsPrefill(f)
      /\ AgendaRight(agenda') /\ \A c \in Range(agenda') : c.op \notin Lone
      /\ \A r \in Req : callsFor(agenda', r) = callsFor(a, r)
      /\ \A d \in Range(ds) : callsFor(a, d.r) = {callOf("sample", d.r)}
      /\ \A f \in Range(ps) :
           callsFor(a, f.r) = {advanceOf(f)} \cup IF completes(f) THEN {callOf("sample", f.r), callOf("complete", f.r)} ELSE {}
      /\ \A r \in Req : (\A d \in Range(ds) : d.r # r) /\ (\A f \in Range(ps) : f.r # r) => callsFor(a, r) = {}
  BY ForwardRuns
<1> HIDE DEF ds, ps, a
<1>2. ASSUME NEW r \in Req, Live(r)
      PROVE  /\ row[r] \in RowType /\ LiveRight(row[r], r, {}, {}) /\ promptLen(r) \in Nat
             /\ row[r].tokens \in Seq(Tokens) /\ row[r].prefillFrom \in Nat /\ row[r].seqLen \in Nat
             /\ Len(row[r].tokens) \in Nat
  <2>0. callsFor(agenda, r) = {} /\ opsFor(agenda, r) = {}
    BY <1>1 DEF opsFor
  <2>1. row[r] \in RowType /\ LiveRight(row[r], r, {}, {})
    BY <1>2, <2>0, RowKnown
  <2>2. row[r].tokens \in Seq(Tokens) /\ row[r].prefillFrom \in Nat /\ row[r].seqLen \in Nat
    BY <2>1 DEF RowType
  <2> QED
    BY <2>1, <2>2, TokensAre
<1>3. Forwards' /\ Admission'
  BY <1>1, NoneLone DEF Lone
<1>4. /\ cell' \in [Block -> [Offset -> Seq(Tokens)]] /\ state' \in [Slot -> Seq(Tokens)]
  <2>1. Contents
    BY PartsFromTypes DEF EngineInv
  <2> DEFINE writes == (UNION {decodeWrites(d) : d \in Range(ds)}) \cup (UNION {prefillWrites(f) : f \in Range(ps)})
             at(b, o) == {w \in writes : w.block = b /\ w.offset = o}
  <2>2. /\ cell' = [b \in Block |-> [o \in Offset |->
                      IF at(b, o) = {} THEN cell[b][o] ELSE (CHOOSE w \in at(b, o) : TRUE).kv]]
        /\ state' = [s \in Slot |-> state[s] \o consumed(s, ds, ps)]
    BY DEF Forward, ds, ps, decodesLeft
  <2>3. (\A d \in Range(ds) : RunsDecode(d)) /\ (\A f \in Range(ps) : RunsPrefill(f))
    BY <1>1
  <2>4. /\ [b \in Block |-> [o \in Offset |->
              IF at(b, o) = {} THEN cell[b][o] ELSE (CHOOSE w \in at(b, o) : TRUE).kv]]
             \in [Block -> [Offset -> Seq(Tokens)]]
        /\ [s \in Slot |-> state[s] \o consumed(s, ds, ps)] \in [Slot -> Seq(Tokens)]
    BY <2>1, <2>3, ForwardContents
  <2> HIDE DEF at, writes
  <2> QED
    BY <2>2, <2>4
<1>5. Rows'
  <2>1. ASSUME NEW r \in Req
        PROVE  (RowRight(r, row[r], callsFor(agenda, r), Live(r), Queued(r), result[r]))'
    <3>1. RowRight(r, row[r], {}, Live(r), Queued(r), result[r])
      BY <1>1, RowKnown
    <3>2. Live(r)' = Live(r) /\ Queued(r)' = Queued(r)
      BY <1>1 DEF Live, Queued
    <3>3. SUFFICES RowRight(r, row[r], callsFor(a, r), Live(r), Queued(r), result[r])
      BY <1>1, <3>2
    <3>4. CASE \E d \in Range(ds) : d.r = r
      <4>1. PICK d \in Range(ds) : d.r = r
        BY <3>4
      <4> DEFINE C == callsFor(a, r)
                 rw == row[r]
      <4>2. C = {callOf("sample", r)}
        BY <1>1, <4>1
      <4>3. Live(r) /\ rw.phase = "decode" /\ rw.seqLen <= held(rw)
        BY <1>1, <4>1
      <4>4. LiveRight(rw, r, {}, {})
        BY <1>2, <4>3
      <4> HIDE DEF C, rw
      <4>5. LiveRight(rw, r, C, {c.op : c \in C})
        BY <4>2, <4>3, <4>4, DecodeForwarded
      <4>6. RowRight(r, rw, C, Live(r), Queued(r), result[r])
        BY <3>1, <4>3, <4>5 DEF RowRight, rw
      <4> QED
        BY <4>6 DEF C, rw
    <3>5. CASE \E f \in Range(ps) : f.r = r
      <4>1. PICK f \in Range(ps) : f.r = r
        BY <3>5
      <4> DEFINE C == callsFor(a, r)
                 rw == row[r]
      <4>2. C = {advanceOf(f)} \cup IF completes(f) THEN {callOf("sample", r), callOf("complete", r)} ELSE {}
        BY <1>1, <4>1
      <4>3. /\ Live(r) /\ rw.phase = "prefill" /\ rw.prefillFrom + f.count <= promptLen(r)
            /\ Len(rw.tokens) = promptLen(r) /\ f.count \in Nat \ {0}
        BY <1>1, <4>1 DEF RunsPrefill
      <4>4. LiveRight(rw, r, {}, {}) /\ rw.prefillFrom \in Nat /\ promptLen(r) \in Nat
        BY <1>2, <4>3
      <4>5. completes(f) <=> rw.prefillFrom + f.count = promptLen(r)
        BY <4>1, <4>3, <4>4 DEF completes
      <4> DEFINE last == rw.prefillFrom + f.count = promptLen(r)
      <4>6. C = {advanceOf(f)} \cup IF last THEN {callOf("sample", r), callOf("complete", r)} ELSE {}
        BY <4>2, <4>5
      <4> HIDE DEF C, rw
      <4>7. LiveRight(rw, r, C, {c.op : c \in C})
        BY <4>1, <4>3, <4>4, <4>6, PrefillForwarded
      <4>8. RowRight(r, rw, C, Live(r), Queued(r), result[r])
        BY <3>1, <4>3, <4>7 DEF RowRight, rw
      <4> QED
        BY <4>8 DEF C, rw
    <3>6. CASE ~(\E d \in Range(ds) : d.r = r) /\ ~(\E f \in Range(ps) : f.r = r)
      <4>1. callsFor(a, r) = {}
        BY <1>1, <3>6
      <4> QED
        BY <3>1, <4>1
    <3> QED
      BY <3>4, <3>5, <3>6
  <2> QED
    BY <2>1 DEF Rows
<1>6. Contents' /\ Pools' /\ (Queue(waiting))' /\ (AgendaRight(agenda))'
  <2>1. Pools'
    BY <1>1, PoolsStand DEF EngineInv
  <2>2. Contents'
    BY <1>1, <1>4 DEF EngineInv, TypeOK, Contents
  <2> QED
    BY <1>1, <2>1, <2>2 DEF EngineInv
<1> QED
  BY <1>3, <1>5, <1>6, Together, PTL

-----------------------------------------------------------------------------
(* An admission *)

\* Whole blocks for n tokens hold them, and are more than those of a shorter prefix.
LEMMA EnoughBlocks ==
  ASSUME NEW n \in Nat, NEW k \in Nat, k * BlockTokens < n
  PROVE  /\ blocksForTokens(n) - k \in Nat /\ n <= blocksForTokens(n) * BlockTokens
         /\ blocksForTokens(n) \in Nat
<1> DEFINE q == blocksForTokens(n)
           a == n + BlockTokens - 1
<1>1. BlockTokens \in Nat \ {0}
  BY PoolAssumption
<1>2. a \in Nat /\ q = a \div BlockTokens
  BY <1>1 DEF blocksForTokens
<1> HIDE DEF a
<1>3. q \in Nat /\ q * BlockTokens \in Nat /\ a < q * BlockTokens + BlockTokens
  <2> DEFINE x == a \div BlockTokens
  <2>1. /\ a < (a \div BlockTokens) * BlockTokens + BlockTokens
        /\ a \div BlockTokens \in Nat /\ (a \div BlockTokens) * BlockTokens \in Nat
    <3>1. a \in Int /\ a \in Nat
      BY <1>2
    <3> QED
      BY ONLY <1>1, <3>1, Multiples
  <2>2. q = x
    BY <1>2
  <2>3. x \in Nat /\ x * BlockTokens \in Nat /\ a < x * BlockTokens + BlockTokens
    BY ONLY <2>1
  <2> HIDE DEF q, x
  <2> QED
    BY <2>2, <2>3
<1> HIDE DEF q
<1>4. n <= q * BlockTokens
  <2>1. a = n + BlockTokens - 1
    BY DEF a
  <2> DEFINE y == q * BlockTokens
  <2>2. y \in Nat /\ a < y + BlockTokens
    BY <1>3
  <2> HIDE DEF y
  <2>3. n <= y
    BY <1>1, <2>1, <2>2
  <2> QED
    BY <2>3 DEF y
<1>5. k < q
  <2> SUFFICES ASSUME q <= k PROVE FALSE
    BY <1>3
  <2> DEFINE y == q * BlockTokens
             z == k * BlockTokens
  <2>1. y <= z
    BY <1>1, <1>3, TimesMore
  <2>2. y \in Nat /\ z \in Nat /\ n <= y /\ z < n
    BY <1>1, <1>3, <1>4
  <2> HIDE DEF y, z
  <2> QED
    BY <2>1, <2>2
<1>6. q - k \in Nat
  BY <1>3, <1>5
<1> QED
  BY <1>3, <1>4, <1>6 DEF q

\* The row of an admission: a hit shorter than its prompt, and room for all of it.
LEMMA AdoptedRight ==
  ASSUME NEW r \in Req, NEW rx, rx.phase = "prefill", rx.drafts = <<>>, rx.tokens = Prompt[r],
         rx.pending = NoSnapshot, rx.prefillFrom \in Nat, rx.prefillFrom < promptLen(r),
         rx.seqLen = rx.prefillFrom, promptLen(r) <= held(rx)
  PROVE  LiveRight(rx, r, {}, {})
<1>1. promptLen(r) \in Nat /\ Len(rx.tokens) = promptLen(r) /\ ThinkCap[r] \in Nat \cup {NoCap} /\ BlockTokens \in Nat \ {0}
  BY TokensAre, PoolAssumption DEF promptLen
<1>2. rx.pending.len = 0
  BY DEF NoSnapshot
<1>3. PrefillRight(rx, r, {})
  BY <1>1 DEF PrefillRight
<1>4. ForcedRight(rx, r)
  <2>1. ThinkCap[r] # NoCap => ~(Len(rx.tokens) - promptLen(r) - ThinkCap[r] > 0)
    BY <1>1
  <2> QED
    BY <2>1 DEF ForcedRight
<1>5. 0 % BlockTokens = 0 /\ 0 <= promptLen(r)
  BY <1>1
<1> QED
  BY <1>1, <1>2, <1>3, <1>4, <1>5 DEF LiveRight

\* _admit adopts the blocks of its hit and takes the rest of the prompt's from the free list.
LEMMA HeadAdopted == EngineInv /\ Adopt => EngineInv'
<1> SUFFICES ASSUME EngineInv, Adopt PROVE EngineInv'
  OBVIOUS
<1>1. agenda # <<>> /\ AgendaRight(agenda) /\ Head(agenda).op = "adopt" /\ call.op = "adopt" /\ call \in Range(agenda)
  BY Doing DEF Adopt, call
<1>2. waiting # <<>> /\ freeSlots # <<>> /\ needed(Head(waiting)) <= Len(free)
  BY <1>1 DEF EngineInv, Admission, roomForOne
<1>3. PICK r \in Req : r = Head(waiting)
  BY <1>2, WaitingHead
<1> DEFINE rw == row[r]
           E == Range(store)
           hit == hitIn(E, rw.tokens)
           n == needed(r)
           new == freshOf(free, n)
           bs == hit.blocks \o new
           from == Len(hit.tokens)
           slot == Last(freeSlots)
           rx == [rw EXCEPT !.blocks = bs, !.own = n, !.slot = slot, !.seqLen = from, !.prefillFrom = from]
           p == [op |-> "plan"]
<1>4. /\ r \in Range(waiting) /\ row \in [Req -> RowType] /\ rw \in RowType /\ rw.tokens \in Seq(Tokens)
      /\ StoreRight(store) /\ PoolsRight(running, row, free, ref, freeSlots, store, blocksUsed)
  <2>1. r \in Range(waiting) /\ row \in [Req -> RowType] /\ StoreRight(store)
        /\ PoolsRight(running, row, free, ref, freeSlots, store, blocksUsed)
    BY <1>2, <1>3, WaitingHead
  <2>2. rw \in RowType
    BY <2>1
  <2>3. rw.tokens \in Seq(Tokens)
    BY <2>2 DEF RowType
  <2> QED
    BY <2>1, <2>2, <2>3
<1>5. /\ rw = [newRow(r) EXCEPT !.phase = "prefill"] /\ result[r] = "none" /\ callsFor(agenda, r) = {} /\ ~ Live(r)
  BY <1>4, RowKnown DEF Queued, RowRight
<1>6. rw.phase = "prefill" /\ rw.drafts = <<>> /\ rw.tokens = Prompt[r] /\ rw.pending = NoSnapshot
  BY <1>5 DEF newRow
<1>7. promptLen(r) \in Nat \ {0} /\ Len(rw.tokens) = promptLen(r) /\ rw.tokens # <<>>
  <2>1. promptLen(r) \in Nat \ {0} /\ Len(rw.tokens) = promptLen(r)
    BY <1>6, TokensAre DEF promptLen
  <2> HIDE DEF rw
  <2> QED
    BY <2>1
<1> HIDE DEF rw
<1>8. /\ hit.tokens \in Seq(Tokens) /\ hit.blocks \in Seq(Block) /\ hit.state \in Seq(Tokens)
      /\ IsInjective(hit.blocks) /\ Len(hit.blocks) * BlockTokens = from /\ from < promptLen(r)
      /\ hit.blocks = <<>> \/ \E e \in E : e.blocks = hit.blocks
      /\ from \in Nat /\ Len(hit.blocks) \in Nat
  <2>1. LET h == hitIn(E, rw.tokens)
        IN  /\ h.tokens \in Seq(Tokens) /\ h.blocks \in Seq(Block) /\ h.state \in Seq(Tokens)
            /\ IsInjective(h.blocks) /\ Len(h.blocks) * BlockTokens = Len(h.tokens)
            /\ Len(h.tokens) < Len(rw.tokens)
            /\ h.blocks = <<>> \/ \E e \in E : e.blocks = h.blocks
    BY <1>4, <1>7, HitIs
  <2> HIDE DEF E
  <2> QED
    BY <1>7, <2>1
<1> HIDE DEF hit
<1>9. n = blocksForTokens(promptLen(r)) - Len(hit.blocks)
  <2>1. n = neededIn(E, rw.tokens)
    BY <1>4, NeededIs DEF rw
  <2> QED
    BY <1>7, <2>1 DEF neededIn, hit
<1>10. matchPrefix(row[r].tokens) = hit
  BY <1>4, MatchIs DEF hit, rw
<1>11. n \in Nat /\ blocksForTokens(promptLen(r)) \in Nat
       /\ promptLen(r) <= blocksForTokens(promptLen(r)) * BlockTokens
  <2> HIDE DEF n, from
  <2> DEFINE k == Len(hit.blocks)
             m == promptLen(r)
  <2>1. m \in Nat /\ k \in Nat /\ k * BlockTokens < m
    BY <1>7, <1>8
  <2> HIDE DEF k, m
  <2>2. /\ blocksForTokens(m) - k \in Nat /\ m <= blocksForTokens(m) * BlockTokens
        /\ blocksForTokens(m) \in Nat
    BY <2>1, EnoughBlocks
  <2> QED
    BY <1>9, <2>2 DEF k, m
<1>12. n \in 0 .. Len(free) /\ FreeRight(free, ref) /\ free \in Seq(Block)
  <2>1. free \in Seq(Block) /\ FreeRight(free, ref)
    BY <1>4 DEF PoolsRight, FreeRight
  <2>2. n <= Len(free) /\ Len(free) \in Nat
    BY <1>2, <1>3, <2>1
  <2> HIDE DEF n
  <2> QED
    BY <1>11, <2>1, <2>2
<1>13. new \in Seq(Block) /\ Len(new) = n
  <2>1. \A b \in Range(<<>>) : b \in Block /\ ref[b] > 0
    BY DEF Range
  <2> HIDE DEF n
  <2> QED
    BY <1>12, <2>1, FreshBlocks
<1>14. /\ row' = [row EXCEPT ![r] = rx]
       /\ free' = SubSeq(free, 1, Len(free) - n) /\ ref' = refsMore(ref, new, hit.blocks)
       /\ freeSlots' = Front(freeSlots) /\ state' = [state EXCEPT ![slot] = hit.state]
       /\ blocksUsed' = blocksUsed + n /\ running' = Append(running, r) /\ waiting' = Tail(waiting)
       /\ agenda' = <<p>> \o Tail(agenda) /\ UNCHANGED <<result, cell, store>>
  <2>1. fresh(needed(r)) = new
    BY DEF fresh, freshOf
  <2>2. /\ row' = [row EXCEPT ![r].blocks = hit.blocks \o new, ![r].own = Len(new), ![r].slot = slot,
                              ![r].seqLen = Len(hit.tokens), ![r].prefillFrom = Len(hit.tokens)]
        /\ free' = freeWithout(Len(new)) /\ ref' = refsTaken(new, hit.blocks)
        /\ freeSlots' = Front(freeSlots) /\ state' = [state EXCEPT ![slot] = hit.state]
        /\ blocksUsed' = blocksUsed + Len(new) /\ running' = Append(running, r) /\ waiting' = Tail(waiting)
        /\ agenda' = <<p>> \o Tail(agenda) /\ UNCHANGED <<result, cell, store>>
    BY <1>3, <1>10, <2>1 DEF Adopt, next
  <2>3. row' = [row EXCEPT ![r] = rx]
    <3> HIDE DEF new, n, hit, slot
    <3> QED
      BY <1>4, <1>13, <2>2 DEF rw
  <2> QED
    BY <1>13, <2>2, <2>3 DEF freeWithout, refsTaken, refsMore
<1> HIDE DEF new, n
<1>15. bs \in Seq(Block) /\ Len(bs) = blocksForTokens(promptLen(r))
  <2>1. hit.blocks \o new \in Seq(Block) /\ Len(hit.blocks \o new) = Len(hit.blocks) + Len(new)
    BY <1>8, <1>13, ConcatProperties
  <2> DEFINE k == Len(hit.blocks)
             m == blocksForTokens(promptLen(r))
  <2>2. k \in Nat /\ m \in Nat /\ n = m - k /\ Len(bs) = k + n
    BY <1>8, <1>9, <1>11, <1>13, <2>1
  <2> HIDE DEF k, m, bs
  <2>3. Len(bs) = m
    BY <2>2
  <2> QED
    BY <2>1, <2>3 DEF m, bs
<1>16. slot \in Slot /\ freeSlots \in Seq(Slot)
  BY <1>2, <1>4, FrontOf DEF PoolsRight, SlotsRight
<1> HIDE DEF bs, from, slot
<1>17. /\ rx \in RowType /\ rx.tokens = rw.tokens /\ rx.phase = rw.phase /\ rx.drafts = rw.drafts
       /\ rx.pending = rw.pending /\ rx.blocks = bs /\ rx.own = n /\ rx.slot = slot
       /\ rx.seqLen = from /\ rx.prefillFrom = from
  BY <1>4, <1>8, <1>11, <1>15, <1>16 DEF RowType
<1> HIDE DEF rx
<1>18. row' \in [Req -> RowType] /\ row'[r] = rx /\ \A q \in Req \ {r} : row'[q] = row[q]
  BY <1>4, <1>14, <1>17
<1>19. running \in Seq(Req) /\ Range(running) \subseteq Req /\ Range(running') = Range(running) \cup {r}
  <2>1. running \in Seq(Req)
    BY <1>4 DEF PoolsRight, Queue
  <2> QED
    BY <1>14, <2>1, RangeOf, AppendedOnce
<1>20. Pools'
  <2>1. r \in Req \ Range(running)
    BY <1>5 DEF Live
  <2>2. \A q \in Range(running) : row'[q] = row[q]
    BY <1>18, <1>19, <2>1
  <2>3. row'[r].blocks = hit.blocks \o freshOf(free, n) /\ row'[r].slot = Last(freeSlots) /\ row'[r].own = n
    BY <1>17, <1>18 DEF bs, new, slot
  <2>4. PoolsRight(Append(running, r), row', SubSeq(free, 1, Len(free) - n), refsMore(ref, freshOf(free, n), hit.blocks),
                   Front(freeSlots), store, blocksUsed + n)
    BY <1>2, <1>4, <1>8, <1>12, <2>1, <2>2, <2>3, AdoptedRow
  <2> QED
    BY <1>14, <2>4 DEF Pools, new
<1>21. Queue(waiting') /\ Range(waiting') = Range(waiting) \ {r}
  <2>1. Queue(waiting)
    BY DEF EngineInv
  <2> QED
    BY <1>2, <1>3, <1>14, <2>1, TailOf DEF Queue
<1>22. \A q \in Req \ {r} : (Live(q)' <=> Live(q)) /\ (Queued(q)' <=> Queued(q))
  BY <1>19, <1>21 DEF Live, Queued
<1>23. /\ AgendaRight(agenda') /\ \A q \in Req : callsFor(agenda', q) = callsFor(agenda, q)
       /\ \A d \in Range(agenda') : d.op \in Lone => d = p
  <2>1. p.op = "plan"
    OBVIOUS
  <2> HIDE DEF p
  <2>2. CallType(p) /\ p.op \in Lone \ {"forward"} /\ Head(agenda).op \in Lone
    BY <1>1, <2>1 DEF CallType, RowOps, Lone
  <2> QED
    BY <1>1, <1>14, <2>2, LoneForLone
<1>24. Forwards' /\ Admission'
  <2>1. p.op = "plan"
    OBVIOUS
  <2> HIDE DEF p
  <2> QED
    BY <1>23, <2>1, NoneLone DEF Lone
<1>25. Contents'
  <2>1. state' \in [Slot -> Seq(Tokens)]
    BY <1>8, <1>14, <1>16 DEF EngineInv, TypeOK
  <2> QED
    BY <1>14, <1>18, <2>1 DEF EngineInv, TypeOK, Contents
<1>26. RowRight(r, row'[r], callsFor(agenda', r), Live(r)', Queued(r)', result'[r])
  <2>1. promptLen(r) <= held(rx)
    BY <1>11, <1>15, <1>17 DEF held
  <2>2. LiveRight(rx, r, {}, {})
    BY <1>6, <1>8, <1>17, <2>1, AdoptedRight
  <2>3. Live(r)' /\ ~ Queued(r)'
    BY <1>19, <1>21 DEF Live, Queued
  <2>4. callsFor(agenda', r) = {} /\ result'[r] = "none" /\ row'[r] = rx
    BY <1>5, <1>14, <1>18, <1>23
  <2> QED
    BY <2>2, <2>3, <2>4 DEF RowRight
<1>27. \A q \in Req \ {r} : row'[q] = row[q] /\ result'[q] = result[q] /\ callsFor(agenda', q) = callsFor(agenda, q)
  BY <1>14, <1>18, <1>23
<1> QED
  BY <1>20, <1>21, <1>22, <1>23, <1>24, <1>25, <1>26, <1>27, RowStep

-----------------------------------------------------------------------------
(* Clients, between ticks *)

\* The rows of requests that are not in the engine.
LEMMA RowsOut ==
  ASSUME NEW r \in Req
  PROVE  /\ newRow(r) \in RowType /\ newRow(r).phase = "new"
         /\ goneRow(r) \in RowType /\ goneRow(r).phase = "done"
         /\ [newRow(r) EXCEPT !.phase = "prefill"] \in RowType
<1>1. Prompt[r] \in Seq(Tokens) /\ <<>> \in Seq(Block) /\ <<>> \in Seq(Draw) /\ <<>> \in Seq(Tokens)
  BY TokensAre, EmptySeq
<1>2. NoSnapshot \in [len : Nat, state : Seq(Tokens)]
  BY <1>1 DEF NoSnapshot
<1>3. newRow(r) \in RowType /\ newRow(r).phase = "new"
  BY <1>1, <1>2 DEF newRow, RowType
<1> DEFINE n == newRow(r)
<1>4. n \in RowType
  BY <1>3
<1> HIDE DEF n
<1>5. [n EXCEPT !.phase = "done"] \in RowType /\ [n EXCEPT !.phase = "done"].phase = "done"
      /\ [n EXCEPT !.phase = "prefill"] \in RowType
  BY <1>4 DEF RowType
<1> QED
  BY <1>3, <1>5 DEF goneRow, n

\* A request not submitted, or submitted and answered, holds nothing.
LEMMA IdleRow ==
  ASSUME EngineInv, idle, UNCHANGED <<cell, state, agenda>>, NEW r \in Req,
         row' \in [Req -> RowType], result' \in [Req -> {"none", "finished", "failed", "taken"}],
         \A q \in Req \ {r} : /\ row'[q] = row[q] /\ result'[q] = result[q]
                              /\ Live(q)' <=> Live(q)
                              /\ Queued(q)' <=> Queued(q),
         Queue(waiting'), Pools', RowRight(r, row'[r], {}, Live(r)', Queued(r)', result'[r])
  PROVE  EngineInv'
<1>1. agenda = <<>> /\ agenda' = <<>>
  BY DEF idle
<1>2. AgendaRight(agenda') /\ Range(agenda') = {}
  BY <1>1, NoCall
<1>3. Forwards' /\ Admission'
  BY <1>2, NoneLone
<1>4. \A q \in Req : callsFor(agenda, q) = {} /\ callsFor(agenda', q) = {}
  BY <1>1, NoneFor
<1>5. Contents'
  BY DEF EngineInv, TypeOK, Contents
<1> QED
  BY <1>2, <1>3, <1>4, <1>5, RowStep

\* What is known of the rows between ticks.
LEMMA IdleKnown ==
  ASSUME EngineInv, idle, NEW r \in Req
  PROVE  /\ row \in [Req -> RowType] /\ result \in [Req -> {"none", "finished", "failed", "taken"}]
         /\ waiting \in Seq(Req) /\ Queue(waiting) /\ running \in Seq(Req) /\ Queue(running)
         /\ RowRight(r, row[r], {}, Live(r), Queued(r), result[r])
<1>1. agenda = <<>>
  BY DEF idle
<1>2. callsFor(agenda, r) = {}
  BY <1>1, NoneFor
<1> QED
  BY <1>2, RowKnown DEF EngineInv, TypeOK, Pools, PoolsRight

\* submit puts a new request at the end of the queue.
LEMMA RequestSubmitted == ASSUME EngineInv, NEW r \in Req, Submit(r) PROVE EngineInv'
<1>1. /\ row \in [Req -> RowType] /\ result \in [Req -> {"none", "finished", "failed", "taken"}]
      /\ waiting \in Seq(Req) /\ Queue(waiting) /\ RowRight(r, row[r], {}, Live(r), Queued(r), result[r]) /\ idle
      /\ running \in Seq(Req) /\ Queue(running)
  BY IdleKnown DEF Submit
<1>2. row[r].phase = "new" /\ UNCHANGED <<running, free, ref, cell, freeSlots, state, store, blocksUsed, agenda>>
  BY DEF Submit
<1>3. ~ Live(r) /\ ~ Queued(r) /\ row[r] = newRow(r) /\ result[r] = "none"
  <2>1. [newRow(r) EXCEPT !.phase = "prefill"].phase = "prefill"
    BY DEF newRow
  <2>2. ~ Queued(r)
    BY <1>1, <1>2, <2>1 DEF RowRight
  <2>3. ~ Live(r)
    BY <1>1, <1>2 DEF RowRight, LiveRight
  <2> QED
    BY <1>1, <1>2, <2>2, <2>3 DEF RowRight
<1>4. \A q \in Range(running) : q \in Req /\ q # r
  BY <1>1, <1>3, RangeOf DEF Live
<1>5. ASSUME \A q \in Req \ {r} : row'[q] = row[q] PROVE Pools'
  <2>1. SameHeld(running, row, row')
    BY <1>4, <1>5 DEF SameHeld
  <2>2. PoolsRight(running, row', free, ref, freeSlots, store, blocksUsed)
    BY <2>1, RowsKeepTheirs DEF EngineInv, Pools
  <2> QED
    BY <1>2, <2>2 DEF Pools
<1>6. CASE MaxNew[r] = 0
  <2>1. row' = [row EXCEPT ![r] = goneRow(r)] /\ result' = [result EXCEPT ![r] = "finished"] /\ UNCHANGED waiting
    BY <1>6 DEF Submit
  <2>2. /\ row' \in [Req -> RowType] /\ row'[r].phase = "done" /\ result'[r] = "finished"
        /\ result' \in [Req -> {"none", "finished", "failed", "taken"}]
        /\ \A q \in Req \ {r} : row'[q] = row[q] /\ result'[q] = result[q]
    BY <1>1, <2>1, RowsOut
  <2>3. \A q \in Req : Live(q)' = Live(q) /\ Queued(q)' = Queued(q)
    BY <1>2, <2>1 DEF Live, Queued
  <2>4. RowRight(r, row'[r], {}, Live(r)', Queued(r)', result'[r])
    BY <1>3, <2>2, <2>3, DoneRight
  <2> QED
    BY <1>1, <1>2, <1>5, <2>1, <2>2, <2>3, <2>4, IdleRow
<1>7. CASE MaxNew[r] # 0
  <2>1. row' = [row EXCEPT ![r].phase = "prefill"] /\ waiting' = Append(waiting, r) /\ UNCHANGED result
    BY <1>7 DEF Submit
  <2>2. /\ row' \in [Req -> RowType] /\ row'[r] = [newRow(r) EXCEPT !.phase = "prefill"]
        /\ \A q \in Req \ {r} : row'[q] = row[q]
    <3>1. row'[r] = [newRow(r) EXCEPT !.phase = "prefill"] /\ \A q \in Req \ {r} : row'[q] = row[q]
      BY <1>1, <1>3, <2>1
    <3>2. row' = [row EXCEPT ![r] = [newRow(r) EXCEPT !.phase = "prefill"]]
      BY <1>1, <1>3, <2>1
    <3>3. row' \in [Req -> RowType]
      BY <1>1, <3>2, RowsOut
    <3> QED
      BY <3>1, <3>3
  <2>3. Queue(waiting') /\ Range(waiting') = Range(waiting) \cup {r}
    BY <1>1, <1>3, <2>1, AppendedOnce DEF Queue, Queued
  <2>4. \A q \in Req : Live(q)' = Live(q)
    BY <1>2 DEF Live
  <2>5. Queued(r)' /\ \A q \in Req \ {r} : Queued(q)' <=> Queued(q)
    BY <2>3 DEF Queued
  <2>6. RowRight(r, row'[r], {}, Live(r)', Queued(r)', result'[r])
    BY <1>3, <2>1, <2>2, <2>4, <2>5 DEF RowRight
  <2> QED
    BY <1>1, <1>2, <1>5, <2>1, <2>2, <2>3, <2>4, <2>5, <2>6, IdleRow
<1> QED
  BY <1>6, <1>7

\* take gives the answer out.
LEMMA AnswerTaken == ASSUME EngineInv, NEW r \in Req, Take(r) PROVE EngineInv'
<1>1. /\ row \in [Req -> RowType] /\ result \in [Req -> {"none", "finished", "failed", "taken"}]
      /\ RowRight(r, row[r], {}, Live(r), Queued(r), result[r]) /\ idle /\ Queue(waiting)
  BY IdleKnown DEF Take
<1>2. /\ result[r] \in {"finished", "failed"} /\ result' = [result EXCEPT ![r] = "taken"]
      /\ UNCHANGED <<waiting, running, row, free, ref, cell, freeSlots, state, store, blocksUsed, agenda>>
  BY DEF Take
<1>3. \A q \in Req : Live(q)' = Live(q) /\ Queued(q)' = Queued(q)
  BY <1>2 DEF Live, Queued
<1>4. /\ result' \in [Req -> {"none", "finished", "failed", "taken"}] /\ result'[r] = "taken"
      /\ \A q \in Req \ {r} : result'[q] = result[q]
  BY <1>1, <1>2
<1>5. ~ Live(r) /\ ~ Queued(r) /\ row[r].phase = "done"
  BY <1>1, <1>2 DEF RowRight
<1>6. RowRight(r, row'[r], {}, Live(r)', Queued(r)', result'[r])
  BY <1>2, <1>3, <1>4, <1>5, DoneRight
<1>7. Pools'
  BY <1>2, PoolsStand DEF EngineInv
<1> QED
  BY <1>1, <1>2, <1>3, <1>4, <1>6, <1>7, IdleRow

\* cancel of a request that waits takes it out of the queue.
LEMMA WaitingCancelled == ASSUME EngineInv, NEW r \in Req, CancelWaiting(r) PROVE EngineInv'
<1>1. /\ row \in [Req -> RowType] /\ result \in [Req -> {"none", "finished", "failed", "taken"}]
      /\ RowRight(r, row[r], {}, Live(r), Queued(r), result[r]) /\ idle /\ Queue(waiting)
      /\ waiting \in Seq(Req) /\ running \in Seq(Req)
  BY IdleKnown DEF CancelWaiting
<1>2. /\ r \in Range(waiting) /\ row' = [row EXCEPT ![r] = goneRow(r)]
      /\ result' = [result EXCEPT ![r] = "failed"] /\ waiting' = RemoveFirst(waiting, r)
      /\ UNCHANGED <<running, free, ref, cell, freeSlots, state, store, blocksUsed, agenda>>
  BY DEF CancelWaiting
<1>3. ~ Live(r)
  BY <1>1, <1>2 DEF RowRight, Queued
<1>4. Queue(waiting') /\ Range(waiting') = Range(waiting) \ {r}
  BY <1>1, <1>2, RemovedFirst DEF Queue
<1>5. /\ row' \in [Req -> RowType] /\ row'[r].phase = "done" /\ result'[r] = "failed"
      /\ result' \in [Req -> {"none", "finished", "failed", "taken"}]
      /\ \A q \in Req \ {r} : row'[q] = row[q] /\ result'[q] = result[q]
  BY <1>1, <1>2, RowsOut
<1>6. \A q \in Req : Live(q)' = Live(q)
  BY <1>2 DEF Live
<1>7. ~ Queued(r)' /\ \A q \in Req \ {r} : Queued(q)' <=> Queued(q)
  BY <1>4 DEF Queued
<1>8. RowRight(r, row'[r], {}, Live(r)', Queued(r)', result'[r])
  BY <1>3, <1>5, <1>6, <1>7, DoneRight
<1>9. Pools'
  <2>1. \A q \in Range(running) : q \in Req /\ q # r
    BY <1>1, <1>3, RangeOf DEF Live
  <2>2. SameHeld(running, row, row')
    BY <1>5, <2>1 DEF SameHeld
  <2>3. PoolsRight(running, row', free, ref, freeSlots, store, blocksUsed)
    BY <2>2, RowsKeepTheirs DEF EngineInv, Pools
  <2> QED
    BY <1>2, <2>3 DEF Pools
<1> QED
  BY <1>1, <1>2, <1>4, <1>5, <1>6, <1>7, <1>8, <1>9, IdleRow

\* cancel of a request that runs releases its row between two ticks.
LEMMA RunningCancelled == ASSUME EngineInv, NEW r \in Req, CancelRunning(r) PROVE EngineInv'
<1>1. /\ row \in [Req -> RowType] /\ result \in [Req -> {"none", "finished", "failed", "taken"}]
      /\ RowRight(r, row[r], {}, Live(r), Queued(r), result[r]) /\ idle /\ Queue(waiting)
      /\ waiting \in Seq(Req) /\ running \in Seq(Req) /\ Queue(running)
  BY IdleKnown DEF CancelRunning
<1>2. /\ r \in Range(running) /\ row' = [row EXCEPT ![r] = goneRow(r)]
      /\ ref' = refsFreed(row[r].blocks) /\ free' = freeAfter(row[r].blocks)
      /\ blocksUsed' = blocksUsed - row[r].own /\ freeSlots' = Append(freeSlots, row[r].slot)
      /\ result' = [result EXCEPT ![r] = "failed"] /\ running' = RemoveFirst(running, r)
      /\ UNCHANGED <<waiting, cell, state, store, agenda>>
  BY DEF CancelRunning
<1>3. ~ Queued(r)
  BY <1>1, <1>2 DEF RowRight, Live
<1>4. Range(running') = Range(running) \ {r} /\ Range(running) \subseteq Req
  BY <1>1, <1>2, RemovedFirst, RangeOf DEF Queue
<1>5. /\ row' \in [Req -> RowType] /\ row'[r].phase = "done" /\ result'[r] = "failed"
      /\ result' \in [Req -> {"none", "finished", "failed", "taken"}]
      /\ \A q \in Req \ {r} : row'[q] = row[q] /\ result'[q] = result[q]
  BY <1>1, <1>2, RowsOut
<1>6. \A q \in Req : Queued(q)' = Queued(q)
  BY <1>2 DEF Queued
<1>7. ~ Live(r)' /\ \A q \in Req \ {r} : Live(q)' <=> Live(q)
  BY <1>4 DEF Live
<1>8. RowRight(r, row'[r], {}, Live(r)', Queued(r)', result'[r])
  BY <1>3, <1>5, <1>6, <1>7, DoneRight
<1>9. Pools'
  <2>1. \A q \in Range(running) \ {r} : row'[q] = row[q]
    BY <1>4, <1>5
  <2>2. PoolsRight(running, row, free, ref, freeSlots, store, blocksUsed)
    BY DEF EngineInv, Pools
  <2>3. PoolsRight(RemoveFirst(running, r), row', freeMore(free, ref, row[r].blocks),
                   refsLess(ref, row[r].blocks), Append(freeSlots, row[r].slot), store, blocksUsed - row[r].own)
    BY <1>2, <2>1, <2>2, ReleasedRow
  <2> QED
    BY <1>2, <2>3 DEF Pools, refsFreed, freeAfter, freeMore, refsLess
<1> QED
  BY <1>1, <1>2, <1>5, <1>6, <1>7, <1>8, <1>9, IdleRow

-----------------------------------------------------------------------------
(* The end of a tick, and the beginning of all *)

\* step lets go of the lock, and what it knew of the rows it released is gone.
LEMMA StepEnded == EngineInv /\ StepEnd => EngineInv'
<1> SUFFICES ASSUME EngineInv, StepEnd PROVE EngineInv'
  OBVIOUS
<1>1. agenda # <<>> /\ AgendaRight(agenda) /\ Head(agenda).op = "end"
  BY Doing DEF StepEnd, call
<1>2. /\ row' = [r \in Req |-> IF row[r].phase = "done" THEN goneRow(r) ELSE row[r]]
      /\ agenda' = <<>> \o Tail(agenda)
      /\ UNCHANGED <<waiting, running, result, free, ref, cell, freeSlots, state, store, blocksUsed>>
  BY DEF StepEnd, next
<1>3. /\ agenda' = Tail(agenda) /\ AgendaRight(agenda') /\ \A c \in Range(agenda') : c.op \notin Lone
  BY <1>1, <1>2, Dropped
<1>4. Forwards' /\ Admission'
  BY <1>3, NoneLone DEF Lone
<1>5. \A r \in Req : callsFor(agenda', r) = callsFor(agenda, r)
  <2>1. \A r \in Req : ~ forRow(Head(agenda), r)
    BY <1>1 DEF forRow, RowOps
  <2> QED
    BY <1>1, <1>3, <2>1, TakenForNone
<1>6. \A r \in Req : Live(r)' = Live(r) /\ Queued(r)' = Queued(r)
  BY <1>2 DEF Live, Queued
<1>7. ASSUME NEW r \in Req
      PROVE  /\ row[r] \in RowType /\ RowRight(r, row[r], callsFor(agenda, r), Live(r), Queued(r), result[r])
             /\ row'[r] = IF row[r].phase = "done" THEN goneRow(r) ELSE row[r]
  BY <1>2, RowKnown
<1>8. \A r \in Req : row'[r] \in RowType
  BY <1>7, RowsOut
<1>9. \A r \in Req : Live(r) \/ Queued(r) => row'[r] = row[r]
  <2>1. ASSUME NEW r \in Req, Queued(r) PROVE row'[r] = row[r]
    <3>1. row[r] = [newRow(r) EXCEPT !.phase = "prefill"]
      BY <1>7, <2>1 DEF RowRight
    <3>2. row[r].phase = "prefill"
      BY <3>1 DEF newRow
    <3> QED
      BY <1>7, <3>2
  <2>2. ASSUME NEW r \in Req, Live(r) PROVE row'[r] = row[r]
    <3>1. row[r].phase \in {"prefill", "decode"}
      BY <1>7, <2>2 DEF RowRight, LiveRight
    <3> QED
      BY <1>7, <3>1
  <2> QED
    BY <2>1, <2>2
<1>10. Rows'
  <2>1. ASSUME NEW r \in Req
        PROVE  (RowRight(r, row[r], callsFor(agenda, r), Live(r), Queued(r), result[r]))'
    <3>1. SUFFICES RowRight(r, row'[r], callsFor(agenda, r), Live(r), Queued(r), result[r])
      BY <1>2, <1>5, <1>6
    <3>2. CASE row'[r] = row[r]
      BY <1>7, <3>2
    <3>3. CASE row'[r] # row[r]
      <4>1. ~ Live(r) /\ ~ Queued(r)
        BY <1>9, <3>3
      <4>2. row'[r].phase = "done" /\ row[r].phase = "done"
        BY <1>7, <3>3, RowsOut
      <4>3. result[r] # "none" /\ {c.op : c \in callsFor(agenda, r)} \subseteq {"complete"}
        BY <1>7, <4>1, <4>2, RowsOut DEF RowRight
      <4> QED
        BY <4>1, <4>2, <4>3, DoneRight
    <3> QED
      BY <3>2, <3>3
  <2> QED
    BY <2>1 DEF Rows
<1>11. Pools'
  <2>1. PoolsRight(running, row, free, ref, freeSlots, store, blocksUsed)
    BY DEF EngineInv, Pools
  <2>2. \A r \in Range(running) : row'[r] = row[r]
    <3>1. running \in Seq(Req)
      BY DEF EngineInv, TypeOK
    <3> QED
      BY <1>9, <3>1, RangeOf DEF Live
  <2>3. SameHeld(running, row, row')
    BY <2>2 DEF SameHeld
  <2>4. PoolsRight(running, row', free, ref, freeSlots, store, blocksUsed)
    BY <2>1, <2>3, RowsKeepTheirs
  <2> QED
    BY <1>2, <2>4 DEF Pools
<1>12. Contents' /\ (Queue(waiting))' /\ (AgendaRight(agenda))'
  <2>1. row' \in [Req -> RowType]
    BY <1>2, <1>8
  <2>2. Contents'
    BY <1>2, <2>1 DEF EngineInv, TypeOK, Contents
  <2> QED
    BY <1>2, <1>3, <2>2 DEF EngineInv
<1> QED
  BY <1>4, <1>10, <1>11, <1>12, Together, PTL

\* Before the first request nothing is held and everything is free.
LEMMA InitPools ==
  PoolsRight(<<>>, [r \in Req |-> newRow(r)], [i \in Block |-> i], [b \in Block |-> 0], [i \in Slot |-> i], <<>>, 0)
<1> DEFINE rw == [r \in Req |-> newRow(r)]
           fr == [i \in Block |-> i]
           rf == [b \in Block |-> 0]
           fs == [i \in Slot |-> i]
<1>1. NumBlocks \in Nat /\ NumSlots \in Nat /\ Block = 1 .. NumBlocks /\ Slot = 1 .. NumSlots
  BY PoolAssumption DEF Block, Slot
<1>2. Range(<<>>) = {} /\ Len(<<>>) = 0 /\ \A S : <<>> \in Seq(S)
  BY EmptySeq DEF Range
<1>3. IsInjective(<<>>)
  BY DEF IsInjective
<1>4. Queue(<<>>)
  BY <1>2, <1>3 DEF Queue
<1>5. StoreRight(<<>>)
  BY <1>2 DEF StoreRight
<1>6. RefsRight(<<>>, rw, <<>>, rf)
  <2>1. ASSUME NEW b \in Block PROVE rf[b] = Cardinality(rowsWith(<<>>, rw, b)) + Cardinality(entriesWith(<<>>, b))
    <3>1. rowsWith(<<>>, rw, b) = {} /\ entriesWith(<<>>, b) = {}
      BY <1>2 DEF rowsWith, entriesWith
    <3>2. Cardinality({}) = 0
      BY FS_EmptySet
    <3> HIDE DEF rw
    <3> QED
      BY <3>1, <3>2
  <2> HIDE DEF rw, rf
  <2> QED
    BY <2>1 DEF RefsRight
<1>7. FreeRight(fr, rf)
  <2>1. fr \in Seq(Block) /\ Range(fr) = Block /\ IsInjective(fr)
    BY <1>1 DEF Range, IsInjective
  <2>2. rf \in [Block -> Nat] /\ {b \in Block : rf[b] = 0} = Block
    OBVIOUS
  <2> HIDE DEF fr, rf
  <2> QED
    BY <2>1, <2>2 DEF FreeRight
<1>8. SlotsRight(<<>>, rw, fs)
  <2>1. fs \in Seq(Slot) /\ Range(fs) = Slot /\ IsInjective(fs)
    BY <1>1 DEF Range, IsInjective
  <2>2. {rw[r].slot : r \in Range(<<>>)} = {}
    BY <1>2
  <2> HIDE DEF fs, rw
  <2> QED
    BY <1>2, <2>1, <2>2 DEF SlotsRight
<1>9. BlocksRight(<<>>, rw, 0)
  <2>1. owned(<<>>, rw) \in Seq(Int) /\ Len(owned(<<>>, rw)) = 0
    BY <1>2, OwnedIs
  <2> DEFINE s == owned(<<>>, rw)
  <2>2. \E g : SumsUp(g, s) /\ total(s) = g[Len(s)]
    <3> HIDE DEF s
    <3> QED
      BY <2>1, TotalIs DEF s
  <2>3. total(owned(<<>>, rw)) = 0
    BY <2>1, <2>2 DEF SumsUp
  <2> QED
    BY <1>2, <2>3 DEF BlocksRight
<1> HIDE DEF rw, fr, rf, fs
<1>10. PoolsRight(<<>>, rw, fr, rf, fs, <<>>, 0)
  BY <1>4, <1>5, <1>6, <1>7, <1>8, <1>9 DEF PoolsRight
<1> QED
  BY <1>10 DEF rw, fr, rf, fs

\* At the beginning no row and no entry holds anything.
LEMMA InitRight == Init => EngineInv
<1> SUFFICES ASSUME Init PROVE EngineInv
  OBVIOUS
<1>1. /\ waiting = <<>> /\ running = <<>> /\ row = [r \in Req |-> newRow(r)] /\ result = [r \in Req |-> "none"]
      /\ agenda = <<>>
  BY DEF Init
<1>2. Pools
  BY InitPools DEF Init, Pools
<1>3. \A S : <<>> \in Seq(S) /\ Range(<<>>) = {} /\ IsInjective(<<>>)
  BY EmptySeq DEF Range, IsInjective
<1>4. Contents
  <2>1. row \in [Req -> RowType]
    BY <1>1, RowsOut
  <2>2. cell \in [Block -> [Offset -> Seq(Tokens)]] /\ state \in [Slot -> Seq(Tokens)]
    BY <1>3 DEF Init
  <2> QED
    BY <1>1, <2>1, <2>2 DEF Contents
<1>5. AgendaRight(agenda) /\ Range(agenda) = {}
  BY <1>1, NoCall
<1>6. Forwards /\ Admission
  BY <1>5 DEF Forwards, Admission
<1>7. Queue(waiting)
  BY <1>1, <1>3 DEF Queue
<1>8. Rows
  <2>1. ASSUME NEW r \in Req PROVE RowRight(r, row[r], callsFor(agenda, r), Live(r), Queued(r), result[r])
    <3>1. callsFor(agenda, r) = {} /\ ~ Live(r) /\ ~ Queued(r) /\ row[r] = newRow(r) /\ result[r] = "none"
      BY <1>1, <1>3, NoneFor DEF Live, Queued
    <3> QED
      BY <3>1 DEF RowRight
  <2> QED
    BY <2>1 DEF Rows
<1> QED
  BY <1>2, <1>4, <1>5, <1>6, <1>7, <1>8, Together

\* Nothing drafts, so no call of the draft head's turn is ever due.
LEMMA NeverDrafts ==
  ASSUME EngineInv, Verify \/ DraftStep
  PROVE  FALSE
<1>1. \E op \in {"verify", "draftgrow", "draft"} : doing(op)
  BY DEF Verify, DraftStep, DraftGrow, DraftGrowFails, DraftGrowFailsDone, Draft
<1>2. PICK op \in {"verify", "draftgrow", "draft"} : doing(op)
  BY <1>1
<1>3. CallType(call) /\ call.op = op
  BY <1>2, Doing
<1> QED
  BY <1>2, <1>3 DEF CallType, RowOps, Lone

-----------------------------------------------------------------------------
(* Theorems *)

\* Every step of the engine keeps the invariant.
LEMMA StepKeeps == Drafter = "none" /\ EngineInv /\ [Next]_vars => EngineInv'
<1> SUFFICES ASSUME Drafter = "none", EngineInv, [Next]_vars PROVE EngineInv'
  OBVIOUS
<1>1. CASE Client
  <2>1. PICK r \in Req : Submit(r) \/ Take(r) \/ CancelWaiting(r) \/ CancelRunning(r)
    BY <1>1 DEF Client
  <2> QED
    BY <2>1, RequestSubmitted, AnswerTaken, WaitingCancelled, RunningCancelled
<1>2. CASE Plan
  BY <1>2, NoneAdmitted, HeadAdmitted, OneEvicted, EnoughEvicted, ReadmittedHead, HeadAdopted, BatchFormed,
     RowGrown DEF Plan
<1>3. CASE Commit
  BY <1>3, RowSampled, NeverDrafts, StopCommitted, TokenCommitted, RowFinished, EntryPublished, StoreTrimmed,
     EntryRetired, RowAdvanced, PromptCompleted DEF Commit
<1>4. CASE DraftStep
  BY <1>4, NeverDrafts
<1>5. CASE StepBegin \/ Forward \/ ForwardRaises \/ FailAll \/ StepEnd
  BY <1>5, StepBegins, Forwarded, ForwardRaised, AllFailed, StepEnded
<1>6. CASE UNCHANGED vars
  <2>1. /\ UNCHANGED <<waiting, running, row, result>> /\ agenda' = agenda /\ UNCHANGED <<cell, state>>
        /\ UNCHANGED <<free, ref, freeSlots, store, blocksUsed>>
    BY <1>6 DEF vars
  <2>2. Forwards'
    BY <2>1 DEF EngineInv, Forwards, ForwardFits, Live, opsFor, callsFor
  <2>3. Admission'
    BY <2>1 DEF EngineInv, Admission, roomForOne, needed, matchPrefix, matches, longest
  <2>4. AgendaRight(agenda') /\ \A r \in Req : callsFor(agenda', r) = callsFor(agenda, r)
    BY <2>1 DEF EngineInv
  <2>5. Pools'
    BY <2>1, PoolsStand DEF EngineInv
  <2> QED
    BY <2>1, <2>2, <2>3, <2>4, <2>5, QuietStep
<1>7. CASE LoopIdle
  BY <1>6, <1>7 DEF LoopIdle
<1> QED
  BY <1>1, <1>2, <1>3, <1>4, <1>5, <1>6, <1>7 DEF Next, Tick

\* For any requests, prompts, budgets, pool and batch sizes, a build without a drafter
\* keeps EngineInv: through every call of a tick (engine.py:1204-1706), every client's
\* call between ticks, a forward that raises anywhere, and rows that fail for want of a block.
THEOREM EngineInvariant == ASSUME Drafter = "none" PROVE Spec => []EngineInv
<1>1. EngineInv /\ [Next]_vars => EngineInv'
  BY StepKeeps
<1> QED
  BY InitRight, <1>1, PTL DEF Spec

\* Every variable of the engine keeps its type: a count is never taken below zero by
\* free_block (kv_cache.py), and nothing but blocks and slots of the pools is given back.
THEOREM EngineTypeCorrect == ASSUME Drafter = "none" PROVE Spec => []TypeOK
<1>1. EngineInv => TypeOK
  BY DEF EngineInv
<1> QED
  BY <1>1, EngineInvariant, PTL

\* Nothing leaks and nothing is freed twice: the free list holds each block without a
\* holder once, the slots are those of the running rows, and _blocks_used is what they
\* were charged, whatever failed or was cancelled before.
THEOREM EngineNeverLeaks == ASSUME Drafter = "none" PROVE Spec => []NothingLeaks
<1>1. EngineInv => NothingLeaks
  <2> SUFFICES ASSUME EngineInv PROVE NothingLeaks
    OBVIOUS
  <2>1. FreeRight(free, ref) /\ SlotsRight(running, row, freeSlots) /\ BlocksRight(running, row, blocksUsed)
    BY DEF EngineInv, Pools, PoolsRight
  <2>2. BlocksUsedIsOwned
    BY <2>1 DEF BlocksRight, owned, BlocksUsedIsOwned
  <2> QED
    BY <2>1, <2>2 DEF NothingLeaks, FreeRight, SlotsRight
<1> QED
  BY <1>1, EngineInvariant, PTL

\* A queue without repetition holds a request once or not at all.
LEMMA PlacesIn ==
  ASSUME NEW q, Queue(q), NEW r \in Req
  PROVE  Cardinality({i \in DOMAIN q : q[i] = r}) = IF r \in Range(q) THEN 1 ELSE 0
<1> DEFINE P == {i \in DOMAIN q : q[i] = r}
<1>1. q \in Seq(Req) /\ DOMAIN q = 1 .. Len(q) /\ Range(q) = {q[i] : i \in 1 .. Len(q)}
      /\ \A i, j \in 1 .. Len(q) : q[i] = q[j] => i = j
  BY RangeOf DEF Queue
<1>2. CASE r \in Range(q)
  <2>1. PICK k \in 1 .. Len(q) : q[k] = r
    BY <1>1, <1>2
  <2>2. P = {k}
    BY <1>1, <2>1
  <2> HIDE DEF P
  <2>3. Cardinality(P) = 1
    BY <2>2, FS_Singleton
  <2> QED
    BY <1>2, <2>3 DEF P
<1>3. CASE r \notin Range(q)
  <2>1. P = {}
    BY <1>1, <1>3
  <2> HIDE DEF P
  <2>2. Cardinality(P) = 0
    BY <2>1, FS_EmptySet
  <2> QED
    BY <1>3, <2>2 DEF P
<1> QED
  BY <1>2, <1>3

\* A submitted request is in the queue, or runs, or has its answer: in one of these
\* places and once.  No tick, preemption, failure or cancel loses or doubles one.
THEOREM EngineKeepsTrack == ASSUME Drafter = "none" PROVE Spec => []QueuedOrAnswered
<1>1. EngineInv => QueuedOrAnswered
  <2> SUFFICES ASSUME EngineInv, NEW r \in Req
               PROVE  Cardinality({i \in DOMAIN waiting : waiting[i] = r})
                        + Cardinality({i \in DOMAIN running : running[i] = r})
                        + (IF result[r] = "none" THEN 0 ELSE 1) = IF row[r].phase = "new" THEN 0 ELSE 1
    BY DEF QueuedOrAnswered
  <2>1. /\ Cardinality({i \in DOMAIN waiting : waiting[i] = r}) = IF Queued(r) THEN 1 ELSE 0
        /\ Cardinality({i \in DOMAIN running : running[i] = r}) = IF Live(r) THEN 1 ELSE 0
    BY PlacesIn DEF EngineInv, Pools, PoolsRight, Queued, Live
  <2>2. RowRight(r, row[r], callsFor(agenda, r), Live(r), Queued(r), result[r])
    BY RowKnown
  <2>3. CASE Live(r)
    <3>1. ~ Queued(r) /\ result[r] = "none" /\ row[r].phase # "new"
      BY <2>2, <2>3 DEF RowRight, LiveRight
    <3> QED
      BY <2>1, <2>3, <3>1
  <2>4. CASE Queued(r)
    <3>1. ~ Live(r) /\ result[r] = "none" /\ row[r].phase # "new"
      BY <2>2, <2>4 DEF RowRight, newRow
    <3> QED
      BY <2>1, <2>4, <3>1
  <2>5. CASE ~ Live(r) /\ ~ Queued(r)
    <3>1. \/ row[r].phase = "new" /\ result[r] = "none"
          \/ row[r].phase # "new" /\ result[r] # "none"
      BY <2>2, <2>5, RowsOut DEF RowRight
    <3> QED
      BY <2>1, <2>5, <3>1
  <2> QED
    BY <2>3, <2>4, <2>5
<1> QED
  BY <1>1, EngineInvariant, PTL

\* The store's blocks are never on the free list.  The run finish_twice shows that with a
\* drafter they can be: a row that finished is finished again.
THEOREM EngineStoreHolds == ASSUME Drafter = "none" PROVE Spec => []StoreHoldsItsBlocks
<1>1. EngineInv => StoreHoldsItsBlocks
  <2> SUFFICES ASSUME EngineInv, NEW i \in DOMAIN store, NEW b \in Range(store[i].blocks)
               PROVE  ref[b] > 0
    BY DEF StoreHoldsItsBlocks
  <2>1. StoreRight(store) /\ RefsRight(running, row, store, ref) /\ Queue(running)
    BY DEF EngineInv, Pools, PoolsRight
  <2>2. store[i] \in Range(store) /\ store[i].blocks \in Seq(Block)
    <3>1. store[i] \in Range(store)
      BY DEF Range
    <3> QED
      BY <2>1, <3>1, EntriesOnce
  <2>3. b \in Block /\ store[i] \in entriesWith(store, b)
    BY <2>2, RangeOf DEF entriesWith
  <2> QED
    BY <2>1, <2>3, HeldIsCounted
<1> QED
  BY <1>1, EngineInvariant, PTL
=============================================================================
