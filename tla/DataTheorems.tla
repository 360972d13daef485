---------------------------- MODULE DataTheorems ----------------------------
(***************************************************************************)
(* What the proofs about several modules need of the data they are built   *)
(* from: dictionaries, numbers and induction, loops, sequences put one     *)
(* after the other, the order of the elements of a set, places.            *)
(***************************************************************************)
EXTENDS Dicti, SequencesExt, SequenceTheorems, FiniteSetTheorems, WellFoundedInduction, TLAPS

\* Dictionaries

\* Replacing or adding an item keeps a dictionary's type (CAtomDicti::setItem).
LEMMA SetItemType ==
  ASSUME NEW K, NEW V, NEW d, IsDicti(d, K, V), NEW k \in K, NEW v \in V
  PROVE  IsDicti(setItem(d, k, v), K, V)
BY DEF IsDicti, setItem

\* Removing an item keeps a dictionary's type (CAtomDicti::delItem).
LEMMA DelItemType ==
  ASSUME NEW K, NEW V, NEW d, IsDicti(d, K, V), NEW k
  PROVE  IsDicti(delItem(d, k), K, V)
BY DEF IsDicti, delItem

\* Erasing items in a loop keeps a dictionary's type.
LEMMA KeepItemsType ==
  ASSUME NEW K, NEW V, NEW d, IsDicti(d, K, V), NEW S
  PROVE  IsDicti(keepItems(d, S), K, V)
BY DEF IsDicti, keepItems

\* The empty dictionary is of every type.
LEMMA EmptyDictiType ==
  ASSUME NEW K, NEW V
  PROVE  IsDicti(EmptyDicti, K, V)
BY DEF IsDicti, EmptyDicti

\* Deleting what is not there changes nothing.
LEMMA DelItemAbsent ==
  ASSUME NEW K, NEW V, NEW d, IsDicti(d, K, V), NEW k, k \notin DOMAIN d
  PROVE  delItem(d, k) = d
BY DEF IsDicti, delItem

\* Setting an item that was not there and deleting it again, likewise.
LEMMA DelNewItem ==
  ASSUME NEW K, NEW V, NEW d, IsDicti(d, K, V), NEW k, k \notin DOMAIN d, NEW v
  PROVE  setItem(d, k, v)[k] = v /\ delItem(setItem(d, k, v), k) = d
<1>1. DOMAIN delItem(setItem(d, k, v), k) = DOMAIN d
  BY DEF setItem, delItem
<1>2. \A j \in DOMAIN d : delItem(setItem(d, k, v), k)[j] = d[j]
  BY DEF setItem, delItem
<1>3. delItem(setItem(d, k, v), k) = [j \in DOMAIN d |-> d[j]]
  BY <1>1, <1>2 DEF setItem, delItem
<1>4. d = [j \in DOMAIN d |-> d[j]]
  BY DEF IsDicti
<1> QED
  BY <1>3, <1>4 DEF setItem

\* What getItem, setItem and delItem give.
LEMMA ItemType ==
  ASSUME NEW K, NEW V, NEW d, IsDicti(d, K, V), NEW k, NEW v \in V
  PROVE  /\ getItem(d, k, v) \in V
         /\ k \in K => IsDicti(setItem(d, k, v), K, V)
         /\ IsDicti(delItem(d, k), K, V)
BY DEF IsDicti, getItem, setItem, delItem

\* The other items are as they were.
LEMMA OtherItems ==
  ASSUME NEW d, NEW h, NEW v, NEW k, k # h, NEW w
  PROVE  /\ getItem(setItem(d, h, v), k, w) = getItem(d, k, w)
         /\ getItem(delItem(d, h), k, w) = getItem(d, k, w)
BY DEF getItem, setItem, delItem

-----------------------------------------------------------------------------
\* Numbers

\* A set of natural numbers that is not empty has a least one.
LEMMA LeastNumber ==
  ASSUME NEW T \in SUBSET Nat, T # {}
  PROVE  \E n \in T : \A k \in T : n <= k
<1> DEFINE R == OpToRel(<, Nat)
<1>1. IsWellFoundedOn(R, Nat)
  BY NatLessThanWellFounded
<1>2. PICK n \in T : \A k \in T : ~ (<<k, n>> \in R)
  BY <1>1, WFMin
<1>3. ASSUME NEW k \in T PROVE n <= k
  <2>1. ~ (<<k, n>> \in R)
    BY <1>2
  <2>2. ~ (k < n)
    BY <2>1 DEF OpToRel
  <2> QED
    BY <2>2
<1> QED
  BY <1>3

\* Every natural number is in a set with 0 and, with a number, the next.
LEMMA Induction ==
  ASSUME NEW T \in SUBSET Nat, 0 \in T, \A n \in T : n + 1 \in T
  PROVE  T = Nat
<1> SUFFICES ASSUME Nat \ T # {} PROVE FALSE
  OBVIOUS
<1>1. PICK n \in Nat \ T : \A k \in Nat \ T : n <= k
  BY LeastNumber
<1>2. n # 0 /\ n - 1 \in Nat /\ n - 1 \in T
  BY <1>1
<1> QED
  BY <1>1, <1>2

\* What holds at first and is kept by each turn of a loop.
LEMMA Turns ==
  ASSUME NEW n \in Nat, NEW T, 0 \in T, \A i \in 1 .. n : i - 1 \in T => i \in T
  PROVE  \A i \in 0 .. n : i \in T
<1> DEFINE U == {k \in Nat : k \in 0 .. n => k \in T}
<1>1. 0 \in U
  OBVIOUS
<1>2. ASSUME NEW k \in U PROVE k + 1 \in U
  <2> SUFFICES ASSUME k + 1 \in 0 .. n PROVE k + 1 \in T
    OBVIOUS
  <2>1. k \in Nat /\ k \in 0 .. n /\ k + 1 \in 1 .. n /\ k + 1 - 1 = k
    OBVIOUS
  <2>2. k \in T
    BY <2>1
  <2> QED
    BY <2>1, <2>2
<1>3. U \in SUBSET Nat
  OBVIOUS
<1> HIDE DEF U
<1>4. U = Nat
  BY <1>1, <1>2, <1>3, Induction
<1> QED
  BY <1>4 DEF U

\* A set of natural numbers with a bound has a greatest.
LEMMA Greatest ==
  ASSUME NEW n \in Nat, NEW T \in SUBSET (0 .. n), T # {}
  PROVE  Max(T) \in T /\ \A k \in T : k <= Max(T)
<1> DEFINE U == {k \in 0 .. n : \A t \in T : t <= k}
<1>1. U \in SUBSET Nat /\ n \in U
  OBVIOUS
<1>2. PICK m \in U : \A k \in U : m <= k
  BY <1>1, LeastNumber
<1>3. m \in T
  <2> SUFFICES ASSUME m \notin T PROVE FALSE
    OBVIOUS
  <2>1. PICK t \in T : TRUE
    OBVIOUS
  <2>2. m - 1 \in U
    BY <2>1
  <2> QED
    BY <1>2, <2>2
<1>4. m \in T /\ \A k \in T : m >= k
  BY <1>3
<1> QED
  BY <1>4 DEF Max

\* The lesser of two numbers.
LEMMA LesserOfTwo ==
  ASSUME NEW a \in Nat, NEW b \in Nat, NEW c \in {a, b}, c <= a, c <= b
  PROVE  Min({a, b}) = c
<1> DEFINE P(x) == x \in {a, b} /\ \A y \in {a, b} : x <= y
<1>1. P(c)
  OBVIOUS
<1>2. \A x : P(x) => x = c
  OBVIOUS
<1>3. Min({a, b}) = CHOOSE x : P(x)
  BY DEF Min
<1> QED
  BY <1>1, <1>2, <1>3

\* A remainder by more than the number is the number.
LEMMA SmallRemainder ==
  ASSUME NEW x \in Nat, NEW y \in Nat, x < y
  PROVE  x % y = x
OBVIOUS

\* Quotient and remainder.
LEMMA Division ==
  ASSUME NEW n \in Nat, n # 0, NEW s \in Nat
  PROVE  s \div n \in Int /\ s % n \in 0 .. n - 1 /\ s = n * (s \div n) + (s % n)
OBVIOUS

\* The next multiple.
LEMMA Distributes ==
  ASSUME NEW n \in Int, NEW q \in Int
  PROVE  n * (q + 1) = n * q + n
OBVIOUS

\* Multiples are in the order of the numbers.
LEMMA TimesOrder ==
  ASSUME NEW n \in Nat, NEW a \in Int, NEW b \in Int, a <= b
  PROVE  n * a \in Int /\ n * b \in Int /\ n * a <= n * b
<1>1. PICK d \in Nat : b = a + d
  <2>1. b - a \in Nat /\ b = a + (b - a)
    OBVIOUS
  <2> QED
    BY <2>1
<1>2. \A x, y \in Nat : x * y \in Nat
  OBVIOUS
<1>3. n * d \in Nat
  BY <1>2
<1>4. n * (a + d) = n * a + n * d
  OBVIOUS
<1>5. \A x, y \in Int : x * y \in Int
  OBVIOUS
<1>6. n * a \in Int /\ n * b \in Int
  BY <1>5
<1> QED
  BY <1>1, <1>3, <1>4, <1>6

\* Multiples of different numbers are different.
LEMMA SameTimes ==
  ASSUME NEW n \in Nat \ {0}, NEW p \in Nat, NEW q \in Nat, n * p = n * q
  PROVE  p = q
<1>1. ASSUME NEW x \in Nat, NEW y \in Nat, x < y PROVE n * x < n * y
  <2>1. n * (x + 1) <= n * y
    BY <1>1, TimesOrder
  <2>2. n * (x + 1) = n * x + n
    BY Distributes
  <2>3. PICK u, v : u = n * x /\ v = n * y
    OBVIOUS
  <2>4. u \in Int /\ v \in Int
    BY <2>3, TimesOrder
  <2> QED
    BY <2>1, <2>2, <2>3, <2>4
<1>2. n * p \in Int /\ n * q \in Int
  BY TimesOrder
<1>3. ~ (p < q) /\ ~ (q < p)
  BY <1>1, <1>2
<1> QED
  BY <1>3

-----------------------------------------------------------------------------
\* Loops

\* What a loop of k turns that begins with base computes.
Loops(F, V, base, turn, k) ==
  /\ F \in [0 .. k -> V] /\ F[0] = base
  /\ \A i \in 1 .. k : F[i] = turn[i][F[i - 1]]

\* A loop whose turns are functions has a result after each of them.
LEMMA LoopFcn ==
  ASSUME NEW V, NEW base \in V, NEW n \in Nat, NEW turn \in [1 .. n -> [V -> V]]
  PROVE  \E F : Loops(F, V, base, turn, n)
<1> DEFINE Fits(F, k) == Loops(F, V, base, turn, k)
           T == {k \in Nat : \E F : Fits(F, k)}
<1>1. 0 \in T
  <2> DEFINE G == [i \in 0 .. 0 |-> base]
  <2>1. G \in [0 .. 0 -> V] /\ G[0] = base
    OBVIOUS
  <2> HIDE DEF G
  <2>2. Fits(G, 0)
    BY <2>1 DEF Loops
  <2> QED
    BY <2>2
<1>2. ASSUME NEW k \in 1 .. n, k - 1 \in T PROVE k \in T
  <2>0. PICK F : Fits(F, k - 1)
    BY <1>2
  <2>1. /\ F \in [0 .. k - 1 -> V] /\ F[0] = base
        /\ \A i \in 1 .. k - 1 : F[i] = turn[i][F[i - 1]]
    BY <2>0 DEF Loops
  <2> DEFINE G == [i \in 0 .. k |-> IF i = k THEN turn[k][F[k - 1]] ELSE F[i]]
  <2>2. F[k - 1] \in V /\ turn[k] \in [V -> V]
    BY <2>1
  <2>3. turn[k][F[k - 1]] \in V
    BY <2>2
  <2>4. G \in [0 .. k -> V]
    BY <2>1, <2>3
  <2>5. /\ G[0] = base /\ G[k] = turn[k][F[k - 1]]
        /\ \A i \in 0 .. k - 1 : G[i] = F[i]
    BY <2>1
  <2> HIDE DEF G
  <2>6. ASSUME NEW i \in 1 .. k PROVE G[i] = turn[i][G[i - 1]]
    <3>1. i - 1 \in 0 .. k - 1 /\ G[i - 1] = F[i - 1]
      BY <2>5
    <3>2. CASE i = k
      BY <2>5, <3>1, <3>2
    <3>3. CASE i # k
      <4>1. i \in 1 .. k - 1 /\ i \in 0 .. k - 1
        BY <3>3
      <4> QED
        BY <2>1, <2>5, <3>1, <4>1
    <3> QED
      BY <3>2, <3>3
  <2>7. Fits(G, k)
    BY <2>4, <2>5, <2>6 DEF Loops
  <2> QED
    BY <2>7
<1> HIDE DEF T
<1>3. n \in T
  <2>1. \A i \in 0 .. n : i \in T
    BY <1>1, <1>2, Turns
  <2> QED
    BY <2>1
<1>4. PICK F : Fits(F, n)
  BY <1>3 DEF T
<1> QED
  BY <1>4

-----------------------------------------------------------------------------
\* Sequences

\* FlattenSeq is built from the front, one sequence at a time.
LEMMA FlattenFcn ==
  ASSUME NEW S, NEW e \in Seq(Seq(S)), Len(e) # 0
  PROVE  \E F \in [1 .. Len(e) -> Seq(S)] :
            /\ FlattenSeq(e) = F[Len(e)]
            /\ F[1] = e[1]
            /\ \A i \in 2 .. Len(e) : F[i] = F[i - 1] \o e[i]
<1> DEFINE n == Len(e)
           cat(a, b) == a \o b
           Fits(F, k) == /\ F \in [1 .. k + 1 -> Seq(S)]
                         /\ F[1] = e[1]
                         /\ \A i \in 2 .. k + 1 : F[i] = cat(F[i - 1], e[i])
           T == {k \in Nat : k < n => \E F : Fits(F, k)}
<1>0. n \in Nat \ {0} /\ \A i \in 1 .. n : e[i] \in Seq(S)
  OBVIOUS
<1>c. \A a, b \in Seq(S) : cat(a, b) \in Seq(S)
  BY ConcatProperties
<1> HIDE DEF n, cat
<1>1. \E F : Fits(F, 0)
  <2> DEFINE G == [i \in 1 .. 1 |-> e[1]]
  <2>1. e[1] \in Seq(S)
    BY <1>0
  <2>2. Fits(G, 0)
    BY <2>1
  <2> QED
    BY <2>2
<1>2. ASSUME NEW k \in Nat, k + 1 < n, NEW F, Fits(F, k)
      PROVE  \E G : Fits(G, k + 1)
  <2> DEFINE G == [i \in 1 .. k + 2 |-> IF i = k + 2 THEN cat(F[k + 1], e[k + 2]) ELSE F[i]]
  <2>1. F[k + 1] \in Seq(S) /\ e[k + 2] \in Seq(S) /\ F \in [1 .. k + 1 -> Seq(S)]
    BY <1>0, <1>2
  <2>2. cat(F[k + 1], e[k + 2]) \in Seq(S)
    BY <2>1, <1>c
  <2>3. G \in [1 .. k + 2 -> Seq(S)]
    BY <2>1, <2>2
  <2>4. ASSUME NEW i \in 2 .. k + 2 PROVE G[i] = cat(G[i - 1], e[i])
    <3>1. CASE i = k + 2
      <4>1. G[k + 2] = cat(F[k + 1], e[k + 2])
        OBVIOUS
      <4>2. G[k + 1] = F[k + 1] /\ k + 2 - 1 = k + 1
        OBVIOUS
      <4> HIDE DEF G
      <4> QED
        BY <3>1, <4>1, <4>2
    <3>2. CASE i # k + 2
      <4>1. i \in 2 .. k + 1 /\ i - 1 \in 1 .. k + 2 /\ i - 1 # k + 2 /\ i \in 1 .. k + 2
        BY <3>2
      <4> QED
        BY <4>1, <1>2, <3>2
    <3> QED
      BY <3>1, <3>2
  <2>5. G[1] = e[1]
    BY <1>2
  <2> HIDE DEF G
  <2>6. k + 1 + 1 = k + 2
    OBVIOUS
  <2>7. Fits(G, k + 1)
    BY <2>3, <2>4, <2>5, <2>6
  <2> QED
    BY <2>7
<1> HIDE DEF Fits
<1>3. T = Nat
  <2>1. 0 \in T
    BY <1>1
  <2>2. \A k \in T : k + 1 \in T
    BY <1>0, <1>2
  <2>3. T \in SUBSET Nat
    OBVIOUS
  <2> HIDE DEF T
  <2> QED
    BY <2>1, <2>2, <2>3, Induction
<1>4. PICK F : Fits(F, n - 1)
  <2>1. n - 1 \in T /\ n - 1 < n
    <3>1. n - 1 \in Nat /\ n - 1 < n
      BY <1>0
    <3> HIDE DEF T
    <3> QED
      BY <1>3, <3>1
  <2> QED
    BY <2>1
<1>5. /\ F \in [1 .. n -> Seq(S)]
      /\ F[1] = e[1]
      /\ \A i \in 2 .. n : F[i] = cat(F[i - 1], e[i])
  <2>1. n - 1 + 1 = n
    BY <1>0
  <2> QED
    BY <1>4, <2>1 DEF Fits
<1> DEFINE Flatten(H) == H = [i \in 1 .. n |-> IF i = 1 THEN e[i] ELSE cat(H[i - 1], e[i])]
           C == CHOOSE H : Flatten(H)
<1>6. Flatten(F)
  <2>1. \A i \in 1 .. n : F[i] = IF i = 1 THEN e[i] ELSE cat(F[i - 1], e[i])
    BY <1>0, <1>5
  <2>2. F = [i \in 1 .. n |-> F[i]]
    BY <1>5
  <2> QED
    BY <2>1, <2>2
<1>7. Flatten(C)
  BY <1>6
<1>8. FlattenSeq(e) = C[n]
  BY <1>0 DEF FlattenSeq, n, cat
<1> HIDE DEF C
<1>9. \A i \in 1 .. n : C[i] = IF i = 1 THEN e[i] ELSE cat(C[i - 1], e[i])
  BY <1>7
<1> DEFINE U == {k \in Nat : k < n => C[k + 1] = F[k + 1]}
<1>10. U = Nat
  <2>1. 0 \in U
    BY <1>0, <1>5, <1>9
  <2>2. ASSUME NEW k \in U PROVE k + 1 \in U
    <3> SUFFICES ASSUME k + 1 < n PROVE C[k + 2] = F[k + 2]
      OBVIOUS
    <3>1. C[k + 1] = F[k + 1] /\ k + 2 \in 2 .. n /\ k + 2 - 1 = k + 1
      BY <1>0
    <3>2. C[k + 2] = cat(C[k + 1], e[k + 2])
      BY <1>9, <3>1
    <3>3. F[k + 2] = cat(F[k + 1], e[k + 2])
      BY <1>5, <3>1
    <3> QED
      BY <3>1, <3>2, <3>3
  <2>3. U \in SUBSET Nat
    OBVIOUS
  <2> HIDE DEF U
  <2> QED
    BY <2>1, <2>2, <2>3, Induction
<1>11. FlattenSeq(e) = F[n]
  <2>1. n - 1 \in U /\ n - 1 < n /\ n - 1 + 1 = n
    <3>1. n - 1 \in Nat /\ n - 1 < n /\ n - 1 + 1 = n
      BY <1>0
    <3> HIDE DEF U
    <3> QED
      BY <1>10, <3>1
  <2> QED
    BY <1>8, <2>1
<1> QED
  BY <1>5, <1>11 DEF n, cat

\* What lies inside a part of a sequence lies inside the sequence.
LEMMA Inside ==
  ASSUME NEW p \in Nat, NEW l \in Nat, NEW m \in Nat, p + l <= m, NEW j \in 1 .. l
  PROVE  p + j \in 1 .. m
OBVIOUS

\* Where each sequence comes to lie in the whole.
LEMMA FlattenPlaces ==
  ASSUME NEW S, NEW e \in Seq(Seq(S))
  PROVE  \E P \in [0 .. Len(e) -> Nat] :
            /\ FlattenSeq(e) \in Seq(S)
            /\ P[0] = 0
            /\ P[Len(e)] = Len(FlattenSeq(e))
            /\ \A i \in 1 .. Len(e) :
                  /\ P[i] = P[i - 1] + Len(e[i]) /\ P[i] <= Len(FlattenSeq(e))
                  /\ \A j \in 1 .. Len(e[i]) : FlattenSeq(e)[P[i - 1] + j] = e[i][j]
<1> DEFINE n == Len(e)
<1>1. n \in Nat /\ \A i \in 1 .. n : e[i] \in Seq(S) /\ Len(e[i]) \in Nat
  OBVIOUS
<1>2. CASE n = 0
  <2>1. FlattenSeq(e) = e /\ e = <<>>
    BY <1>2 DEF FlattenSeq
  <2> DEFINE P == [i \in 0 .. 0 |-> 0]
  <2>2. P \in [0 .. 0 -> Nat] /\ P[0] = 0
    OBVIOUS
  <2> HIDE DEF P
  <2>3. 1 .. Len(e) = {} /\ FlattenSeq(e) \in Seq(S)
    BY <1>2, <2>1
  <2> QED
    BY <1>2, <2>1, <2>2, <2>3
<1>3. CASE n # 0
  <2>1. PICK F \in [1 .. n -> Seq(S)] :
           /\ FlattenSeq(e) = F[n]
           /\ F[1] = e[1]
           /\ \A i \in 2 .. n : F[i] = F[i - 1] \o e[i]
    BY <1>3, FlattenFcn
  <2> HIDE DEF n
  <2>2. ASSUME NEW i \in 1 .. n PROVE F[i] \in Seq(S) /\ Len(F[i]) \in Nat
    <3>1. F[i] \in Seq(S)
      OBVIOUS
    <3> QED
      BY <3>1
  <2> DEFINE Behind(u, v, w) == /\ Len(w) = Len(u) + Len(v) /\ Len(u) <= Len(w)
                                /\ \A j \in 1 .. Len(u) : w[j] = u[j]
                                /\ \A j \in 1 .. Len(v) : w[Len(u) + j] = v[j]
  <2>3. ASSUME NEW i \in 2 .. n, NEW m \in 1 .. n, m = i - 1
        PROVE  Behind(F[m], e[i], F[i])
    <3> DEFINE a == F[m]
               b == e[i]
    <3>1. a \in Seq(S) /\ b \in Seq(S) /\ Len(a) \in Nat /\ Len(b) \in Nat
      BY <1>1, <2>2
    <3>2. F[i] = a \o b
      BY <2>1, <2>3
    <3> HIDE DEF a, b
    <3>3. /\ Len(a \o b) = Len(a) + Len(b)
          /\ \A j \in 1 .. Len(a) + Len(b) :
                (a \o b)[j] = IF j <= Len(a) THEN a[j] ELSE b[j - Len(a)]
      BY <3>1, ConcatProperties
    <3> DEFINE c == a \o b
    <3>4. Len(c) = Len(a) + Len(b) /\ Len(a) <= Len(c)
      BY <3>1, <3>3
    <3> HIDE DEF c
    <3>5. \A j \in 1 .. Len(a) : c[j] = a[j]
      BY <3>1, <3>3 DEF c
    <3>6. ASSUME NEW j \in 1 .. Len(b) PROVE c[Len(a) + j] = b[j]
      <4>1. /\ Len(a) + j \in 1 .. Len(a) + Len(b) /\ ~ (Len(a) + j <= Len(a))
            /\ Len(a) + j - Len(a) = j
        BY <3>1
      <4> QED
        BY <3>3, <4>1 DEF c
    <3> QED
      BY <3>2, <3>4, <3>5, <3>6 DEF a, b, c
  <2>k. ASSUME NEW k \in Nat, k + 1 < n
        PROVE  /\ Len(F[k + 2]) = Len(F[k + 1]) + Len(e[k + 2]) /\ Len(F[k + 1]) <= Len(F[k + 2])
               /\ \A j \in 1 .. Len(F[k + 1]) : F[k + 2][j] = F[k + 1][j]
               /\ \A j \in 1 .. Len(e[k + 2]) : F[k + 2][Len(F[k + 1]) + j] = e[k + 2][j]
    <3>1. k + 2 \in 2 .. n /\ k + 1 \in 1 .. n /\ k + 1 = k + 2 - 1
      BY <1>1, <2>k
    <3> HIDE DEF Behind
    <3>2. Behind(F[k + 1], e[k + 2], F[k + 2])
      BY <2>3, <3>1
    <3> QED
      BY <3>2 DEF Behind
  <2> DEFINE Placed(P, k) ==
               /\ P \in [0 .. k + 1 -> Nat]
               /\ P[0] = 0
               /\ P[k + 1] = Len(F[k + 1])
               /\ \A i \in 1 .. k + 1 :
                     /\ P[i] = P[i - 1] + Len(e[i]) /\ P[i] <= Len(F[k + 1])
                     /\ \A j \in 1 .. Len(e[i]) : F[k + 1][P[i - 1] + j] = e[i][j]
             T == {k \in Nat : k < n => \E P : Placed(P, k)}
  <2>4. \E P : Placed(P, 0)
    <3> DEFINE P == [i \in 0 .. 1 |-> IF i = 0 THEN 0 ELSE Len(e[1])]
    <3>1. Len(e[1]) \in Nat /\ Len(F[1]) = Len(e[1])
      BY <1>1, <1>3, <2>1
    <3>2. P \in [0 .. 1 -> Nat] /\ P[0] = 0 /\ P[1] = Len(e[1])
      BY <3>1
    <3> HIDE DEF P
    <3>3. \A i \in 1 .. 1 : /\ P[i] = P[i - 1] + Len(e[i]) /\ P[i] <= Len(F[1])
                            /\ \A j \in 1 .. Len(e[i]) : F[1][P[i - 1] + j] = e[i][j]
      BY <2>1, <3>1, <3>2
    <3>4. Placed(P, 0)
      BY <3>1, <3>2, <3>3
    <3> QED
      BY <3>4
  <2>5. ASSUME NEW k \in Nat, k + 1 < n, NEW P, Placed(P, k)
        PROVE  \E Q : Placed(Q, k + 1)
    <3> DEFINE Q == [i \in 0 .. k + 2 |-> IF i = k + 2 THEN Len(F[k + 2]) ELSE P[i]]
    <3>1. /\ Len(F[k + 2]) \in Nat /\ Len(F[k + 1]) \in Nat /\ Len(e[k + 2]) \in Nat
          /\ P[k + 1] = Len(F[k + 1]) /\ P \in [0 .. k + 1 -> Nat] /\ P[0] = 0
      BY <1>1, <2>2, <2>5
    <3>2. /\ Q \in [0 .. k + 2 -> Nat] /\ Q[k + 2] = Len(F[k + 2])
          /\ \A i \in 0 .. k + 1 : Q[i] = P[i]
      BY <3>1
    <3> HIDE DEF Q
    <3>3. ASSUME NEW i \in 1 .. k + 2
          PROVE  /\ Q[i] = Q[i - 1] + Len(e[i]) /\ Q[i] <= Len(F[k + 2])
                 /\ \A j \in 1 .. Len(e[i]) : F[k + 2][Q[i - 1] + j] = e[i][j]
      <4>1. CASE i = k + 2
        <5>1. i - 1 = k + 1 /\ Q[i - 1] = Len(F[k + 1])
          BY <3>1, <3>2, <4>1
        <5>2. Q[i] = Q[i - 1] + Len(e[i]) /\ Q[i] <= Len(F[k + 2])
          <6>1. Len(F[k + 2]) = Len(F[k + 1]) + Len(e[k + 2])
            BY <2>k, <2>5
          <6>2. Q[k + 2] = Len(F[k + 2]) /\ Len(F[k + 2]) <= Len(F[k + 2])
            BY <3>1, <3>2
          <6> QED
            BY <4>1, <5>1, <6>1, <6>2
        <5>3. \A j \in 1 .. Len(e[i]) : F[k + 2][Q[i - 1] + j] = e[i][j]
          BY <2>k, <2>5, <4>1, <5>1
        <5> QED
          BY <5>2, <5>3
      <4>2. CASE i # k + 2
        <5>0. i \in Int /\ 1 <= i /\ i <= k + 1
          BY <4>2
        <5>1. i \in 1 .. k + 1 /\ i - 1 \in 0 .. k + 1 /\ i \in 0 .. k + 1 /\ i \in 1 .. n
          <6>1. n \in Nat /\ k + 1 < n
            BY <1>1, <2>5
          <6> QED
            BY <5>0, <6>1
        <5>2. Q[i] = P[i] /\ Q[i - 1] = P[i - 1] /\ P[i - 1] \in Nat
          BY <3>1, <3>2, <5>1
        <5>3. /\ P[i] = P[i - 1] + Len(e[i]) /\ P[i] <= Len(F[k + 1])
              /\ \A j \in 1 .. Len(e[i]) : F[k + 1][P[i - 1] + j] = e[i][j]
          BY <2>5, <5>1
        <5>4. Len(e[i]) \in Nat /\ Len(F[k + 2]) = Len(F[k + 1]) + Len(e[k + 2])
          BY <1>1, <2>k, <2>5, <5>1
        <5>5. ASSUME NEW j \in 1 .. Len(e[i])
              PROVE  F[k + 2][P[i - 1] + j] = e[i][j]
          <6>1. P[i - 1] + j \in 1 .. Len(F[k + 1])
            <7>1. P[i - 1] + Len(e[i]) <= Len(F[k + 1])
              BY <5>3
            <7> QED
              BY <3>1, <5>2, <5>4, <7>1, Inside
          <6>2. F[k + 2][P[i - 1] + j] = F[k + 1][P[i - 1] + j]
            BY <2>k, <2>5, <6>1
          <6> QED
            BY <5>3, <6>2
        <5>6. Q[i] <= Len(F[k + 2])
          <6>1. P[i] <= Len(F[k + 1]) /\ P[i] \in Nat
            BY <3>1, <5>1, <5>3
          <6>2. Len(F[k + 1]) <= Len(F[k + 2])
            BY <2>k, <2>5
          <6> QED
            BY <3>1, <5>2, <6>1, <6>2
        <5> QED
          BY <5>2, <5>3, <5>5, <5>6
      <4> QED
        BY <4>1, <4>2
    <3>4. Q[0] = 0
      BY <3>1, <3>2
    <3>5. k + 1 + 1 = k + 2
      OBVIOUS
    <3>6. Placed(Q, k + 1)
      BY <3>2, <3>3, <3>4, <3>5
    <3> QED
      BY <3>6
  <2> HIDE DEF Placed
  <2>6. T = Nat
    <3>1. 0 \in T
      BY <2>4
    <3>2. \A k \in T : k + 1 \in T
      BY <1>1, <2>5
    <3>3. T \in SUBSET Nat
      OBVIOUS
    <3> HIDE DEF T
    <3> QED
      BY <3>1, <3>2, <3>3, Induction
  <2>7. PICK P : Placed(P, n - 1)
    <3>1. n - 1 \in T /\ n - 1 < n
      <4>1. n - 1 \in Nat /\ n - 1 < n
        BY <1>1, <1>3
      <4> HIDE DEF T
      <4> QED
        BY <2>6, <4>1
    <3> QED
      BY <3>1
  <2>8. n - 1 + 1 = n /\ n \in 1 .. n
    BY <1>1, <1>3
  <2>9. /\ P \in [0 .. n -> Nat]
        /\ P[0] = 0
        /\ P[n] = Len(F[n])
        /\ \A i \in 1 .. n :
              /\ P[i] = P[i - 1] + Len(e[i]) /\ P[i] <= Len(F[n])
              /\ \A j \in 1 .. Len(e[i]) : F[n][P[i - 1] + j] = e[i][j]
    BY <2>7, <2>8 DEF Placed
  <2> QED
    BY <2>1, <2>2, <2>8, <2>9 DEF n
<1> QED
  BY <1>2, <1>3

\* The i-th of the sequences e stands in t behind place P[i - 1].
PlacesOf(P, e, t) ==
  /\ P \in [0 .. Len(e) -> Nat]
  /\ P[0] = 0
  /\ P[Len(e)] = Len(t)
  /\ \A i \in 1 .. Len(e) :
        /\ P[i] = P[i - 1] + Len(e[i]) /\ P[i] <= Len(t)
        /\ \A j \in 1 .. Len(e[i]) : t[P[i - 1] + j] = e[i][j]

\* There are such places.
LEMMA PlacesExist ==
  ASSUME NEW S, NEW e \in Seq(Seq(S))
  PROVE  FlattenSeq(e) \in Seq(S) /\ \E P : PlacesOf(P, e, FlattenSeq(e))
<1> DEFINE t == FlattenSeq(e)
<1>1. PICK P \in [0 .. Len(e) -> Nat] :
         /\ t \in Seq(S)
         /\ P[0] = 0
         /\ P[Len(e)] = Len(t)
         /\ \A i \in 1 .. Len(e) :
               /\ P[i] = P[i - 1] + Len(e[i]) /\ P[i] <= Len(t)
               /\ \A j \in 1 .. Len(e[i]) : t[P[i - 1] + j] = e[i][j]
  BY FlattenPlaces
<1> HIDE DEF t
<1>2. PlacesOf(P, e, t)
  BY <1>1 DEF PlacesOf
<1> QED
  BY <1>1, <1>2 DEF t

\* What RemoveHTML has made of the first bytes, and what comes next.
LEMMA Beginnings ==
  ASSUME NEW S, NEW e \in Seq(Seq(S))
  PROVE  \E F \in [0 .. Len(e) -> Seq(S)] :
            /\ F[0] = <<>>
            /\ \A i \in 1 .. Len(e) : F[i] = F[i - 1] \o e[i]
            /\ FlattenSeq(e) = F[Len(e)]
<1> DEFINE n == Len(e)
           cat(a, b) == a \o b
<1>1. n \in Nat /\ \A i \in 1 .. n : e[i] \in Seq(S)
  OBVIOUS
<1>2. CASE n = 0
  <2>1. FlattenSeq(e) = <<>>
    BY <1>2 DEF FlattenSeq
  <2> DEFINE F == [i \in 0 .. 0 |-> <<>>]
  <2>2. F \in [0 .. 0 -> Seq(S)] /\ F[0] = <<>>
    OBVIOUS
  <2> HIDE DEF F
  <2>3. 1 .. n = {}
    BY <1>2
  <2> QED
    BY <1>2, <2>1, <2>2, <2>3
<1>3. CASE n # 0
  <2>1. PICK G \in [1 .. n -> Seq(S)] :
           /\ FlattenSeq(e) = G[n]
           /\ G[1] = e[1]
           /\ \A i \in 2 .. n : G[i] = cat(G[i - 1], e[i])
    BY <1>3, FlattenFcn
  <2> DEFINE F == [i \in 0 .. n |-> IF i = 0 THEN <<>> ELSE G[i]]
  <2>2. cat(<<>>, e[1]) = e[1] /\ <<>> \in Seq(S)
    BY <1>1, <1>3, ConcatEmptySeq
  <2> HIDE DEF n, cat
  <2>3. F \in [0 .. n -> Seq(S)] /\ F[0] = <<>> /\ \A i \in 1 .. n : F[i] = G[i]
    BY <1>1, <2>2
  <2> HIDE DEF F
  <2>4. ASSUME NEW i \in 1 .. n PROVE F[i] = cat(F[i - 1], e[i])
    <3>1. CASE i = 1
      <4>1. F[1] = G[1] /\ F[1 - 1] = <<>>
        BY <1>1, <1>3, <2>3
      <4> QED
        BY <2>1, <2>2, <3>1, <4>1
    <3>2. CASE i # 1
      <4>1. i - 1 \in 1 .. n /\ i \in 2 .. n
        BY <1>1, <3>2
      <4> QED
        BY <2>1, <2>3, <4>1
    <3> QED
      BY <3>1, <3>2
  <2>5. F[n] = G[n]
    BY <1>1, <1>3, <2>3
  <2> QED
    BY <2>1, <2>3, <2>4, <2>5 DEF n, cat
<1> QED
  BY <1>2, <1>3

\* A text from m on is its byte there and the rest.
LEMMA FirstAndRest ==
  ASSUME NEW S, NEW s \in Seq(S), NEW m \in 1 .. Len(s)
  PROVE  <<s[m]>> \o SubSeq(s, m + 1, Len(s)) = SubSeq(s, m, Len(s))
BY SubSeqRecursiveFirst

\* The last element of two sequences one after the other.
LEMMA LastOf ==
  ASSUME NEW S, NEW a \in Seq(S), NEW b \in Seq(S), b # <<>>
  PROVE  Last(a \o b) = Last(b) /\ a \o b # <<>>
<1> DEFINE c == a \o b
<1>1. /\ c \in Seq(S) /\ Len(c) = Len(a) + Len(b)
      /\ \A i \in 1 .. Len(a) + Len(b) : c[i] = IF i <= Len(a) THEN a[i] ELSE b[i - Len(a)]
  BY ConcatProperties
<1>2. Len(a) \in Nat /\ Len(b) \in Nat \ {0}
  BY EmptySeq
<1> HIDE DEF c
<1>3. c[Len(c)] = b[Len(b)]
  <2> DEFINE i == Len(a) + Len(b)
  <2>1. i \in 1 .. Len(a) + Len(b) /\ ~ (i <= Len(a)) /\ i - Len(a) = Len(b)
    BY <1>2
  <2> HIDE DEF i
  <2>2. c[i] = b[i - Len(a)]
    BY <1>1, <2>1
  <2> QED
    BY <1>1, <2>1, <2>2 DEF i
<1>4. c # <<>>
  BY <1>1, <1>2
<1> QED
  BY <1>3, <1>4 DEF c, Last

\* A sequence with one more element.
LEMMA WithLast ==
  ASSUME NEW S, NEW a \in Seq(S), NEW x \in S
  PROVE  /\ a \o <<x>> \in Seq(S) /\ a \o <<x>> # <<>>
         /\ Last(a \o <<x>>) = x /\ Front(a \o <<x>>) = a
         /\ Append(a, x) = a \o <<x>>
<1> DEFINE b == <<x>>
           c == a \o b
<1>1. b \in Seq(S) /\ b # <<>> /\ Len(b) = 1 /\ b[1] = x
  OBVIOUS
<1> HIDE DEF b
<1>2. Last(c) = x /\ c # <<>>
  BY <1>1, LastOf DEF Last
<1>3. /\ c \in Seq(S) /\ Len(c) = Len(a) + 1
      /\ \A i \in 1 .. Len(a) + 1 : c[i] = IF i <= Len(a) THEN a[i] ELSE b[i - Len(a)]
  BY <1>1, ConcatProperties
<1>4. Len(a) \in Nat
  OBVIOUS
<1> HIDE DEF c
<1>5. Front(c) = a
  <2> DEFINE d == SubSeq(c, 1, Len(a))
  <2>1. \A i \in 1 .. Len(a) : c[i] = a[i] /\ a[i] \in S
    BY <1>3, <1>4
  <2>2. d \in Seq(S) /\ Len(d) = Len(a) /\ \A i \in 1 .. Len(a) : d[i] = c[i]
    BY <1>3, <1>4
  <2> HIDE DEF d
  <2>3. d = a
    BY <2>1, <2>2, SeqEqual
  <2>4. Len(c) - 1 = Len(a)
    BY <1>3, <1>4
  <2> QED
    BY <2>3, <2>4 DEF d, Front
<1>6. Append(a, x) = c
  <2> DEFINE d == Append(a, x)
  <2>1. /\ d \in Seq(S) /\ Len(d) = Len(a) + 1
        /\ \A i \in 1 .. Len(a) : d[i] = a[i]
        /\ d[Len(a) + 1] = x
    OBVIOUS
  <2> HIDE DEF d
  <2>2. ASSUME NEW i \in 1 .. Len(a) + 1 PROVE d[i] = c[i]
    <3>1. CASE i <= Len(a)
      BY <1>3, <1>4, <2>1, <3>1
    <3>2. CASE i = Len(a) + 1
      <4>1. ~ (i <= Len(a)) /\ i - Len(a) = 1
        BY <1>4, <3>2
      <4> QED
        BY <1>1, <1>3, <2>1, <3>2, <4>1
    <3> QED
      BY <1>4, <3>1, <3>2
  <2>3. d = c
    BY <1>3, <2>1, <2>2, SeqEqual
  <2> QED
    BY <2>3 DEF d
<1> QED
  BY <1>2, <1>3, <1>5, <1>6 DEF b, c

\* t is s with r behind its first l rows.
PutBehind(t, s, l, r, S) ==
  /\ t \in Seq(S) /\ Len(t) = Len(s) + 1
  /\ \A i \in 1 .. l : t[i] = s[i]
  /\ t[l + 1] = r
  /\ \A i \in l + 1 .. Len(s) : t[i + 1] = s[i]

\* What InsertAt makes.
LEMMA InsertedAt ==
  ASSUME NEW S, NEW s \in Seq(S), NEW r \in S, NEW l \in 0 .. Len(s)
  PROVE  PutBehind(InsertAt(s, l + 1, r), s, l, r, S)
<1> DEFINE n == Len(s)
           a == SubSeq(s, 1, l)
           b == SubSeq(s, l + 1, n)
           c == a \o <<r>>
           d == c \o b
<1>1. n \in Nat /\ \A i \in 1 .. n : s[i] \in S
  OBVIOUS
<1>2. InsertAt(s, l + 1, r) = d
  <2>1. (l + 1) - 1 = l
    OBVIOUS
  <2>2. InsertAt(s, l + 1, r) = SubSeq(s, 1, (l + 1) - 1) \o <<r>> \o SubSeq(s, l + 1, Len(s))
    BY DEF InsertAt
  <2> QED
    BY <2>1, <2>2
<1> HIDE DEF n, d
<1>5. l \in 0 .. n /\ l \in Nat
  BY <1>1 DEF n
<1>6. a \in Seq(S) /\ Len(a) = l /\ \A i \in 1 .. l : a[i] = s[i]
  <2>1. \A i \in 1 .. l : s[i] \in S
    BY <1>1, <1>5
  <2>2. /\ a \in Seq(S) /\ Len(a) = IF 1 <= l THEN l - 1 + 1 ELSE 0
        /\ \A i \in 1 .. l - 1 + 1 : a[i] = s[1 + i - 1]
    BY <1>5, <2>1, SubSeqProperties
  <2> HIDE DEF a
  <2> QED
    BY <1>5, <2>2
<1>7. b \in Seq(S) /\ Len(b) = n - l /\ \A i \in 1 .. n - l : b[i] = s[l + i]
  <2>1. \A i \in l + 1 .. n : s[i] \in S
    BY <1>1, <1>5
  <2>2. /\ b \in Seq(S) /\ Len(b) = IF l + 1 <= n THEN n - (l + 1) + 1 ELSE 0
        /\ \A i \in 1 .. n - (l + 1) + 1 : b[i] = s[l + 1 + i - 1]
    BY <1>1, <1>5, <2>1, SubSeqProperties
  <2> HIDE DEF b
  <2>3. ASSUME NEW i \in 1 .. n - l PROVE b[i] = s[l + i]
    <3>1. i \in 1 .. n - (l + 1) + 1 /\ l + 1 + i - 1 = l + i
      BY <1>1, <1>5
    <3> QED
      BY <2>2, <3>1
  <2>4. (IF l + 1 <= n THEN n - (l + 1) + 1 ELSE 0) = n - l
    BY <1>1, <1>5
  <2> QED
    BY <2>2, <2>3, <2>4
<1>8. <<r>> \in Seq(S) /\ Len(<<r>>) = 1 /\ <<r>>[1] = r
  OBVIOUS
<1> HIDE DEF a, b, c
<1>10. c \in Seq(S) /\ Len(c) = l + 1 /\ c[l + 1] = r /\ \A i \in 1 .. l : c[i] = s[i]
  <2>1. /\ c \in Seq(S) /\ Len(c) = Len(a) + Len(<<r>>)
        /\ \A i \in 1 .. Len(a) + Len(<<r>>) :
              c[i] = IF i <= Len(a) THEN a[i] ELSE <<r>>[i - Len(a)]
    BY <1>6, <1>8, ConcatProperties DEF c
  <2>2. l + 1 \in 1 .. l + 1 /\ ~ (l + 1 <= l) /\ l + 1 - l = 1
    BY <1>5
  <2>3. c[l + 1] = <<r>>[1]
    BY <1>6, <1>8, <2>1, <2>2
  <2>4. \A i \in 1 .. l : c[i] = a[i]
    BY <1>5, <1>6, <1>8, <2>1
  <2> QED
    BY <1>6, <1>8, <2>1, <2>3, <2>4
<1>12. /\ d \in Seq(S) /\ Len(d) = n + 1
       /\ \A i \in 1 .. n + 1 : d[i] = IF i <= l + 1 THEN c[i] ELSE b[i - (l + 1)]
  <2>1. /\ d \in Seq(S) /\ Len(d) = Len(c) + Len(b)
        /\ \A i \in 1 .. Len(c) + Len(b) : d[i] = IF i <= Len(c) THEN c[i] ELSE b[i - Len(c)]
    BY <1>7, <1>10, ConcatProperties DEF d
  <2>2. l + 1 + (n - l) = n + 1
    BY <1>1, <1>5
  <2> QED
    BY <1>7, <1>10, <2>1, <2>2
<1>13. \A i \in 1 .. l : d[i] = s[i]
  BY <1>1, <1>5, <1>10, <1>12
<1>14. d[l + 1] = r
  BY <1>1, <1>5, <1>10, <1>12
<1>15. ASSUME NEW i \in l + 1 .. n PROVE d[i + 1] = s[i]
  <2>1. i + 1 \in 1 .. n + 1 /\ ~ (i + 1 <= l + 1) /\ i + 1 - (l + 1) = i - l
    BY <1>1, <1>5
  <2>2. i - l \in 1 .. n - l /\ l + (i - l) = i
    BY <1>1, <1>5
  <2>3. d[i + 1] = b[i - l]
    BY <1>12, <2>1
  <2>4. b[i - l] = s[l + (i - l)]
    BY <1>7, <2>2
  <2> QED
    BY <2>2, <2>3, <2>4
<1> QED
  BY <1>2, <1>12, <1>13, <1>14, <1>15 DEF n, PutBehind

-----------------------------------------------------------------------------
\* Finite sets

\* An injection of 1 .. k in itself reaches everything.
LEMMA AllReached ==
  ASSUME NEW k \in Nat, NEW p \in [1 .. k -> 1 .. k], \A i, j \in 1 .. k : p[i] = p[j] => i = j
  PROVE  \A m \in 1 .. k : \E i \in 1 .. k : p[i] = m
<1>1. p \in Injection(1 .. k, 1 .. k)
  BY DEF Injection, IsInjective
<1>2. IsFiniteSet(1 .. k)
  BY FS_Interval
<1>3. p \in Surjection(1 .. k, 1 .. k)
  BY <1>1, <1>2, FS_Injection
<1> QED
  BY <1>3 DEF Surjection

\* As many rows as there are, or as many as are shown.
LEMMA AsManyAsShown ==
  ASSUME NEW all, IsFiniteSet(all), NEW m \in Nat, NEW lim \in Nat, m <= lim,
         NEW of \in Injection(1 .. m, all),
         m < lim => \A a \in all : \E i \in 1 .. m : of[i] = a
  PROVE  m = Min({Cardinality(all), lim})
<1>1. IsFiniteSet(1 .. m) /\ Cardinality(1 .. m) = m
  BY FS_Interval
<1>2. Cardinality(all) \in Nat
  BY FS_CardinalityType
<1>3. /\ Cardinality(1 .. m) <= Cardinality(all)
      /\ Cardinality(1 .. m) = Cardinality(all) <=> of \in Surjection(1 .. m, all)
  BY FS_Injection
<1>4. CASE m < lim
  <2>1. of \in [1 .. m -> all]
    BY DEF Injection
  <2>2. of \in Surjection(1 .. m, all)
    BY <1>4, <2>1 DEF Surjection
  <2>3. Cardinality(all) = m
    BY <1>1, <1>3, <2>2
  <2> QED
    BY <1>2, <1>4, <2>3, LesserOfTwo
<1>5. CASE m = lim
  BY <1>1, <1>2, <1>3, <1>5, LesserOfTwo
<1> QED
  BY <1>4, <1>5

-----------------------------------------------------------------------------
\* Ranks

\* R is a strict total order of K.
StrictOrder(R, K) ==
  /\ \A a \in K : <<a, a>> \notin R
  /\ \A a, b \in K : a # b => <<a, b>> \in R \/ <<b, a>> \in R
  /\ \A a, b, c \in K : <<a, b>> \in R /\ <<b, c>> \in R => <<a, c>> \in R

\* The elements before k, and how many they are.
predecessors(R, K, k) == {j \in K : <<j, k>> \in R}
rank(R, K, k) == Cardinality(predecessors(R, K, k))

\* The ranks are the numbers from 0 on, in the order of the elements.
RankedBy(R, K) ==
  /\ \A k \in K : rank(R, K, k) \in 0 .. Cardinality(K) - 1
  /\ \A a, b \in K : <<a, b>> \in R => rank(R, K, a) < rank(R, K, b)
  /\ \A a, b \in K : rank(R, K, a) = rank(R, K, b) => a = b
  /\ \A i \in 0 .. Cardinality(K) - 1 : \E k \in K : rank(R, K, k) = i

\* An order of a finite set ranks it.
LEMMA Ranked ==
  ASSUME NEW K, IsFiniteSet(K), NEW R, StrictOrder(R, K)
  PROVE  RankedBy(R, K)
<1> DEFINE B(k) == predecessors(R, K, k)
           n == Cardinality(K)
<1>1. n \in Nat
  BY FS_CardinalityType
<1>2. ASSUME NEW k \in K PROVE IsFiniteSet(B(k)) /\ rank(R, K, k) \in Nat /\ B(k) \in SUBSET K
  <2>1. B(k) \in SUBSET K
    BY DEF predecessors
  <2>2. IsFiniteSet(B(k))
    BY <2>1, FS_Subset
  <2> QED
    BY <2>1, <2>2, FS_CardinalityType DEF rank
<1>3. ASSUME NEW a \in K, NEW X \in SUBSET K, B(a) \in SUBSET X, a \in X, IsFiniteSet(X)
      PROVE  rank(R, K, a) < Cardinality(X)
  <2>1. a \notin B(a)
    BY DEF StrictOrder, predecessors
  <2>2. Cardinality(B(a)) <= Cardinality(X) /\ (Cardinality(B(a)) = Cardinality(X) => B(a) = X)
    BY <1>3, FS_Subset
  <2>3. Cardinality(X) \in Nat /\ Cardinality(B(a)) \in Nat
    BY <1>2, <1>3, FS_CardinalityType
  <2> QED
    BY <1>3, <2>1, <2>2, <2>3 DEF rank
<1>4. ASSUME NEW k \in K PROVE rank(R, K, k) \in 0 .. n - 1
  <2>1. rank(R, K, k) < n
    BY <1>2, <1>3
  <2> QED
    BY <1>1, <1>2, <2>1
<1>5. ASSUME NEW a \in K, NEW b \in K, <<a, b>> \in R PROVE rank(R, K, a) < rank(R, K, b)
  <2>1. B(a) \in SUBSET B(b) /\ a \in B(b)
    BY <1>5 DEF StrictOrder, predecessors
  <2>2. rank(R, K, a) < Cardinality(B(b))
    BY <1>2, <1>3, <2>1
  <2> QED
    BY <2>2 DEF rank
<1>6. ASSUME NEW a \in K, NEW b \in K, rank(R, K, a) = rank(R, K, b) PROVE a = b
  <2> SUFFICES ASSUME a # b PROVE FALSE
    OBVIOUS
  <2>1. <<a, b>> \in R \/ <<b, a>> \in R
    BY DEF StrictOrder
  <2>2. rank(R, K, a) < rank(R, K, b) \/ rank(R, K, b) < rank(R, K, a)
    BY <1>5, <2>1
  <2> QED
    BY <1>2, <1>6, <2>2
<1> DEFINE f == [k \in K |-> rank(R, K, k)]
<1>7. f \in [K -> 0 .. n - 1] /\ \A a, b \in K : f[a] = f[b] => a = b
  BY <1>4, <1>6
<1>8. f \in Injection(K, 0 .. n - 1)
  BY <1>7 DEF Injection, IsInjective
<1>9. IsFiniteSet(0 .. n - 1) /\ Cardinality(0 .. n - 1) = n
  BY <1>1, FS_Interval
<1>10. f \in Surjection(K, 0 .. n - 1)
  BY <1>8, <1>9, FS_Injection
<1>11. \A i \in 0 .. n - 1 : \E k \in K : f[k] = i
  BY <1>10 DEF Surjection
<1>12. \A i \in 0 .. n - 1 : \E k \in K : rank(R, K, k) = i
  BY <1>11
<1> QED
  BY <1>4, <1>5, <1>6, <1>12 DEF RankedBy

\* An order of a set is one of its subsets.
LEMMA SmallerOrder ==
  ASSUME NEW K, NEW R, StrictOrder(R, K), NEW A \in SUBSET K
  PROVE  StrictOrder(R, A)
BY DEF StrictOrder

\* The first m elements of A.
top(R, A, m) == {k \in A : rank(R, A, k) < m}

\* The orders agree but for h.
SameBut(h, R, A, R2, A2) ==
  /\ A \ {h} = A2 \ {h}
  /\ \A x, y \in A \ {h} : <<x, y>> \in R <=> <<x, y>> \in R2

\* What one element has to do with the rank of another.
LEMMA RankWithout ==
  ASSUME NEW A, IsFiniteSet(A), NEW R, NEW h, NEW k
  PROVE  /\ rank(R, A \ {h}, k) \in Nat
         /\ rank(R, A, k) = IF h \in A /\ <<h, k>> \in R THEN rank(R, A \ {h}, k) + 1
                            ELSE rank(R, A \ {h}, k)
<1> DEFINE B == predecessors(R, A \ {h}, k)
<1>1. B \in SUBSET A /\ h \notin B
  BY DEF predecessors
<1>2. IsFiniteSet(B) /\ Cardinality(B) \in Nat
  BY <1>1, FS_Subset, FS_CardinalityType
<1>3. CASE h \in A /\ <<h, k>> \in R
  <2>1. predecessors(R, A, k) = B \cup {h}
    BY <1>3 DEF predecessors
  <2>2. Cardinality(B \cup {h}) = Cardinality(B) + 1
    BY <1>1, <1>2, FS_AddElement
  <2> QED
    BY <1>2, <1>3, <2>1, <2>2 DEF rank
<1>4. CASE ~ (h \in A /\ <<h, k>> \in R)
  <2>1. predecessors(R, A, k) = B
    BY <1>4 DEF predecessors
  <2> QED
    BY <1>2, <1>4, <2>1 DEF rank
<1> QED
  BY <1>3, <1>4

\* One element at most comes to be among the first m when one is put elsewhere, put in
\* or taken away.
LEMMA OneMoves ==
  ASSUME NEW A, IsFiniteSet(A), NEW A2, IsFiniteSet(A2), NEW R, StrictOrder(R, A),
         NEW R2, StrictOrder(R2, A2), NEW h, SameBut(h, R, A, R2, A2), NEW m \in Nat
  PROVE  \E x : top(R2, A2, m) \ top(R, A, m) \subseteq {x}
<1> DEFINE B == A \ {h}
           T == top(R2, A2, m) \ top(R, A, m)
<1>1. B = A2 \ {h} /\ \A x, y \in B : <<x, y>> \in R <=> <<x, y>> \in R2
  BY DEF SameBut
<1>2. IsFiniteSet(B) /\ B \in SUBSET A
  BY FS_Subset
<1>3. StrictOrder(R, B)
  BY DEF StrictOrder
<1>4. \A a, b \in B : rank(R, B, a) = rank(R, B, b) => a = b
  <2>1. RankedBy(R, B)
    BY <1>2, <1>3, Ranked
  <2> QED
    BY <2>1 DEF RankedBy
<1>5. ASSUME NEW k \in T, k # h
      PROVE  /\ k \in B /\ rank(R, B, k) = m - 1 /\ h \in A /\ <<h, k>> \in R
             /\ rank(R, A, k) = m
  <2>1. k \in A2 /\ rank(R2, A2, k) < m /\ k \in B
    BY <1>1, <1>5 DEF top
  <2>2. k \in A /\ ~ (rank(R, A, k) < m)
    BY <1>2, <2>1 DEF top
  <2>3. rank(R, B, k) = rank(R2, B, k)
    <3>1. predecessors(R, B, k) = predecessors(R2, B, k)
      BY <1>1, <2>1 DEF predecessors
    <3> QED
      BY <3>1 DEF rank
  <2>4. /\ rank(R, B, k) \in Nat
        /\ rank(R, A, k) = IF h \in A /\ <<h, k>> \in R THEN rank(R, B, k) + 1 ELSE rank(R, B, k)
    BY RankWithout
  <2>5. rank(R2, A2, k) = rank(R2, B, k) \/ rank(R2, A2, k) = rank(R2, B, k) + 1
    <3>1. \/ rank(R2, A2, k) = rank(R2, A2 \ {h}, k)
          \/ rank(R2, A2, k) = rank(R2, A2 \ {h}, k) + 1
      <4>1. rank(R2, A2, k) = IF h \in A2 /\ <<h, k>> \in R2 THEN rank(R2, A2 \ {h}, k) + 1
                              ELSE rank(R2, A2 \ {h}, k)
        BY RankWithout
      <4> QED
        BY <4>1
    <3> QED
      BY <1>1, <3>1
  <2> QED
    BY <2>1, <2>2, <2>3, <2>4, <2>5
<1>6. CASE T \subseteq {h}
  BY <1>6
<1>7. ASSUME NEW k \in T, k # h PROVE T \subseteq {k}
  <2>1. /\ k \in B /\ rank(R, B, k) = m - 1 /\ h \in A /\ <<h, k>> \in R /\ rank(R, A, k) = m
    BY <1>5, <1>7
  <2>2. h \notin T
    <3>1. rank(R, A, h) < rank(R, A, k)
      <4>1. RankedBy(R, A)
        BY Ranked
      <4> QED
        BY <1>2, <2>1, <4>1 DEF RankedBy
    <3>2. h \in top(R, A, m)
      BY <2>1, <3>1 DEF top
    <3> QED
      BY <3>2
  <2>3. ASSUME NEW j \in T PROVE j = k
    <3>1. j \in B /\ rank(R, B, j) = m - 1
      BY <1>5, <2>2, <2>3
    <3> QED
      BY <1>4, <2>1, <3>1
  <2> QED
    BY <2>3
<1> QED
  BY <1>6, <1>7

-----------------------------------------------------------------------------
\* Places

\* How many places of M there are up to k, and which is the i-th.
upTo(M, k) == Cardinality(M \cap (1 .. k))
nth(M, i) == CHOOSE j \in M : upTo(M, j) = i

CountedIn(M, n) ==
  /\ Cardinality(M) \in Nat /\ upTo(M, 0) = 0 /\ upTo(M, n) = Cardinality(M)
  /\ \A k \in 0 .. n : upTo(M, k) \in 0 .. Cardinality(M)
  /\ \A k \in 1 .. n : upTo(M, k) = IF k \in M THEN upTo(M, k - 1) + 1 ELSE upTo(M, k - 1)
  /\ \A j \in M : upTo(M, j) \in 1 .. Cardinality(M) /\ nth(M, upTo(M, j)) = j
  /\ \A i \in 1 .. Cardinality(M) : nth(M, i) \in M /\ upTo(M, nth(M, i)) = i
  /\ \A i, j \in 1 .. Cardinality(M) : i < j <=> nth(M, i) < nth(M, j)

\* The places of a set are counted one after the other.
LEMMA Counting ==
  ASSUME NEW n \in Nat, NEW M \in SUBSET (1 .. n)
  PROVE  CountedIn(M, n)
<1> DEFINE m == Cardinality(M)
<1>0. \A l \in M : l \in Int /\ 1 <= l /\ l <= n
  OBVIOUS
<1>1. IsFiniteSet(M) /\ m \in Nat
  <2>1. IsFiniteSet(1 .. n)
    BY FS_Interval
  <2>2. IsFiniteSet(M)
    BY <2>1, FS_Subset
  <2> QED
    BY <2>2, FS_CardinalityType
<1>2. ASSUME NEW k \in Int
      PROVE IsFiniteSet(M \cap (1 .. k)) /\ upTo(M, k) \in 0 .. m
  <2>2. IsFiniteSet(M \cap (1 .. k)) /\ Cardinality(M \cap (1 .. k)) <= m
    BY <1>1, FS_Subset
  <2>3. Cardinality(M \cap (1 .. k)) \in Nat
    BY <2>2, FS_CardinalityType
  <2> QED
    BY <1>1, <2>2, <2>3 DEF upTo
<1>3. upTo(M, 0) = 0
  <2>1. M \cap (1 .. 0) = {}
    BY <1>0
  <2> QED
    BY <2>1, FS_EmptySet DEF upTo
<1>4. upTo(M, n) = m
  <2>1. M \cap (1 .. n) = M
    BY <1>0
  <2> QED
    BY <2>1 DEF upTo
<1>5. ASSUME NEW k \in 1 .. n
      PROVE  upTo(M, k) = IF k \in M THEN upTo(M, k - 1) + 1 ELSE upTo(M, k - 1)
  <2> DEFINE X == M \cap (1 .. k - 1)
  <2>1. k \in Int /\ k - 1 \in Int /\ IsFiniteSet(X) /\ k \notin X
    <3>1. k - 1 \in Int /\ k \notin X
      OBVIOUS
    <3> QED
      BY <1>2, <3>1
  <2>2. CASE k \in M
    <3>1. M \cap (1 .. k) = X \cup {k}
      BY <1>0, <2>2
    <3>2. Cardinality(X \cup {k}) = Cardinality(X) + 1
      BY <2>1, FS_AddElement
    <3> QED
      BY <2>2, <3>1, <3>2 DEF upTo
  <2>3. CASE k \notin M
    <3>1. M \cap (1 .. k) = X
      BY <1>0, <2>3
    <3> QED
      BY <2>3, <3>1 DEF upTo
  <2> QED
    BY <2>2, <2>3
<1>6. PICK R : R = {p \in M \X M : p[1] < p[2]}
  OBVIOUS
<1>7. \A a, b \in M : <<a, b>> \in R <=> a < b
  BY <1>6
<1>8. StrictOrder(R, M)
  BY <1>0, <1>7 DEF StrictOrder
<1>9. /\ \A k \in M : rank(R, M, k) \in 0 .. m - 1
      /\ \A a, b \in M : <<a, b>> \in R => rank(R, M, a) < rank(R, M, b)
      /\ \A a, b \in M : rank(R, M, a) = rank(R, M, b) => a = b
      /\ \A i \in 0 .. m - 1 : \E k \in M : rank(R, M, k) = i
  <2>1. RankedBy(R, M)
    BY <1>1, <1>8, Ranked
  <2> QED
    BY <2>1 DEF RankedBy
<1>10. ASSUME NEW j \in M PROVE upTo(M, j) = rank(R, M, j) + 1
  <2> DEFINE X == predecessors(R, M, j)
  <2>1. j \in Int /\ X \in SUBSET M /\ j \notin X /\ \A l \in M : l \in X <=> l < j
    BY <1>0, <1>7 DEF predecessors
  <2> HIDE DEF X
  <2>3. IsFiniteSet(X)
    BY <1>1, <2>1, FS_Subset
  <2>4. M \cap (1 .. j) = X \cup {j}
    <3>1. \A l \in M : l \in 1 .. j <=> l \in X \/ l = j
      BY <1>0, <2>1
    <3> QED
      BY <2>1, <3>1
  <2>5. Cardinality(X \cup {j}) = Cardinality(X) + 1
    BY <2>1, <2>3, FS_AddElement
  <2> QED
    BY <2>4, <2>5 DEF upTo, rank, X
<1> HIDE DEF m
<1>11. ASSUME NEW j \in M PROVE upTo(M, j) \in 1 .. m
  <2>1. rank(R, M, j) \in 0 .. m - 1
    BY <1>9
  <2> QED
    BY <1>1, <1>10, <2>1
<1>12. ASSUME NEW a \in M, NEW b \in M, upTo(M, a) = upTo(M, b) PROVE a = b
  <2>1. rank(R, M, a) \in 0 .. m - 1 /\ rank(R, M, b) \in 0 .. m - 1
    BY <1>9
  <2>2. rank(R, M, a) = rank(R, M, b)
    BY <1>1, <1>10, <1>12, <2>1
  <2> QED
    BY <1>9, <2>2
<1>13. ASSUME NEW i \in 1 .. m PROVE nth(M, i) \in M /\ upTo(M, nth(M, i)) = i
  <2>1. i - 1 \in 0 .. m - 1 /\ i - 1 + 1 = i
    BY <1>1
  <2>2. PICK k \in M : rank(R, M, k) = i - 1
    BY <1>9, <2>1
  <2>3. upTo(M, k) = i
    BY <1>10, <2>1, <2>2
  <2> QED
    BY <2>3 DEF nth
<1>14. ASSUME NEW j \in M PROVE nth(M, upTo(M, j)) = j
  <2>1. nth(M, upTo(M, j)) \in M /\ upTo(M, nth(M, upTo(M, j))) = upTo(M, j)
    BY <1>11, <1>13
  <2> QED
    BY <1>12, <2>1
<1>15. ASSUME NEW a \in M, NEW b \in M, a < b PROVE upTo(M, a) < upTo(M, b)
  <2>1. rank(R, M, a) \in 0 .. m - 1 /\ rank(R, M, b) \in 0 .. m - 1
    BY <1>9
  <2>2. rank(R, M, a) < rank(R, M, b)
    BY <1>7, <1>9, <1>15
  <2> QED
    BY <1>1, <1>10, <2>1, <2>2
<1>16. ASSUME NEW i \in 1 .. m, NEW j \in 1 .. m PROVE i < j <=> nth(M, i) < nth(M, j)
  <2>1. /\ nth(M, i) \in M /\ upTo(M, nth(M, i)) = i /\ i \in Int
        /\ nth(M, j) \in M /\ upTo(M, nth(M, j)) = j /\ j \in Int
    BY <1>1, <1>13
  <2>2. nth(M, i) < nth(M, j) => i < j
    BY <1>15, <2>1
  <2>3. nth(M, j) < nth(M, i) => j < i
    BY <1>15, <2>1
  <2>4. nth(M, i) = nth(M, j) => i = j
    BY <2>1
  <2>5. nth(M, i) \in Int /\ nth(M, j) \in Int
    BY <1>0, <2>1
  <2> QED
    BY <2>1, <2>2, <2>3, <2>4, <2>5
<1>17. ASSUME NEW k \in 0 .. n PROVE upTo(M, k) \in 0 .. m
  <2>1. k \in Int
    OBVIOUS
  <2> QED
    BY <1>2, <2>1 DEF m
<1> QED
  BY <1>1, <1>3, <1>4, <1>5, <1>11, <1>13, <1>14, <1>16, <1>17 DEF m, CountedIn
=============================================================================
