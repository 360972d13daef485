---------------------------- MODULE PagesProofs ----------------------------
(***************************************************************************)
(* For texts of any length: what the tracker escapes is what it reads, so  *)
(* that the links of a listing keep what the reader asked for; info hashes *)
(* come back from their digits; and pages show names as they are.          *)
(*                                                                         *)
(* For any tables: qsort arranges the rows, so that the stats page lists   *)
(* every peer once and in order; a listing has every entry a request       *)
(* matches once; and the pages of a listing are its pieces, so that a      *)
(* reader who goes through them finds every entry, but for one at most for *)
(* each change that is made meanwhile.                                     *)
(*                                                                         *)
(* FlattenSeq, the converters, qsort and the loops over the rows are       *)
(* recursive functions.  That there are such functions, and what they      *)
(* compute, is proved by induction.                                        *)
(***************************************************************************)
EXTENDS Pages, PeerTables, DataTheorems

-----------------------------------------------------------------------------
\* Bytes

LEMMA CharDigits ==
  ASSUME NEW c \in Char
  PROVE  /\ c \div Base \in Digit /\ c % Base \in Digit
         /\ (c \div Base) * Base + (c % Base) = c
<1>1. Base \in Nat /\ Base >= 4 /\ c \in Nat /\ c < Base * Base
  BY BaseAssumption DEF Char
<1> DEFINE q == c \div Base
           r == c % Base
<1>2. q \in Int /\ r \in Nat /\ r < Base /\ c = Base * q + r
  BY <1>1
<1> HIDE DEF q, r
<1>3. q >= 0
  BY <1>1, <1>2
<1>4. q < Base
  <2>1. CASE q >= Base
    <3>1. Base * q >= Base * Base
      BY <1>1, <1>2, <2>1
    <3> QED
      BY <1>1, <1>2, <3>1
  <2> QED
    BY <1>1, <1>2, <2>1
<1>5. q * Base + r = c
  BY <1>1, <1>2
<1>6. q \in Digit /\ r \in Digit
  BY <1>1, <1>2, <1>3, <1>4 DEF Digit
<1>7. c \div Base \in Digit
  BY <1>6 DEF q
<1>8. c % Base \in Digit
  BY <1>6 DEF r
<1>9. (c \div Base) * Base + (c % Base) = c
  BY <1>5 DEF q, r
<1> QED
  BY <1>7, <1>8, <1>9

LEMMA Characters ==
  /\ {Percent, Plus, Space, Less, Greater, Ampersand, Quote, CR, LF, Upper, Lower} \subseteq Char
  /\ Digit \subseteq Char
  /\ Char \subseteq Nat
<1>1. Base \in Nat /\ Base >= 4 /\ Base * Base >= 4 * Base
  BY BaseAssumption
<1>2. Base * Base \in Nat
  BY <1>1
<1> QED
  BY <1>1, <1>2 DEF Percent, Plus, Space, Less, Greater, Ampersand, Quote, CR, LF, Upper, Lower,
     Digit, Char

-----------------------------------------------------------------------------
\* Escapes

\* What EscapedToString makes of an escape and of another byte, with what it makes of
\* the rest.
unescaped(s, f, i) == {<<c>> \o r : c \in scanHex(at(s, i + 1), at(s, i + 2)), r \in f[i + 3]}
asItIs(s, f, i) == {<<IF at(s, i) = Plus THEN Space ELSE at(s, i)>> \o r : r \in f[i + 1]}

\* The escapes are undone from the front.
LEMMA UnescapeFcn ==
  ASSUME NEW s, Len(s) \in Nat
  PROVE  \E f :
            /\ EscapedToString(s) = f[0]
            /\ f[Len(s)] = {<<>>}
            /\ \A i \in 0 .. Len(s) - 1 :
                  IF at(s, i) = Percent
                  THEN i < (Len(s) - 2) % SizeRange => f[i] = unescaped(s, f, i)
                  ELSE f[i] = asItIs(s, f, i)
<1> DEFINE n == Len(s)
           B(f, i) ==
             CASE i >= Len(s) -> {<<>>}
               [] i < Len(s) /\ at(s, i) = Percent ->
                    IF i < (Len(s) - 2) % SizeRange THEN unescaped(s, f, i) ELSE {<<>>}
               [] OTHER -> asItIs(s, f, i)
           From(f) == f = [i \in 0 .. n + 2 |-> B(f, i)]
           C == CHOOSE f : From(f)
<1>1. EscapedToString(s) = C[0]
  BY DEF EscapedToString, unescaped, asItIs
<1>2. ASSUME NEW f, NEW g, NEW i \in 0 .. n + 2, \A j \in i + 1 .. n + 2 : f[j] = g[j]
      PROVE  B(f, i) = B(g, i)
  <2>1. CASE i >= n
    BY <2>1
  <2>2. CASE i < n
    <3>1. f[i + 1] = g[i + 1] /\ f[i + 3] = g[i + 3]
      BY <1>2, <2>2
    <3> QED
      BY <2>2, <3>1 DEF unescaped, asItIs
  <2> QED
    BY <2>1, <2>2
<1>3. ASSUME NEW f, NEW i \in 0 .. n - 1
      PROVE  IF at(s, i) = Percent THEN i < (n - 2) % SizeRange => B(f, i) = unescaped(s, f, i)
             ELSE B(f, i) = asItIs(s, f, i)
  <2>1. i < n /\ ~ (i >= n)
    OBVIOUS
  <2> QED
    BY <2>1
<1>0. \A f : B(f, n) = {<<>>}
  OBVIOUS
<1> HIDE DEF B, n
<1>4. \E f : From(f)
  <2> DEFINE Fits(f, k) == /\ f = [i \in n + 3 - k .. n + 2 |-> f[i]]
                           /\ \A i \in n + 3 - k .. n + 2 : f[i] = B(f, i)
             T == {k \in Nat : k <= n + 3 => \E f : Fits(f, k)}
  <2>0. n \in Nat
    BY DEF n
  <2>1. \E f : Fits(f, 0)
    <3> DEFINE g == [i \in {} |-> 0]
    <3>1. n + 3 - 0 .. n + 2 = {}
      BY <2>0
    <3>2. Fits(g, 0)
      BY <3>1
    <3> QED
      BY <3>2
  <2>2. ASSUME NEW k \in Nat, k + 1 <= n + 3, NEW f, Fits(f, k)
        PROVE  \E g : Fits(g, k + 1)
    <3> DEFINE m == n + 2 - k
               g == [i \in m .. n + 2 |-> IF i = m THEN B(f, m) ELSE f[i]]
    <3>1. /\ m \in 0 .. n + 2 /\ n + 3 - k = m + 1 /\ n + 3 - (k + 1) = m
      BY <2>0, <2>2
    <3>2. \A i \in m + 1 .. n + 2 : g[i] = f[i]
      BY <2>0, <3>1
    <3>3. g[m] = B(f, m)
      BY <2>0, <3>1
    <3>4. g = [i \in m .. n + 2 |-> g[i]]
      OBVIOUS
    <3>5. \A i \in m + 1 .. n + 2 : f[i] = B(f, i)
      BY <2>2, <3>1
    <3> HIDE DEF m, g
    <3>6. ASSUME NEW i \in m .. n + 2 PROVE g[i] = B(g, i)
      <4>1. i \in 0 .. n + 2 /\ \A j \in i + 1 .. n + 2 : j \in m + 1 .. n + 2
        BY <2>0, <3>1
      <4>2. B(f, i) = B(g, i)
        BY <1>2, <3>2, <4>1
      <4>3. i = m \/ i \in m + 1 .. n + 2
        BY <2>0, <3>1
      <4> QED
        BY <3>2, <3>3, <3>5, <4>2, <4>3
    <3>7. Fits(g, k + 1)
      BY <3>1, <3>4, <3>6
    <3> QED
      BY <3>7
  <2> HIDE DEF Fits
  <2>3. T = Nat
    <3>1. 0 \in T
      BY <2>1
    <3>2. \A k \in T : k + 1 \in T
      BY <2>0, <2>2
    <3>3. T \in SUBSET Nat
      OBVIOUS
    <3> HIDE DEF T
    <3> QED
      BY <3>1, <3>2, <3>3, Induction
  <2>4. n + 3 \in T /\ n + 3 <= n + 3
    <3> HIDE DEF T
    <3> QED
      BY <2>0, <2>3
  <2>5. PICK f : Fits(f, n + 3)
    BY <2>4
  <2>6. n + 3 - (n + 3) = 0
    BY <2>0
  <2>7. /\ f = [i \in 0 .. n + 2 |-> f[i]]
        /\ \A i \in 0 .. n + 2 : f[i] = B(f, i)
    BY <2>5, <2>6 DEF Fits
  <2>8. From(f)
    BY <2>7
  <2> QED
    BY <2>8
<1>5. From(C)
  BY <1>4
<1> HIDE DEF C
<1>6. \A i \in 0 .. n + 2 : C[i] = B(C, i)
  BY <1>5
<1>7. C[n] = {<<>>}
  BY <1>0, <1>6 DEF n
<1>8. ASSUME NEW i \in 0 .. n - 1
      PROVE  IF at(s, i) = Percent THEN i < (n - 2) % SizeRange => C[i] = unescaped(s, C, i)
             ELSE C[i] = asItIs(s, C, i)
  <2>1. C[i] = B(C, i)
    BY <1>6 DEF n
  <2> QED
    BY <1>3, <2>1
<1>9. C[Len(s)] = {<<>>}
  BY <1>7 DEF n
<1> QED
  BY <1>1, <1>8, <1>9 DEF n

\* What stands for c in an escaped text: c, or a plus for a space, or its digits.
Stands(p, c) ==
  \/ c \notin {Percent, Plus} /\ p = <<c>>
  \/ c = Space /\ p = <<Plus>>
  \/ p = <<Percent, c \div Base, c % Base>>

LEMMA StandsSize ==
  ASSUME NEW p, NEW c, Stands(p, c)
  PROVE  Len(p) \in {1, 3}
BY DEF Stands

LEMMA ScanDigits ==
  ASSUME NEW a \in Digit, NEW b \in Digit
  PROVE  scanHex(a, b) = {a * Base + b}
<1>1. a \notin {Space, CR, LF, Plus}
  BY BaseAssumption DEF Digit, Space, CR, LF, Plus
<1> QED
  BY <1>1 DEF scanHex

LEMMA Undone ==
  ASSUME NEW s \in Seq(Char), 3 * Len(s) <= SizeRange,
         NEW e \in Seq(Seq(Char)), Len(e) = Len(s),
         \A i \in 1 .. Len(s) : Stands(e[i], s[i])
  PROVE  EscapedToString(FlattenSeq(e)) = {s}
<1> DEFINE n == Len(s)
           t == FlattenSeq(e)
<1>1. n \in Nat /\ \A i \in 1 .. n : s[i] \in Char
  OBVIOUS
<1>2. PICK P \in [0 .. n -> Nat] :
         /\ t \in Seq(Char)
         /\ P[0] = 0
         /\ P[n] = Len(t)
         /\ \A i \in 1 .. n :
               /\ P[i] = P[i - 1] + Len(e[i]) /\ P[i] <= Len(t)
               /\ \A j \in 1 .. Len(e[i]) : t[P[i - 1] + j] = e[i][j]
  <2>1. t \in Seq(Char) /\ \E P : PlacesOf(P, e, t)
    BY PlacesExist
  <2>2. PICK P : PlacesOf(P, e, t)
    BY <2>1
  <2>3. Len(e) = n
    OBVIOUS
  <2> HIDE DEF t, n
  <2>4. /\ P \in [0 .. n -> Nat]
        /\ P[0] = 0
        /\ P[n] = Len(t)
        /\ \A i \in 1 .. n :
              /\ P[i] = P[i - 1] + Len(e[i]) /\ P[i] <= Len(t)
              /\ \A j \in 1 .. Len(e[i]) : t[P[i - 1] + j] = e[i][j]
    BY <2>2, <2>3 DEF PlacesOf
  <2> QED
    BY <2>1, <2>4
<1>3. Len(t) \in Nat
  BY <1>2
<1> HIDE DEF t, n
<1>4. PICK f :
         /\ EscapedToString(t) = f[0]
         /\ f[Len(t)] = {<<>>}
         /\ \A i \in 0 .. Len(t) - 1 :
               IF at(t, i) = Percent
               THEN i < (Len(t) - 2) % SizeRange => f[i] = unescaped(t, f, i)
               ELSE f[i] = asItIs(t, f, i)
  BY <1>3, UnescapeFcn
<1>5. Len(t) <= SizeRange
  <2> DEFINE T == {k \in Nat : k <= n => P[k] <= 3 * k}
  <2>0. ASSUME NEW i \in 1 .. n PROVE P[i] \in Nat /\ P[i] <= P[i - 1] + 3
    <3>1. Len(e[i]) \in {1, 3}
      BY StandsSize DEF n
    <3>2. P[i] = P[i - 1] + Len(e[i]) /\ i \in 0 .. n /\ i - 1 \in 0 .. n
      BY <1>1, <1>2
    <3>3. PICK a \in Nat, b \in Nat, l \in {1, 3} : P[i] = a /\ P[i - 1] = b /\ Len(e[i]) = l
      BY <3>1, <3>2
    <3>4. a = b + l
      BY <3>2, <3>3
    <3>5. a <= b + 3
      BY <3>4
    <3> QED
      BY <3>3, <3>5
  <2>1. 0 \in T
    BY <1>2
  <2>2. ASSUME NEW k \in T PROVE k + 1 \in T
    <3> SUFFICES ASSUME k + 1 <= n PROVE P[k + 1] <= 3 * (k + 1)
      OBVIOUS
    <3>1. k + 1 \in 1 .. n /\ k + 1 - 1 = k /\ P[k] <= 3 * k /\ P[k] \in Nat
      BY <1>1, <1>2
    <3>2. P[k + 1] <= P[k] + 3
      BY <2>0, <3>1
    <3> QED
      BY <3>1, <3>2
  <2>3. T \in SUBSET Nat
    OBVIOUS
  <2>4. n \in T
    <3> HIDE DEF T
    <3> QED
      BY <1>1, <2>1, <2>2, <2>3, Induction
  <2> QED
    BY <1>1, <1>2, <1>3, <2>4, SizeRangeAssumption DEF n
<1>6. ASSUME NEW m \in 1 .. n, f[P[m]] = {SubSeq(s, m + 1, n)}
      PROVE  f[P[m - 1]] = {SubSeq(s, m, n)}
  <2> DEFINE c == s[m]
             p == P[m - 1]
             r == SubSeq(s, m + 1, n)
  <2>1. <<c>> \o r = SubSeq(s, m, n)
    BY FirstAndRest DEF n
  <2>2. c \in Char /\ Stands(e[m], c)
    BY <1>1 DEF n
  <2>3. /\ p \in Nat /\ P[m] = p + Len(e[m]) /\ P[m] <= Len(t)
        /\ \A j \in 1 .. Len(e[m]) : t[p + j] = e[m][j]
    <3>1. p \in Nat
      <4>1. m - 1 \in 0 .. n
        BY <1>1
      <4> QED
        BY <4>1
    <3>2. /\ P[m] = P[m - 1] + Len(e[m]) /\ P[m] <= Len(t)
          /\ \A j \in 1 .. Len(e[m]) : t[P[m - 1] + j] = e[m][j]
      BY <1>2
    <3> QED
      BY <3>1, <3>2
  <2> HIDE DEF c, p, r
  <2>4. \A j \in 1 .. Len(e[m]) : Len(e[m]) \in Nat => at(t, p + (j - 1)) = e[m][j]
    BY <1>3, <2>3 DEF at
  <2>5. CASE \/ c \notin {Percent, Plus} /\ e[m] = <<c>>
             \/ c = Space /\ e[m] = <<Plus>>
    <3>1. Len(e[m]) = 1 /\ e[m][1] = (IF e[m] = <<Plus>> THEN Plus ELSE c)
      <4>1. \A x : Len(<<x>>) = 1 /\ <<x>>[1] = x
        OBVIOUS
      <4> QED
        BY <2>5, <4>1
    <3>2. /\ p \in 0 .. Len(t) - 1 /\ P[m] = p + 1 /\ at(t, p) = e[m][1]
      BY <1>3, <2>3, <2>4, <3>1
    <3>3. at(t, p) # Percent /\ (IF at(t, p) = Plus THEN Space ELSE at(t, p)) = c
      <4>1. Plus # Percent /\ Plus # Space
        BY BaseAssumption DEF Percent, Plus, Space
      <4>2. CASE c \notin {Percent, Plus} /\ e[m] = <<c>>
        <5>1. e[m][1] = c
          BY <4>2
        <5> QED
          BY <3>2, <4>2, <5>1
      <4>3. CASE c = Space /\ e[m] = <<Plus>>
        <5>1. e[m][1] = Plus
          BY <4>3
        <5> QED
          BY <3>2, <4>1, <4>3, <5>1
      <4> QED
        BY <2>5, <4>2, <4>3
    <3>4. f[p] = asItIs(t, f, p)
      BY <1>4, <3>2, <3>3
    <3>5. f[p] = {<<c>> \o q : q \in {r}}
      BY <1>6, <3>2, <3>3, <3>4 DEF asItIs, r, p
    <3> QED
      BY <2>1, <3>5 DEF p, r
  <2>6. CASE e[m] = <<Percent, c \div Base, c % Base>>
    <3>1. Len(e[m]) = 3 /\ e[m][1] = Percent /\ e[m][2] = c \div Base /\ e[m][3] = c % Base
      BY <2>6
    <3>2. /\ p \in 0 .. Len(t) - 3 /\ P[m] = p + 3
          /\ at(t, p) = Percent /\ at(t, p + 1) = c \div Base /\ at(t, p + 2) = c % Base
      BY <1>3, <2>3, <2>4, <3>1
    <3>3. scanHex(at(t, p + 1), at(t, p + 2)) = {c}
      <4>1. PICK hi \in Digit, lo \in Digit :
               hi = c \div Base /\ lo = c % Base /\ hi * Base + lo = c
        BY <2>2, CharDigits
      <4>2. scanHex(hi, lo) = {c}
        BY <4>1, ScanDigits
      <4> QED
        BY <3>2, <4>1, <4>2
    <3>4. p < (Len(t) - 2) % SizeRange
      <4>1. Len(t) - 2 \in Nat /\ Len(t) - 2 < SizeRange /\ p < Len(t) - 2
        BY <1>3, <1>5, <3>2, SizeRangeAssumption
      <4> QED
        BY <4>1, SmallRemainder, SizeRangeAssumption
    <3>5. f[p] = unescaped(t, f, p)
      BY <1>3, <1>4, <3>2, <3>4
    <3>6. f[p + 3] = {r}
      BY <1>6, <3>2 DEF r
    <3>7. unescaped(t, f, p) = {<<c>> \o r}
      <4> DEFINE C == scanHex(at(t, p + 1), at(t, p + 2))
                 R == f[p + 3]
      <4>1. C = {c} /\ R = {r}
        BY <3>3, <3>6
      <4>2. unescaped(t, f, p) = {<<d>> \o q : d \in C, q \in R}
        BY DEF unescaped
      <4> HIDE DEF C, R
      <4>3. {<<d>> \o q : d \in {c}, q \in {r}} = {<<c>> \o r}
        OBVIOUS
      <4> QED
        BY <4>1, <4>2, <4>3
    <3>8. f[p] = {<<c>> \o r}
      BY <3>5, <3>7
    <3> QED
      BY <2>1, <3>8 DEF p, r
  <2> QED
    BY <2>2, <2>5, <2>6 DEF Stands
<1>7. f[P[0]] = {SubSeq(s, 1, n)}
  <2> DEFINE T == {k \in Nat : k <= n => f[P[n - k]] = {SubSeq(s, n - k + 1, n)}}
  <2>1. 0 \in T
    <3>1. SubSeq(s, n + 1, n) = <<>> /\ n - 0 = n /\ n - 0 + 1 = n + 1
      BY <1>1 DEF n
    <3> QED
      BY <1>2, <1>4, <3>1
  <2>2. ASSUME NEW k \in T PROVE k + 1 \in T
    <3> SUFFICES ASSUME k + 1 <= n
                 PROVE  f[P[n - (k + 1)]] = {SubSeq(s, n - (k + 1) + 1, n)}
      OBVIOUS
    <3>1. n - k \in 1 .. n /\ n - k - 1 = n - (k + 1) /\ n - (k + 1) + 1 = n - k
      BY <1>1
    <3>2. f[P[n - k]] = {SubSeq(s, n - k + 1, n)}
      <4>1. k <= n
        BY <1>1
      <4> QED
        BY <4>1
    <3> DEFINE m == n - k
    <3>3. m \in 1 .. n /\ m - 1 = n - (k + 1) /\ m = n - (k + 1) + 1
      BY <3>1
    <3>4. f[P[m]] = {SubSeq(s, m + 1, n)}
      BY <3>2
    <3> HIDE DEF m
    <3>5. f[P[m - 1]] = {SubSeq(s, m, n)}
      BY <1>6, <3>3, <3>4
    <3> QED
      BY <3>3, <3>5
  <2>3. T \in SUBSET Nat
    OBVIOUS
  <2>4. n \in T
    <3> HIDE DEF T
    <3> QED
      BY <1>1, <2>1, <2>2, <2>3, Induction
  <2>5. n - n = 0 /\ n <= n
    BY <1>1
  <2>6. f[P[n - n]] = {SubSeq(s, n - n + 1, n)}
    BY <2>4, <2>5
  <2>7. n - n + 1 = 1
    BY <1>1
  <2> QED
    BY <2>5, <2>6, <2>7
<1>8. SubSeq(s, 1, n) = s
  BY DEF n
<1> QED
  BY <1>2, <1>4, <1>7, <1>8 DEF t

LEMMA OneAndTwo ==
  ASSUME NEW x \in Char, NEW y \in Char, NEW z \in Char
  PROVE  <<x>> \o <<y, z>> = <<x, y, z>>
<1>1. /\ <<x>> \in Seq(Char) /\ Len(<<x>>) = 1 /\ <<x>>[1] = x
      /\ <<y, z>> \in Seq(Char) /\ Len(<<y, z>>) = 2 /\ <<y, z>>[1] = y /\ <<y, z>>[2] = z
      /\ <<x, y, z>> \in Seq(Char) /\ Len(<<x, y, z>>) = 3
      /\ <<x, y, z>>[1] = x /\ <<x, y, z>>[2] = y /\ <<x, y, z>>[3] = z
  OBVIOUS
<1> DEFINE a == <<x>>
           b == <<y, z>>
           w == <<x, y, z>>
           d == a \o b
<1>2. /\ a \in Seq(Char) /\ Len(a) = 1 /\ a[1] = x
      /\ b \in Seq(Char) /\ Len(b) = 2 /\ b[1] = y /\ b[2] = z
      /\ w \in Seq(Char) /\ Len(w) = 3 /\ w[1] = x /\ w[2] = y /\ w[3] = z
  BY <1>1
<1> HIDE DEF a, b, w
<1>3. /\ d \in Seq(Char) /\ Len(d) = Len(a) + Len(b)
      /\ \A i \in 1 .. Len(a) + Len(b) : d[i] = IF i <= Len(a) THEN a[i] ELSE b[i - Len(a)]
  BY <1>2, ConcatProperties
<1> HIDE DEF d
<1>4. d \in Seq(Char) /\ Len(d) = 3 /\ d[1] = x /\ d[2] = y /\ d[3] = z
  BY <1>2, <1>3
<1>5. Len(d) = Len(w) /\ \A i \in 1 .. Len(d) : d[i] = w[i]
  BY <1>2, <1>4
<1>6. d = w
  BY <1>2, <1>4, <1>5, SeqEqual
<1> QED
  BY <1>6 DEF a, b, w, d

\* Escapes are undone, and nothing else can be read from them.
THEOREM EscapesUndone ==
  ASSUME NEW s \in Seq(Char), 3 * Len(s) <= SizeRange
  PROVE  /\ EscapedToString(StringToEscaped(s)) = {s}
         /\ EscapedToString(StringToEscapedStrict(s)) = {s}
<1>1. DOMAIN s = 1 .. Len(s) /\ Len(s) \in Nat /\ \A i \in 1 .. Len(s) : s[i] \in Char
  OBVIOUS
<1>2. ASSUME NEW c \in Char
      PROVE  /\ <<Percent>> \o digits(c) = <<Percent, c \div Base, c % Base>>
             /\ <<Percent, c \div Base, c % Base>> \in Seq(Char)
             /\ <<c>> \in Seq(Char) /\ <<Plus>> \in Seq(Char)
             /\ c \in Unreserved => c \notin {Percent, Plus}
  <2>1. c \div Base \in Char /\ c % Base \in Char /\ Percent \in Char /\ Plus \in Char
    BY CharDigits, Characters
  <2>2. c \in Unreserved => c \notin {Percent, Plus}
    BY BaseAssumption DEF Unreserved, Digit, Upper, Lower, Percent, Plus
  <2>3. <<Percent>> \o digits(c) = <<Percent, c \div Base, c % Base>>
    BY <2>1, OneAndTwo DEF digits
  <2> QED
    BY <2>1, <2>2, <2>3
<1>3. EscapedToString(StringToEscaped(s)) = {s}
  <2> DEFINE piece(c) ==
               CASE c \in Unreserved -> <<c>>
                 [] c = Space -> <<Plus>>
                 [] OTHER -> <<Percent>> \o digits(c)
             e == [i \in DOMAIN s |-> piece(s[i])]
  <2>1. StringToEscaped(s) = FlattenSeq(e)
    BY DEF StringToEscaped
  <2>2. ASSUME NEW c \in Char PROVE piece(c) \in Seq(Char) /\ Stands(piece(c), c)
    <3>1. CASE c \in Unreserved
      BY <1>2, <3>1, BaseAssumption DEF Stands, Unreserved, Digit, Space, Upper, Lower
    <3>2. CASE c \notin Unreserved /\ c = Space
      BY <1>2, <3>2 DEF Stands
    <3>3. CASE c \notin Unreserved /\ c # Space
      BY <1>2, <3>3 DEF Stands
    <3> QED
      BY <3>1, <3>2, <3>3
  <2> HIDE DEF piece
  <2>3. e \in Seq(Seq(Char)) /\ Len(e) = Len(s) /\ \A i \in 1 .. Len(s) : e[i] = piece(s[i])
    BY <1>1, <2>2
  <2> HIDE DEF e
  <2>4. \A i \in 1 .. Len(s) : Stands(e[i], s[i])
    BY <1>1, <2>2, <2>3
  <2> QED
    BY <2>1, <2>3, <2>4, Undone
<1>4. EscapedToString(StringToEscapedStrict(s)) = {s}
  <2> DEFINE piece(c) ==
               IF c \in Unreserved THEN <<c>> ELSE <<Percent>> \o digits(c)
             e == [i \in DOMAIN s |-> piece(s[i])]
  <2>1. StringToEscapedStrict(s) = FlattenSeq(e)
    BY DEF StringToEscapedStrict
  <2>2. ASSUME NEW c \in Char PROVE piece(c) \in Seq(Char) /\ Stands(piece(c), c)
    BY <1>2 DEF Stands
  <2> HIDE DEF piece
  <2>3. e \in Seq(Seq(Char)) /\ Len(e) = Len(s) /\ \A i \in 1 .. Len(s) : e[i] = piece(s[i])
    BY <1>1, <2>2
  <2> HIDE DEF e
  <2>4. \A i \in 1 .. Len(s) : Stands(e[i], s[i])
    BY <1>1, <2>2, <2>3
  <2> QED
    BY <2>1, <2>3, <2>4, Undone
<1> QED
  BY <1>3, <1>4

-----------------------------------------------------------------------------
\* Info hashes

\* The digits of the i-th byte are the i-th two.
LEMMA HashDigits ==
  ASSUME NEW s \in Seq(Char)
  PROVE  /\ Len(HashToString(s)) = 2 * Len(s)
         /\ \A i \in 1 .. Len(s) : /\ HashToString(s)[2 * i - 1] = s[i] \div Base
                                   /\ HashToString(s)[2 * i] = s[i] % Base
<1> DEFINE n == Len(s)
           e == [i \in DOMAIN s |-> digits(s[i])]
           t == HashToString(s)
<1>1. n \in Nat /\ DOMAIN s = 1 .. n /\ \A i \in 1 .. n : s[i] \in Char
  OBVIOUS
<1>2. ASSUME NEW c \in Char
      PROVE  /\ digits(c) \in Seq(Char) /\ Len(digits(c)) = 2
             /\ digits(c)[1] = c \div Base /\ digits(c)[2] = c % Base
  <2>1. c \div Base \in Char /\ c % Base \in Char
    BY CharDigits, Characters
  <2> QED
    BY <2>1 DEF digits
<1>3. e \in Seq(Seq(Char)) /\ Len(e) = n /\ \A i \in 1 .. n : e[i] = digits(s[i])
  BY <1>1, <1>2
<1>4. t = FlattenSeq(e)
  BY DEF HashToString
<1> HIDE DEF e, t, n
<1>5. PICK P \in [0 .. n -> Nat] :
         /\ P[0] = 0
         /\ P[n] = Len(t)
         /\ \A i \in 1 .. n :
               /\ P[i] = P[i - 1] + Len(e[i])
               /\ \A j \in 1 .. Len(e[i]) : t[P[i - 1] + j] = e[i][j]
  <2>1. e \in Seq(Seq(Char))
    BY <1>3
  <2>2. \E P : PlacesOf(P, e, FlattenSeq(e))
    BY <2>1, PlacesExist
  <2>3. PICK P : PlacesOf(P, e, t)
    BY <1>4, <2>2
  <2>4. Len(e) = n
    BY <1>3
  <2>5. /\ P \in [0 .. n -> Nat]
        /\ P[0] = 0
        /\ P[n] = Len(t)
        /\ \A i \in 1 .. n :
              /\ P[i] = P[i - 1] + Len(e[i]) /\ P[i] <= Len(t)
              /\ \A j \in 1 .. Len(e[i]) : t[P[i - 1] + j] = e[i][j]
    BY <2>3, <2>4 DEF PlacesOf
  <2> QED
    BY <2>5
<1>6. ASSUME NEW i \in 1 .. n
      PROVE  Len(e[i]) = 2 /\ e[i][1] = s[i] \div Base /\ e[i][2] = s[i] % Base
  BY <1>1, <1>2, <1>3
<1> DEFINE T == {k \in Nat : k <= n => P[k] = 2 * k}
<1>7. T = Nat
  <2>1. 0 \in T
    BY <1>5
  <2>2. ASSUME NEW k \in T PROVE k + 1 \in T
    <3> SUFFICES ASSUME k + 1 <= n PROVE P[k + 1] = 2 * (k + 1)
      OBVIOUS
    <3>1. k + 1 \in 1 .. n /\ k + 1 - 1 = k /\ P[k] = 2 * k
      BY <1>1
    <3> DEFINE i == k + 1
    <3>2. i \in 1 .. n /\ i - 1 = k
      BY <3>1
    <3> HIDE DEF i
    <3>3. P[i] = P[k] + 2
      BY <1>5, <1>6, <3>2
    <3> QED
      BY <3>1, <3>3 DEF i
  <2>3. T \in SUBSET Nat
    OBVIOUS
  <2> HIDE DEF T
  <2> QED
    BY <2>1, <2>2, <2>3, Induction
<1>8. ASSUME NEW k \in 0 .. n PROVE P[k] = 2 * k
  <2>1. k \in T /\ k <= n
    <3> HIDE DEF T
    <3> QED
      BY <1>1, <1>7
  <2> QED
    BY <2>1
<1>9. Len(t) = 2 * n
  BY <1>1, <1>5, <1>8
<1>10. ASSUME NEW i \in 1 .. n
       PROVE  t[2 * i - 1] = s[i] \div Base /\ t[2 * i] = s[i] % Base
  <2>1. i - 1 \in 0 .. n /\ P[i - 1] = 2 * (i - 1)
    BY <1>1, <1>8
  <2>2. t[P[i - 1] + 1] = e[i][1] /\ t[P[i - 1] + 2] = e[i][2]
    <3>1. \A j \in 1 .. 2 : t[P[i - 1] + j] = e[i][j]
      BY <1>5, <1>6
    <3> QED
      BY <3>1
  <2>3. 2 * (i - 1) + 1 = 2 * i - 1 /\ 2 * (i - 1) + 2 = 2 * i
    OBVIOUS
  <2> QED
    BY <1>6, <2>1, <2>2, <2>3
<1> QED
  BY <1>9, <1>10 DEF t, n

LEMMA HashesReadBack ==
  ASSUME NEW s \in Seq(Char), Len(s) = HashSize
  PROVE  StringToHash(HashToString(s)) = {s}
<1> DEFINE t == HashToString(s)
<1>1. s \in [1 .. HashSize -> Char] /\ HashSize \in Nat
  BY HashSizeAssumption
<1>2. Len(t) = 2 * HashSize
  BY HashDigits
<1>3. ASSUME NEW i \in 1 .. HashSize PROVE scanHex(t[2 * i - 1], t[2 * i]) = {s[i]}
  <2>1. PICK hi \in Digit, lo \in Digit : hi = s[i] \div Base /\ lo = s[i] % Base
                                         /\ hi * Base + lo = s[i]
    BY <1>1, CharDigits
  <2>2. t[2 * i - 1] = hi /\ t[2 * i] = lo
    BY <2>1, HashDigits
  <2>3. scanHex(hi, lo) = {s[i]}
    BY <2>1, ScanDigits
  <2> QED
    BY <2>2, <2>3
<1>4. StringToHash(t)
        = {h \in [1 .. HashSize -> Char] :
             \A i \in 1 .. HashSize : h[i] \in scanHex(t[2 * i - 1], t[2 * i])}
  BY <1>2 DEF StringToHash
<1> HIDE DEF t
<1>5. ASSUME NEW h \in [1 .. HashSize -> Char]
      PROVE  (\A i \in 1 .. HashSize : h[i] \in scanHex(t[2 * i - 1], t[2 * i])) <=> h = s
  <2>1. (\A i \in 1 .. HashSize : h[i] \in scanHex(t[2 * i - 1], t[2 * i]))
          <=> \A i \in 1 .. HashSize : h[i] = s[i]
    BY <1>3
  <2>2. (\A i \in 1 .. HashSize : h[i] = s[i]) <=> h = s
    BY <1>1
  <2> QED
    BY <2>1, <2>2
<1>6. StringToHash(t) = {s}
  BY <1>1, <1>4, <1>5
<1> QED
  BY <1>6 DEF t

-----------------------------------------------------------------------------
\* HTML

\* What a page shows for the byte at i: nothing for a carriage return before a line feed.
asHTML(s, i) ==
  CASE s[i] \in Markup -> entity(s[i])
    [] s[i] = LF -> Br
    [] s[i] = CR /\ at(s, i) = LF -> <<>>
    [] OTHER -> <<s[i]>>

LEMMA Apart ==
  /\ LF \notin Markup /\ CR \notin Markup /\ CR # LF
  /\ Ampersand # Less /\ Less \in Markup /\ Ampersand \in Markup
  /\ Markup \subseteq Nat \ {0} /\ LF \in Nat \ {0} /\ CR \in Nat \ {0}
  /\ Less \in Nat /\ Ampersand \in Nat /\ Greater \in Nat
BY BaseAssumption DEF Markup, Less, Greater, Ampersand, Quote, CR, LF

LEMMA Entities ==
  ASSUME NEW c \in Markup
  PROVE  /\ entity(c) \in Seq(Int) /\ Len(entity(c)) = 2
         /\ entity(c)[1] = Ampersand /\ entity(c)[2] < Terminator /\ entity(c)[2] \in Int
         /\ Terminator - entity(c)[2] = c
<1>1. c \in Nat /\ c > 0 /\ Ampersand \in Nat
  BY Apart
<1> QED
  BY <1>1 DEF entity, Terminator

LEMMA Brs == Br \in Seq(Int) /\ Len(Br) = 3 /\ Br[1] = Less /\ Br[2] = Terminator /\ Br[3] = Greater
<1>1. Less \in Int /\ Greater \in Int /\ Terminator \in Int
  BY Apart DEF Terminator
<1> QED
  BY <1>1 DEF Br

LEMMA Shown ==
  ASSUME NEW s \in Seq(Char), NEW i \in 1 .. Len(s)
  PROVE  /\ asHTML(s, i) \in Seq(Int)
         /\ s[i] \in Markup => asHTML(s, i) = entity(s[i])
         /\ s[i] = LF => asHTML(s, i) = Br
         /\ s[i] = CR /\ at(s, i) = LF => asHTML(s, i) = <<>>
         /\ s[i] \notin Markup \cup {LF} /\ ~ (s[i] = CR /\ at(s, i) = LF)
              => asHTML(s, i) = <<s[i]>>
         /\ s[i] # CR => asHTML(s, i) # <<>> /\ Last(asHTML(s, i)) # CR
<1> DEFINE c == s[i]
<1>1. c \in Nat
  <2>1. c \in Char
    OBVIOUS
  <2> QED
    BY <2>1, Characters
<1> HIDE DEF c
<1>2. <<c>> \in Seq(Int) /\ Len(<<c>>) = 1 /\ <<c>>[1] = c /\ <<>> \in Seq(Int) /\ Len(<<>>) = 0
  BY <1>1
<1>3. CASE c \in Markup
  <2>1. asHTML(s, i) = entity(c) /\ c # LF /\ c # CR
    BY <1>3, Apart DEF asHTML, c
  <2>2. Terminator < CR /\ CR \in Nat /\ Terminator \in Int
    BY Apart DEF Terminator
  <2>3. Last(entity(c)) = entity(c)[2] /\ entity(c) # <<>>
    BY <1>2, <1>3, Entities DEF Last
  <2>4. Last(entity(c)) # CR
    BY <1>3, <2>2, <2>3, Entities
  <2> QED
    BY <1>3, <2>1, <2>3, <2>4, Entities DEF c
<1>4. CASE c = LF
  <2>1. asHTML(s, i) = Br /\ c \notin Markup /\ c # CR
    BY <1>4, Apart DEF asHTML, c
  <2>2. Last(Br) = Greater /\ Br # <<>> /\ Greater # CR
    <3>1. Greater # CR
      BY BaseAssumption DEF Greater, CR
    <3> QED
      BY Brs, <1>2, <3>1 DEF Last
  <2> QED
    BY <1>4, <2>1, <2>2, Brs DEF c
<1>5. CASE c = CR /\ at(s, i) = LF
  <2>1. asHTML(s, i) = <<>> /\ c \notin Markup /\ c # LF
    BY <1>5, Apart DEF asHTML, c
  <2> QED
    BY <1>2, <1>5, <2>1 DEF c
<1>6. CASE c \notin Markup \cup {LF} /\ ~ (c = CR /\ at(s, i) = LF)
  <2>1. asHTML(s, i) = <<c>>
    BY <1>6 DEF asHTML, c
  <2>2. Last(<<c>>) = c /\ <<c>> # <<>>
    BY <1>2 DEF Last
  <2> QED
    BY <1>2, <1>6, <2>1, <2>2 DEF c
<1> QED
  BY <1>3, <1>4, <1>5, <1>6

\* A page shows each byte of the text in its turn.
LEMMA ShownInTurn ==
  ASSUME NEW s \in Seq(Char)
  PROVE  RemoveHTML(s) = FlattenSeq([i \in DOMAIN s |-> asHTML(s, i)])
<1> DEFINE n == Len(s)
           e == [i \in DOMAIN s |-> asHTML(s, i)]
           made(H) == H = [k \in 0 .. n |-> IF k = 0 THEN <<>> ELSE withByte(H[k - 1], s[k])]
           C == CHOOSE H : made(H)
           cat(a, b) == a \o b
<1>1. n \in Nat /\ DOMAIN s = 1 .. n /\ \A i \in 1 .. n : s[i] \in Char /\ s[i] \in Int
  <2>1. Len(s) \in Nat /\ DOMAIN s = 1 .. Len(s) /\ \A i \in 1 .. Len(s) : s[i] \in Char
    OBVIOUS
  <2>2. \A c \in Char : c \in Int
    BY Characters
  <2> QED
    BY <2>1, <2>2
<1>2. e \in Seq(Seq(Int)) /\ Len(e) = n /\ \A i \in 1 .. n : e[i] = asHTML(s, i)
  BY <1>1, Shown
<1>3. RemoveHTML(s) = C[n]
  BY DEF RemoveHTML
<1>4. /\ at(s, n) = Terminator /\ Terminator # LF /\ CR \in Int
      /\ \A k \in 1 .. n : at(s, k - 1) = s[k]
  BY <1>1, Apart DEF at, Terminator
<1> HIDE DEF e
<1>5. PICK R :
         /\ R \in [0 .. n -> Seq(Int)]
         /\ R[0] = <<>>
         /\ \A i \in 1 .. n : R[i] = cat(R[i - 1], e[i])
         /\ FlattenSeq(e) = R[n]
  <2>1. PICK R \in [0 .. Len(e) -> Seq(Int)] :
           /\ R[0] = <<>>
           /\ \A i \in 1 .. Len(e) : R[i] = cat(R[i - 1], e[i])
           /\ FlattenSeq(e) = R[Len(e)]
    BY <1>2, Beginnings
  <2>2. Len(e) = n
    BY <1>2
  <2> HIDE DEF n, cat
  <2> QED
    BY <2>1, <2>2
<1> DEFINE waits(k) == k # 0 /\ s[k] = CR /\ at(s, k) = LF
           G == [k \in 0 .. n |-> IF waits(k) THEN cat(R[k], <<CR>>) ELSE R[k]]
<1>6. \A k \in 0 .. n : G[k] = IF waits(k) THEN cat(R[k], <<CR>>) ELSE R[k]
  OBVIOUS
<1>7. G[0] = <<>> /\ G[n] = R[n]
  BY <1>1, <1>4, <1>5
<1>8. ASSUME NEW a \in Seq(Int), NEW x \in Int
      PROVE  /\ cat(a, <<x>>) # <<>> /\ Last(cat(a, <<x>>)) = x /\ Front(cat(a, <<x>>)) = a
             /\ Append(a, x) = cat(a, <<x>>) /\ cat(a, <<>>) = a
  <2>1. cat(a, <<>>) = a
    BY ConcatEmptySeq
  <2> QED
    BY <2>1, WithLast
<1>9. ASSUME NEW k \in 1 .. n, NEW m, m = k - 1
      PROVE  G[k] = withByte(G[m], s[k])
  <2> DEFINE c == s[k]
  <2>1. /\ k \in 0 .. n /\ m \in 0 .. n /\ k # 0 /\ at(s, m) = c /\ c \in Int
        /\ R[m] \in Seq(Int) /\ R[k] \in Seq(Int)
    <3>1. k \in 0 .. n /\ m \in 0 .. n /\ k # 0
      BY <1>1, <1>9
    <3>2. at(s, m) = c /\ c \in Int
      BY <1>1, <1>4, <1>9
    <3> QED
      BY <1>5, <3>1, <3>2
  <2>2. R[k] = cat(R[m], asHTML(s, k))
    BY <1>2, <1>5, <1>9
  <2>3. ~ waits(m) => G[m] = R[m]
    BY <1>6, <2>1
  <2>4. waits(m) => G[m] = cat(R[m], <<CR>>)
    BY <1>6, <2>1
  <2>5. ~ waits(k) => G[k] = R[k]
    BY <1>6, <2>1
  <2>6. waits(k) => G[k] = cat(R[k], <<CR>>)
    BY <1>6, <2>1
  <2>7. m = 0 \/ s[m] # CR => R[m] = <<>> \/ Last(R[m]) # CR
    <3>1. CASE m = 0
      BY <1>5, <3>1
    <3>2. CASE m # 0 /\ s[m] # CR
      <4>1. m \in 1 .. n /\ m - 1 \in 0 .. n
        BY <2>1, <3>2, <1>1
      <4>2. R[m - 1] \in Seq(Int) /\ R[m] = cat(R[m - 1], asHTML(s, m))
        BY <1>2, <1>5, <4>1
      <4>3. asHTML(s, m) \in Seq(Int) /\ asHTML(s, m) # <<>> /\ Last(asHTML(s, m)) # CR
        BY <3>2, <4>1, Shown
      <4> DEFINE a == R[m - 1]
                 b == asHTML(s, m)
      <4>4. a \in Seq(Int) /\ b \in Seq(Int) /\ b # <<>> /\ Last(b) # CR /\ R[m] = a \o b
        BY <4>2, <4>3
      <4> HIDE DEF a, b
      <4> QED
        BY <4>4, LastOf
    <3> QED
      BY <3>1, <3>2
  <2> HIDE DEF G, cat
  <2>8. CASE c \in Markup
    <3>1. ~ waits(m) /\ ~ waits(k)
      BY <2>1, <2>8, Apart
    <3>2. asHTML(s, k) = entity(c)
      BY <2>8, Shown
    <3>3. withByte(R[m], c) = cat(R[m], entity(c))
      BY <2>8, Apart DEF withByte, cat
    <3> QED
      BY <2>2, <2>3, <2>5, <3>1, <3>2, <3>3
  <2>9. CASE c = LF
    <3>1. ~ waits(k) /\ asHTML(s, k) = Br /\ c \notin Markup
      BY <2>9, Apart, Shown
    <3>2. CASE waits(m)
      <4>1. G[m] # <<>> /\ Last(G[m]) = CR /\ Front(G[m]) = R[m]
        BY <1>4, <1>8, <2>1, <2>4, <3>2
      <4>2. withByte(G[m], c) = cat(R[m], Br)
        BY <2>9, <3>1, <4>1 DEF withByte, cat
      <4> QED
        BY <2>2, <2>5, <3>1, <4>2
    <3>3. CASE ~ waits(m)
      <4>1. R[m] = <<>> \/ Last(R[m]) # CR
        BY <2>1, <2>7, <2>9, <3>3
      <4>2. withByte(R[m], c) = cat(R[m], Br)
        BY <2>9, <3>1, <4>1 DEF withByte, cat
      <4> QED
        BY <2>2, <2>3, <2>5, <3>1, <3>3, <4>2
    <3> QED
      BY <3>2, <3>3
  <2>10. CASE c \notin Markup \cup {LF}
    <3>1. ~ waits(m)
      BY <2>1, <2>10
    <3>2. withByte(R[m], c) = cat(R[m], <<c>>)
      <4>1. withByte(R[m], c) = Append(R[m], c)
        BY <2>10 DEF withByte
      <4> QED
        BY <1>8, <2>1, <4>1
    <3>3. CASE waits(k)
      <4>1. asHTML(s, k) = <<>> /\ c = CR
        BY <3>3, Shown
      <4>2. R[k] = R[m]
        BY <1>8, <2>1, <2>2, <4>1
      <4> QED
        BY <2>3, <2>6, <3>1, <3>2, <3>3, <4>1, <4>2
    <3>4. CASE ~ waits(k)
      <4>1. asHTML(s, k) = <<c>>
        BY <2>1, <2>10, <3>4, Shown
      <4> QED
        BY <2>2, <2>3, <2>5, <3>1, <3>2, <3>4, <4>1
    <3> QED
      BY <3>3, <3>4
  <2> QED
    BY <2>8, <2>9, <2>10
<1>10. made(G)
  <2>1. \A k \in 0 .. n : G[k] = IF k = 0 THEN <<>> ELSE withByte(G[k - 1], s[k])
    <3> SUFFICES ASSUME NEW k \in 0 .. n, k # 0 PROVE G[k] = withByte(G[k - 1], s[k])
      BY <1>7
    <3>1. k \in 1 .. n
      BY <1>1
    <3> QED
      BY <1>9, <3>1
  <2>2. G = [k \in 0 .. n |-> G[k]]
    OBVIOUS
  <2> HIDE DEF G
  <2> QED
    BY <2>1, <2>2
<1> HIDE DEF G
<1>11. made(C)
  BY <1>10
<1> HIDE DEF C
<1>12. C[0] = <<>> /\ \A k \in 1 .. n : C[k] = withByte(C[k - 1], s[k])
  BY <1>1, <1>11
<1> DEFINE T == {k \in Nat : k <= n => C[k] = G[k]}
<1>13. n \in T
  <2>1. 0 \in T
    BY <1>7, <1>12
  <2>2. ASSUME NEW k \in T PROVE k + 1 \in T
    <3> SUFFICES ASSUME k + 1 <= n PROVE C[k + 1] = G[k + 1]
      OBVIOUS
    <3> DEFINE i == k + 1
    <3>1. i \in 1 .. n /\ k = i - 1 /\ C[k] = G[k]
      BY <1>1
    <3> HIDE DEF i
    <3>2. G[i] = withByte(G[k], s[i]) /\ C[i] = withByte(C[k], s[i])
      BY <1>9, <1>12, <3>1
    <3> QED
      BY <3>1, <3>2 DEF i
  <2>3. T \in SUBSET Nat
    OBVIOUS
  <2> HIDE DEF T
  <2> QED
    BY <1>1, <2>1, <2>2, <2>3, Induction
<1>14. C[n] = R[n]
  BY <1>1, <1>7, <1>13
<1> QED
  BY <1>3, <1>5, <1>14 DEF e

\* A browser reads a page from the front: an entity, a tag, or another byte, which it
\* takes as it is.
LEMMA ReadFcn ==
  ASSUME NEW t \in Seq(Int)
  PROVE  \E f :
            /\ asRead(t) = f[0]
            /\ f[Len(t)] = <<>>
            /\ \A i \in 0 .. Len(t) - 1 :
                  /\ at(t, i) = Ampersand /\ at(t, i + 1) < Terminator =>
                        f[i] = <<Terminator - at(t, i + 1)>> \o f[i + 2]
                  /\ at(t, i) # Ampersand /\ i + 3 <= Len(t) /\ SubSeq(t, i + 1, i + 3) = Br =>
                        f[i] = <<LF>> \o f[i + 3]
                  /\ at(t, i) \notin {Ampersand, Less, Greater, Quote, LF} =>
                        f[i] = <<at(t, i)>> \o f[i + 1]
<1> DEFINE n == Len(t)
           named(i) == at(t, i) = Ampersand /\ at(t, i + 1) < Terminator
           broken(i) == i + 3 <= n /\ SubSeq(t, i + 1, i + 3) = Br
           B(f, i) ==
             CASE i >= n -> <<>>
               [] i < n /\ named(i) -> <<Terminator - at(t, i + 1)>> \o f[i + 2]
               [] broken(i) -> <<LF>> \o f[i + 3]
               [] OTHER -> <<IF at(t, i) \in {Less, Greater, Quote, LF} THEN Terminator
                             ELSE at(t, i)>> \o f[i + 1]
           From(f) == f = [i \in 0 .. n + 3 |-> B(f, i)]
           C == CHOOSE f : From(f)
<1>1. asRead(t) = C[0]
  BY DEF asRead
<1>n. n \in Nat
  OBVIOUS
<1> HIDE DEF n
<1>2. ASSUME NEW f, NEW g, NEW i \in 0 .. n + 3, \A j \in i + 1 .. n + 3 : f[j] = g[j]
      PROVE  B(f, i) = B(g, i)
  <2>1. CASE i >= n
    <3>1. ~ broken(i) /\ ~ (i < n)
      BY <1>n, <2>1
    <3> HIDE DEF named, broken
    <3> QED
      BY <2>1, <3>1
  <2>2. CASE i < n
    <3>1. f[i + 1] = g[i + 1] /\ f[i + 2] = g[i + 2] /\ f[i + 3] = g[i + 3]
      <4>1. i + 1 \in i + 1 .. n + 3 /\ i + 2 \in i + 1 .. n + 3 /\ i + 3 \in i + 1 .. n + 3
        BY <1>n, <2>2
      <4> QED
        BY <1>2, <4>1
    <3> HIDE DEF named, broken
    <3> QED
      BY <1>n, <2>2, <3>1
  <2>3. i >= n \/ i < n
    BY <1>n
  <2> HIDE DEF B
  <2> QED
    BY <2>1, <2>2, <2>3
<1>3. ASSUME NEW f, NEW i \in 0 .. n - 1
      PROVE  /\ named(i) => B(f, i) = <<Terminator - at(t, i + 1)>> \o f[i + 2]
             /\ at(t, i) # Ampersand /\ broken(i) => B(f, i) = <<LF>> \o f[i + 3]
             /\ at(t, i) \notin {Ampersand, Less, Greater, Quote, LF} =>
                   B(f, i) = <<at(t, i)>> \o f[i + 1]
  <2>1. i < n /\ ~ (i >= n) /\ at(t, i) = t[i + 1]
    BY <1>n DEF at, n
  <2>2. broken(i) => at(t, i) = Less
    <3> SUFFICES ASSUME broken(i) PROVE at(t, i) = Less
      OBVIOUS
    <3> DEFINE b == SubSeq(t, i + 1, i + 3)
    <3>1. i + 3 <= n /\ b = Br
      OBVIOUS
    <3>2. b[1] = t[i + 1]
      <4>1. i + 1 \in Int /\ i + 3 \in Int /\ \A j \in i + 1 .. i + 3 : t[j] \in Int
        BY <1>n, <3>1 DEF n
      <4>2. \A j \in 1 .. i + 3 - (i + 1) + 1 : b[j] = t[i + 1 + j - 1]
        BY <4>1, SubSeqProperties
      <4>3. 1 \in 1 .. i + 3 - (i + 1) + 1 /\ i + 1 + 1 - 1 = i + 1
        BY <1>n
      <4> QED
        BY <4>2, <4>3
    <3> QED
      BY <2>1, <3>1, <3>2, Brs
  <2>3. named(i) => ~ broken(i)
    BY <2>2, Apart
  <2> HIDE DEF broken
  <2>4. named(i) => at(t, i) = Ampersand
    OBVIOUS
  <2> HIDE DEF named
  <2> QED
    BY <2>1, <2>2, <2>3, <2>4
<1>0. \A f : B(f, n) = <<>>
  BY <1>n
<1> HIDE DEF B, named, broken
<1>4. \E f : From(f)
  <2> DEFINE Fits(f, k) == /\ f = [i \in n + 4 - k .. n + 3 |-> f[i]]
                           /\ \A i \in n + 4 - k .. n + 3 : f[i] = B(f, i)
             T == {k \in Nat : k <= n + 4 => \E f : Fits(f, k)}
  <2>1. \E f : Fits(f, 0)
    <3> DEFINE g == [i \in {} |-> 0]
    <3>1. n + 4 - 0 .. n + 3 = {}
      BY <1>n
    <3>2. Fits(g, 0)
      BY <3>1
    <3> QED
      BY <3>2
  <2>2. ASSUME NEW k \in Nat, k + 1 <= n + 4, NEW f, Fits(f, k)
        PROVE  \E g : Fits(g, k + 1)
    <3> DEFINE m == n + 3 - k
               g == [i \in m .. n + 3 |-> IF i = m THEN B(f, m) ELSE f[i]]
    <3>1. /\ m \in 0 .. n + 3 /\ n + 4 - k = m + 1 /\ n + 4 - (k + 1) = m
      BY <1>n, <2>2
    <3>2. \A i \in m + 1 .. n + 3 : g[i] = f[i]
      BY <1>n, <3>1
    <3>3. g[m] = B(f, m)
      BY <1>n, <3>1
    <3>4. g = [i \in m .. n + 3 |-> g[i]]
      OBVIOUS
    <3>5. \A i \in m + 1 .. n + 3 : f[i] = B(f, i)
      BY <2>2, <3>1
    <3> HIDE DEF m, g
    <3>6. ASSUME NEW i \in m .. n + 3 PROVE g[i] = B(g, i)
      <4>1. i \in 0 .. n + 3 /\ \A j \in i + 1 .. n + 3 : j \in m + 1 .. n + 3
        BY <1>n, <3>1
      <4>2. B(f, i) = B(g, i)
        BY <1>2, <3>2, <4>1
      <4>3. i = m \/ i \in m + 1 .. n + 3
        BY <1>n, <3>1
      <4> QED
        BY <3>2, <3>3, <3>5, <4>2, <4>3
    <3>7. Fits(g, k + 1)
      BY <3>1, <3>4, <3>6
    <3> QED
      BY <3>7
  <2> HIDE DEF Fits
  <2>3. T = Nat
    <3>1. 0 \in T
      BY <2>1
    <3>2. \A k \in T : k + 1 \in T
      BY <1>n, <2>2
    <3>3. T \in SUBSET Nat
      OBVIOUS
    <3> HIDE DEF T
    <3> QED
      BY <3>1, <3>2, <3>3, Induction
  <2>4. n + 4 \in T /\ n + 4 <= n + 4
    <3> HIDE DEF T
    <3> QED
      BY <1>n, <2>3
  <2>5. PICK f : Fits(f, n + 4)
    BY <2>4
  <2>6. n + 4 - (n + 4) = 0
    BY <1>n
  <2>7. /\ f = [i \in 0 .. n + 3 |-> f[i]]
        /\ \A i \in 0 .. n + 3 : f[i] = B(f, i)
    BY <2>5, <2>6 DEF Fits
  <2>8. From(f)
    BY <2>7
  <2> QED
    BY <2>8
<1>5. From(C)
  BY <1>4
<1> HIDE DEF C
<1>6. \A i \in 0 .. n + 3 : C[i] = B(C, i)
  BY <1>5
<1>7. C[n] = <<>>
  BY <1>0, <1>6, <1>n
<1>8. ASSUME NEW i \in 0 .. n - 1
      PROVE  /\ at(t, i) = Ampersand /\ at(t, i + 1) < Terminator =>
                   C[i] = <<Terminator - at(t, i + 1)>> \o C[i + 2]
             /\ at(t, i) # Ampersand /\ i + 3 <= n /\ SubSeq(t, i + 1, i + 3) = Br =>
                   C[i] = <<LF>> \o C[i + 3]
             /\ at(t, i) \notin {Ampersand, Less, Greater, Quote, LF} =>
                   C[i] = <<at(t, i)>> \o C[i + 1]
  <2>1. i \in 0 .. n + 3
    BY <1>n
  <2>2. C[i] = B(C, i)
    BY <1>6, <2>1
  <2> QED
    BY <1>3, <2>2 DEF named, broken
<1> QED
  BY <1>1, <1>7, <1>8 DEF n

LEMMA Associative ==
  ASSUME NEW a \in Seq(Int), NEW b \in Seq(Int), NEW d \in Seq(Int)
  PROVE  (a \o b) \o d = a \o (b \o d)
BY ConcatAssociative

\* A text is read as it was, with a line feed for each of its line breaks.
LEMMA NamesReadBack ==
  ASSUME NEW s \in Seq(Char)
  PROVE  asRead(RemoveHTML(s)) = oneBreak(s)
<1> DEFINE n == Len(s)
           e == [i \in DOMAIN s |-> asHTML(s, i)]
           back == [i \in DOMAIN s |-> IF s[i] = CR /\ at(s, i) = LF THEN <<>> ELSE <<s[i]>>]
           t == FlattenSeq(e)
           cat(a, b) == a \o b
<1>1. n \in Nat /\ DOMAIN s = 1 .. n /\ \A i \in 1 .. n : s[i] \in Char /\ s[i] \in Int
  <2>1. Len(s) \in Nat /\ DOMAIN s = 1 .. Len(s) /\ \A i \in 1 .. Len(s) : s[i] \in Char
    OBVIOUS
  <2>2. \A c \in Char : c \in Int
    BY Characters
  <2> QED
    BY <2>1, <2>2
<1>2. e \in Seq(Seq(Int)) /\ Len(e) = n /\ \A i \in 1 .. n : e[i] = asHTML(s, i)
  BY <1>1, Shown
<1>3. back \in Seq(Seq(Int)) /\ Len(back) = n
      /\ \A i \in 1 .. n : back[i] = IF s[i] = CR /\ at(s, i) = LF THEN <<>> ELSE <<s[i]>>
  BY <1>1
<1>4. RemoveHTML(s) = t
  BY ShownInTurn
<1>5. oneBreak(s) = FlattenSeq(back)
  BY DEF oneBreak
<1> HIDE DEF e, back
<1>6. PICK P :
         /\ P \in [0 .. n -> Nat]
         /\ P[0] = 0
         /\ P[n] = Len(t)
         /\ \A i \in 1 .. n :
               /\ P[i] = P[i - 1] + Len(e[i]) /\ P[i] <= Len(t)
               /\ \A j \in 1 .. Len(e[i]) : t[P[i - 1] + j] = e[i][j]
  <2>1. e \in Seq(Seq(Int)) /\ Len(e) = n
    BY <1>2
  <2>2. \E P : PlacesOf(P, e, t)
    BY <2>1, PlacesExist
  <2>3. PICK P : PlacesOf(P, e, t)
    BY <2>2
  <2> HIDE DEF t, n
  <2>4. /\ P \in [0 .. n -> Nat]
        /\ P[0] = 0
        /\ P[n] = Len(t)
        /\ \A i \in 1 .. n :
              /\ P[i] = P[i - 1] + Len(e[i]) /\ P[i] <= Len(t)
              /\ \A j \in 1 .. Len(e[i]) : t[P[i - 1] + j] = e[i][j]
    BY <2>1, <2>3 DEF PlacesOf
  <2> QED
    BY <2>4
<1>7. t \in Seq(Int)
  <2>1. e \in Seq(Seq(Int))
    BY <1>2
  <2> QED
    BY <2>1, PlacesExist
<1>8. PICK Q :
         /\ Q \in [0 .. n -> Seq(Int)]
         /\ Q[0] = <<>>
         /\ \A i \in 1 .. n : Q[i] = cat(Q[i - 1], back[i])
         /\ FlattenSeq(back) = Q[n]
  <2>1. PICK R \in [0 .. Len(back) -> Seq(Int)] :
           /\ R[0] = <<>>
           /\ \A i \in 1 .. Len(back) : R[i] = cat(R[i - 1], back[i])
           /\ FlattenSeq(back) = R[Len(back)]
    BY <1>3, Beginnings
  <2>2. Len(back) = n
    BY <1>3
  <2> HIDE DEF n, cat
  <2> QED
    BY <2>1, <2>2
<1> HIDE DEF t, cat
<1>9. PICK f :
         /\ asRead(t) = f[0]
         /\ f[Len(t)] = <<>>
         /\ \A i \in 0 .. Len(t) - 1 :
               /\ at(t, i) = Ampersand /\ at(t, i + 1) < Terminator =>
                     f[i] = cat(<<Terminator - at(t, i + 1)>>, f[i + 2])
               /\ at(t, i) # Ampersand /\ i + 3 <= Len(t) /\ SubSeq(t, i + 1, i + 3) = Br =>
                     f[i] = cat(<<LF>>, f[i + 3])
               /\ at(t, i) \notin {Ampersand, Less, Greater, Quote, LF} =>
                     f[i] = cat(<<at(t, i)>>, f[i + 1])
  BY <1>7, ReadFcn DEF cat
<1>10. Len(t) \in Nat
  BY <1>7
<1>11. ASSUME NEW m \in 1 .. n
       PROVE  f[P[m - 1]] = IF s[m] = CR /\ at(s, m) = LF THEN f[P[m]]
                            ELSE cat(<<s[m]>>, f[P[m]])
  <2> DEFINE c == s[m]
             p == P[m - 1]
             w == asHTML(s, m)
  <2>1. /\ p \in Nat /\ P[m] = p + Len(w) /\ P[m] <= Len(t)
        /\ \A j \in 1 .. Len(w) : t[p + j] = w[j]
    <3>1. m - 1 \in 0 .. n
      BY <1>1
    <3>2. p \in Nat
      BY <1>6, <3>1
    <3>3. e[m] = w
      BY <1>2
    <3>4. /\ P[m] = p + Len(e[m]) /\ P[m] <= Len(t)
          /\ \A j \in 1 .. Len(e[m]) : t[p + j] = e[m][j]
      BY <1>6
    <3> QED
      BY <3>2, <3>3, <3>4
  <2>2. c \in Char /\ c \in Int
    BY <1>1
  <2>3. CASE c \in Markup
    <3>1. w = entity(c) /\ c # CR
      BY <2>3, Apart, Shown
    <3>2. /\ P[m] = p + 2 /\ p \in 0 .. Len(t) - 1 /\ p + 1 < Len(t)
          /\ t[p + 1] = Ampersand /\ t[p + 2] = entity(c)[2]
      <4>1. Len(w) = 2 /\ w[1] = Ampersand /\ w[2] = entity(c)[2]
        BY <2>3, <3>1, Entities
      <4> HIDE DEF w
      <4>2. P[m] = p + 2 /\ t[p + 1] = Ampersand /\ t[p + 2] = entity(c)[2]
        BY <2>1, <4>1
      <4> HIDE DEF p
      <4>3. p \in 0 .. Len(t) - 1 /\ p + 1 < Len(t)
        BY <1>10, <2>1, <4>2
      <4> QED
        BY <4>2, <4>3
    <3>3. at(t, p) = Ampersand /\ at(t, p + 1) = entity(c)[2]
      BY <1>10, <3>2 DEF at
    <3>4. at(t, p + 1) < Terminator /\ Terminator - at(t, p + 1) = c
      BY <2>3, <3>3, Entities
    <3>5. f[p] = cat(<<c>>, f[p + 2])
      BY <1>9, <3>2, <3>3, <3>4
    <3> QED
      BY <3>1, <3>2, <3>5
  <2>4. CASE c = LF
    <3>1. w = Br /\ c # CR
      BY <2>4, Apart, Shown
    <3>2. /\ P[m] = p + 3 /\ p \in 0 .. Len(t) - 1 /\ p + 3 <= Len(t)
          /\ t[p + 1] = Less /\ t[p + 2] = Terminator /\ t[p + 3] = Greater
      BY <1>10, <2>1, <3>1, Brs
    <3>3. at(t, p) # Ampersand
      <4>1. at(t, p) = t[p + 1]
        BY <1>10, <3>2 DEF at
      <4> QED
        BY <3>2, <4>1, Apart
    <3>4. SubSeq(t, p + 1, p + 3) = Br
      <4> DEFINE lo == p + 1
                 hi == p + 3
                 b == SubSeq(t, lo, hi)
      <4>1. lo \in Int /\ hi \in Int /\ \A j \in lo .. hi : t[j] \in Int
        <5>1. \A j \in 1 .. Len(t) : t[j] \in Int
          BY <1>7
        <5>2. \A j \in p + 1 .. p + 3 : j \in 1 .. Len(t)
          BY <1>10, <3>2
        <5> QED
          BY <3>2, <5>1, <5>2
      <4>2. lo <= hi /\ hi - lo + 1 = 3 /\ lo + 1 - 1 = p + 1 /\ lo + 2 - 1 = p + 2
            /\ lo + 3 - 1 = p + 3
        BY <2>1
      <4> HIDE DEF lo, hi
      <4>3. b \in Seq(Int) /\ Len(b) = 3 /\ \A j \in 1 .. 3 : b[j] = t[lo + j - 1]
        <5>1. /\ SubSeq(t, lo, hi) \in Seq(Int)
              /\ Len(SubSeq(t, lo, hi)) = IF lo <= hi THEN hi - lo + 1 ELSE 0
              /\ \A j \in 1 .. hi - lo + 1 : SubSeq(t, lo, hi)[j] = t[lo + j - 1]
          BY <4>1, SubSeqProperties
        <5> QED
          BY <4>2, <5>1
      <4> HIDE DEF b
      <4>4. Len(b) = 3 /\ b[1] = t[p + 1] /\ b[2] = t[p + 2] /\ b[3] = t[p + 3]
        <5>1. b[1] = t[lo + 1 - 1] /\ b[2] = t[lo + 2 - 1] /\ b[3] = t[lo + 3 - 1]
          BY <4>3
        <5> QED
          BY <4>2, <4>3, <5>1
      <4>5. Len(b) = Len(Br) /\ \A j \in 1 .. Len(b) : b[j] = Br[j]
        BY <3>2, <4>4, Brs
      <4>6. b = Br
        BY <4>3, <4>5, Brs, SeqEqual
      <4> QED
        BY <4>6 DEF b, lo, hi
    <3>5. f[p] = cat(<<LF>>, f[p + 3])
      BY <1>9, <3>2, <3>3, <3>4
    <3> QED
      BY <2>4, <3>1, <3>2, <3>5
  <2>5. CASE c = CR /\ at(s, m) = LF
    <3>1. w = <<>> /\ Len(<<>>) = 0
      BY <2>5, Shown
    <3>2. P[m] = p
      BY <2>1, <3>1
    <3> QED
      BY <2>5, <3>2
  <2>6. CASE c \notin Markup \cup {LF} /\ ~ (c = CR /\ at(s, m) = LF)
    <3>1. w = <<c>> /\ Len(<<c>>) = 1 /\ <<c>>[1] = c
      BY <2>6, Shown
    <3>2. P[m] = p + 1 /\ p \in 0 .. Len(t) - 1 /\ t[p + 1] = c
      <4>1. Len(w) = 1 /\ w[1] = c
        BY <3>1
      <4> QED
        BY <1>10, <2>1, <4>1
    <3>3. at(t, p) = c
      BY <1>10, <3>2 DEF at
    <3>4. c \notin {Ampersand, Less, Greater, Quote, LF}
      BY <2>6 DEF Markup
    <3>5. f[p] = cat(<<c>>, f[p + 1])
      BY <1>9, <3>2, <3>3, <3>4
    <3> QED
      BY <2>6, <3>2, <3>5
  <2> QED
    BY <2>3, <2>4, <2>5, <2>6
<1> HIDE DEF n
<1>12. ASSUME NEW a \in Seq(Int), NEW b \in Seq(Int), NEW d \in Seq(Int)
       PROVE  cat(a, b) \in Seq(Int) /\ cat(a, <<>>) = a /\ cat(<<>>, a) = a
              /\ cat(cat(a, b), d) = cat(a, cat(b, d))
  <2>1. cat(a, b) \in Seq(Int)
    BY ConcatProperties DEF cat
  <2>2. cat(a, <<>>) = a /\ cat(<<>>, a) = a
    BY ConcatEmptySeq DEF cat
  <2>3. cat(cat(a, b), d) = cat(a, cat(b, d))
    <3>1. (a \o b) \o d = a \o (b \o d)
      BY Associative
    <3> QED
      BY <3>1, Zenon DEF cat
  <2> QED
    BY <2>1, <2>2, <2>3
<1>13. \A k \in 0 .. n : f[P[k]] \in Seq(Int)
  <2> DEFINE T == {k \in Nat : k <= n => f[P[n - k]] \in Seq(Int)}
  <2>1. 0 \in T
    <3>1. n - 0 = n /\ <<>> \in Seq(Int)
      BY <1>1
    <3> QED
      BY <1>6, <1>9, <3>1
  <2>2. ASSUME NEW k \in T PROVE k + 1 \in T
    <3> SUFFICES ASSUME k + 1 <= n PROVE f[P[n - (k + 1)]] \in Seq(Int)
      OBVIOUS
    <3> DEFINE m == n - k
    <3>1. m \in 1 .. n /\ m - 1 = n - (k + 1) /\ f[P[m]] \in Seq(Int) /\ s[m] \in Int
      <4>1. k <= n /\ n - k \in 1 .. n /\ n - k - 1 = n - (k + 1)
        BY <1>1
      <4> QED
        BY <1>1, <4>1
    <3> HIDE DEF m
    <3>2. <<s[m]>> \in Seq(Int)
      BY <3>1
    <3>3. f[P[m - 1]] \in Seq(Int)
      BY <1>11, <1>12, <3>1, <3>2
    <3> QED
      BY <3>1, <3>3
  <2>3. T \in SUBSET Nat
    OBVIOUS
  <2>4. T = Nat
    <3> HIDE DEF T
    <3> QED
      BY <2>1, <2>2, <2>3, Induction
  <2>5. ASSUME NEW k \in 0 .. n PROVE f[P[k]] \in Seq(Int)
    <3>1. n - k \in Nat /\ n - k <= n /\ n - (n - k) = k
      BY <1>1
    <3>2. n - k \in T
      <4> HIDE DEF T
      <4> QED
        BY <2>4, <3>1
    <3>3. f[P[n - (n - k)]] \in Seq(Int)
      BY <3>1, <3>2
    <3> QED
      BY <3>1, <3>3
  <2> QED
    BY <2>5
<1> DEFINE U == {k \in Nat : k <= n => cat(Q[k], f[P[k]]) = f[0]}
<1>14. n \in U
  <2>1. 0 \in U
    <3>1. 0 \in 0 .. n
      BY <1>1
    <3>2. f[0] \in Seq(Int)
      BY <1>6, <1>13, <3>1
    <3>3. cat(<<>>, f[0]) = f[0]
      BY <1>12, <3>2
    <3> QED
      BY <1>6, <1>8, <3>3
  <2>2. ASSUME NEW k \in U PROVE k + 1 \in U
    <3> SUFFICES ASSUME k + 1 <= n PROVE cat(Q[k + 1], f[P[k + 1]]) = f[0]
      OBVIOUS
    <3> DEFINE m == k + 1
               x == IF s[m] = CR /\ at(s, m) = LF THEN <<>> ELSE <<s[m]>>
    <3>1. m \in 1 .. n /\ k = m - 1 /\ k \in 0 .. n /\ m \in 0 .. n /\ cat(Q[k], f[P[k]]) = f[0]
      BY <1>1
    <3> HIDE DEF m
    <3>2. Q[k] \in Seq(Int) /\ f[P[m]] \in Seq(Int) /\ x \in Seq(Int)
      <4>1. s[m] \in Int
        BY <1>1, <3>1
      <4>2. <<s[m]>> \in Seq(Int) /\ <<>> \in Seq(Int)
        BY <4>1
      <4> QED
        BY <1>8, <1>13, <3>1, <4>2
    <3>3. Q[m] = cat(Q[k], x)
      BY <1>3, <1>8, <3>1
    <3>4. f[P[k]] = cat(x, f[P[m]])
      BY <1>11, <1>12, <3>1, <3>2
    <3> HIDE DEF x
    <3>5. cat(Q[m], f[P[m]]) = cat(Q[k], cat(x, f[P[m]]))
      <4> DEFINE a == Q[k]
                 d == f[P[m]]
      <4>1. a \in Seq(Int) /\ d \in Seq(Int) /\ x \in Seq(Int)
        BY <3>2
      <4> HIDE DEF a, d
      <4>2. cat(cat(a, x), d) = cat(a, cat(x, d))
        BY <1>12, <4>1
      <4> QED
        BY <3>3, <4>2 DEF a, d
    <3> QED
      BY <3>1, <3>4, <3>5 DEF m
  <2>3. U \in SUBSET Nat
    OBVIOUS
  <2> HIDE DEF U
  <2> QED
    BY <1>1, <2>1, <2>2, <2>3, Induction
<1>15. cat(Q[n], <<>>) = f[0]
  <2>1. n <= n /\ cat(Q[n], f[P[n]]) = f[0]
    BY <1>1, <1>14
  <2> QED
    BY <1>6, <1>9, <2>1
<1>16. Q[n] = f[0]
  <2>1. Q[n] \in Seq(Int)
    BY <1>1, <1>8
  <2> QED
    BY <1>12, <1>15, <2>1
<1> QED
  BY <1>4, <1>5, <1>8, <1>9, <1>16

\* Names, searches, logins and info hashes come back as they were from the pages, links
\* and digits they are put in, however long they are, and nothing else can be read
\* from what UTIL_StringToEscaped, UTIL_HashToString and UTIL_RemoveHTML write.
THEOREM TextsAlwaysReadBack == TextSpec => []TextsReadBack
<1> DEFINE JobOK == job = NoJob \/ \E s \in Sample : job = [text |-> s]
<1>1. job = NoJob => JobOK
  OBVIOUS
<1>2. JobOK /\ [ShowText \/ Done]_job => JobOK'
  BY DEF ShowText, Done, NoJob
<1>3. JobOK => TextsReadBack
  <2>1. ASSUME NEW s \in Sample
        PROVE  /\ EscapedToString(StringToEscaped(s)) = {s}
               /\ EscapedToString(StringToEscapedStrict(s)) = {s}
               /\ Len(s) = HashSize => StringToHash(HashToString(s)) = {s}
               /\ asRead(RemoveHTML(s)) = oneBreak(s)
    <3>1. s \in Seq(Char) /\ 3 * Len(s) <= SizeRange
      BY SampleAssumption
    <3> QED
      BY <3>1, EscapesUndone, HashesReadBack, NamesReadBack
  <2>2. CASE job = NoJob
    BY <2>2 DEF TextsReadBack, NoJob
  <2>3. ASSUME NEW s \in Sample, job = [text |-> s] PROVE TextsReadBack
    <3>1. {job.text : x \in {"text"} \cap DOMAIN job} = {s}
      BY <2>3
    <3> QED
      BY <2>1, <3>1 DEF TextsReadBack
  <2> QED
    BY <2>2, <2>3
<1> QED
  BY <1>1, <1>2, <1>3, PTL DEF TextSpec

-----------------------------------------------------------------------------
\* The links of a listing

\* The links of a page are read as what the reader asked for.
LEMMA LinkedAsAsked ==
  ASSUME NEW a \in Ask, NEW p,
         NEW ask, ask.place = a.place, ask.search = a.search, ask.filter = a.filter
  PROVE  linked(ask, p) = {[place |-> a.place, page |-> p, sort |-> ask.sort,
                            search |-> a.search, filter |-> a.filter]}
<1>1. /\ a.search \in Seq(Char) /\ 3 * Len(a.search) <= SizeRange
      /\ a.filter \in Seq(Char) /\ 3 * Len(a.filter) <= SizeRange
      /\ a.place # "index" => a.filter = <<>>
  BY AskAssumption
<1>2. EscapedToString(StringToEscaped(a.search)) = {a.search}
  BY <1>1, EscapesUndone
<1>3. EscapedToString(StringToEscaped(a.filter)) = {a.filter}
  BY <1>1, EscapesUndone
<1>4. (IF ask.place = "index" THEN EscapedToString(StringToEscaped(ask.filter)) ELSE {<<>>})
        = {a.filter}
  BY <1>1, <1>3
<1> QED
  BY <1>2, <1>4 DEF linked

\* What the reader has is a page of the listing he opened.
SelInv ==
  view # NoView =>
    /\ "ask" \in DOMAIN walk
    /\ walk.ask \in Ask
    /\ \E p : view.ask = [place |-> walk.ask.place, page |-> p, sort |-> walk.ask.sort,
                         search |-> walk.ask.search, filter |-> walk.ask.filter]

LEMMA SelStep == SelInv /\ [Next]_vars => SelInv'
<1> SUFFICES ASSUME SelInv, [Next]_vars PROVE SelInv'
  OBVIOUS
<1>1. ASSUME NEW ask \in Ask, Open(ask) PROVE SelInv'
  <2>1. walk'.ask = ask /\ "ask" \in DOMAIN walk' /\ view'.ask = ask
    BY <1>1 DEF Open, answer
  <2>2. ask = [place |-> ask.place, page |-> ask.page, sort |-> ask.sort,
               search |-> ask.search, filter |-> ask.filter]
    BY AskAssumption
  <2> QED
    BY <2>1, <2>2 DEF SelInv
<1>2. ASSUME NEW p, Follow(p) PROVE SelInv'
  <2>1. view # NoView
    BY <1>2 DEF Follow
  <2>2. PICK ask \in linked(view.ask, p) : view' = answer(ask)
                                         /\ walk'.ask = walk.ask /\ "ask" \in DOMAIN walk'
    BY <1>2, <2>1 DEF Follow, SelInv
  <2>3. ask = [place |-> walk.ask.place, page |-> p, sort |-> walk.ask.sort,
               search |-> walk.ask.search, filter |-> walk.ask.filter]
    <3> DEFINE a == walk.ask
               v == view.ask
    <3>1. a \in Ask /\ v.place = a.place /\ v.sort = a.sort /\ v.search = a.search
          /\ v.filter = a.filter
      <4>1. PICK q : v = [place |-> a.place, page |-> q, sort |-> a.sort,
                          search |-> a.search, filter |-> a.filter]
        BY <2>1 DEF SelInv
      <4>2. a \in Ask
        BY <2>1 DEF SelInv
      <4> HIDE DEF a, v
      <4> QED
        BY <4>1, <4>2
    <3>2. ask \in linked(v, p)
      BY <2>2
    <3> HIDE DEF a, v
    <3>3. linked(v, p) = {[place |-> a.place, page |-> p, sort |-> v.sort,
                           search |-> a.search, filter |-> a.filter]}
      BY <3>1, LinkedAsAsked
    <3>4. ask = [place |-> a.place, page |-> p, sort |-> a.sort,
                 search |-> a.search, filter |-> a.filter]
      BY <3>1, <3>2, <3>3
    <3> QED
      BY <3>4 DEF a
  <2>4. view'.ask = ask
    BY <2>2 DEF answer
  <2> QED
    BY <2>1, <2>2, <2>3, <2>4 DEF SelInv
<1>3. CASE Change
  <2>1. view' = view /\ walk' = IF view = NoView THEN walk ELSE [walk EXCEPT !.changes = @ + 1]
    BY <1>3 DEF Change, DeleteTorrent, AddTorrent, Refresh, Rename, DeleteUser, AddUser, Noted
  <2>2. view # NoView => walk'.ask = walk.ask /\ "ask" \in DOMAIN walk'
    BY <2>1 DEF SelInv
  <2> QED
    BY <2>1, <2>2 DEF SelInv
<1>4. CASE UNCHANGED vars
  BY <1>4 DEF vars, SelInv
<1> QED
  BY <1>1, <1>2, <1>3, <1>4 DEF Next

\* The page behind a link is a page of the same listing, for every search and filter
\* there is memory for, and however the tables change: no byte of them is lost or read
\* as another in the links.
THEOREM SelectionAlwaysKept == Spec => []SelectionKept
<1>1. Init => SelInv
  BY DEF Init, SelInv
<1>2. SelInv => SelectionKept
  <2> SUFFICES ASSUME SelInv, view # NoView
               PROVE  [view.ask EXCEPT !.page = walk.ask.page] = walk.ask
    BY DEF SelectionKept
  <2>1. walk.ask = [place |-> walk.ask.place, page |-> walk.ask.page, sort |-> walk.ask.sort,
                    search |-> walk.ask.search, filter |-> walk.ask.filter]
    BY AskAssumption DEF SelInv
  <2>2. PICK p : view.ask = [place |-> walk.ask.place, page |-> p, sort |-> walk.ask.sort,
                             search |-> walk.ask.search, filter |-> walk.ask.filter]
    BY DEF SelInv
  <2>3. [view.ask EXCEPT !.page = walk.ask.page]
          = [place |-> walk.ask.place, page |-> walk.ask.page, sort |-> walk.ask.sort,
             search |-> walk.ask.search, filter |-> walk.ask.filter]
    BY <2>2
  <2> QED
    BY <2>1, <2>3
<1> QED
  BY <1>1, <1>2, SelStep, PTL DEF Spec

-----------------------------------------------------------------------------
\* Sorting

\* Where a row is put.
LEMMA Inserted ==
  ASSUME NEW S, NEW s \in Seq(S), NEW r \in S, NEW by
  PROVE  \E l \in 0 .. Len(s) :
            /\ PutBehind(inserted(s, r, by), s, l, r, S)
            /\ l # 0 => order(by, s[l], r) <= 0
            /\ \A i \in l + 1 .. Len(s) : ~ (order(by, s[i], r) <= 0)
<1> DEFINE T == {0} \cup {n \in DOMAIN s : order(by, s[n], r) <= 0}
<1>1. Len(s) \in Nat /\ DOMAIN s = 1 .. Len(s) /\ \A i \in 1 .. Len(s) : s[i] \in S
  OBVIOUS
<1>2. T \in SUBSET (0 .. Len(s)) /\ T # {}
  BY <1>1
<1>3. \A i : i \in T <=> i = 0 \/ (i \in 1 .. Len(s) /\ order(by, s[i], r) <= 0)
  BY <1>1
<1>4. inserted(s, r, by) = InsertAt(s, Max(T) + 1, r)
  BY DEF inserted
<1> HIDE DEF T
<1>5. Max(T) \in T /\ \A k \in T : k <= Max(T)
  BY <1>1, <1>2, Greatest
<1>6. PICK l : l = Max(T)
  OBVIOUS
<1>7. l \in 0 .. Len(s) /\ l \in T /\ \A k \in T : k <= l
  BY <1>2, <1>5, <1>6
<1>8. l # 0 => order(by, s[l], r) <= 0
  BY <1>3, <1>7
<1>9. ASSUME NEW i \in l + 1 .. Len(s), order(by, s[i], r) <= 0 PROVE FALSE
  <2>1. i \in 1 .. Len(s) /\ ~ (i <= l)
    BY <1>1, <1>7
  <2>2. i \in T
    BY <1>3, <1>9, <2>1
  <2> QED
    BY <1>7, <2>1, <2>2
<1>10. PutBehind(inserted(s, r, by), s, l, r, S)
  BY <1>4, <1>6, <1>7, InsertedAt
<1> QED
  BY <1>7, <1>8, <1>9, <1>10

\* The turns of qsort's loop.
LEMMA SortLoop ==
  ASSUME NEW S, NEW rows \in Seq(S), NEW by
  PROVE  \E F \in [0 .. Len(rows) -> Seq(S)] :
            /\ F[0] = <<>>
            /\ \A i \in 1 .. Len(rows) : F[i] = inserted(F[i - 1], rows[i], by)
            /\ qsort(rows, by) = F[Len(rows)]
<1> DEFINE n == Len(rows)
           fits(H) == H = [k \in 0 .. n |-> IF k = 0 THEN <<>> ELSE inserted(H[k - 1], rows[k], by)]
           C == CHOOSE H : fits(H)
           turn == [k \in 1 .. n |-> [v \in Seq(S) |-> inserted(v, rows[k], by)]]
<1>1. n \in Nat /\ (\A i \in 1 .. n : rows[i] \in S) /\ <<>> \in Seq(S)
  OBVIOUS
<1>2. qsort(rows, by) = C[n]
  BY DEF qsort
<1>3. ASSUME NEW v \in Seq(S), NEW r \in S PROVE inserted(v, r, by) \in Seq(S)
  BY Inserted DEF PutBehind
<1> HIDE DEF n
<1>4. turn \in [1 .. n -> [Seq(S) -> Seq(S)]]
  BY <1>1, <1>3
<1>5. \A i \in 1 .. n, v \in Seq(S) : turn[i][v] = inserted(v, rows[i], by)
  BY <1>1
<1> HIDE DEF turn
<1>6. PICK F \in [0 .. n -> Seq(S)] :
         F[0] = <<>> /\ \A i \in 1 .. n : F[i] = turn[i][F[i - 1]]
  <2> DEFINE V == Seq(S)
  <2>1. n \in Nat /\ <<>> \in V /\ turn \in [1 .. n -> [V -> V]]
    BY <1>1, <1>4
  <2> HIDE DEF V
  <2>2. PICK F : Loops(F, V, <<>>, turn, n)
    BY <2>1, LoopFcn
  <2> QED
    BY <2>2 DEF V, Loops
<1>7. fits(F)
  <2>1. ASSUME NEW i \in 0 .. n
        PROVE  F[i] = IF i = 0 THEN <<>> ELSE inserted(F[i - 1], rows[i], by)
    <3>2. CASE i = 0
      BY <1>6, <3>2
    <3>3. CASE i # 0
      <4>1. i \in 1 .. n /\ i - 1 \in 0 .. n /\ F[i - 1] \in Seq(S)
        BY <1>1, <3>3
      <4> QED
        BY <1>5, <1>6, <3>3, <4>1
    <3> QED
      BY <3>2, <3>3
  <2>2. F = [i \in 0 .. n |-> F[i]]
    OBVIOUS
  <2> QED
    BY <2>1, <2>2
<1>8. fits(C)
  BY <1>7
<1> HIDE DEF C
<1>9. DOMAIN C = 0 .. n /\ C = [i \in 0 .. n |-> C[i]]
  BY <1>8
<1>10. C[0] = <<>> /\ \A i \in 1 .. n : C[i] = inserted(C[i - 1], rows[i], by)
  <2>1. ASSUME NEW i \in 0 .. n
        PROVE  C[i] = IF i = 0 THEN <<>> ELSE inserted(C[i - 1], rows[i], by)
    BY <1>8
  <2>2. 0 \in 0 .. n /\ \A i \in 1 .. n : i \in 0 .. n /\ i # 0
    BY <1>1
  <2> QED
    BY <2>1, <2>2
<1> DEFINE T == {i \in 0 .. n : C[i] \in Seq(S)}
<1>11. \A i \in 0 .. n : i \in T
  <2>1. 0 \in T
    <3>1. 0 \in 0 .. n /\ C[0] \in Seq(S)
      BY <1>1, <1>10
    <3> QED
      BY <3>1
  <2>2. ASSUME NEW i \in 1 .. n, i - 1 \in T PROVE i \in T
    <3>1. C[i - 1] \in Seq(S) /\ i \in 0 .. n /\ rows[i] \in S
      BY <1>1, <2>2
    <3>2. inserted(C[i - 1], rows[i], by) \in Seq(S)
      BY <1>3, <3>1
    <3> QED
      BY <1>10, <3>1, <3>2
  <2> HIDE DEF T
  <2> QED
    BY <1>1, <2>1, <2>2, Turns
<1>12. C \in [0 .. n -> Seq(S)]
  BY <1>9, <1>11
<1> QED
  BY <1>2, <1>10, <1>12 DEF n

\* The comparison puts any rows in an order.
Ordered(by, S) ==
  /\ \A a, b \in S : order(by, a, b) <= 0 \/ order(by, b, a) <= 0
  /\ \A a, b, c \in S : order(by, a, b) <= 0 /\ order(by, b, c) <= 0 => order(by, a, c) <= 0

\* s has the first k rows, the one at i from place p[i].
Arranged(s, p, rows, k) ==
  /\ p \in [1 .. k -> 1 .. k] /\ Len(s) = k
  /\ \A i \in 1 .. k : s[i] = rows[p[i]]
  /\ \A i, j \in 1 .. k : p[i] = p[j] => i = j

\* No row is behind a greater one, nor behind an equal one that came later.
Sorted(s, p, by, k) ==
  \A i, j \in 1 .. k :
    i < j => order(by, s[i], s[j]) <= 0 /\ (order(by, s[j], s[i]) <= 0 => p[i] < p[j])

\* A turn of the loop.
LEMMA SortTurn ==
  ASSUME NEW S, NEW rows \in Seq(S), NEW by, NEW k \in 1 .. Len(rows),
         NEW s \in Seq(S), NEW p, Arranged(s, p, rows, k - 1),
         Ordered(by, S) => Sorted(s, p, by, k - 1)
  PROVE  \E q : /\ Arranged(inserted(s, rows[k], by), q, rows, k)
                /\ Ordered(by, S) => Sorted(inserted(s, rows[k], by), q, by, k)
<1> DEFINE r == rows[k]
           t == inserted(s, r, by)
<1>1. k \in Nat /\ k - 1 \in Nat /\ r \in S /\ Len(s) = k - 1 /\ \A i \in 1 .. k - 1 : s[i] \in S
  BY DEF Arranged
<1> HIDE DEF r
<1>2. PICK l \in 0 .. Len(s) :
         /\ PutBehind(t, s, l, r, S)
         /\ l # 0 => order(by, s[l], r) <= 0
         /\ \A i \in l + 1 .. Len(s) : ~ (order(by, s[i], r) <= 0)
  BY <1>1, Inserted
<1> HIDE DEF t
<1>3. /\ t \in Seq(S) /\ Len(t) = k /\ l \in 0 .. k - 1
      /\ \A i \in 1 .. l : t[i] = s[i]
      /\ t[l + 1] = r
      /\ \A i \in l + 1 .. k - 1 : t[i + 1] = s[i]
  BY <1>1, <1>2 DEF PutBehind
<1> DEFINE old(i) == IF i <= l THEN i ELSE i - 1
           q == [i \in 1 .. k |-> IF i = l + 1 THEN k ELSE p[old(i)]]
<1>4. ASSUME NEW i \in 1 .. k, i # l + 1
      PROVE  /\ old(i) \in 1 .. k - 1 /\ t[i] = s[old(i)] /\ q[i] = p[old(i)] /\ i \in Int
             /\ i <= l <=> old(i) <= l
    <2>1. CASE i <= l
      <3>1. i \in 1 .. l /\ i \in 1 .. k - 1
        BY <1>1, <2>1
      <3> QED
        BY <1>3, <1>4, <2>1, <3>1
    <2>2. CASE ~ (i <= l)
      <3>1. i - 1 \in l + 1 .. k - 1 /\ i - 1 + 1 = i /\ i - 1 \in 1 .. k - 1
        BY <1>1, <1>4, <2>2
      <3>2. t[i] = s[i - 1]
        BY <1>3, <3>1
      <3> QED
        BY <1>1, <1>4, <2>2, <3>1, <3>2
    <2> QED
      BY <2>1, <2>2
<1>5. l + 1 \in 1 .. k /\ q[l + 1] = k /\ t[l + 1] = r
  BY <1>1, <1>3
<1>6. /\ p \in [1 .. k - 1 -> 1 .. k - 1]
      /\ \A i \in 1 .. k - 1 : s[i] = rows[p[i]]
      /\ \A i, j \in 1 .. k - 1 : p[i] = p[j] => i = j
  BY DEF Arranged
<1>7. q \in [1 .. k -> 1 .. k]
  <2>1. ASSUME NEW i \in 1 .. k
        PROVE  (IF i = l + 1 THEN k ELSE p[old(i)]) \in 1 .. k
    <3>1. CASE i = l + 1
      BY <1>1, <3>1
    <3>2. CASE i # l + 1
      <4>1. p[old(i)] \in 1 .. k - 1
        BY <1>4, <1>6, <3>2
      <4> QED
        BY <1>1, <3>2, <4>1
    <3> QED
      BY <3>1, <3>2
  <2> QED
    BY <2>1
<1> HIDE DEF q
<1>8. ASSUME NEW i \in 1 .. k, NEW j \in 1 .. k, i # l + 1, j # l + 1
      PROVE  /\ old(i) = old(j) => i = j
             /\ i < j => old(i) < old(j)
  BY <1>1, <1>8
<1> HIDE DEF old
<1>9. ASSUME NEW i \in 1 .. k PROVE t[i] = rows[q[i]]
  <2>1. CASE i = l + 1
    BY <1>5, <2>1 DEF r
  <2>2. CASE i # l + 1
    <3>1. old(i) \in 1 .. k - 1 /\ t[i] = s[old(i)] /\ q[i] = p[old(i)]
      BY <1>4, <2>2
    <3>2. s[old(i)] = rows[p[old(i)]]
      BY <1>6, <3>1
    <3> QED
      BY <3>1, <3>2
  <2> QED
    BY <2>1, <2>2
<1>p. ASSUME NEW i \in 1 .. k, i # l + 1 PROVE q[i] \in 1 .. k - 1 /\ q[i] < k
  <2>1. p[old(i)] \in 1 .. k - 1
    BY <1>4, <1>6, <1>p
  <2> QED
    BY <1>1, <1>4, <1>p, <2>1
<1>10. ASSUME NEW i \in 1 .. k, NEW j \in 1 .. k, q[i] = q[j] PROVE i = j
  <2>1. CASE i = l + 1 /\ j # l + 1
    BY <1>1, <1>5, <1>p, <1>10, <2>1
  <2>2. CASE i # l + 1 /\ j = l + 1
    BY <1>1, <1>5, <1>p, <1>10, <2>2
  <2>3. CASE i # l + 1 /\ j # l + 1
    BY <1>4, <1>6, <1>8, <1>10, <2>3
  <2> QED
    BY <2>1, <2>2, <2>3
<1>11. Arranged(t, q, rows, k)
  <2>1. Len(t) = k
    BY <1>1, <1>3
  <2> QED
    BY <1>7, <1>9, <1>10, <2>1 DEF Arranged
<1>12. ASSUME Ordered(by, S), NEW i \in 1 .. k, NEW j \in 1 .. k, i < j
       PROVE  order(by, t[i], t[j]) <= 0 /\ (order(by, t[j], t[i]) <= 0 => q[i] < q[j])
  <2> DEFINE le(a, b) == order(by, a, b) <= 0
  <2>1. /\ \A a, b \in S : le(a, b) \/ le(b, a)
        /\ \A a, b, c \in S : le(a, b) /\ le(b, c) => le(a, c)
    BY <1>12 DEF Ordered
  <2>2. \A m, o \in 1 .. k - 1 : m < o => le(s[m], s[o]) /\ (le(s[o], s[m]) => p[m] < p[o])
    BY <1>12 DEF Sorted
  <2>3. (l # 0 => le(s[l], r)) /\ \A m \in l + 1 .. k - 1 : ~ le(s[m], r)
    BY <1>1, <1>2
  <2> HIDE DEF le
  <2>4. CASE i # l + 1 /\ j # l + 1
    <3>1. old(i) < old(j)
      BY <1>8, <1>12, <2>4
    <3>2. /\ le(s[old(i)], s[old(j)])
          /\ le(s[old(j)], s[old(i)]) => p[old(i)] < p[old(j)]
      BY <1>4, <2>2, <2>4, <3>1
    <3> QED
      BY <1>4, <2>4, <3>2 DEF le
  <2>5. CASE i # l + 1 /\ j = l + 1
    <3>1. i <= l /\ old(i) <= l /\ old(i) \in 1 .. k - 1 /\ l \in 1 .. k - 1
      BY <1>1, <1>4, <1>12, <2>5
    <3>2. le(s[l], r) /\ s[l] \in S /\ s[old(i)] \in S
      BY <1>1, <2>3, <3>1
    <3>3. le(s[old(i)], r)
      <4>1. CASE old(i) = l
        BY <3>2, <4>1
      <4>2. CASE old(i) # l
        <5>1. old(i) < l
          BY <3>1, <4>2
        <5>2. le(s[old(i)], s[l])
          BY <2>2, <3>1, <5>1
        <5> QED
          BY <1>1, <2>1, <3>2, <5>2
      <4> QED
        BY <4>1, <4>2
    <3> QED
      BY <1>4, <1>5, <1>p, <2>5, <3>3 DEF le
  <2>6. CASE i = l + 1 /\ j # l + 1
    <3>1. ~ (j <= l)
      BY <1>1, <1>12, <2>6
    <3>2. old(j) \in l + 1 .. k - 1
      BY <1>1, <1>4, <2>6, <3>1
    <3>3. ~ le(s[old(j)], r) /\ s[old(j)] \in S
      BY <1>1, <1>4, <2>3, <2>6, <3>2
    <3>4. le(r, s[old(j)])
      BY <1>1, <2>1, <3>3
    <3> QED
      BY <1>4, <1>5, <2>6, <3>3, <3>4 DEF le
  <2> QED
    BY <1>12, <2>4, <2>5, <2>6
<1>13. Ordered(by, S) => Sorted(t, q, by, k)
  BY <1>12 DEF Sorted
<1> QED
  BY <1>11, <1>13 DEF t, r

\* qsort makes a permutation of the rows, and of rows the comparison orders it makes one
\* in that order, where equal rows keep theirs.
LEMMA SortArranges ==
  ASSUME NEW S, NEW rows \in Seq(S), NEW by
  PROVE  /\ qsort(rows, by) \in Seq(S)
         /\ \E p : /\ Arranged(qsort(rows, by), p, rows, Len(rows))
                   /\ Ordered(by, S) => Sorted(qsort(rows, by), p, by, Len(rows))
<1> DEFINE n == Len(rows)
<1>1. PICK F \in [0 .. n -> Seq(S)] :
         /\ F[0] = <<>>
         /\ \A i \in 1 .. n : F[i] = inserted(F[i - 1], rows[i], by)
         /\ qsort(rows, by) = F[n]
  BY SortLoop
<1>2. n \in Nat
  OBVIOUS
<1> DEFINE fit(k) == \E p : /\ Arranged(F[k], p, rows, k)
                            /\ Ordered(by, S) => Sorted(F[k], p, by, k)
           T == {k \in Nat : fit(k)}
<1> HIDE DEF n
<1>3. 0 \in T
  <2> DEFINE p == [i \in 1 .. 0 |-> 0]
  <2>1. p \in [1 .. 0 -> 1 .. 0] /\ Len(F[0]) = 0
    BY <1>1
  <2>2. Arranged(F[0], p, rows, 0)
    BY <2>1 DEF Arranged
  <2>3. Sorted(F[0], p, by, 0)
    BY DEF Sorted
  <2>4. fit(0)
    BY <2>2, <2>3
  <2> QED
    BY <2>4
<1>4. ASSUME NEW k \in 1 .. n, k - 1 \in T PROVE k \in T
  <2>1. PICK p : /\ Arranged(F[k - 1], p, rows, k - 1)
                 /\ Ordered(by, S) => Sorted(F[k - 1], p, by, k - 1)
    <3>1. fit(k - 1)
      <4> HIDE DEF fit
      <4> QED
        BY <1>4
    <3> QED
      BY <3>1
  <2>2. k - 1 \in 0 .. n /\ k \in 0 .. n /\ F[k - 1] \in Seq(S) /\ k \in 1 .. Len(rows)
    <3>1. k - 1 \in 0 .. n /\ k \in 0 .. n
      BY <1>2
    <3> QED
      BY <3>1 DEF n
  <2>3. \E q : /\ Arranged(inserted(F[k - 1], rows[k], by), q, rows, k)
               /\ Ordered(by, S) => Sorted(inserted(F[k - 1], rows[k], by), q, by, k)
    BY <2>1, <2>2, SortTurn
  <2>4. F[k] = inserted(F[k - 1], rows[k], by)
    BY <1>1
  <2>5. fit(k)
    BY <2>3, <2>4
  <2> HIDE DEF fit
  <2> QED
    BY <1>2, <2>5
<1> HIDE DEF T
<1>5. n \in T
  <2>1. \A k \in 0 .. n : k \in T
    BY <1>2, <1>3, <1>4, Turns
  <2> QED
    BY <1>2, <2>1
<1>6. qsort(rows, by) \in Seq(S)
  <2>1. n \in 0 .. n
    BY <1>2
  <2> QED
    BY <1>1, <2>1
<1>7. fit(n)
  <2> HIDE DEF fit
  <2> QED
    BY <1>5 DEF T
<1> QED
  BY <1>1, <1>6, <1>7 DEF n

LEMMA SmallInt ==
  ASSUME NEW d \in Int, 2 * d < IntRange, -(2 * d) < IntRange
  PROVE  int(d) = d
<1>1. IntRange \in Nat \ {0}
  BY IntRangeAssumption
<1>2. CASE d >= 0
  <2>1. d % IntRange = d
    BY <1>1, <1>2, SmallRemainder
  <2> QED
    BY <1>1, <2>1 DEF int
<1>3. CASE d < 0
  <2>1. d % IntRange = d + IntRange
    BY <1>1, <1>3
  <2> QED
    BY <1>1, <1>3, <2>1 DEF int
<1> QED
  BY <1>2, <1>3

\* Numbers no two of which are further apart than the range of an int allows.
LEMMA UnsignedOrder ==
  ASSUME NEW x \in Int, NEW y \in Int, 2 * (x - y) < IntRange, 2 * (y - x) < IntRange
  PROVE  int(x - y) <= 0 <=> x <= y
<1> DEFINE d == x - y
<1>1. d \in Int /\ 2 * d < IntRange /\ -(2 * d) < IntRange
  BY IntRangeAssumption
<1> HIDE DEF d
<1>2. int(d) = d
  BY <1>1, SmallInt
<1> QED
  BY <1>2 DEF d

-----------------------------------------------------------------------------
\* The tables of peers

PeerRow == [iUpped : Int, iDowned : Int, iLeft : Int, iConnected : Int, flShareRatio : Int]

LEMMA PeerRows ==
  ASSUME NEW p \in [uploaded : Int, downloaded : Int, left : Int, connected : Int]
  PROVE  peerRow(p) \in PeerRow /\ peerRow(p).iLeft = p.left
<1>1. RatioUnit * p.uploaded \in Int
  BY PeersAssumption
<1>2. p.downloaded \in Int
  OBVIOUS
<1>3. p.downloaded > 0 => (RatioUnit * p.uploaded) \div p.downloaded \in Int
  BY <1>1, <1>2
<1>4. shareRatio(p) \in Int
  BY <1>3, PeersAssumption DEF shareRatio
<1> QED
  BY <1>4 DEF peerRow, PeerRow

\* How a comparison has to do with the order of a table.
LEMMA RatioOrder ==
  ASSUME NEW T \in SUBSET Int, Infinite \in T,
         \A x, y, z \in T : close(x, y) /\ close(y, z) => close(x, z)
  PROVE  /\ \A x, y \in T : byShareRatio(x, y) <= 0 \/ byShareRatio(y, x) <= 0
         /\ \A x, y, z \in T : byShareRatio(x, y) <= 0 /\ byShareRatio(y, z) <= 0
                                 => byShareRatio(x, z) <= 0
         /\ \A x, y \in T : byShareRatio(x, y) <= 0
                              => close(y, Infinite) \/ (~ close(x, Infinite) /\ x <= y + Tolerance)
<1> DEFINE best(x) == close(x, Infinite)
           near(x, y) == close(x, y)
           le(x, y) == near(x, y) \/ (~ best(x) /\ (best(y) \/ x <= y))
<1>1. Tolerance \in Nat /\ Infinite \in Int
  BY ToleranceAssumption, PeersAssumption
<1>2. ASSUME NEW x \in T, NEW y \in T
      PROVE  /\ near(x, y) <=> x - y <= Tolerance /\ y - x <= Tolerance
             /\ near(y, x) <=> near(x, y)
  BY <1>1 DEF close
<1>3. ASSUME NEW x \in T, NEW y \in T PROVE byShareRatio(x, y) <= 0 <=> le(x, y)
  <2>1. x \in Int /\ y \in Int
    OBVIOUS
  <2>2. threeWay(x, y) <= 0 <=> x <= y
    BY <2>1 DEF threeWay
  <2> QED
    BY <2>2 DEF byShareRatio
<1>4. \A x, y, z \in T : near(x, y) /\ near(y, z) => near(x, z)
  OBVIOUS
<1>5. \A x, y \in T : near(x, y) => (best(x) <=> best(y))
  BY <1>2, <1>4
<1>b. \A x, y \in T : best(x) /\ best(y) => near(x, y)
  <2> SUFFICES ASSUME NEW x \in T, NEW y \in T, best(x), best(y) PROVE near(x, y)
    OBVIOUS
  <2>1. near(x, Infinite) /\ near(Infinite, y)
    BY <1>2
  <2> QED
    BY <1>4, <2>1
<1> HIDE DEF near, best
<1>6. \A x, y \in T : le(x, y) \/ le(y, x)
  <2> SUFFICES ASSUME NEW x \in T, NEW y \in T PROVE le(x, y) \/ le(y, x)
    OBVIOUS
  <2>1. x \in Int /\ y \in Int
    OBVIOUS
  <2>2. x <= y \/ y <= x
    BY <2>1
  <2> QED
    BY <1>b, <2>2
<1>7. ASSUME NEW x \in T, NEW y \in T, NEW z \in T, le(x, y), le(y, z) PROVE le(x, z)
  <2>1. x \in Int /\ y \in Int /\ z \in Int
    OBVIOUS
  <2>2. CASE best(y)
    <3>1. best(z)
      BY <1>5, <1>7, <2>2
    <3>2. best(x) => near(x, y) /\ near(y, z)
      BY <1>7, <2>2
    <3> QED
      BY <1>4, <3>1, <3>2
  <2>3. CASE ~ best(y)
    <3>1. ~ best(x) /\ (near(x, y) \/ x <= y) /\ (near(y, z) \/ best(z) \/ y <= z)
      BY <1>5, <1>7, <2>3
    <3>2. CASE best(z) \/ x <= z
      BY <3>1, <3>2
    <3>3. CASE ~ best(z) /\ z < x
      <4>1. near(x, y) \/ near(y, z)
        BY <2>1, <3>1, <3>3
      <4>2. CASE near(x, y) /\ near(y, z)
        BY <1>4, <4>2
      <4>3. CASE near(x, y) /\ ~ near(y, z)
        <5>1. y <= z
          BY <3>1, <3>3, <4>3
        <5>2. near(x, z)
          BY <1>1, <1>2, <2>1, <3>3, <4>3, <5>1
        <5> QED
          BY <5>2
      <4>4. CASE ~ near(x, y) /\ near(y, z)
        <5>1. x <= y
          BY <3>1, <4>4
        <5>2. near(x, z)
          BY <1>1, <1>2, <2>1, <3>3, <4>4, <5>1
        <5> QED
          BY <5>2
      <4> QED
        BY <4>1, <4>2, <4>3, <4>4
    <3> QED
      BY <2>1, <3>2, <3>3
  <2> QED
    BY <2>2, <2>3
<1>8. ASSUME NEW x \in T, NEW y \in T, le(x, y)
      PROVE  best(y) \/ (~ best(x) /\ x <= y + Tolerance)
  BY <1>1, <1>2, <1>5, <1>8
<1> HIDE DEF le
<1> QED
  BY <1>3, <1>6, <1>7, <1>8 DEF best

LEMMA PeerFields ==
  /\ {"iUpped", "iDowned", "iLeft"} \subseteq LongField
  /\ "iConnected" \in UnsignedField
  /\ {"iUpped", "iDowned", "iLeft", "iConnected", "flShareRatio"} \cap TextField = {}
  /\ {"iUpped", "iDowned", "iLeft", "flShareRatio"} \cap UnsignedField = {}
  /\ {"iConnected", "flShareRatio"} \cap LongField = {}
BY DEF LongField, UnsignedField, TextField

LEMMA PeerFieldOrder ==
  ASSUME NEW S \in SUBSET PeerRow,
         NEW f \in {"iUpped", "iDowned", "iLeft", "iConnected", "flShareRatio"}, tellable(S, f)
  PROVE  /\ \A r, s \in S : byField(f, r, s) <= 0 \/ byField(f, s, r) <= 0
         /\ \A r, s, t \in S : byField(f, r, s) <= 0 /\ byField(f, s, t) <= 0
                                 => byField(f, r, t) <= 0
         /\ \A r, s \in S : byField(f, r, s) <= 0 => mayFollow(r, s, f)
<1>1. ASSUME NEW r \in S PROVE r[f] \in Int
  BY DEF PeerRow
<1>2. CASE f \in {"iUpped", "iDowned", "iLeft"}
  <2>1. f \in LongField /\ f \notin TextField /\ f \notin UnsignedField /\ f # "flShareRatio"
    BY <1>2, PeerFields
  <2>2. \A r, s : byField(f, r, s) = threeWay(r[f], s[f]) /\ (mayFollow(r, s, f) <=> r[f] <= s[f])
    BY <2>1 DEF byField, mayFollow
  <2>3. \A x, y \in Int : threeWay(x, y) <= 0 <=> x <= y
    BY DEF threeWay
  <2>4. \A r, s \in S : (byField(f, r, s) <= 0 <=> r[f] <= s[f])
    BY <1>1, <2>2, <2>3
  <2> QED
    BY <1>1, <2>2, <2>4
<1>3. CASE f = "iConnected"
  <2>1. f \in UnsignedField /\ f \notin TextField /\ f \notin LongField /\ f # "flShareRatio"
    BY <1>3, PeerFields
  <2>2. /\ \A r, s : byField(f, r, s) = int(r[f] - s[f])
        /\ \A r, s : mayFollow(r, s, f) <=> r[f] <= s[f]
    <3>1. ASSUME NEW r, NEW s PROVE byField(f, r, s) = int(r[f] - s[f])
      BY <2>1 DEF byField
    <3>2. ASSUME NEW r, NEW s PROVE mayFollow(r, s, f) <=> r[f] <= s[f]
      BY <2>1 DEF mayFollow
    <3> QED
      BY <3>1, <3>2
  <2>3. \A r, s \in S : 2 * (r[f] - s[f]) < IntRange
    BY <1>3 DEF tellable
  <2>4. \A r, s \in S : (byField(f, r, s) <= 0 <=> r[f] <= s[f])
    BY <1>1, <2>2, <2>3, UnsignedOrder
  <2> QED
    BY <1>1, <2>2, <2>4
<1>4. CASE f = "flShareRatio"
  <2>1. f \notin UnsignedField /\ f \notin TextField /\ f \notin LongField
    BY <1>4, PeerFields
  <2> DEFINE T == {r[f] : r \in S} \cup {Infinite}
  <2>2. \A r, s : /\ byField(f, r, s) = byShareRatio(r[f], s[f])
                  /\ mayFollow(r, s, f) <=> close(s[f], Infinite)
                                            \/ (~ close(r[f], Infinite) /\ r[f] <= s[f] + Tolerance)
    BY <1>4, <2>1 DEF byField, mayFollow
  <2>3. T \in SUBSET Int /\ Infinite \in T /\ \A r \in S : r[f] \in T
    BY <1>1, PeersAssumption
  <2>4. \A x, y, z \in T : close(x, y) /\ close(y, z) => close(x, z)
    BY <1>4 DEF tellable
  <2> HIDE DEF T
  <2>5. /\ \A x, y \in T : byShareRatio(x, y) <= 0 \/ byShareRatio(y, x) <= 0
        /\ \A x, y, z \in T : byShareRatio(x, y) <= 0 /\ byShareRatio(y, z) <= 0
                                => byShareRatio(x, z) <= 0
        /\ \A x, y \in T : byShareRatio(x, y) <= 0
                             => close(y, Infinite) \/ (~ close(x, Infinite) /\ x <= y + Tolerance)
    BY <2>3, <2>4, RatioOrder
  <2>6. \A r, s \in S : byField(f, r, s) <= 0 \/ byField(f, s, r) <= 0
    BY <2>2, <2>3, <2>5
  <2>7. ASSUME NEW r \in S, NEW s \in S, NEW t \in S, byField(f, r, s) <= 0, byField(f, s, t) <= 0
        PROVE  byField(f, r, t) <= 0
    <3>1. byShareRatio(r[f], s[f]) <= 0 /\ byShareRatio(s[f], t[f]) <= 0
      BY <2>2, <2>7
    <3>2. byShareRatio(r[f], t[f]) <= 0
      BY <2>3, <2>5, <3>1
    <3> QED
      BY <2>2, <3>2
  <2>8. \A r, s \in S : byField(f, r, s) <= 0 => mayFollow(r, s, f)
    BY <2>2, <2>3, <2>5
  <2> QED
    BY <2>6, <2>7, <2>8
<1> QED
  BY <1>2, <1>3, <1>4

\* No peer is shown before one that it has to follow.
PeersRanked(s, by, k) == \A i, j \in 1 .. k : i < j => mayFollowBy(s[i], s[j], by)

LEMMA PeersSorted ==
  ASSUME NEW S \in SUBSET PeerRow, NEW rows \in Seq(S), NEW n \in 0 .. 10,
         ~ m_bShowShareRatios => \A r \in S : r.flShareRatio = 0
  PROVE  /\ sortPeers(rows, n) \in Seq(S)
         /\ \E p : /\ Arranged(sortPeers(rows, n), p, rows, Len(rows))
                   /\ tellable(S, peerSort(n).field)
                        => PeersRanked(sortPeers(rows, n), peerSort(n), Len(rows))
<1> DEFINE by == peerSort(n)
           m == Len(rows)
<1>1. /\ by.field \in {"iUpped", "iDowned", "iLeft", "iConnected", "flShareRatio"}
      /\ by.up \in BOOLEAN
  BY DEF peerSort, asort, dsort, PeerColumn
<1>2. m \in Nat /\ \A i \in 1 .. m : rows[i] \in S
  OBVIOUS
<1>3. CASE n \in {5, 10} /\ ~ m_bShowShareRatios
  <2>1. sortPeers(rows, n) = rows /\ by.field = "flShareRatio"
    BY <1>3 DEF sortPeers, peerSort, asort, dsort, PeerColumn
  <2> HIDE DEF by, m
  <2> DEFINE p == [i \in 1 .. m |-> i]
  <2>2. Arranged(rows, p, rows, m)
    BY <1>2 DEF Arranged, m
  <2>3. ASSUME NEW r \in S, NEW s \in S PROVE mayFollowBy(r, s, by)
    <3>1. r.flShareRatio = 0 /\ s.flShareRatio = 0
      BY <1>3
    <3>2. mayFollow(r, s, "flShareRatio") /\ mayFollow(s, r, "flShareRatio")
      BY <3>1, ToleranceAssumption DEF mayFollow
    <3> QED
      BY <2>1, <3>2 DEF mayFollowBy
  <2>4. PeersRanked(rows, by, m)
    BY <1>2, <2>3 DEF PeersRanked
  <2> QED
    BY <2>1, <2>2, <2>4 DEF by, m
<1>4. CASE ~ (n \in {5, 10} /\ ~ m_bShowShareRatios)
  <2>1. sortPeers(rows, n) = qsort(rows, by)
    BY <1>4 DEF sortPeers
  <2> DEFINE t == qsort(rows, by)
  <2> HIDE DEF by, t
  <2>2. PICK p : /\ Arranged(t, p, rows, m)
                 /\ Ordered(by, S) => Sorted(t, p, by, m)
    BY SortArranges DEF t
  <2>3. t \in Seq(S)
    BY SortArranges DEF t
  <2> HIDE DEF m
  <2>4. ASSUME tellable(S, by.field) PROVE PeersRanked(t, by, m)
    <3> DEFINE f == by.field
    <3>1. /\ \A r, s \in S : byField(f, r, s) <= 0 \/ byField(f, s, r) <= 0
          /\ \A r, s, u \in S : byField(f, r, s) <= 0 /\ byField(f, s, u) <= 0
                                  => byField(f, r, u) <= 0
          /\ \A r, s \in S : byField(f, r, s) <= 0 => mayFollow(r, s, f)
      BY <1>1, <2>4, PeerFieldOrder
    <3>2. Ordered(by, S)
      <4>1. CASE by.up
        BY <3>1, <4>1 DEF Ordered, order
      <4>2. CASE ~ by.up
        BY <3>1, <4>2 DEF Ordered, order
      <4> QED
        BY <4>1, <4>2
    <3>3. \A r, s \in S : order(by, r, s) <= 0 => mayFollowBy(r, s, by)
      BY <3>1 DEF order, mayFollowBy
    <3>4. Sorted(t, p, by, m)
      BY <2>2, <3>2
    <3>5. Len(t) = m /\ \A i \in 1 .. m : t[i] \in S
      <4>1. Len(t) = m
        BY <2>2 DEF Arranged
      <4> QED
        BY <2>3, <4>1
    <3> QED
      BY <3>3, <3>4, <3>5 DEF Sorted, PeersRanked
  <2> QED
    BY <2>1, <2>2, <2>3, <2>4 DEF by, t, m
<1> QED
  BY <1>3, <1>4

\* t is the table made of the first k rows of s; its row i is row f[i].
Listed(t, f, s, k, seeder) ==
  /\ f \in [1 .. Len(t) -> 1 .. k] /\ Len(t) <= m_iMaxPeersDisplay
  /\ \A i \in 1 .. Len(t) : t[i] = s[f[i]] /\ (s[f[i]].iLeft = 0) = seeder
  /\ \A i, j \in 1 .. Len(t) : i < j => f[i] < f[j]
  /\ \A j \in 1 .. k : (s[j].iLeft = 0) = seeder /\ (\A i \in 1 .. Len(t) : f[i] # j) =>
       Len(t) = m_iMaxPeersDisplay /\ \A i \in 1 .. Len(t) : f[i] < j

\* The table after one more row.
nextListed(t, s, k, seeder) ==
  IF Len(t) >= m_iMaxPeersDisplay \/ (s[k].iLeft = 0) # seeder THEN t ELSE Append(t, s[k])

LEMMA ListTurn ==
  ASSUME NEW S, NEW s \in Seq(S), NEW seeder \in BOOLEAN, NEW k \in 1 .. Len(s),
         NEW t \in Seq(S), NEW f, Listed(t, f, s, k - 1, seeder)
  PROVE  /\ nextListed(t, s, k, seeder) \in Seq(S)
         /\ \E g : Listed(nextListed(t, s, k, seeder), g, s, k, seeder)
<1> DEFINE u == nextListed(t, s, k, seeder)
           right(j) == (s[j].iLeft = 0) = seeder
           lim == m_iMaxPeersDisplay
           n == Len(t)
<1>1. n \in Nat /\ k \in Nat /\ lim \in Nat /\ s[k] \in S
  BY PeersAssumption
<1> HIDE DEF lim, n
<1>2. /\ f \in [1 .. n -> 1 .. k - 1] /\ n <= lim
      /\ \A i \in 1 .. n : t[i] = s[f[i]] /\ right(f[i])
      /\ \A i, j \in 1 .. n : i < j => f[i] < f[j]
      /\ \A j \in 1 .. k - 1 : right(j) /\ (\A i \in 1 .. n : f[i] # j) =>
           n = lim /\ \A i \in 1 .. n : f[i] < j
  BY DEF Listed, n, lim
<1>3. u = IF n >= lim \/ ~ right(k) THEN t ELSE Append(t, s[k])
  BY DEF n, lim, nextListed
<1> SUFFICES u \in Seq(S) /\ \E g : Listed(u, g, s, k, seeder)
  OBVIOUS
<1> HIDE DEF right, u
<1>4. CASE n >= lim \/ ~ right(k)
  <2>1. u = t
    BY <1>3, <1>4
  <2>2. f \in [1 .. n -> 1 .. k]
    BY <1>1, <1>2
  <2>3. ASSUME NEW j \in 1 .. k, right(j), \A i \in 1 .. n : f[i] # j
        PROVE  n = lim /\ \A i \in 1 .. n : f[i] < j
    <3>1. CASE j = k
      <4>1. n = lim
        BY <1>1, <1>2, <1>4, <2>3, <3>1
      <4>2. \A i \in 1 .. n : f[i] < k
        BY <1>1, <1>2
      <4> QED
        BY <3>1, <4>1, <4>2
    <3>2. CASE j # k
      <4>1. j \in 1 .. k - 1
        BY <1>1, <3>2
      <4> QED
        BY <1>2, <2>3, <4>1
    <3> QED
      BY <3>1, <3>2
  <2>4. Listed(t, f, s, k, seeder)
    BY <1>2, <2>2, <2>3 DEF Listed, right, n, lim
  <2> QED
    BY <2>1, <2>4
<1>5. CASE ~ (n >= lim \/ ~ right(k))
  <2>1. u = Append(t, s[k])
    BY <1>3, <1>5
  <2>2. /\ u \in Seq(S) /\ Len(u) = n + 1 /\ u[n + 1] = s[k]
        /\ \A i \in 1 .. n : u[i] = t[i]
    BY <1>1, <2>1, AppendProperties DEF n
  <2> DEFINE g == [i \in 1 .. n + 1 |-> IF i = n + 1 THEN k ELSE f[i]]
  <2>3. g[n + 1] = k /\ \A i \in 1 .. n : g[i] = f[i]
    BY <1>1
  <2>4. g \in [1 .. n + 1 -> 1 .. k]
    <3>1. \A i \in 1 .. n + 1 : i # n + 1 => i \in 1 .. n
      BY <1>1
    <3>2. \A i \in 1 .. n : f[i] \in 1 .. k
      BY <1>1, <1>2
    <3> QED
      BY <1>1, <3>1, <3>2
  <2> HIDE DEF g
  <2>5. \A i \in 1 .. n + 1 : i = n + 1 \/ i \in 1 .. n
    BY <1>1
  <2>6. \A i \in 1 .. n + 1 : u[i] = s[g[i]] /\ right(g[i])
    BY <1>2, <1>5, <2>2, <2>3, <2>5
  <2>7. ASSUME NEW i \in 1 .. n + 1, NEW j \in 1 .. n + 1, i < j PROVE g[i] < g[j]
    <3>1. i \in 1 .. n
      BY <1>1, <2>7
    <3>2. f[i] < k
      BY <1>1, <1>2, <3>1
    <3>3. CASE j = n + 1
      BY <2>3, <3>1, <3>2, <3>3
    <3>4. CASE j \in 1 .. n
      BY <1>2, <2>3, <2>7, <3>1, <3>4
    <3> QED
      BY <2>5, <3>3, <3>4
  <2>8. ASSUME NEW j \in 1 .. k, right(j), \A i \in 1 .. n + 1 : g[i] # j PROVE FALSE
    <3>1. j # k /\ \A i \in 1 .. n : f[i] # j
      <4>1. n + 1 \in 1 .. n + 1 /\ \A i \in 1 .. n : i \in 1 .. n + 1
        BY <1>1
      <4> QED
        BY <2>3, <2>8, <4>1
    <3>2. j \in 1 .. k - 1
      BY <1>1, <3>1
    <3> QED
      BY <1>1, <1>2, <1>5, <2>8, <3>1, <3>2
  <2>9. n + 1 <= lim
    BY <1>1, <1>5
  <2>10. Listed(u, g, s, k, seeder)
    BY <2>2, <2>4, <2>6, <2>7, <2>8, <2>9 DEF Listed, right, lim
  <2> QED
    BY <2>2, <2>10
<1> QED
  BY <1>4, <1>5

LEMMA PeersListedOnce ==
  ASSUME NEW S, NEW s \in Seq(S), NEW seeder \in BOOLEAN
  PROVE  /\ peersListed(s, seeder) \in Seq(S)
         /\ \E f : Listed(peersListed(s, seeder), f, s, Len(s), seeder)
<1> DEFINE n == Len(s)
           next(v, k) == nextListed(v, s, k, seeder)
           fits(H) == H = [k \in 0 .. n |->
                             IF k = 0 THEN <<>>
                             ELSE IF \/ Len(H[k - 1]) >= m_iMaxPeersDisplay
                                     \/ (s[k].iLeft = 0) # seeder
                             THEN H[k - 1]
                             ELSE Append(H[k - 1], s[k])]
           C == CHOOSE H : fits(H)
           turn == [k \in 1 .. n |-> [v \in Seq(S) |-> next(v, k)]]
<1>1. n \in Nat /\ (\A i \in 1 .. n : s[i] \in S) /\ <<>> \in Seq(S)
  OBVIOUS
<1>2. peersListed(s, seeder) = C[n]
  BY DEF peersListed
<1>3. ASSUME NEW v \in Seq(S), NEW k \in 1 .. n PROVE next(v, k) \in Seq(S)
  BY <1>1, <1>3 DEF nextListed
<1>f. \A H : fits(H) <=> H = [k \in 0 .. n |-> IF k = 0 THEN <<>> ELSE next(H[k - 1], k)]
  BY DEF nextListed
<1> HIDE DEF n, next, fits
<1>4. turn \in [1 .. n -> [Seq(S) -> Seq(S)]]
  BY <1>1, <1>3
<1>5. \A i \in 1 .. n, v \in Seq(S) : turn[i][v] = next(v, i)
  BY <1>1
<1> HIDE DEF turn
<1>6. PICK F \in [0 .. n -> Seq(S)] : F[0] = <<>> /\ \A i \in 1 .. n : F[i] = turn[i][F[i - 1]]
  <2> DEFINE V == Seq(S)
  <2>1. n \in Nat /\ <<>> \in V /\ turn \in [1 .. n -> [V -> V]]
    BY <1>1, <1>4
  <2> HIDE DEF V
  <2>2. PICK F : Loops(F, V, <<>>, turn, n)
    BY <2>1, LoopFcn
  <2> QED
    BY <2>2 DEF V, Loops
<1>7. fits(F)
  <2>1. ASSUME NEW i \in 0 .. n
        PROVE  F[i] = IF i = 0 THEN <<>> ELSE next(F[i - 1], i)
    <3>2. CASE i = 0
      BY <1>6, <3>2
    <3>3. CASE i # 0
      <4>1. i \in 1 .. n /\ i - 1 \in 0 .. n /\ F[i - 1] \in Seq(S)
        BY <1>1, <3>3
      <4> QED
        BY <1>5, <1>6, <3>3, <4>1
    <3> QED
      BY <3>2, <3>3
  <2>2. F = [i \in 0 .. n |-> F[i]]
    OBVIOUS
  <2> QED
    BY <1>f, <2>1, <2>2
<1>8. fits(C)
  BY <1>7
<1> HIDE DEF C
<1>9. C[0] = <<>> /\ \A i \in 1 .. n : C[i] = next(C[i - 1], i)
  <2>1. ASSUME NEW i \in 0 .. n
        PROVE  C[i] = IF i = 0 THEN <<>> ELSE next(C[i - 1], i)
    BY <1>8, <1>f
  <2>2. 0 \in 0 .. n /\ \A i \in 1 .. n : i \in 0 .. n /\ i # 0
    BY <1>1
  <2> QED
    BY <2>1, <2>2
<1> DEFINE fit(k) == C[k] \in Seq(S) /\ \E f : Listed(C[k], f, s, k, seeder)
           T == {k \in Nat : fit(k)}
<1>10. 0 \in T
  <2> DEFINE f == [i \in 1 .. 0 |-> 0]
  <2>1. Len(C[0]) = 0 /\ C[0] \in Seq(S) /\ f \in [1 .. 0 -> 1 .. 0]
    BY <1>1, <1>9
  <2>2. Listed(C[0], f, s, 0, seeder)
    <3> HIDE DEF f
    <3> QED
      BY <2>1, PeersAssumption DEF Listed
  <2>3. fit(0)
    BY <2>1, <2>2
  <2> QED
    BY <2>3
<1>11. ASSUME NEW k \in 1 .. n, k - 1 \in T PROVE k \in T
  <2>1. fit(k - 1)
    <3> HIDE DEF fit
    <3> QED
      BY <1>11
  <2>2. PICK f : Listed(C[k - 1], f, s, k - 1, seeder)
    BY <2>1
  <2>3. C[k - 1] \in Seq(S) /\ k \in 1 .. Len(s) /\ C[k] = next(C[k - 1], k)
    BY <1>9, <2>1 DEF n
  <2>4. fit(k)
    <3> DEFINE v == C[k - 1]
    <3>1. v \in Seq(S) /\ Listed(v, f, s, k - 1, seeder) /\ k \in 1 .. Len(s)
      BY <2>2, <2>3
    <3> HIDE DEF v
    <3>2. next(v, k) \in Seq(S) /\ \E g : Listed(next(v, k), g, s, k, seeder)
      BY <3>1, ListTurn DEF next
    <3> QED
      BY <2>3, <3>2 DEF v
  <2> HIDE DEF fit
  <2> QED
    BY <1>1, <2>4
<1>12. fit(n)
  <2> HIDE DEF fit
  <2>1. n \in T
    <3> HIDE DEF T
    <3>1. \A k \in 0 .. n : k \in T
      BY <1>1, <1>10, <1>11, Turns
    <3> QED
      BY <1>1, <3>1
  <2> QED
    BY <2>1
<1> QED
  BY <1>2, <1>12 DEF n

\* The table as the reader of the page sees it.
TableOf(table, of, peers, sort, all) ==
  /\ of \in Injection(DOMAIN table, all)
  /\ Len(table) = Min({Cardinality(all), m_iMaxPeersDisplay})
  /\ \A n \in DOMAIN table : table[n] = peerRow(peers[of[n]])
  /\ tellable({peerRow(peers[n]) : n \in DOMAIN peers}, peerSort(sort).field) =>
       \A n \in DOMAIN table :
         /\ \A m \in 1 .. n - 1 : mayFollowBy(table[m], table[n], peerSort(sort))
         /\ \A m \in all \ Range(of) : mayFollowBy(table[n], peerRow(peers[m]), peerSort(sort))

LEMMA PeerTable ==
  ASSUME NEW peers \in PeerList, NEW sort \in 0 .. 10, NEW seeder \in BOOLEAN
  PROVE  \E of : TableOf(statsTable(peers, sort, seeder), of, peers, sort,
                         {n \in DOMAIN peers : (peers[n].left = 0) = seeder})
<1> DEFINE all == {n \in DOMAIN peers : (peers[n].left = 0) = seeder}
           rows == [i \in DOMAIN peers |-> peerRow(peers[i])]
           S == {peerRow(peers[n]) : n \in DOMAIN peers}
           N == Len(peers)
           by == peerSort(sort)
           s == sortPeers(rows, sort)
           t == peersListed(s, seeder)
<1>1. /\ peers \in Seq([uploaded : Int, downloaded : Int, left : Int, connected : Int])
      /\ N \in Nat /\ DOMAIN peers = 1 .. N
  BY PeersAssumption
<1>2. ASSUME NEW i \in 1 .. N
      PROVE  /\ peerRow(peers[i]) \in PeerRow /\ peerRow(peers[i]).iLeft = peers[i].left
             /\ peerRow(peers[i]) \in S
  <2>1. peers[i] \in [uploaded : Int, downloaded : Int, left : Int, connected : Int]
    BY <1>1, ElementOfSeq
  <2> QED
    BY <1>1, <2>1, PeerRows
<1>3. S \in SUBSET PeerRow
  BY <1>1, <1>2
<1>4. rows \in Seq(S) /\ Len(rows) = N /\ \A i \in 1 .. N : rows[i] = peerRow(peers[i])
  <2>1. rows \in [1 .. N -> S]
    BY <1>1, <1>2
  <2> QED
    BY <1>1, <2>1
<1>5. ~ m_bShowShareRatios => \A r \in S : r.flShareRatio = 0
  BY PeersAssumption DEF peerRow, shareRatio
<1>6. statsTable(peers, sort, seeder) = t
  BY DEF statsTable
<1>a. \A n : n \in all <=> n \in 1 .. N /\ (peers[n].left = 0) = seeder
  BY <1>1
<1>t. tellable(S, by.field)
        <=> tellable({peerRow(peers[n]) : n \in DOMAIN peers}, peerSort(sort).field)
  OBVIOUS
<1> SUFFICES \E of : TableOf(t, of, peers, sort, all)
  BY <1>6
<1> HIDE DEF all, rows, S, N, by
<1>7. PICK p : Arranged(s, p, rows, N) /\ (tellable(S, by.field) => PeersRanked(s, by, N))
  BY <1>3, <1>4, <1>5, PeersSorted DEF by
<1>8. s \in Seq(S)
  BY <1>3, <1>4, <1>5, PeersSorted
<1> HIDE DEF s
<1>9. /\ p \in [1 .. N -> 1 .. N] /\ Len(s) = N
      /\ \A i \in 1 .. N : s[i] = rows[p[i]]
      /\ \A i, j \in 1 .. N : p[i] = p[j] => i = j
  BY <1>7 DEF Arranged
<1>10. t \in Seq(S)
  BY <1>8, PeersListedOnce
<1>11. PICK f : Listed(t, f, s, N, seeder)
  BY <1>8, <1>9, PeersListedOnce
<1> HIDE DEF t
<1> DEFINE m == Len(t)
           lim == m_iMaxPeersDisplay
<1>12. m \in Nat /\ lim \in Nat /\ DOMAIN t = 1 .. m
  BY <1>10, PeersAssumption
<1>s. ASSUME NEW i \in 1 .. N
      PROVE  p[i] \in 1 .. N /\ s[i] = peerRow(peers[p[i]]) /\ s[i].iLeft = peers[p[i]].left
  BY <1>2, <1>4, <1>9
<1>13. /\ f \in [1 .. m -> 1 .. N] /\ m <= lim
       /\ \A i \in 1 .. m : t[i] = s[f[i]] /\ (s[f[i]].iLeft = 0) = seeder
       /\ \A i, j \in 1 .. m : i < j => f[i] < f[j]
       /\ \A j \in 1 .. N : (s[j].iLeft = 0) = seeder /\ (\A i \in 1 .. m : f[i] # j) =>
            m = lim /\ \A i \in 1 .. m : f[i] < j
  BY <1>11 DEF Listed
<1> HIDE DEF m, lim
<1> DEFINE of == [i \in 1 .. m |-> p[f[i]]]
<1>14. \A i \in 1 .. m : of[i] = p[f[i]] /\ of[i] \in all
  <2> SUFFICES ASSUME NEW i \in 1 .. m PROVE p[f[i]] \in all
    OBVIOUS
  <2>1. f[i] \in 1 .. N /\ (s[f[i]].iLeft = 0) = seeder
    BY <1>13
  <2>2. p[f[i]] \in 1 .. N /\ (peers[p[f[i]]].left = 0) = seeder
    BY <1>s, <2>1
  <2> QED
    BY <1>a, <2>2
<1>15. of \in [1 .. m -> all] /\ DOMAIN of = 1 .. m
  BY <1>14
<1> HIDE DEF of
<1>16. of \in Injection(1 .. m, all)
  <2>1. ASSUME NEW i \in 1 .. m, NEW j \in 1 .. m, of[i] = of[j] PROVE i = j
    <3>1. f[i] = f[j]
      BY <1>9, <1>13, <1>14, <2>1
    <3>2. f[i] \in 1 .. N /\ f[j] \in 1 .. N /\ i \in Nat /\ j \in Nat
      BY <1>12, <1>13
    <3>3. ~ (i < j) /\ ~ (j < i)
      BY <1>13, <3>1, <3>2
    <3> QED
      BY <3>2, <3>3
  <2> QED
    BY <1>15, <2>1 DEF Injection, IsInjective
<1>17. ASSUME NEW a \in all
       PROVE  \E j \in 1 .. N : p[j] = a /\ (s[j].iLeft = 0) = seeder
  <2>1. a \in 1 .. N /\ (peers[a].left = 0) = seeder
    BY <1>a
  <2>2. PICK j \in 1 .. N : p[j] = a
    <3>1. N \in Nat /\ p \in [1 .. N -> 1 .. N] /\ \A i, j \in 1 .. N : p[i] = p[j] => i = j
      BY <1>1, <1>9
    <3>2. \A k \in 1 .. N : \E i \in 1 .. N : p[i] = k
      BY <3>1, AllReached
    <3> QED
      BY <2>1, <3>2
  <2> QED
    BY <1>s, <2>1, <2>2
<1>18. m = Min({Cardinality(all), lim})
  <2>1. IsFiniteSet(all)
    <3>1. IsFiniteSet(1 .. N) /\ all \in SUBSET (1 .. N)
      BY <1>1, <1>a, FS_Interval DEF N
    <3> QED
      BY <3>1, FS_Subset
  <2>2. ASSUME m < lim, NEW a \in all PROVE \E i \in 1 .. m : of[i] = a
    <3>1. PICK j \in 1 .. N : p[j] = a /\ (s[j].iLeft = 0) = seeder
      BY <1>17
    <3>2. m # lim
      BY <1>12, <2>2
    <3>3. PICK i \in 1 .. m : f[i] = j
      BY <1>13, <3>1, <3>2
    <3> QED
      BY <1>14, <3>1, <3>3
  <2> QED
    BY <1>12, <1>13, <1>16, <2>1, <2>2, AsManyAsShown
<1>19. \A i \in 1 .. m : t[i] = peerRow(peers[of[i]])
  BY <1>13, <1>14, <1>s
<1>20. ASSUME tellable(S, by.field), NEW i \in 1 .. m
       PROVE  /\ \A j \in 1 .. i - 1 : mayFollowBy(t[j], t[i], by)
              /\ \A a \in all \ Range(of) : mayFollowBy(t[i], peerRow(peers[a]), by)
  <2>1. \A j, k \in 1 .. N : j < k => mayFollowBy(s[j], s[k], by)
    BY <1>7, <1>20 DEF PeersRanked
  <2>2. ASSUME NEW j \in 1 .. i - 1 PROVE mayFollowBy(t[j], t[i], by)
    <3>1. j \in 1 .. m /\ j < i
      BY <1>12
    <3>2. f[j] < f[i] /\ f[j] \in 1 .. N /\ f[i] \in 1 .. N
      BY <1>13, <3>1
    <3> QED
      BY <1>13, <2>1, <3>1, <3>2
  <2>3. ASSUME NEW a \in all, a \notin Range(of)
        PROVE  mayFollowBy(t[i], peerRow(peers[a]), by)
    <3>1. PICK j \in 1 .. N : p[j] = a /\ (s[j].iLeft = 0) = seeder
      BY <1>17
    <3>2. \A k \in 1 .. m : f[k] # j
      BY <1>14, <1>15, <2>3, <3>1 DEF Range
    <3>3. f[i] < j /\ f[i] \in 1 .. N
      BY <1>13, <3>1, <3>2
    <3> QED
      BY <1>13, <1>s, <2>1, <3>1, <3>3
  <2> QED
    BY <2>2, <2>3
<1>21. TableOf(t, of, peers, sort, all)
  BY <1>12, <1>16, <1>18, <1>19, <1>20, <1>t DEF TableOf, m, lim, by
<1> QED
  BY <1>21

PeerJobs == job = NoJob \/ job \in [peers : PeerList, sort : 0 .. 10]

\* The stats page lists every peer once, in the right table and in the order asked for,
\* and cuts a table at the limit behind the rows that come first, whatever peers announce.
THEOREM PeersAlwaysListed == PeerSpec => []PeersListed
<1>1. job = NoJob => PeerJobs
  BY DEF PeerJobs
<1>2. PeerJobs /\ [ListPeers \/ Done]_job => PeerJobs'
  <2> SUFFICES ASSUME PeerJobs, [ListPeers \/ Done]_job PROVE PeerJobs'
    OBVIOUS
  <2>1. CASE ListPeers
    BY <2>1 DEF ListPeers, PeerJobs
  <2>2. CASE Done
    BY <2>2 DEF Done, PeerJobs, NoJob
  <2>3. CASE UNCHANGED job
    BY <2>3 DEF PeerJobs, NoJob
  <2> QED
    BY <2>1, <2>2, <2>3
<1>3. PeerJobs => PeersListed
  <2> SUFFICES ASSUME PeerJobs, NEW peers \in {job.peers : x \in {"peers"} \cap DOMAIN job},
                      NEW seeder \in BOOLEAN
               PROVE  \E of \in Injection(DOMAIN statsTable(peers, job.sort, seeder),
                                          {n \in DOMAIN peers : (peers[n].left = 0) = seeder}) :
                        TableOf(statsTable(peers, job.sort, seeder), of, peers, job.sort,
                                {n \in DOMAIN peers : (peers[n].left = 0) = seeder})
    BY DEF PeersListed, TableOf
  <2>1. "peers" \in DOMAIN job /\ peers = job.peers
    OBVIOUS
  <2>2. job # NoJob
    BY <2>1 DEF NoJob
  <2>3. peers \in PeerList /\ job.sort \in 0 .. 10
    BY <2>1, <2>2 DEF PeerJobs
  <2>4. PICK of : TableOf(statsTable(peers, job.sort, seeder), of, peers, job.sort,
                          {n \in DOMAIN peers : (peers[n].left = 0) = seeder})
    BY <2>3, PeerTable
  <2> QED
    BY <2>4 DEF TableOf
<1> QED
  BY <1>1, <1>2, <1>3, PTL DEF PeerSpec

-----------------------------------------------------------------------------
\* The order of texts

\* The texts differ at i and nowhere before.
FirstApart(a, b, i) == at(a, i) # at(b, i) /\ \A k \in 0 .. i - 1 : at(a, k) = at(b, k)

LEMMA Bytes ==
  ASSUME NEW a \in Seq(Char)
  PROVE  /\ Len(a) \in Nat
         /\ \A i \in Nat : at(a, i) \in Int
         /\ \A i \in Nat : i < Len(a) => at(a, i) >= 0 /\ at(a, i) = a[i + 1]
         /\ \A i \in Nat : i >= Len(a) => at(a, i) = -1
<1>1. Len(a) \in Nat
  OBVIOUS
<1>2. ASSUME NEW i \in Nat, i < Len(a) PROVE at(a, i) \in Nat /\ at(a, i) = a[i + 1]
  <2>1. i + 1 \in 1 .. Len(a)
    BY <1>1, <1>2
  <2>2. a[i + 1] \in Char
    BY <2>1, ElementOfSeq
  <2> QED
    BY <1>2, <2>2, Characters DEF at
<1>3. ASSUME NEW i \in Nat, i >= Len(a) PROVE at(a, i) = -1
  BY <1>1, <1>3 DEF at, Terminator
<1> QED
  BY <1>1, <1>2, <1>3

LEMMA ApartSomewhere ==
  ASSUME NEW a \in Seq(Char), NEW b \in Seq(Char), a # b
  PROVE  \E i \in Nat : FirstApart(a, b, i)
<1> DEFINE T == {i \in Nat : at(a, i) # at(b, i)}
<1>1. T # {}
  <2> SUFFICES ASSUME \A i \in Nat : at(a, i) = at(b, i) PROVE a = b
    OBVIOUS
  <2>1. Len(a) = Len(b)
    <3>1. Len(a) \in Nat /\ Len(b) \in Nat
      OBVIOUS
    <3>2. CASE Len(a) < Len(b)
      <4>1. at(a, Len(a)) = -1
        BY <3>1, Bytes
      <4>2. at(b, Len(a)) >= 0
        BY <3>1, <3>2, Bytes
      <4> QED
        BY <3>1, <4>1, <4>2
    <3>3. CASE Len(b) < Len(a)
      <4>1. at(b, Len(b)) = -1
        BY <3>1, Bytes
      <4>2. at(a, Len(b)) >= 0
        BY <3>1, <3>3, Bytes
      <4> QED
        BY <3>1, <4>1, <4>2
    <3> QED
      BY <3>1, <3>2, <3>3
  <2>2. ASSUME NEW i \in 1 .. Len(a) PROVE a[i] = b[i]
    <3>1. i - 1 \in Nat /\ i - 1 < Len(a) /\ i - 1 < Len(b) /\ i - 1 + 1 = i
      BY <2>1
    <3>2. at(a, i - 1) = a[i - 1 + 1] /\ at(b, i - 1) = b[i - 1 + 1]
      BY <3>1, Bytes
    <3> QED
      BY <3>1, <3>2
  <2> QED
    BY <2>1, <2>2, SeqEqual
<1>2. PICK i \in T : \A k \in T : i <= k
  BY <1>1, LeastNumber
<1>3. ASSUME NEW k \in 0 .. i - 1 PROVE at(a, k) = at(b, k)
  <2>1. k \in Nat /\ ~ (i <= k)
    BY <1>2
  <2> QED
    BY <1>2, <2>1
<1> QED
  BY <1>2, <1>3 DEF FirstApart

LEMMA CompareAt ==
  ASSUME NEW a \in Seq(Char), NEW b \in Seq(Char), NEW i \in Nat, FirstApart(a, b, i)
  PROVE  compare(a, b) = IF at(a, i) < at(b, i) THEN -1 ELSE 1
<1> DEFINE D == {k \in 0 .. Len(a) : at(a, k) # at(b, k)}
           Q(j) == j \in D /\ \A k \in D : j <= k
<1>1. Len(a) \in Nat
  OBVIOUS
<1>2. at(a, i) # at(b, i) /\ \A k \in 0 .. i - 1 : at(a, k) = at(b, k)
  BY DEF FirstApart
<1>3. i <= Len(a)
  <2> SUFFICES ASSUME Len(a) < i PROVE FALSE
    BY <1>1
  <2>1. at(a, Len(a)) = -1 /\ at(a, i) = -1
    BY <1>1, Bytes
  <2>2. at(b, Len(a)) = -1
    BY <1>1, <1>2, <2>1
  <2>3. ~ (Len(a) < Len(b))
    BY <1>1, <2>2, Bytes
  <2>4. i >= Len(b)
    BY <1>1, <2>3
  <2>5. at(b, i) = -1
    BY <2>4, Bytes
  <2> QED
    BY <1>2, <2>1, <2>5
<1>4. Q(i)
  BY <1>1, <1>2, <1>3
<1>5. \A j : Q(j) => j = i
  <2> SUFFICES ASSUME NEW j, Q(j) PROVE j = i
    OBVIOUS
  <2>1. j \in Int /\ j <= i /\ i <= j
    BY <1>1, <1>4
  <2> QED
    BY <2>1
<1>6. (CHOOSE j \in D : \A k \in D : j <= k) = i
  <2>1. (CHOOSE j : Q(j)) = i
    <3> HIDE DEF Q
    <3> QED
      BY <1>4, <1>5
  <2> QED
    BY <2>1
<1>7. a # b
  BY <1>2
<1>8. compare(a, b) = CASE a = b -> 0
                        [] a # b /\ at(a, i) < at(b, i) -> -1
                        [] OTHER -> 1
  BY <1>6 DEF compare
<1> HIDE DEF D
<1> QED
  BY <1>7, <1>8

\* compare is a total order of texts.
LEMMA CompareOrder ==
  /\ \A a, b \in Seq(Char) : compare(a, b) \in Int /\ (compare(a, b) = 0 <=> a = b)
  /\ \A a, b \in Seq(Char) : compare(a, b) < 0 <=> compare(b, a) > 0
  /\ \A a, b, c \in Seq(Char) : compare(a, b) <= 0 /\ compare(b, c) <= 0 => compare(a, c) <= 0
<1>1. ASSUME NEW a \in Seq(Char) PROVE compare(a, a) = 0
  BY DEF compare
<1>2. ASSUME NEW a \in Seq(Char), NEW b \in Seq(Char), a # b
      PROVE  /\ compare(a, b) \in {-1, 1}
             /\ compare(a, b) < 0 <=> compare(b, a) > 0
             /\ compare(a, b) < 0 <=> \E i \in Nat : FirstApart(a, b, i) /\ at(a, i) < at(b, i)
  <2>1. PICK i \in Nat : FirstApart(a, b, i)
    BY <1>2, ApartSomewhere
  <2>2. FirstApart(b, a, i)
    BY <2>1 DEF FirstApart
  <2>3. compare(a, b) = IF at(a, i) < at(b, i) THEN -1 ELSE 1
    BY <2>1, CompareAt
  <2>4. compare(b, a) = IF at(b, i) < at(a, i) THEN -1 ELSE 1
    BY <2>2, CompareAt
  <2>5. at(a, i) \in Int /\ at(b, i) \in Int /\ at(a, i) # at(b, i)
    BY <2>1, Bytes DEF FirstApart
  <2>6. ASSUME NEW j \in Nat, FirstApart(a, b, j), at(a, j) < at(b, j) PROVE compare(a, b) < 0
    <3>1. compare(a, b) = -1
      BY <2>6, CompareAt
    <3> QED
      BY <3>1
  <2>7. /\ compare(a, b) \in {-1, 1}
        /\ compare(a, b) < 0 <=> compare(b, a) > 0
        /\ compare(a, b) < 0 => at(a, i) < at(b, i)
    BY <2>3, <2>4, <2>5
  <2> QED
    BY <2>1, <2>6, <2>7
<1>3. ASSUME NEW a \in Seq(Char), NEW b \in Seq(Char), NEW c \in Seq(Char), a # b, b # c,
             compare(a, b) < 0, compare(b, c) < 0
      PROVE  compare(a, c) < 0
  <2>1. PICK i \in Nat : FirstApart(a, b, i) /\ at(a, i) < at(b, i)
    BY <1>2, <1>3
  <2>2. PICK j \in Nat : FirstApart(b, c, j) /\ at(b, j) < at(c, j)
    BY <1>2, <1>3
  <2>3. /\ \A k \in 0 .. i - 1 : at(a, k) = at(b, k)
        /\ \A k \in 0 .. j - 1 : at(b, k) = at(c, k)
    BY <2>1, <2>2 DEF FirstApart
  <2>4. \A k \in Nat : at(a, k) \in Int /\ at(b, k) \in Int /\ at(c, k) \in Int
    BY Bytes
  <2>5. PICK m \in Nat : m <= i /\ m <= j /\ (m = i \/ m = j)
    <3>1. i <= j \/ j <= i
      OBVIOUS
    <3> QED
      BY <3>1
  <2>6. \A k \in 0 .. m - 1 : at(a, k) = at(c, k)
    BY <2>3, <2>5
  <2>7. at(a, m) <= at(b, m) /\ at(b, m) <= at(c, m) /\ at(a, m) # at(c, m)
    <3>1. CASE i < j
      <4>1. m = i /\ at(b, i) = at(c, i)
        BY <2>3, <2>5, <3>1
      <4> QED
        BY <2>1, <2>4, <4>1
    <3>2. CASE j < i
      <4>1. m = j /\ at(a, j) = at(b, j)
        BY <2>3, <2>5, <3>2
      <4> QED
        BY <2>2, <2>4, <4>1
    <3>3. CASE i = j
      <4>1. m = i
        BY <2>5, <3>3
      <4> QED
        BY <2>1, <2>2, <2>4, <3>3, <4>1
    <3> QED
      BY <3>1, <3>2, <3>3
  <2>8. FirstApart(a, c, m) /\ at(a, m) < at(c, m)
    <3>1. at(a, m) \in Int /\ at(b, m) \in Int /\ at(c, m) \in Int
      BY <2>4
    <3>2. at(a, m) < at(c, m)
      BY <2>7, <3>1
    <3> QED
      BY <2>6, <2>7, <3>2 DEF FirstApart
  <2>9. compare(a, c) = -1
    BY <2>8, CompareAt
  <2> QED
    BY <2>9
<1>4. ASSUME NEW a \in Seq(Char), NEW b \in Seq(Char), NEW c \in Seq(Char),
             compare(a, b) <= 0, compare(b, c) <= 0
      PROVE  compare(a, c) <= 0
  <2>1. CASE a = b \/ b = c
    BY <1>4, <2>1
  <2>2. CASE a = c
    BY <1>1, <2>2
  <2>3. CASE a # b /\ b # c /\ a # c
    <3>1. compare(a, b) < 0 /\ compare(b, c) < 0
      BY <1>2, <1>4, <2>3
    <3>2. compare(a, c) < 0 /\ compare(a, c) \in {-1, 1}
      BY <1>2, <1>3, <2>3, <3>1
    <3> QED
      BY <3>2
  <2> QED
    BY <2>1, <2>2, <2>3
<1>5. ASSUME NEW a \in Seq(Char), NEW b \in Seq(Char)
      PROVE  /\ compare(a, b) \in Int /\ (compare(a, b) = 0 <=> a = b)
             /\ compare(a, b) < 0 <=> compare(b, a) > 0
  <2>1. CASE a = b
    BY <1>1, <2>1
  <2>2. CASE a # b
    BY <1>2, <2>2
  <2> QED
    BY <2>1, <2>2
<1> QED
  BY <1>4, <1>5

-----------------------------------------------------------------------------
\* Keys in order

\* The keys of a map, each once and in order.
KeysOf(keys, K) ==
  /\ keys \in Seq(K) /\ Len(keys) = Cardinality(K)
  /\ \A i, j \in 1 .. Len(keys) : i < j <=> compare(keys[i], keys[j]) < 0
  /\ \A i, j \in 1 .. Len(keys) : keys[i] = keys[j] => i = j
  /\ \A k \in K : \E i \in 1 .. Len(keys) : keys[i] = k

LEMMA TextsOrdered ==
  ASSUME NEW K \in SUBSET Seq(Char), NEW R, R = {p \in K \X K : compare(p[1], p[2]) < 0}
  PROVE  StrictOrder(R, K)
<1>1. \A a, b \in K : <<a, b>> \in R <=> compare(a, b) < 0
  OBVIOUS
<1>2. \A a, b \in K : /\ compare(a, b) \in Int /\ (compare(a, b) = 0 <=> a = b)
                      /\ compare(a, b) < 0 <=> compare(b, a) > 0
  BY CompareOrder
<1>3. \A a \in K : <<a, a>> \notin R
  <2> SUFFICES ASSUME NEW a \in K PROVE ~ (compare(a, a) < 0)
    BY <1>1
  <2>1. compare(a, a) = 0
    BY <1>2
  <2> QED
    BY <2>1
<1>4. ASSUME NEW a \in K, NEW b \in K, a # b PROVE <<a, b>> \in R \/ <<b, a>> \in R
  <2>1. compare(a, b) # 0 /\ compare(a, b) \in Int
    BY <1>2, <1>4
  <2>2. compare(b, a) < 0 <=> compare(a, b) > 0
    BY <1>2
  <2> QED
    BY <1>1, <2>1, <2>2
<1>5. ASSUME NEW a \in K, NEW b \in K, NEW c \in K, <<a, b>> \in R, <<b, c>> \in R
      PROVE  <<a, c>> \in R
  <2>1. compare(a, b) < 0 /\ compare(b, c) < 0
    BY <1>1, <1>5
  <2>2. compare(a, c) <= 0
    <3>1. compare(a, b) <= 0 /\ compare(b, c) <= 0
      BY <1>2, <2>1
    <3> QED
      BY <3>1, CompareOrder
  <2>3. compare(a, c) # 0
    <3> SUFFICES ASSUME a = c PROVE FALSE
      BY <1>2
    <3>1. compare(b, a) > 0 /\ compare(b, a) < 0
      BY <1>2, <2>1
    <3> QED
      BY <1>2, <3>1
  <2>4. compare(a, c) < 0
    BY <1>2, <2>2, <2>3
  <2> QED
    BY <1>1, <2>4
<1> QED
  BY <1>3, <1>4, <1>5 DEF StrictOrder

LEMMA KeysInOrder ==
  ASSUME NEW K \in SUBSET Seq(Char), IsFiniteSet(K)
  PROVE  KeysOf(keysInOrder(K), K)
<1> DEFINE n == Cardinality(K)
           keys == keysInOrder(K)
           isKey(i, k) == k \in K /\ Cardinality({j \in K : compare(j, k) < 0}) = i - 1
<1>0. PICK R : R = {p \in K \X K : compare(p[1], p[2]) < 0}
  OBVIOUS
<1>1. StrictOrder(R, K)
  BY <1>0, TextsOrdered
<1>2. \A a, b \in K : <<a, b>> \in R <=> compare(a, b) < 0
  BY <1>0
<1>3. n \in Nat
  BY FS_CardinalityType
<1>4. ASSUME NEW k \in K PROVE rank(R, K, k) = Cardinality({j \in K : compare(j, k) < 0})
  <2>1. predecessors(R, K, k) = {j \in K : compare(j, k) < 0}
    BY <1>2 DEF predecessors
  <2> QED
    BY <2>1 DEF rank
<1>5. /\ \A k \in K : rank(R, K, k) \in 0 .. n - 1
      /\ \A a, b \in K : <<a, b>> \in R => rank(R, K, a) < rank(R, K, b)
      /\ \A a, b \in K : rank(R, K, a) = rank(R, K, b) => a = b
      /\ \A i \in 0 .. n - 1 : \E k \in K : rank(R, K, k) = i
  <2>1. RankedBy(R, K)
    BY <1>1, Ranked
  <2> QED
    BY <2>1 DEF RankedBy
<1>6. keys = [i \in 1 .. n |-> CHOOSE k : isKey(i, k)]
  BY DEF keysInOrder
<1>7. \A i, k : isKey(i, k) <=> k \in K /\ rank(R, K, k) = i - 1
  BY <1>4
<1> HIDE DEF isKey, keys, n
<1>8. ASSUME NEW i \in 1 .. n PROVE keys[i] \in K /\ rank(R, K, keys[i]) = i - 1
  <2>1. i - 1 \in 0 .. n - 1
    BY <1>3
  <2>2. \E k : isKey(i, k)
    BY <1>5, <1>7, <2>1
  <2>3. isKey(i, keys[i])
    BY <1>6, <2>2
  <2> QED
    BY <1>7, <2>3
<1>9. keys \in Seq(K) /\ Len(keys) = n
  <2>1. keys \in [1 .. n -> K]
    BY <1>6, <1>8
  <2> QED
    BY <1>3, <2>1
<1>10. ASSUME NEW k \in K PROVE \E i \in 1 .. n : keys[i] = k
  <2>1. rank(R, K, k) \in 0 .. n - 1
    BY <1>5
  <2>2. rank(R, K, k) + 1 \in 1 .. n
    BY <1>3, <2>1
  <2>3. rank(R, K, keys[rank(R, K, k) + 1]) = rank(R, K, k) /\ keys[rank(R, K, k) + 1] \in K
    BY <1>3, <1>8, <2>1, <2>2
  <2> QED
    BY <1>5, <2>2, <2>3
<1>11. ASSUME NEW i \in 1 .. n, NEW j \in 1 .. n PROVE i < j <=> compare(keys[i], keys[j]) < 0
  <2>1. /\ keys[i] \in K /\ keys[j] \in K /\ i \in Int /\ j \in Int
        /\ rank(R, K, keys[i]) = i - 1 /\ rank(R, K, keys[j]) = j - 1
    BY <1>3, <1>8
  <2>2. CASE i < j
    <3>1. keys[i] # keys[j] /\ ~ (rank(R, K, keys[j]) < rank(R, K, keys[i]))
      BY <2>1, <2>2
    <3>2. <<keys[j], keys[i]>> \notin R
      BY <1>5, <2>1, <3>1
    <3>3. <<keys[i], keys[j]>> \in R
      BY <1>1, <2>1, <3>1, <3>2 DEF StrictOrder
    <3> QED
      BY <1>2, <2>1, <2>2, <3>3
  <2>3. CASE ~ (i < j)
    <3>1. <<keys[i], keys[j]>> \notin R
      <4>1. ~ (rank(R, K, keys[i]) < rank(R, K, keys[j]))
        BY <2>1, <2>3
      <4> QED
        BY <1>5, <2>1, <4>1
    <3> QED
      BY <1>2, <2>1, <2>3, <3>1
  <2> QED
    BY <2>2, <2>3
<1>12. ASSUME NEW i \in 1 .. n, NEW j \in 1 .. n, keys[i] = keys[j] PROVE i = j
  <2>1. i - 1 = j - 1 /\ i \in Int /\ j \in Int
    BY <1>3, <1>8, <1>12
  <2> QED
    BY <2>1
<1>13. /\ \A i, j \in 1 .. n : i < j <=> compare(keys[i], keys[j]) < 0
       /\ \A i, j \in 1 .. n : keys[i] = keys[j] => i = j
       /\ \A k \in K : \E i \in 1 .. n : keys[i] = k
  BY <1>10, <1>11, <1>12
<1>14. KeysOf(keys, K)
  BY <1>9, <1>13 DEF KeysOf, n
<1> QED
  BY <1>14 DEF keys

-----------------------------------------------------------------------------
\* The rows that match

\* The places of the rows that match, and the rows.
matchedAt(rows, ask) == {i \in DOMAIN rows : matches(rows[i], ask)}
picked(rows, M) == [i \in 1 .. Cardinality(M) |-> rows[nth(M, i)]]

\* What is shown of G, from row s + 1 on and n rows if n is not zero, when c rows of it
\* have been found, and how many were skipped.
pieceLen(s, n, c) ==
  IF s < 0 \/ c <= s THEN 0 ELSE IF n # 0 /\ c - s > n THEN n ELSE c - s
piece(G, s, n, c) == [j \in 1 .. pieceLen(s, n, c) |-> G[s + j]]
skippedOf(s, c) == IF s < 0 \/ c <= s THEN c ELSE s

\* Another row is found.
NextPiece(G, s, n, c) ==
  /\ Len(piece(G, s, n, c)) = pieceLen(s, n, c)
  /\ n # 0 /\ pieceLen(s, n, c) >= n =>
       piece(G, s, n, c + 1) = piece(G, s, n, c) /\ skippedOf(s, c + 1) = skippedOf(s, c)
  /\ ~ (n # 0 /\ pieceLen(s, n, c) >= n) /\ skippedOf(s, c) = s =>
       /\ piece(G, s, n, c + 1) = Append(piece(G, s, n, c), G[c + 1])
       /\ skippedOf(s, c + 1) = s
  /\ ~ (n # 0 /\ pieceLen(s, n, c) >= n) /\ skippedOf(s, c) # s =>
       /\ piece(G, s, n, c + 1) = piece(G, s, n, c)
       /\ skippedOf(s, c + 1) = skippedOf(s, c) + 1

LEMMA PieceTurn ==
  ASSUME NEW S, NEW G \in Seq(S), NEW s \in Int, NEW n \in Nat, NEW c \in Nat, c < Len(G)
  PROVE  NextPiece(G, s, n, c) /\ piece(G, s, n, c) \in Seq(S)
<1> DEFINE L == pieceLen(s, n, c)
           t == piece(G, s, n, c)
<1>1. L \in Nat /\ (L # 0 => s >= 0 /\ s + L <= c)
  BY DEF pieceLen
<1>2. t = [j \in 1 .. L |-> G[s + j]]
  BY DEF piece
<1>f. ASSUME NEW j \in 1 .. Len(G) PROVE G[j] \in S
  BY ElementOfSeq
<1> HIDE DEF L, t
<1>3. ASSUME NEW j \in 1 .. L PROVE G[s + j] \in S
  <2>1. s + j \in 1 .. Len(G)
    BY <1>1
  <2> QED
    BY <1>f, <2>1
<1>4. t \in Seq(S) /\ Len(t) = L
  <2>1. t \in [1 .. L -> S]
    BY <1>2, <1>3
  <2> QED
    BY <1>1, <2>1
<1>s. ASSUME NEW d, pieceLen(s, n, d) = L PROVE piece(G, s, n, d) = t
  BY <1>2, <1>s DEF piece
<1>5. CASE n # 0 /\ L >= n
  <2>1. pieceLen(s, n, c + 1) = L /\ skippedOf(s, c + 1) = skippedOf(s, c)
    BY <1>5 DEF pieceLen, skippedOf, L
  <2> QED
    BY <1>4, <1>5, <1>s, <2>1 DEF NextPiece, L, t
<1>6. CASE ~ (n # 0 /\ L >= n) /\ skippedOf(s, c) = s
  <2>1. s >= 0 /\ s <= c /\ L = c - s
    BY <1>6 DEF pieceLen, skippedOf, L
  <2>2. pieceLen(s, n, c + 1) = L + 1 /\ skippedOf(s, c + 1) = s
    BY <1>6, <2>1 DEF pieceLen, skippedOf
  <2>3. piece(G, s, n, c + 1) = [j \in 1 .. L + 1 |-> G[s + j]]
    BY <2>2 DEF piece
  <2>4. s + (L + 1) = c + 1 /\ G[c + 1] \in S
    BY <1>f, <2>1
  <2> DEFINE u == [j \in 1 .. L + 1 |-> G[s + j]]
             v == Append(t, G[c + 1])
  <2>5. /\ v \in Seq(S) /\ Len(v) = L + 1
        /\ \A j \in 1 .. L + 1 : v[j] = IF j = L + 1 THEN G[c + 1] ELSE t[j]
    BY <1>1, <1>4, <2>4
  <2>6. ASSUME NEW j \in 1 .. L + 1 PROVE v[j] = G[s + j] /\ G[s + j] \in S
    <3>1. CASE j = L + 1
      BY <2>4, <2>5, <3>1
    <3>2. CASE j # L + 1
      <4>1. j \in 1 .. L
        BY <1>1, <3>2
      <4>2. t[j] = G[s + j] /\ G[s + j] \in S
        BY <1>2, <1>3, <4>1
      <4> QED
        BY <2>5, <3>2, <4>2
    <3> QED
      BY <3>1, <3>2
  <2> HIDE DEF v
  <2>7. u \in Seq(S) /\ Len(u) = L + 1 /\ \A j \in 1 .. L + 1 : u[j] = v[j]
    <3>1. u \in [1 .. L + 1 -> S]
      BY <2>6
    <3> QED
      BY <1>1, <2>6, <3>1
  <2>8. v = u
    <3> HIDE DEF u
    <3> QED
      BY <2>5, <2>7, SeqEqual
  <2> QED
    BY <1>4, <1>6, <2>2, <2>3, <2>8 DEF v, t, L, NextPiece
<1>7. CASE ~ (n # 0 /\ L >= n) /\ skippedOf(s, c) # s
  <2>1. s < 0 \/ c < s
    BY <1>7 DEF skippedOf
  <2>2. L = 0 /\ pieceLen(s, n, c + 1) = L /\ skippedOf(s, c + 1) = skippedOf(s, c) + 1
    BY <2>1 DEF pieceLen, skippedOf, L
  <2> QED
    BY <1>4, <1>7, <1>s, <2>2 DEF NextPiece, L, t
<1> QED
  BY <1>4, <1>5, <1>6, <1>7 DEF t

LEMMA PickedRows ==
  ASSUME NEW S, NEW rows \in Seq(S), NEW M \in SUBSET (1 .. Len(rows))
  PROVE  /\ picked(rows, M) \in Seq(S) /\ Len(picked(rows, M)) = Cardinality(M)
         /\ \A i \in 1 .. Cardinality(M) : picked(rows, M)[i] = rows[nth(M, i)]
<1>1. Len(rows) \in Nat /\ \A i \in 1 .. Len(rows) : rows[i] \in S
  OBVIOUS
<1>2. Cardinality(M) \in Nat /\ \A i \in 1 .. Cardinality(M) : nth(M, i) \in M
  BY <1>1, Counting DEF CountedIn
<1>3. \A i \in 1 .. Cardinality(M) : rows[nth(M, i)] \in S
  BY <1>1, <1>2
<1> QED
  BY <1>2, <1>3 DEF picked

\* What a request finds and shows.
LEMMA PutRows ==
  ASSUME NEW ask, NEW S, sortRows(ask.place, ask.sort) \in Seq(S), perPage(ask.place) \in Nat,
         int(iStart(ask)) \in Int
  PROVE  \A rows, M, G :
           /\ rows = sortRows(ask.place, ask.sort)
           /\ M = matchedAt(rows, ask)
           /\ G = picked(rows, M)
           => /\ putRows(ask).found = Len(G)
              /\ putRows(ask).shown = piece(G, int(iStart(ask)), perPage(ask.place), Len(G))
<1> SUFFICES ASSUME NEW rows, NEW M, NEW G, rows = sortRows(ask.place, ask.sort),
                    M = matchedAt(rows, ask), G = picked(rows, M)
             PROVE  /\ putRows(ask).found = Len(G)
                    /\ putRows(ask).shown = piece(G, int(iStart(ask)), perPage(ask.place), Len(G))
  OBVIOUS
<1>0. PICK n, s : n = perPage(ask.place) /\ s = int(iStart(ask))
  OBVIOUS
<1> DEFINE len == Len(rows)
           start == [found |-> 0, skipped |-> 0, shown |-> <<>>]
           fits(H) == H = [k \in 0 .. len |-> IF k = 0 THEN start
                                              ELSE putRow(H[k - 1], rows[k], ask)]
           C == CHOOSE H : fits(H)
           made(c) == [found |-> c, skipped |-> skippedOf(s, c), shown |-> piece(G, s, n, c)]
           F == [k \in 0 .. len |-> made(upTo(M, k))]
<1>1. rows \in Seq(S) /\ len \in Nat /\ n \in Nat /\ s \in Int /\ DOMAIN rows = 1 .. len
  BY <1>0
<1>2. M \in SUBSET (1 .. len) /\ \A k \in 1 .. len : k \in M <=> matches(rows[k], ask)
  BY <1>1 DEF matchedAt
<1>3. putRows(ask) = C[len]
  BY DEF putRows
<1> HIDE DEF len
<1>4. /\ Cardinality(M) \in Nat /\ upTo(M, 0) = 0 /\ upTo(M, len) = Cardinality(M)
      /\ \A k \in 0 .. len : upTo(M, k) \in 0 .. Cardinality(M)
      /\ \A k \in 1 .. len : upTo(M, k) = IF k \in M THEN upTo(M, k - 1) + 1 ELSE upTo(M, k - 1)
      /\ \A j \in M : upTo(M, j) \in 1 .. Cardinality(M) /\ nth(M, upTo(M, j)) = j
  <2>1. CountedIn(M, len)
    BY <1>1, <1>2, Counting
  <2> QED
    BY <2>1 DEF CountedIn
<1>5. /\ G \in Seq(S) /\ Len(G) = Cardinality(M)
      /\ \A i \in 1 .. Cardinality(M) : G[i] = rows[nth(M, i)]
  BY <1>1, <1>2, PickedRows DEF len
<1>6. made(0) = start
  <2>1. pieceLen(s, n, 0) = 0 /\ skippedOf(s, 0) = 0
    BY <1>1 DEF pieceLen, skippedOf
  <2>2. piece(G, s, n, 0) = <<>>
    BY <2>1 DEF piece
  <2> QED
    BY <2>1, <2>2
<1>7. ASSUME NEW k \in 1 .. len PROVE made(upTo(M, k)) = putRow(made(upTo(M, k - 1)), rows[k], ask)
  <2> DEFINE c == upTo(M, k - 1)
             d == made(c)
  <2>1. k - 1 \in 0 .. len
    BY <1>1
  <2>2. c \in Nat
    BY <1>4, <2>1
  <2>3. CASE k \notin M
    <3>1. upTo(M, k) = c
      BY <1>4, <2>3
    <3>2. ~ matches(rows[k], ask)
      BY <1>2, <2>3
    <3> HIDE DEF d, made
    <3> QED
      BY <3>1, <3>2 DEF putRow, d
  <2>4. CASE k \in M
    <3>1. upTo(M, k) = c + 1 /\ c < Len(G)
      <4>1. upTo(M, k) = c + 1 /\ upTo(M, k) \in 1 .. Cardinality(M)
        BY <1>4, <2>4
      <4> QED
        BY <1>4, <1>5, <2>2, <4>1
    <3>2. G[c + 1] = rows[k]
      <4>1. upTo(M, k) \in 1 .. Cardinality(M) /\ nth(M, upTo(M, k)) = k
        BY <1>4, <2>4
      <4> QED
        BY <1>5, <3>1, <4>1
    <3>3. matches(rows[k], ask)
      BY <1>2, <2>4
    <3> HIDE DEF c
    <3> DEFINE L == pieceLen(s, n, c)
               t == piece(G, s, n, c)
    <3>4. /\ t \in Seq(S) /\ Len(t) = L
          /\ n # 0 /\ L >= n =>
               piece(G, s, n, c + 1) = t /\ skippedOf(s, c + 1) = skippedOf(s, c)
          /\ ~ (n # 0 /\ L >= n) /\ skippedOf(s, c) = s =>
               /\ piece(G, s, n, c + 1) = Append(t, G[c + 1])
               /\ skippedOf(s, c + 1) = s
          /\ ~ (n # 0 /\ L >= n) /\ skippedOf(s, c) # s =>
               /\ piece(G, s, n, c + 1) = t
               /\ skippedOf(s, c + 1) = skippedOf(s, c) + 1
      <4>1. NextPiece(G, s, n, c) /\ t \in Seq(S)
        BY <1>1, <1>5, <2>2, <3>1, PieceTurn
      <4> QED
        BY <4>1 DEF NextPiece
    <3>5. d = [found |-> c, skipped |-> skippedOf(s, c), shown |-> t]
      OBVIOUS
    <3>6. made(c + 1) = [found |-> c + 1, skipped |-> skippedOf(s, c + 1),
                         shown |-> piece(G, s, n, c + 1)]
      OBVIOUS
    <3>7. made(upTo(M, k)) = made(c + 1)
      BY <3>1
    <3> HIDE DEF made, d, t, L
    <3>8. putRow(d, rows[k], ask) =
            IF n # 0 /\ Len(t) >= n THEN [d EXCEPT !.found = c + 1]
            ELSE IF skippedOf(s, c) = s
                 THEN [[d EXCEPT !.found = c + 1] EXCEPT !.shown = Append(t, rows[k])]
            ELSE [[d EXCEPT !.found = c + 1] EXCEPT !.skipped = skippedOf(s, c) + 1]
      BY <1>0, <3>3, <3>5 DEF putRow
    <3>9. putRow(d, rows[k], ask) = made(c + 1)
      <4>1. CASE n # 0 /\ L >= n
        BY <3>4, <3>5, <3>6, <3>8, <4>1
      <4>2. CASE ~ (n # 0 /\ L >= n) /\ skippedOf(s, c) = s
        BY <3>2, <3>4, <3>5, <3>6, <3>8, <4>2
      <4>3. CASE ~ (n # 0 /\ L >= n) /\ skippedOf(s, c) # s
        BY <3>4, <3>5, <3>6, <3>8, <4>3
      <4> QED
        BY <4>1, <4>2, <4>3
    <3> QED
      BY <3>7, <3>9 DEF c, d
  <2> QED
    BY <2>3, <2>4
<1> HIDE DEF made, start
<1>8. fits(F)
  <2>1. ASSUME NEW k \in 0 .. len
        PROVE  made(upTo(M, k)) = IF k = 0 THEN start ELSE putRow(F[k - 1], rows[k], ask)
    <3>1. CASE k = 0
      BY <1>4, <1>6, <3>1
    <3>2. CASE k # 0
      <4>1. k \in 1 .. len /\ k - 1 \in 0 .. len
        BY <1>1, <3>2
      <4>2. F[k - 1] = made(upTo(M, k - 1))
        BY <4>1
      <4> QED
        BY <1>7, <3>2, <4>1, <4>2
    <3> QED
      BY <3>1, <3>2
  <2> QED
    BY <2>1
<1>9. fits(C)
  <2> HIDE DEF F
  <2> QED
    BY <1>8
<1> HIDE DEF C
<1>10. C[0] = start /\ \A k \in 1 .. len : C[k] = putRow(C[k - 1], rows[k], ask)
  <2>1. ASSUME NEW k \in 0 .. len
        PROVE  C[k] = IF k = 0 THEN start ELSE putRow(C[k - 1], rows[k], ask)
    BY <1>9
  <2>2. 0 \in 0 .. len /\ \A k \in 1 .. len : k \in 0 .. len /\ k # 0
    BY <1>1
  <2> QED
    BY <2>1, <2>2
<1> DEFINE T == {k \in 0 .. len : C[k] = made(upTo(M, k))}
<1>11. \A k \in 0 .. len : k \in T
  <2>1. 0 \in T
    BY <1>1, <1>4, <1>6, <1>10
  <2>2. ASSUME NEW k \in 1 .. len, k - 1 \in T PROVE k \in T
    <3>1. k \in 0 .. len /\ C[k - 1] = made(upTo(M, k - 1))
      BY <1>1, <2>2
    <3>2. C[k] = made(upTo(M, k))
      BY <1>7, <1>10, <3>1
    <3> QED
      BY <3>1, <3>2
  <2> HIDE DEF T
  <2> QED
    BY <1>1, <2>1, <2>2, Turns
<1>12. C[len] = made(Len(G))
  BY <1>1, <1>4, <1>5, <1>11
<1> QED
  BY <1>0, <1>3, <1>12 DEF made

-----------------------------------------------------------------------------
\* The tables

TablesOK ==
  /\ settings \in Settings
  /\ m_pDFile \subseteq DOMAIN Torrent
  /\ IsDicti(m_pAllowed, DOMAIN Torrent, AllowedRecord)
  /\ IsDicti(m_pTags, DOMAIN Torrent, TagsRecord)
  /\ IsDicti(m_pFastCache, DOMAIN Torrent, NumbersRecord)
  /\ IsDicti(m_pUsers, DOMAIN User, UserRecord)

LEMMA NothingKnown ==
  NoTorrent \in AllowedRecord /\ NoTags \in TagsRecord /\ NoNumbers \in NumbersRecord
<1>1. Unknown \in Seq(Char) /\ <<>> \in Seq(Char)
  BY TorrentAssumption, EmptySeq
<1> QED
  BY <1>1 DEF NoTorrent, NoTags, NoNumbers, AllowedRecord, TagsRecord, NumbersRecord

LEMMA TablesInit == Init => TablesOK
<1> SUFFICES ASSUME Init PROVE TablesOK
  OBVIOUS
<1>1. /\ settings \in Settings /\ m_pDFile = DOMAIN Torrent
      /\ m_pAllowed = IF settings.allowed THEN [h \in DOMAIN Torrent |-> Torrent[h].allowed]
                      ELSE EmptyDicti
      /\ m_pTags = [h \in DOMAIN Torrent |-> Torrent[h].tags]
      /\ m_pFastCache = [h \in DOMAIN Torrent |-> Torrent[h].numbers]
      /\ m_pUsers = User
  BY DEF Init
<1>2. \A h \in DOMAIN Torrent : /\ Torrent[h].allowed \in AllowedRecord
                                /\ Torrent[h].tags \in TagsRecord
                                /\ Torrent[h].numbers \in NumbersRecord
  BY TorrentAssumption
<1>3. IsDicti(m_pTags, DOMAIN Torrent, TagsRecord)
  BY <1>1, <1>2 DEF IsDicti
<1>4. IsDicti(m_pFastCache, DOMAIN Torrent, NumbersRecord)
  BY <1>1, <1>2 DEF IsDicti
<1>5. IsDicti(m_pUsers, DOMAIN User, UserRecord)
  BY <1>1, UserAssumption DEF IsDicti
<1>6. IsDicti(m_pAllowed, DOMAIN Torrent, AllowedRecord)
  <2>1. IsDicti([h \in DOMAIN Torrent |-> Torrent[h].allowed], DOMAIN Torrent, AllowedRecord)
    BY <1>2 DEF IsDicti
  <2>2. IsDicti(EmptyDicti, DOMAIN Torrent, AllowedRecord)
    BY DEF IsDicti, EmptyDicti
  <2> QED
    BY <1>1, <2>1, <2>2
<1> QED
  BY <1>1, <1>3, <1>4, <1>5, <1>6 DEF TablesOK

LEMMA TablesStep == TablesOK /\ [Next]_vars => TablesOK'
<1> SUFFICES ASSUME TablesOK, [Next]_vars PROVE TablesOK'
  OBVIOUS
<1>0. /\ settings \in Settings
      /\ m_pDFile \subseteq DOMAIN Torrent
      /\ IsDicti(m_pAllowed, DOMAIN Torrent, AllowedRecord)
      /\ IsDicti(m_pTags, DOMAIN Torrent, TagsRecord)
      /\ IsDicti(m_pFastCache, DOMAIN Torrent, NumbersRecord)
      /\ IsDicti(m_pUsers, DOMAIN User, UserRecord)
  BY DEF TablesOK
<1>t. \A h \in DOMAIN Torrent : /\ Torrent[h].allowed \in AllowedRecord
                                /\ Torrent[h].tags \in TagsRecord
                                /\ Renamed[h] \in Seq(Char)
  BY TorrentAssumption
<1>1. CASE UNCHANGED <<settings, tables>>
  BY <1>0, <1>1 DEF tables, TablesOK
<1>2. ASSUME NEW h \in DOMAIN Torrent, DeleteTorrent(h) PROVE TablesOK'
  <2>1. /\ IsDicti(delItem(m_pAllowed, h), DOMAIN Torrent, AllowedRecord)
        /\ IsDicti(delItem(m_pTags, h), DOMAIN Torrent, TagsRecord)
    BY <1>0, <1>t, ItemType
  <2> QED
    BY <1>0, <1>2, <2>1 DEF DeleteTorrent, Noted, TablesOK
<1>3. ASSUME NEW h \in DOMAIN Torrent, AddTorrent(h) PROVE TablesOK'
  <2>1. /\ IsDicti(setItem(m_pAllowed, h, Torrent[h].allowed), DOMAIN Torrent, AllowedRecord)
        /\ IsDicti(setItem(m_pTags, h, Torrent[h].tags), DOMAIN Torrent, TagsRecord)
    BY <1>0, <1>t, ItemType
  <2> QED
    BY <1>0, <1>3, <2>1 DEF AddTorrent, Noted, TablesOK
<1>4. ASSUME NEW h \in DOMAIN Torrent, Refresh(h) PROVE TablesOK'
  <2> DEFINE r == getItem(m_pFastCache, h, NoNumbers)
  <2>1. r \in NumbersRecord
    BY <1>0, NothingKnown, ItemType
  <2>2. PICK field \in {"seeders", "leechers"} :
           m_pFastCache' = setItem(m_pFastCache, h, [r EXCEPT ![field] = @ + 1])
    BY <1>4 DEF Refresh
  <2> HIDE DEF r
  <2>3. [r EXCEPT ![field] = @ + 1] \in NumbersRecord
    BY <2>1 DEF NumbersRecord
  <2>4. IsDicti(m_pFastCache', DOMAIN Torrent, NumbersRecord)
    BY <1>0, <2>2, <2>3, ItemType
  <2>5. UNCHANGED <<settings, m_pDFile, m_pAllowed, m_pTags, m_pUsers>>
    BY <1>4 DEF Refresh, Noted
  <2> QED
    BY <1>0, <2>4, <2>5 DEF TablesOK
<1>5. ASSUME NEW h \in DOMAIN Torrent, Rename(h) PROVE TablesOK'
  <2> DEFINE r == getItem(m_pTags, h, NoTags)
  <2>1. r \in TagsRecord
    BY <1>0, NothingKnown, ItemType
  <2>2. m_pTags' = setItem(m_pTags, h, [r EXCEPT !.name = Renamed[h]])
    BY <1>5 DEF Rename
  <2> HIDE DEF r
  <2>3. [r EXCEPT !.name = Renamed[h]] \in TagsRecord
    BY <1>t, <2>1 DEF TagsRecord
  <2>4. IsDicti(m_pTags', DOMAIN Torrent, TagsRecord)
    BY <1>0, <2>2, <2>3, ItemType
  <2>5. UNCHANGED <<settings, m_pDFile, m_pAllowed, m_pFastCache, m_pUsers>>
    BY <1>5 DEF Rename, Noted
  <2> QED
    BY <1>0, <2>4, <2>5 DEF TablesOK
<1>6. ASSUME NEW l \in DOMAIN m_pUsers, DeleteUser(l) PROVE TablesOK'
  <2>1. IsDicti(delItem(m_pUsers, l), DOMAIN User, UserRecord)
    <3>1. m_pUsers[l] \in UserRecord
      BY <1>0 DEF IsDicti
    <3> QED
      BY <1>0, <3>1, ItemType
  <2> QED
    BY <1>0, <1>6, <2>1 DEF DeleteUser, Noted, TablesOK
<1>7. ASSUME NEW l \in DOMAIN User, AddUser(l) PROVE TablesOK'
  <2>1. IsDicti(setItem(m_pUsers, l, User[l]), DOMAIN User, UserRecord)
    <3>1. User[l] \in UserRecord
      BY UserAssumption
    <3> QED
      BY <1>0, <3>1, ItemType
  <2> QED
    BY <1>0, <1>7, <2>1 DEF AddUser, Noted, TablesOK
<1>8. CASE UNCHANGED vars
  BY <1>1, <1>8 DEF vars
<1>9. ASSUME NEW ask \in Ask, Open(ask) PROVE TablesOK'
  BY <1>1, <1>9 DEF Open
<1>10. ASSUME NEW p, Follow(p) PROVE TablesOK'
  BY <1>1, <1>10 DEF Follow
<1>11. CASE Change
  BY <1>2, <1>3, <1>4, <1>5, <1>6, <1>7, <1>11 DEF Change
<1> QED
  BY <1>8, <1>9, <1>10, <1>11 DEF Next

-----------------------------------------------------------------------------
\* The rows

IndexRow ==
  [key : Seq(Char), strLowerName : Seq(Char), strAdded : Seq(Char), strTag : Seq(Char),
   strUploader : Seq(Char), iSize : Int, iFiles : Int, iComments : Int, iSeeders : Int,
   iLeechers : Int, iCompleted : Int, iAverageLeft : Int, iAverageLeftPercent : Int,
   iTransferred : Int]

UserRow ==
  [key : Seq(Char), strLowerLogin : Seq(Char), iAccess : Int, strLowerMail : Seq(Char),
   strCreated : Seq(Char)]

LEMMA LowerText ==
  ASSUME NEW s \in Seq(Char)
  PROVE  ToLower(s) \in Seq(Char)
<1>1. Lower \in Char
  BY Characters
<1>2. Len(s) \in Nat /\ DOMAIN s = 1 .. Len(s) /\ \A i \in 1 .. Len(s) : s[i] \in Char
  OBVIOUS
<1>3. ToLower(s) \in [1 .. Len(s) -> Char]
  BY <1>1, <1>2 DEF ToLower
<1> QED
  BY <1>2, <1>3

LEMMA IndexRowType ==
  ASSUME TablesOK, NEW h \in m_pDFile
  PROVE  indexRow(h) \in IndexRow /\ indexRow(h).key = h
<1> DEFINE torrent == getItem(m_pAllowed, h, NoTorrent)
           tags == getItem(m_pTags, h, NoTags)
           numbers == getItem(m_pFastCache, h, NoNumbers)
           average == IF numbers.leechers > 0 THEN numbers.left \div numbers.leechers ELSE 0
           percent == IF torrent.size > 0 THEN (100 * average) \div torrent.size ELSE 0
           moved == IF settings.allowed /\ "iTransferred" \in settings.columns
                    THEN numbers.completed * torrent.size ELSE 0
           said == IF settings.allowed /\ "iComments" \in settings.columns
                   THEN Torrent[h].comments ELSE 0
           name == ToLower(IF tags.name = <<>> THEN torrent.name ELSE tags.name)
<1>1. torrent \in AllowedRecord /\ tags \in TagsRecord /\ numbers \in NumbersRecord
  BY NothingKnown, ItemType DEF TablesOK
<1>2. h \in Seq(Char) /\ Torrent[h].comments \in Int
  BY TorrentAssumption DEF TablesOK
<1>3. indexRow(h) = [key |-> h, strLowerName |-> name, strAdded |-> torrent.added,
                     strTag |-> tags.tag, strUploader |-> tags.uploader, iSize |-> torrent.size,
                     iFiles |-> torrent.files, iComments |-> said, iSeeders |-> numbers.seeders,
                     iLeechers |-> numbers.leechers, iCompleted |-> numbers.completed,
                     iAverageLeft |-> average, iAverageLeftPercent |-> percent,
                     iTransferred |-> moved]
  BY DEF indexRow
<1> HIDE DEF torrent, tags, numbers
<1>4. /\ torrent.name \in Seq(Char) /\ torrent.added \in Seq(Char)
      /\ torrent.size \in Int /\ torrent.files \in Int
      /\ tags.tag \in Seq(Char) /\ tags.name \in Seq(Char) /\ tags.uploader \in Seq(Char)
      /\ numbers.seeders \in Int /\ numbers.leechers \in Int
      /\ numbers.completed \in Int /\ numbers.left \in Int
  BY <1>1 DEF AllowedRecord, TagsRecord, NumbersRecord
<1>5. name \in Seq(Char)
  BY <1>4, LowerText
<1>6. average \in Int
  BY <1>4
<1> HIDE DEF average
<1>7. percent \in Int
  BY <1>4, <1>6
<1>8. moved \in Int /\ said \in Int
  <2>1. \A x, y \in Int : x * y \in Int
    OBVIOUS
  <2> QED
    BY <1>2, <1>4, <2>1
<1> HIDE DEF percent, moved, said, name
<1> QED
  BY <1>2, <1>3, <1>4, <1>5, <1>6, <1>7, <1>8 DEF IndexRow

LEMMA UserRowType ==
  ASSUME TablesOK, NEW l \in DOMAIN m_pUsers
  PROVE  userRow(l) \in UserRow /\ userRow(l).key = l
<1>1. m_pUsers[l] \in UserRecord /\ l \in Seq(Char)
  BY UserAssumption DEF TablesOK, IsDicti
<1>2. /\ m_pUsers[l].access \in Int /\ m_pUsers[l].email \in Seq(Char)
      /\ m_pUsers[l].created \in Seq(Char)
  BY <1>1 DEF UserRecord
<1>3. ToLower(l) \in Seq(Char) /\ ToLower(m_pUsers[l].email) \in Seq(Char)
  BY <1>1, <1>2, LowerText
<1> QED
  BY <1>1, <1>2, <1>3 DEF userRow, UserRow

\* A listing has a row for each key.
keysOf(place) == IF place = "index" THEN m_pDFile ELSE DOMAIN m_pUsers
rowOf(place, k) == IF place = "index" THEN indexRow(k) ELSE userRow(k)
RowSet(place) == IF place = "index" THEN IndexRow ELSE UserRow

LEMMA RowType ==
  ASSUME TablesOK, NEW place, NEW k \in keysOf(place)
  PROVE  rowOf(place, k) \in RowSet(place) /\ rowOf(place, k).key = k
BY IndexRowType, UserRowType DEF keysOf, rowOf, RowSet

LEMMA KeysFinite ==
  ASSUME TablesOK, NEW place
  PROVE  /\ IsFiniteSet(keysOf(place)) /\ keysOf(place) \in SUBSET Seq(Char)
         /\ Cardinality(keysOf(place)) \in Nat /\ 2 * Cardinality(keysOf(place)) <= IntRange
<1>1. PICK D : /\ keysOf(place) \in SUBSET D /\ IsFiniteSet(D) /\ D \in SUBSET Seq(Char)
               /\ 2 * Cardinality(D) <= IntRange
  <2>1. CASE place = "index"
    <3>1. keysOf(place) \in SUBSET DOMAIN Torrent
      BY <2>1 DEF keysOf, TablesOK
    <3>2. DOMAIN Torrent \in SUBSET Seq(Char) /\ IsFiniteSet(DOMAIN Torrent)
      BY TorrentAssumption
    <3> QED
      BY <3>1, <3>2, MemoryAssumption
  <2>2. CASE place # "index"
    <3>1. keysOf(place) \in SUBSET DOMAIN User
      BY <2>2 DEF keysOf, TablesOK, IsDicti
    <3> QED
      BY <3>1, UserAssumption, MemoryAssumption
  <2> QED
    BY <2>1, <2>2
<1>2. IsFiniteSet(keysOf(place)) /\ Cardinality(keysOf(place)) <= Cardinality(D)
  BY <1>1, FS_Subset
<1>3. Cardinality(keysOf(place)) \in Nat /\ Cardinality(D) \in Nat
  BY <1>1, <1>2, FS_CardinalityType
<1> QED
  BY <1>1, <1>2, <1>3, IntRangeAssumption

\* The rows in the order of their keys, each key once.
KeyRows(rows, place) ==
  /\ rows \in Seq(RowSet(place)) /\ Len(rows) = Cardinality(keysOf(place))
  /\ \A i \in 1 .. Len(rows) : /\ rows[i].key \in keysOf(place)
                               /\ rows[i] = rowOf(place, rows[i].key)
  /\ \A i, j \in 1 .. Len(rows) : i < j <=> compare(rows[i].key, rows[j].key) < 0
  /\ \A i, j \in 1 .. Len(rows) : rows[i].key = rows[j].key => i = j
  /\ \A k \in keysOf(place) : \E i \in 1 .. Len(rows) : rows[i].key = k

LEMMA RowsOf ==
  ASSUME TablesOK, NEW place
  PROVE  KeyRows(rowsOf(place), place)
<1> DEFINE K == keysOf(place)
           keys == keysInOrder(K)
           rows == rowsOf(place)
<1>1. IsFiniteSet(K) /\ K \in SUBSET Seq(Char)
  BY KeysFinite
<1>2. rows = [i \in DOMAIN keys |-> rowOf(place, keys[i])]
  BY DEF rowsOf, keysOf, rowOf
<1> HIDE DEF K, keys, rows
<1>3. KeysOf(keys, K)
  BY <1>1, KeysInOrder DEF keys
<1>4. /\ keys \in Seq(K) /\ Len(keys) = Cardinality(K)
      /\ \A i, j \in 1 .. Len(keys) : i < j <=> compare(keys[i], keys[j]) < 0
      /\ \A i, j \in 1 .. Len(keys) : keys[i] = keys[j] => i = j
      /\ \A k \in K : \E i \in 1 .. Len(keys) : keys[i] = k
  BY <1>3 DEF KeysOf
<1>5. Len(keys) \in Nat /\ DOMAIN keys = 1 .. Len(keys) /\ \A i \in 1 .. Len(keys) : keys[i] \in K
  BY <1>4
<1>6. \A k \in K : rowOf(place, k) \in RowSet(place) /\ rowOf(place, k).key = k
  BY RowType DEF K
<1>7. rows \in [1 .. Len(keys) -> RowSet(place)]
  BY <1>2, <1>5, <1>6
<1>8. rows \in Seq(RowSet(place)) /\ Len(rows) = Len(keys)
  BY <1>5, <1>7
<1>9. \A i \in 1 .. Len(keys) : rows[i] = rowOf(place, keys[i]) /\ rows[i].key = keys[i]
  BY <1>2, <1>5, <1>6
<1>10. KeyRows(rows, place)
  BY <1>4, <1>5, <1>8, <1>9 DEF KeyRows, K
<1> QED
  BY <1>10 DEF rows

-----------------------------------------------------------------------------
\* The order of the rows

Fields(place) ==
  IF place = "index"
  THEN {"strLowerName", "strAdded", "strTag", "strUploader", "iSize", "iFiles", "iComments",
        "iSeeders", "iLeechers", "iCompleted", "iAverageLeft", "iAverageLeftPercent",
        "iTransferred"}
  ELSE {"strLowerLogin", "iAccess", "strLowerMail", "strCreated"}

\* Whether the rows of a listing are sorted, and by what.
Sorts(place, n) ==
  place = "index" =>
    IF settings.sort /\ n \in 1 .. 24 THEN canSort(IndexSort(n).field) ELSE settings.allowed

sortedBy(place, n) ==
  IF place # "index" THEN IF n \in DOMAIN UserSort THEN UserSort[n] ELSE dsort("strCreated")
  ELSE IF ~ (settings.sort /\ n \in 1 .. 24) THEN asort("strLowerName")
  ELSE IF IndexSort(n).field = "iAverageLeft" /\ settings.allowed THEN percentSort(IndexSort(n))
  ELSE IndexSort(n)

By(place) == [field : Fields(place), up : BOOLEAN]

LEMMA IndexSorts ==
  ASSUME NEW n \in 1 .. 24
  PROVE  IndexSort(n) \in By("index")
<1>1. CASE n \in 1 .. 10
  <2>1. IndexSort(n) = asort(IndexColumn[n])
    BY <1>1 DEF IndexSort
  <2>2. IndexColumn[n] \in Fields("index")
    BY <1>1 DEF IndexColumn, Fields
  <2> QED
    BY <2>1, <2>2 DEF asort, By
<1>2. CASE n \in 11 .. 20
  <2>1. IndexSort(n) = dsort(IndexColumn[n - 10]) /\ n - 10 \in 1 .. 10
    BY <1>2 DEF IndexSort
  <2>2. IndexColumn[n - 10] \in Fields("index")
    BY <2>1 DEF IndexColumn, Fields
  <2> QED
    BY <2>1, <2>2 DEF dsort, By
<1>3. CASE n = 21
  BY <1>3 DEF IndexSort, asort, dsort, By, Fields
<1>4. CASE n = 22
  BY <1>4 DEF IndexSort, asort, dsort, By, Fields
<1>5. CASE n = 23
  BY <1>5 DEF IndexSort, asort, dsort, By, Fields
<1>6. CASE n = 24
  BY <1>6 DEF IndexSort, asort, dsort, By, Fields
<1> QED
  BY <1>1, <1>2, <1>3, <1>4, <1>5, <1>6

LEMMA UserSorts ==
  ASSUME NEW n
  PROVE  (IF n \in DOMAIN UserSort THEN UserSort[n] ELSE dsort("strCreated")) \in By("users")
<1>1. \A f \in {"strLowerLogin", "iAccess", "strLowerMail", "strCreated"} :
         asort(f) \in By("users") /\ dsort(f) \in By("users")
  BY DEF asort, dsort, By, Fields
<1>2. DOMAIN UserSort = 1 .. 8
  BY DEF UserSort
<1>3. \A i \in 1 .. 8 : UserSort[i] \in By("users")
  BY <1>1 DEF UserSort
<1> QED
  BY <1>1, <1>2, <1>3

LEMMA SettingsOK ==
  ASSUME TablesOK
  PROVE  /\ settings.allowed \in BOOLEAN /\ settings.sort \in BOOLEAN
         /\ settings.progress \in BOOLEAN
         /\ \A place : perPage(place) \in Nat
BY SettingsAssumption DEF TablesOK, perPage

LEMMA SortNormal ==
  ASSUME TablesOK, NEW place \in {"index", "users"}, NEW n
  PROVE  /\ sortRows(place, n) = IF Sorts(place, n) THEN qsort(rowsOf(place), sortedBy(place, n))
                                 ELSE rowsOf(place)
         /\ sortedBy(place, n) \in By(place)
         /\ Sorts(place, n) \in BOOLEAN
<1>1. CASE place = "index" /\ settings.sort /\ n \in 1 .. 24
  <2> DEFINE by == IndexSort(n)
  <2>1. by \in By("index")
    BY <1>1, IndexSorts
  <2>2. percentSort(by) \in By("index")
    BY <2>1, SettingsOK DEF percentSort, By, Fields
  <2> HIDE DEF by
  <2> QED
    BY <1>1, <2>1, <2>2 DEF sortRows, sortIndex, Sorts, sortedBy, by
<1>2. CASE place = "index" /\ ~ (settings.sort /\ n \in 1 .. 24)
  <2>1. asort("strLowerName") \in By("index")
    BY DEF asort, By, Fields
  <2> QED
    BY <1>2, <2>1, SettingsOK DEF sortRows, sortIndex, Sorts, sortedBy
<1>3. CASE place # "index"
  <2>1. (IF n \in DOMAIN UserSort THEN UserSort[n] ELSE dsort("strCreated")) \in By("users")
    BY UserSorts
  <2> QED
    BY <1>3, <2>1 DEF sortRows, sortUsers, Sorts, sortedBy
<1> QED
  BY <1>1, <1>2, <1>3

\* What a comparison function is to find out.
notAfter(f, a, b) == IF f \in TextField THEN compare(a[f], b[f]) <= 0 ELSE a[f] <= b[f]
notAfterBy(by, a, b) == IF by.up THEN notAfter(by.field, a, b) ELSE notAfter(by.field, b, a)

\* The field of each row is a text, or a number.
FieldTyped(S, f) ==
  IF f \in TextField THEN \A r \in S : r[f] \in Seq(Char) ELSE \A r \in S : r[f] \in Int

LEMMA FieldKinds ==
  ASSUME NEW place, NEW f \in Fields(place)
  PROVE  /\ f \in TextField \cup UnsignedField \cup LongField
         /\ f \in TextField => f \notin UnsignedField \cup LongField
         /\ f \in UnsignedField => f \notin LongField
         /\ FieldTyped(RowSet(place), f)
         /\ \A r \in RowSet(place) : f \in DOMAIN r
<1>1. CASE place = "index"
  <2>1. Fields(place) = Fields("index") /\ RowSet(place) = IndexRow
    BY <1>1 DEF Fields, RowSet
  <2>2. \A r \in IndexRow : f \in DOMAIN r
    BY <2>1 DEF IndexRow, Fields
  <2>3. CASE f \in {"strLowerName", "strAdded", "strTag", "strUploader"}
    <3>1. f \in TextField /\ f \notin UnsignedField /\ f \notin LongField
      BY <2>3 DEF TextField, UnsignedField, LongField
    <3>2. \A r \in IndexRow : r[f] \in Seq(Char)
      BY <2>3 DEF IndexRow
    <3> QED
      BY <2>1, <2>2, <3>1, <3>2 DEF FieldTyped
  <2>4. CASE f \in {"iSize", "iTransferred", "iAverageLeft"}
    <3>1. f \notin TextField /\ f \notin UnsignedField /\ f \in LongField
      BY <2>4 DEF TextField, UnsignedField, LongField
    <3>2. \A r \in IndexRow : r[f] \in Int
      BY <2>4 DEF IndexRow
    <3> QED
      BY <2>1, <2>2, <3>1, <3>2 DEF FieldTyped
  <2>5. CASE f \in {"iFiles", "iComments", "iSeeders", "iLeechers", "iCompleted",
                    "iAverageLeftPercent"}
    <3>1. f \notin TextField /\ f \in UnsignedField /\ f \notin LongField
      BY <2>5 DEF TextField, UnsignedField, LongField
    <3>2. \A r \in IndexRow : r[f] \in Int
      BY <2>5 DEF IndexRow
    <3> QED
      BY <2>1, <2>2, <3>1, <3>2 DEF FieldTyped
  <2> QED
    BY <2>1, <2>3, <2>4, <2>5 DEF Fields
<1>2. CASE place # "index"
  BY <1>2 DEF Fields, RowSet, UserRow, FieldTyped, TextField, UnsignedField, LongField
<1> QED
  BY <1>1, <1>2

\* An order of rows, total and transitive.
PutsInOrder(f, S) ==
  /\ \A a, b \in S : notAfter(f, a, b) \/ notAfter(f, b, a)
  /\ \A a, b, c \in S : notAfter(f, a, b) /\ notAfter(f, b, c) => notAfter(f, a, c)

LEMMA FieldOrder ==
  ASSUME NEW S, NEW f, FieldTyped(S, f)
  PROVE  PutsInOrder(f, S)
<1>1. CASE f \in TextField
  <2>1. \A a \in S : a[f] \in Seq(Char)
    BY <1>1 DEF FieldTyped
  <2>2. \A a, b : notAfter(f, a, b) <=> compare(a[f], b[f]) <= 0
    BY <1>1 DEF notAfter
  <2>3. ASSUME NEW x \in Seq(Char), NEW y \in Seq(Char)
        PROVE  compare(x, y) <= 0 \/ compare(y, x) <= 0
    <3>1. /\ compare(x, y) \in Int /\ compare(y, x) \in Int
          /\ compare(y, x) < 0 <=> compare(x, y) > 0
      BY CompareOrder
    <3> QED
      BY <3>1
  <2>4. \A x, y, z \in Seq(Char) : compare(x, y) <= 0 /\ compare(y, z) <= 0 => compare(x, z) <= 0
    BY CompareOrder
  <2> QED
    BY <2>1, <2>2, <2>3, <2>4 DEF PutsInOrder
<1>2. CASE f \notin TextField
  <2>1. \A a \in S : a[f] \in Int
    BY <1>2 DEF FieldTyped
  <2>2. \A a, b : notAfter(f, a, b) <=> a[f] <= b[f]
    BY <1>2 DEF notAfter
  <2>3. /\ \A x, y \in Int : x <= y \/ y <= x
        /\ \A x, y, z \in Int : x <= y /\ y <= z => x <= z
    OBVIOUS
  <2> QED
    BY <2>1, <2>2, <2>3 DEF PutsInOrder
<1> QED
  BY <1>1, <1>2

\* It finds it out when the rows are such that it can.
LEMMA FieldCompared ==
  ASSUME NEW place, NEW S \in SUBSET RowSet(place), comparable(S), NEW f \in Fields(place),
         NEW a \in S, NEW b \in S
  PROVE  byField(f, a, b) <= 0 <=> notAfter(f, a, b)
<1>1. /\ f \in TextField \cup UnsignedField \cup LongField
      /\ f \in TextField => f \notin UnsignedField \cup LongField
      /\ f \in UnsignedField => f \notin LongField
      /\ FieldTyped(RowSet(place), f)
      /\ \A r \in RowSet(place) : f \in DOMAIN r
  BY FieldKinds
<1>2. CASE f \in TextField
  <2>1. byField(f, a, b) = compare(a[f], b[f])
    BY <1>1, <1>2 DEF byField
  <2> QED
    BY <1>2, <2>1 DEF notAfter
<1>3. CASE f \in UnsignedField
  <2>1. f \notin TextField /\ f \notin LongField
    BY <1>1, <1>3
  <2>2. byField(f, a, b) = int(a[f] - b[f])
    BY <1>3, <2>1 DEF byField
  <2>3. a[f] \in Int /\ b[f] \in Int
    BY <1>1, <2>1 DEF FieldTyped
  <2>4. 2 * (a[f] - b[f]) < IntRange /\ 2 * (b[f] - a[f]) < IntRange
    BY <1>1, <1>3 DEF comparable
  <2>5. int(a[f] - b[f]) <= 0 <=> a[f] <= b[f]
    BY <2>3, <2>4, UnsignedOrder
  <2> QED
    BY <2>1, <2>2, <2>5 DEF notAfter
<1>4. CASE f \in LongField
  <2>1. f \notin TextField /\ f \notin UnsignedField
    BY <1>1, <1>4
  <2>2. byField(f, a, b) = threeWay(a[f], b[f])
    BY <1>4, <2>1 DEF byField
  <2>3. a[f] \in Int /\ b[f] \in Int
    BY <1>1, <2>1 DEF FieldTyped
  <2>4. threeWay(a[f], b[f]) <= 0 <=> a[f] <= b[f]
    BY <2>3 DEF threeWay
  <2> QED
    BY <2>1, <2>2, <2>4 DEF notAfter
<1> QED
  BY <1>1, <1>2, <1>3, <1>4

\* One row comes before the other in a listing; equal rows are in the order of their keys.
precedes(place, n, a, b) ==
  IF Sorts(place, n)
     /\ ~ (notAfterBy(sortedBy(place, n), a, b) /\ notAfterBy(sortedBy(place, n), b, a))
  THEN notAfterBy(sortedBy(place, n), a, b)
  ELSE compare(a.key, b.key) < 0

\* sortRows makes an arrangement of the rows, in that order when they are told apart.
InListingOrder(rows, place, n) ==
  \A i, j \in 1 .. Len(rows) : i < j => precedes(place, n, rows[i], rows[j])

LEMMA RowsSorted ==
  ASSUME TablesOK, NEW place \in {"index", "users"}, NEW n
  PROVE  /\ sortRows(place, n) \in Seq(ToSet(rowsOf(place)))
         /\ \E p : Arranged(sortRows(place, n), p, rowsOf(place), Len(rowsOf(place)))
         /\ comparable(ToSet(rowsOf(place))) =>
              /\ InListingOrder(sortRows(place, n), place, n)
              /\ Sorts(place, n) =>
                   \A i, j \in 1 .. Len(rowsOf(place)) :
                     i < j => notAfterBy(sortedBy(place, n), sortRows(place, n)[i],
                                         sortRows(place, n)[j])
<1> DEFINE rows == rowsOf(place)
           S == ToSet(rows)
           by == sortedBy(place, n)
           t == sortRows(place, n)
           m == Len(rows)
           sorted == Sorts(place, n)
<1>1. KeyRows(rows, place)
  BY RowsOf
<1>2. /\ rows \in Seq(RowSet(place)) /\ m \in Nat /\ DOMAIN rows = 1 .. m
      /\ \A i, j \in 1 .. m : i < j <=> compare(rows[i].key, rows[j].key) < 0
  BY <1>1 DEF KeyRows
<1>3. S = {rows[i] : i \in 1 .. m} /\ S \in SUBSET RowSet(place)
  BY <1>2 DEF ToSet
<1>4. rows \in Seq(S)
  <2>1. rows \in [1 .. m -> S]
    BY <1>2, <1>3
  <2> QED
    BY <1>2, <2>1
<1>5. (t = IF sorted THEN qsort(rows, by) ELSE rows) /\ by \in By(place) /\ sorted \in BOOLEAN
  BY SortNormal
<1> SUFFICES /\ t \in Seq(S) /\ \E p : Arranged(t, p, rows, m)
             /\ comparable(S) =>
                  /\ InListingOrder(t, place, n)
                  /\ sorted => \A i, j \in 1 .. m : i < j => notAfterBy(by, t[i], t[j])
  OBVIOUS
<1> HIDE DEF rows, S, by, t, m, sorted
<1>6. CASE ~ sorted
  <2> DEFINE p == [i \in 1 .. m |-> i]
  <2>1. t = rows /\ Len(rows) = m
    BY <1>5, <1>6 DEF m
  <2>2. Arranged(t, p, rows, m)
    BY <1>2, <2>1 DEF Arranged
  <2>3. InListingOrder(t, place, n)
    BY <1>2, <1>6, <2>1 DEF InListingOrder, precedes, sorted
  <2> QED
    BY <1>4, <1>6, <2>1, <2>2, <2>3
<1>7. CASE sorted
  <2>1. t = qsort(rows, by)
    BY <1>5, <1>7
  <2>2. PICK p : /\ Arranged(t, p, rows, m)
                 /\ Ordered(by, S) => Sorted(t, p, by, m)
    BY <1>4, <2>1, SortArranges DEF m
  <2>3. t \in Seq(S)
    BY <1>4, <2>1, SortArranges
  <2>4. /\ p \in [1 .. m -> 1 .. m] /\ Len(t) = m
        /\ \A i \in 1 .. m : t[i] = rows[p[i]]
    BY <2>2 DEF Arranged
  <2>5. ASSUME comparable(S)
        PROVE  /\ InListingOrder(t, place, n)
               /\ \A i, j \in 1 .. m : i < j => notAfterBy(by, t[i], t[j])
    <3>1. by.field \in Fields(place)
      BY <1>5 DEF By
    <3>2. \A a, b \in S : order(by, a, b) <= 0 <=> notAfterBy(by, a, b)
      <4>1. \A a, b \in S : byField(by.field, a, b) <= 0 <=> notAfter(by.field, a, b)
        BY <1>3, <2>5, <3>1, FieldCompared
      <4> QED
        BY <4>1 DEF order, notAfterBy
    <3>3. PutsInOrder(by.field, S)
      <4>1. FieldTyped(RowSet(place), by.field)
        BY <3>1, FieldKinds
      <4>2. FieldTyped(S, by.field)
        BY <1>3, <4>1 DEF FieldTyped
      <4> QED
        BY <4>2, FieldOrder
    <3>4. Ordered(by, S)
      <4>1. /\ \A a, b \in S : notAfterBy(by, a, b) \/ notAfterBy(by, b, a)
            /\ \A a, b, c \in S : notAfterBy(by, a, b) /\ notAfterBy(by, b, c)
                                    => notAfterBy(by, a, c)
        BY <3>3 DEF PutsInOrder, notAfterBy
      <4> QED
        BY <3>2, <4>1 DEF Ordered
    <3>5. \A i \in 1 .. m : t[i] \in S
      BY <2>3, <2>4
    <3>6. ASSUME NEW i \in 1 .. m, NEW j \in 1 .. m, i < j
          PROVE  notAfterBy(by, t[i], t[j]) /\ precedes(place, n, t[i], t[j])
      <4>1. order(by, t[i], t[j]) <= 0 /\ (order(by, t[j], t[i]) <= 0 => p[i] < p[j])
        BY <2>2, <3>4, <3>6 DEF Sorted
      <4>2. notAfterBy(by, t[i], t[j]) /\ (notAfterBy(by, t[j], t[i]) => p[i] < p[j])
        BY <3>2, <3>5, <4>1
      <4>3. p[i] < p[j] => compare(t[i].key, t[j].key) < 0
        <5>1. p[i] \in 1 .. m /\ p[j] \in 1 .. m /\ t[i] = rows[p[i]] /\ t[j] = rows[p[j]]
          BY <2>4
        <5> QED
          BY <1>2, <5>1
      <4> QED
        BY <1>7, <4>2, <4>3 DEF precedes, by, sorted
    <3> QED
      BY <2>4, <3>6 DEF InListingOrder
  <2> QED
    BY <1>7, <2>2, <2>3, <2>5
<1> QED
  BY <1>5, <1>6, <1>7

-----------------------------------------------------------------------------
\* Listings

\* All rows a request matches, in the order in which they are shown.
listing(ask) ==
  picked(sortRows(ask.place, ask.sort), matchedAt(sortRows(ask.place, ask.sort), ask))

\* G has the row of each key that matches, once.
ListingOf(G, ask) ==
  /\ G \in Seq(RowSet(ask.place)) /\ Len(G) = Cardinality(matching(ask)) /\ 2 * Len(G) <= IntRange
  /\ \A i \in 1 .. Len(G) : /\ G[i].key \in matching(ask) /\ G[i].key \in keysOf(ask.place)
                            /\ G[i] = rowOf(ask.place, G[i].key)
  /\ \A i, j \in 1 .. Len(G) : G[i].key = G[j].key => i = j
  /\ \A k \in matching(ask) : \E i \in 1 .. Len(G) : G[i].key = k

LEMMA MatchingKeys ==
  ASSUME TablesOK, NEW ask
  PROVE  matching(ask) = {k \in keysOf(ask.place) : matches(rowOf(ask.place, k), ask)}
<1> DEFINE rows == rowsOf(ask.place)
<1>1. KeyRows(rows, ask.place)
  BY RowsOf
<1> HIDE DEF rows
<1>2. /\ Len(rows) \in Nat /\ DOMAIN rows = 1 .. Len(rows)
      /\ \A i \in 1 .. Len(rows) : /\ rows[i].key \in keysOf(ask.place)
                                   /\ rows[i] = rowOf(ask.place, rows[i].key)
      /\ \A k \in keysOf(ask.place) : \E i \in 1 .. Len(rows) : rows[i].key = k
  BY <1>1 DEF KeyRows
<1>3. \A r : r \in ToSet(rows) <=> \E i \in 1 .. Len(rows) : r = rows[i]
  BY <1>2 DEF ToSet
<1>4. \A k : k \in matching(ask)
              <=> \E i \in 1 .. Len(rows) : k = rows[i].key /\ matches(rows[i], ask)
  <2>1. matching(ask) = {row.key : row \in {r \in ToSet(rows) : matches(r, ask)}}
    BY DEF matching, rows
  <2> QED
    BY <1>3, <2>1
<1>5. ASSUME NEW k
      PROVE  k \in matching(ask) <=> k \in keysOf(ask.place) /\ matches(rowOf(ask.place, k), ask)
  BY <1>2, <1>4
<1> QED
  BY <1>5

LEMMA Listing ==
  ASSUME TablesOK, NEW ask, ask.place \in {"index", "users"}
  PROVE  /\ ListingOf(listing(ask), ask)
         /\ told(ask) => InListingOrder(listing(ask), ask.place, ask.sort)
         /\ told(ask) /\ Sorts(ask.place, ask.sort) =>
              \A i, j \in 1 .. Len(listing(ask)) :
                i < j => notAfterBy(sortedBy(ask.place, ask.sort), listing(ask)[i], listing(ask)[j])
<1> DEFINE place == ask.place
           n == ask.sort
           rows0 == rowsOf(place)
           rows == sortRows(place, n)
           M == matchedAt(rows, ask)
           G == listing(ask)
           m == Len(rows0)
           S == RowSet(place)
           K == keysOf(place)
<1>1. KeyRows(rows0, place)
  BY RowsOf
<1>2. /\ rows0 \in Seq(S) /\ m \in Nat /\ m = Cardinality(K)
      /\ \A i \in 1 .. m : rows0[i].key \in K /\ rows0[i] = rowOf(place, rows0[i].key)
      /\ \A i, j \in 1 .. m : rows0[i].key = rows0[j].key => i = j
      /\ \A k \in K : \E i \in 1 .. m : rows0[i].key = k
  BY <1>1 DEF KeyRows
<1>3. /\ rows \in Seq(ToSet(rows0))
      /\ \E p : Arranged(rows, p, rows0, m)
      /\ told(ask) =>
           /\ InListingOrder(rows, place, n)
           /\ Sorts(place, n) =>
                \A i, j \in 1 .. m : i < j => notAfterBy(sortedBy(place, n), rows[i], rows[j])
  BY RowsSorted DEF told
<1>4. G = picked(rows, M)
  BY DEF listing
<1>5. matching(ask) = {k \in K : matches(rowOf(place, k), ask)}
  BY MatchingKeys
<1>6. 2 * Cardinality(K) <= IntRange /\ IsFiniteSet(K)
  BY KeysFinite
<1> HIDE DEF place, n, rows0, rows, G, m, S, K
<1>7. PICK p : Arranged(rows, p, rows0, m)
  BY <1>3
<1>8. /\ p \in [1 .. m -> 1 .. m] /\ Len(rows) = m
      /\ \A i \in 1 .. m : rows[i] = rows0[p[i]]
      /\ \A i, j \in 1 .. m : p[i] = p[j] => i = j
  BY <1>7 DEF Arranged
<1>9. \A i \in 1 .. m : \E j \in 1 .. m : p[j] = i
  <2>1. m \in Nat /\ p \in [1 .. m -> 1 .. m] /\ \A i, j \in 1 .. m : p[i] = p[j] => i = j
    BY <1>2, <1>8
  <2> QED
    BY <2>1, AllReached
<1>10. /\ \A i \in 1 .. m : rows[i].key \in K /\ rows[i] = rowOf(place, rows[i].key)
       /\ \A i, j \in 1 .. m : rows[i].key = rows[j].key => i = j
       /\ \A k \in K : \E i \in 1 .. m : rows[i].key = k
  <2>1. ASSUME NEW i \in 1 .. m PROVE p[i] \in 1 .. m /\ rows[i] = rows0[p[i]]
    BY <1>8
  <2>2. ASSUME NEW i \in 1 .. m PROVE rows[i].key \in K /\ rows[i] = rowOf(place, rows[i].key)
    BY <1>2, <2>1
  <2>3. ASSUME NEW i \in 1 .. m, NEW j \in 1 .. m, rows[i].key = rows[j].key PROVE i = j
    <3>1. p[i] = p[j]
      <4>1. p[i] \in 1 .. m /\ p[j] \in 1 .. m /\ rows0[p[i]].key = rows0[p[j]].key
        BY <2>1, <2>3
      <4>2. \A x, y \in 1 .. m : rows0[x].key = rows0[y].key => x = y
        BY <1>2
      <4> QED
        BY <4>1, <4>2
    <3> QED
      BY <1>8, <3>1
  <2>4. ASSUME NEW k \in K PROVE \E i \in 1 .. m : rows[i].key = k
    <3>1. PICK o \in 1 .. m : rows0[o].key = k
      BY <1>2
    <3>2. PICK i \in 1 .. m : p[i] = o
      BY <1>9
    <3> QED
      BY <2>1, <3>1, <3>2
  <2> QED
    BY <2>2, <2>3, <2>4
<1>11. rows \in Seq(S) /\ DOMAIN rows = 1 .. m
  <2>1. ASSUME NEW i \in 1 .. m PROVE rows[i] \in S
    <3>1. p[i] \in 1 .. Len(rows0) /\ rows[i] = rows0[p[i]]
      BY <1>8 DEF m
    <3> QED
      BY <1>2, <3>1, ElementOfSeq
  <2>2. DOMAIN rows = 1 .. m /\ rows \in [1 .. m -> ToSet(rows0)]
    BY <1>3, <1>8
  <2>3. rows \in [1 .. m -> S]
    BY <2>1, <2>2
  <2> QED
    BY <1>2, <2>2, <2>3
<1>12. M \in SUBSET (1 .. m) /\ \A i \in 1 .. m : i \in M <=> matches(rows[i], ask)
  BY <1>11 DEF matchedAt
<1> HIDE DEF M
<1>13. CountedIn(M, m)
  BY <1>2, <1>12, Counting
<1> DEFINE c == Cardinality(M)
<1>14. /\ c \in Nat
       /\ \A j \in M : upTo(M, j) \in 1 .. c /\ nth(M, upTo(M, j)) = j
       /\ \A i \in 1 .. c : nth(M, i) \in M /\ nth(M, i) \in 1 .. m
       /\ \A i, j \in 1 .. c : i < j <=> nth(M, i) < nth(M, j)
  BY <1>12, <1>13 DEF CountedIn
<1>15. G \in Seq(S) /\ Len(G) = c /\ \A i \in 1 .. c : G[i] = rows[nth(M, i)]
  <2>1. rows \in Seq(S) /\ M \in SUBSET (1 .. Len(rows))
    BY <1>8, <1>11, <1>12
  <2> QED
    BY <1>4, <2>1, PickedRows
<1> HIDE DEF c
<1>16. ASSUME NEW i \in 1 .. c
       PROVE  G[i].key \in matching(ask) /\ G[i].key \in K /\ G[i] = rowOf(place, G[i].key)
  <2>1. nth(M, i) \in 1 .. m /\ matches(rows[nth(M, i)], ask) /\ G[i] = rows[nth(M, i)]
    BY <1>12, <1>14, <1>15
  <2>2. G[i].key \in K /\ G[i] = rowOf(place, G[i].key)
    BY <1>10, <2>1
  <2> QED
    BY <1>5, <2>1, <2>2
<1>17. ASSUME NEW i \in 1 .. c, NEW j \in 1 .. c, G[i].key = G[j].key PROVE i = j
  <2>1. nth(M, i) = nth(M, j) /\ nth(M, i) \in Int
    BY <1>10, <1>14, <1>15, <1>17
  <2>2. ~ (i < j) /\ ~ (j < i) /\ i \in Int /\ j \in Int
    BY <1>14, <2>1
  <2> QED
    BY <2>2
<1>18. ASSUME NEW k \in matching(ask) PROVE \E i \in 1 .. c : G[i].key = k
  <2>1. k \in K /\ matches(rowOf(place, k), ask)
    BY <1>5
  <2>2. PICK i \in 1 .. m : rows[i].key = k
    BY <1>10, <2>1
  <2>3. i \in M
    BY <1>10, <1>12, <2>1, <2>2
  <2>4. upTo(M, i) \in 1 .. c /\ nth(M, upTo(M, i)) = i
    BY <1>14, <2>3
  <2>5. G[upTo(M, i)].key = k
    BY <1>15, <2>2, <2>4
  <2> QED
    BY <2>4, <2>5
<1>19. c = Cardinality(matching(ask)) /\ 2 * c <= IntRange
  <2> DEFINE f == [i \in 1 .. c |-> G[i].key]
  <2>1. f \in [1 .. c -> matching(ask)]
    BY <1>16
  <2>2. f \in Bijection(1 .. c, matching(ask))
    <3>1. \A i, j \in 1 .. c : f[i] = f[j] => i = j
      BY <1>17
    <3>2. \A k \in matching(ask) : \E i \in 1 .. c : f[i] = k
      BY <1>18
    <3> HIDE DEF f
    <3> QED
      BY <2>1, <3>1, <3>2 DEF Bijection, Injection, IsInjective, Surjection
  <2>3. ExistsBijection(1 .. c, matching(ask))
    BY <2>2 DEF ExistsBijection
  <2>4. c = Cardinality(matching(ask))
    BY <1>14, <2>3, FS_CountingElements
  <2>5. Cardinality(matching(ask)) <= Cardinality(K)
    BY <1>5, <1>6, FS_Subset
  <2>6. Cardinality(K) \in Nat
    BY <1>6, FS_CardinalityType
  <2> QED
    BY <1>6, <1>14, <2>4, <2>5, <2>6, IntRangeAssumption
<1>20. ListingOf(G, ask)
  BY <1>15, <1>16, <1>17, <1>18, <1>19 DEF ListingOf, place, S, K
<1>21. ASSUME told(ask), NEW i \in 1 .. c, NEW j \in 1 .. c, i < j
       PROVE  /\ precedes(place, n, G[i], G[j])
              /\ Sorts(place, n) => notAfterBy(sortedBy(place, n), G[i], G[j])
  <2>1. /\ nth(M, i) \in 1 .. m /\ nth(M, j) \in 1 .. m /\ nth(M, i) < nth(M, j)
        /\ G[i] = rows[nth(M, i)] /\ G[j] = rows[nth(M, j)]
    BY <1>14, <1>15, <1>21
  <2>2. precedes(place, n, rows[nth(M, i)], rows[nth(M, j)])
    BY <1>3, <1>8, <1>21, <2>1 DEF InListingOrder
  <2> QED
    BY <1>3, <1>21, <2>1, <2>2
<1>22. told(ask) => InListingOrder(G, place, n)
  BY <1>15, <1>21 DEF InListingOrder
<1> QED
  BY <1>15, <1>20, <1>21, <1>22 DEF place, n, G

\* The page that is asked for has nothing to do with what is listed.
SameListing(a, b) ==
  a.place = b.place /\ a.sort = b.sort /\ a.search = b.search /\ a.filter = b.filter

LEMMA ListedAgain ==
  ASSUME NEW a, NEW b, SameListing(a, b)
  PROVE  /\ listing(a) = listing(b) /\ matching(a) = matching(b)
         /\ perPage(a.place) = perPage(b.place)
         /\ told(a) <=> told(b)
<1>1. a.place = b.place /\ a.sort = b.sort /\ a.search = b.search /\ a.filter = b.filter
  BY DEF SameListing
<1>2. ASSUME NEW r PROVE matches(r, a) <=> matches(r, b)
  BY <1>1 DEF matches, matchesIndex, matchesUsers
<1>3. ASSUME NEW rows PROVE matchedAt(rows, a) = matchedAt(rows, b)
  BY <1>2 DEF matchedAt
<1>4. listing(a) = listing(b)
  BY <1>1, <1>3 DEF listing
<1>5. matching(a) = matching(b)
  <2>1. {r \in ToSet(rowsOf(a.place)) : matches(r, a)}
          = {r \in ToSet(rowsOf(b.place)) : matches(r, b)}
    BY <1>1, <1>2
  <2> QED
    BY <2>1 DEF matching
<1> QED
  BY <1>1, <1>4, <1>5 DEF told

LEMMA StartType ==
  ASSUME TablesOK, NEW ask, ask.page \in Int
  PROVE  /\ iStart(ask) \in 0 .. IntRange - 1 /\ int(iStart(ask)) \in Int
         /\ perPage(ask.place) \in Nat
         /\ int(iStart(ask)) = IF 2 * iStart(ask) < IntRange THEN iStart(ask)
                               ELSE iStart(ask) - IntRange
<1>1. perPage(ask.place) \in Nat
  BY SettingsOK
<1>2. PICK x : x = ask.page * perPage(ask.place)
  OBVIOUS
<1>3. x \in Int
  <2>1. \A a, b \in Int : a * b \in Int
    OBVIOUS
  <2> QED
    BY <1>1, <1>2, <2>1
<1>4. iStart(ask) = x % IntRange
  BY <1>2 DEF iStart, unsigned
<1>5. IntRange \in Nat \ {0}
  BY IntRangeAssumption
<1>6. iStart(ask) \in 0 .. IntRange - 1
  BY <1>3, <1>4, <1>5
<1>7. iStart(ask) % IntRange = iStart(ask)
  BY <1>5, <1>6, SmallRemainder
<1>8. int(iStart(ask)) = IF 2 * iStart(ask) < IntRange THEN iStart(ask)
                         ELSE iStart(ask) - IntRange
  BY <1>7 DEF int
<1> QED
  BY <1>1, <1>5, <1>6, <1>8

\* The page numbers under a page of G.
linksOf(G, n, start) == {p \in 0 .. Len(G) : n > 0 /\ n * p < Len(G) /\ n * p # start}

LEMMA Answered ==
  ASSUME TablesOK, NEW ask, ask.place \in {"index", "users"}, ask.page \in Int
  PROVE  answer(ask) =
           [ask |-> ask, start |-> iStart(ask),
            shown |-> piece(listing(ask), int(iStart(ask)), perPage(ask.place), Len(listing(ask))),
            links |-> linksOf(listing(ask), perPage(ask.place), iStart(ask))]
<1> DEFINE rows == sortRows(ask.place, ask.sort)
<1>1. rows \in Seq(ToSet(rowsOf(ask.place)))
  BY RowsSorted
<1>2. perPage(ask.place) \in Nat /\ int(iStart(ask)) \in Int
  BY StartType
<1>3. /\ putRows(ask).found = Len(listing(ask))
      /\ putRows(ask).shown
           = piece(listing(ask), int(iStart(ask)), perPage(ask.place), Len(listing(ask)))
  BY <1>1, <1>2, PutRows DEF listing
<1>4. pageLinks(putRows(ask).found, ask) = linksOf(listing(ask), perPage(ask.place), iStart(ask))
  BY <1>3 DEF pageLinks, linksOf
<1> QED
  BY <1>3, <1>4 DEF answer

-----------------------------------------------------------------------------
\* Pages of a listing

\* Page p of G, where pages have n rows or there is only one.
pageOf(G, p, n) == piece(G, n * p, n, Len(G))

\* t has the rows of G from s + 1 on.
RowsFrom(t, s, l, G) ==
  Len(t) = l /\ \A j \in 1 .. l : s + j \in 1 .. Len(G) /\ t[j] = G[s + j]

LEMMA PageRows ==
  ASSUME NEW S, NEW G \in Seq(S), NEW n \in Nat, NEW p \in Nat
  PROVE  /\ pageOf(G, p, n) \in Seq(S)
         /\ RowsFrom(pageOf(G, p, n), n * p, pieceLen(n * p, n, Len(G)), G)
<1>1. PICK s : s = n * p
  OBVIOUS
<1>2. s \in Nat
  <2>1. \A a, b \in Nat : a * b \in Nat
    OBVIOUS
  <2> QED
    BY <1>1, <2>1
<1> DEFINE L == pieceLen(s, n, Len(G))
           t == pageOf(G, p, n)
<1>3. L \in Nat /\ (L # 0 => s + L <= Len(G))
  BY <1>2 DEF pieceLen
<1>4. t = [j \in 1 .. L |-> G[s + j]]
  BY <1>1 DEF pageOf, piece
<1> HIDE DEF L, t
<1>5. ASSUME NEW j \in 1 .. L PROVE s + j \in 1 .. Len(G) /\ G[s + j] \in S
  <2>1. s + j \in 1 .. Len(G)
    BY <1>2, <1>3
  <2> QED
    BY <2>1, ElementOfSeq
<1>6. t \in [1 .. L -> S]
  BY <1>4, <1>5
<1>7. t \in Seq(S) /\ Len(t) = L
  BY <1>3, <1>6
<1>8. \A j \in 1 .. L : t[j] = G[s + j] /\ s + j \in 1 .. Len(G)
  BY <1>4, <1>5
<1> QED
  BY <1>1, <1>7, <1>8 DEF L, t, RowsFrom

\* The rows up to the end of a page.
upToPage(k, n, L) == IF n = 0 THEN IF k = 0 THEN 0 ELSE L ELSE IF n * k <= L THEN n * k ELSE L

LEMMA PageEnds ==
  ASSUME NEW n \in Nat, NEW L \in Nat, NEW k \in Nat \ {0}, n = 0 => k = 1
  PROVE  upToPage(k, n, L) = upToPage(k - 1, n, L) + pieceLen(n * (k - 1), n, L)
<1>1. CASE n = 0
  BY <1>1 DEF upToPage, pieceLen
<1>2. CASE n # 0
  <2>1. PICK x : x = n * (k - 1)
    OBVIOUS
  <2>2. x \in Nat /\ n * k = x + n
    <3>1. \A a \in Nat, b \in Nat : a * b \in Nat
      OBVIOUS
    <3>2. k - 1 \in Nat
      OBVIOUS
    <3>3. x \in Nat
      BY <2>1, <3>1, <3>2
    <3>4. n * k = n * (k - 1) + n
      OBVIOUS
    <3> QED
      BY <2>1, <3>3, <3>4
  <2>3. upToPage(k, n, L) = IF x + n <= L THEN x + n ELSE L
    BY <1>2, <2>2 DEF upToPage
  <2>4. upToPage(k - 1, n, L) = IF x <= L THEN x ELSE L
    BY <1>2, <2>1 DEF upToPage
  <2>5. pieceLen(n * (k - 1), n, L) = IF L <= x THEN 0 ELSE IF L - x > n THEN n ELSE L - x
    BY <1>2, <2>1, <2>2 DEF pieceLen
  <2> QED
    BY <1>2, <2>2, <2>3, <2>4, <2>5
<1> QED
  BY <1>1, <1>2

\* The pages one after the other are the listing.
LEMMA PagesFlattened ==
  ASSUME NEW S, NEW G \in Seq(S), NEW n \in Nat, NEW m \in Nat, NEW e \in Seq(Seq(S)),
         Len(e) = m + 1, \A p \in 0 .. m : e[p + 1] = pageOf(G, p, n),
         IF n = 0 THEN m = 0 ELSE n * (m + 1) >= Len(G)
  PROVE  FlattenSeq(e) = G
<1> DEFINE f == FlattenSeq(e)
           L == Len(G)
<1>1. L \in Nat
  OBVIOUS
<1>p. f \in Seq(S) /\ \E P : PlacesOf(P, e, f)
  BY PlacesExist
<1> HIDE DEF f, L
<1>2. PICK P : PlacesOf(P, e, f)
  BY <1>p
<1> DEFINE puts(i) == \A j \in 1 .. Len(e[i]) : f[P[i - 1] + j] = e[i][j]
<1>q. /\ P \in [0 .. m + 1 -> Nat] /\ P[0] = 0 /\ P[m + 1] = Len(f)
      /\ \A i \in 1 .. m + 1 : P[i] = P[i - 1] + Len(e[i]) /\ puts(i)
  BY <1>2 DEF PlacesOf
<1> HIDE DEF puts
<1>3. ASSUME NEW i \in 1 .. m + 1
      PROVE  /\ e[i] = pageOf(G, i - 1, n) /\ Len(e[i]) = pieceLen(n * (i - 1), n, L)
             /\ \A j \in 1 .. Len(e[i]) : e[i][j] = G[n * (i - 1) + j]
  <2>1. i - 1 \in 0 .. m /\ i - 1 \in Nat /\ i - 1 + 1 = i
    OBVIOUS
  <2>2. e[i] = pageOf(G, i - 1, n)
    BY <2>1
  <2>3. RowsFrom(pageOf(G, i - 1, n), n * (i - 1), pieceLen(n * (i - 1), n, Len(G)), G)
    BY <2>1, PageRows
  <2> QED
    BY <2>2, <2>3 DEF L, RowsFrom
<1> DEFINE T == {k \in 0 .. m + 1 : P[k] = upToPage(k, n, L)}
<1>4. \A k \in 0 .. m + 1 : k \in T
  <2>1. 0 \in T
    BY <1>1, <1>q DEF upToPage
  <2>2. ASSUME NEW k \in 1 .. m + 1, k - 1 \in T PROVE k \in T
    <3>1. k \in 0 .. m + 1 /\ k \in Nat \ {0} /\ (n = 0 => k = 1)
      OBVIOUS
    <3>2. P[k - 1] = upToPage(k - 1, n, L)
      BY <2>2
    <3>3. P[k] = P[k - 1] + pieceLen(n * (k - 1), n, L)
      BY <1>3, <1>q
    <3>4. upToPage(k, n, L) = upToPage(k - 1, n, L) + pieceLen(n * (k - 1), n, L)
      BY <1>1, <3>1, PageEnds
    <3> QED
      BY <3>1, <3>2, <3>3, <3>4
  <2> HIDE DEF T
  <2>3. m + 1 \in Nat
    OBVIOUS
  <2> QED
    BY <2>1, <2>2, <2>3, Turns
<1>5. Len(f) = L
  <2>1. m + 1 \in 0 .. m + 1
    OBVIOUS
  <2>2. P[m + 1] = upToPage(m + 1, n, L)
    BY <1>4, <2>1
  <2>3. upToPage(m + 1, n, L) = L
    <3>1. CASE n = 0
      BY <3>1 DEF upToPage
    <3>2. CASE n # 0
      <4>1. PICK x : x = n * (m + 1)
        OBVIOUS
      <4>2. x >= L /\ x \in Nat
        <5>1. \A a \in Nat, b \in Nat : a * b \in Nat
          OBVIOUS
        <5>2. x \in Nat
          BY <4>1, <5>1
        <5> QED
          BY <3>2, <4>1, <5>2 DEF L
      <4> QED
        BY <1>1, <3>2, <4>1, <4>2 DEF upToPage
    <3> QED
      BY <3>1, <3>2
  <2> QED
    BY <1>q, <2>2, <2>3
<1>6. ASSUME NEW j \in 1 .. L PROVE f[j] = G[j]
  <2> DEFINE q == IF n = 0 THEN 0 ELSE (j - 1) \div n
  <2>1. PICK x : x = n * q
    OBVIOUS
  <2>2. q \in 0 .. m /\ x \in Nat /\ x < j /\ (n # 0 => j <= x + n) /\ (n = 0 => x = 0)
    <3>1. CASE n = 0
      BY <2>1, <3>1
    <3>2. CASE n # 0
      <4>1. q \in Int /\ n * q <= j - 1 /\ j - 1 < n * q + n
        BY <3>2
      <4> HIDE DEF q
      <4>2. q >= 0
        <5>1. CASE q < 0
          <6>1. n * q <= n * (-1) /\ n * q \in Int
            BY <4>1, <5>1, TimesOrder
          <6>2. n * (-1) = -n
            OBVIOUS
          <6>3. PICK y : y = n * q
            OBVIOUS
          <6>4. y \in Int /\ y <= -n /\ j - 1 < y + n /\ j - 1 >= 0
            BY <4>1, <6>1, <6>2, <6>3
          <6> QED
            BY <6>4
        <5> QED
          BY <4>1, <5>1
      <4>3. q <= m
        <5>1. CASE q > m
          <6>1. n * (m + 1) <= n * q
            BY <4>1, <5>1, TimesOrder
          <6>2. n * (m + 1) >= j
            <7>1. n * (m + 1) >= L /\ n * (m + 1) \in Int
              BY <3>2 DEF L
            <7> QED
              BY <1>1, <7>1
          <6>3. n * q \in Int /\ n * (m + 1) \in Int
            BY <4>1, <5>1, TimesOrder
          <6>4. j \in Int /\ n * q <= j - 1
            BY <4>1
          <6> QED
            BY <6>1, <6>2, <6>3, <6>4
        <5> QED
          BY <4>1, <5>1
      <4>4. n * q \in Nat
        BY <4>1, <4>2
      <4> QED
        BY <2>1, <3>2, <4>1, <4>2, <4>3, <4>4
    <3> QED
      BY <3>1, <3>2
  <2> HIDE DEF q
  <2>3. q + 1 \in 1 .. m + 1 /\ (q + 1) - 1 = q /\ q \in 0 .. m + 1
    BY <2>2
  <2>4. Len(e[q + 1]) = pieceLen(x, n, L) /\ \A i \in 1 .. Len(e[q + 1]) : e[q + 1][i] = G[x + i]
    <3>1. /\ Len(e[q + 1]) = pieceLen(n * ((q + 1) - 1), n, L)
          /\ \A i \in 1 .. Len(e[q + 1]) : e[q + 1][i] = G[n * ((q + 1) - 1) + i]
      BY <1>3, <2>3
    <3>2. n * ((q + 1) - 1) = x
      BY <2>1, <2>3
    <3> QED
      BY <3>1, <3>2
  <2>5. j - x \in 1 .. pieceLen(x, n, L) /\ x + (j - x) = j
    BY <1>1, <2>2 DEF pieceLen
  <2>6. P[q] = x
    <3>1. P[q] = upToPage(q, n, L)
      BY <1>4, <2>3
    <3>2. upToPage(q, n, L) = x
      <4>1. CASE n = 0
        <5>1. q = 0
          BY <4>1, <2>2 DEF q
        <5> QED
          BY <4>1, <2>2, <5>1 DEF upToPage
      <4>2. CASE n # 0
        BY <1>1, <2>1, <2>2, <4>2 DEF upToPage
      <4> QED
        BY <4>1, <4>2
    <3> QED
      BY <3>1, <3>2
  <2>7. f[P[q] + (j - x)] = e[q + 1][j - x]
    <3>1. \A i \in 1 .. Len(e[q + 1]) : f[P[(q + 1) - 1] + i] = e[q + 1][i]
      <4>1. puts(q + 1)
        BY <1>q, <2>3
      <4> QED
        BY <4>1 DEF puts
    <3> QED
      BY <2>3, <2>4, <2>5, <3>1
  <2> QED
    BY <2>4, <2>5, <2>6, <2>7
<1>7. f = G
  BY <1>p, <1>5, <1>6, SeqEqual DEF L
<1> QED
  BY <1>7 DEF f

-----------------------------------------------------------------------------
\* The reader

UnchangedTables == UNCHANGED <<settings, m_pDFile, m_pAllowed, m_pTags, m_pFastCache, m_pUsers>>

\* While the tables are as they were every listing is.
LEMMA ListingKept ==
  ASSUME UnchangedTables, NEW a
  PROVE  /\ listing(a)' = listing(a) /\ perPage(a.place)' = perPage(a.place)
         /\ matching(a)' = matching(a) /\ told(a)' = told(a)
<1>1. UNCHANGED <<settings, m_pDFile, m_pAllowed, m_pTags, m_pFastCache, m_pUsers>>
  BY DEF UnchangedTables
<1>2. \A h : indexRow(h)' = indexRow(h) /\ userRow(h)' = userRow(h)
  BY <1>1 DEF indexRow, userRow
<1>3. rowsOf(a.place)' = rowsOf(a.place)
  BY <1>1, <1>2 DEF rowsOf
<1>4. sortRows(a.place, a.sort)' = sortRows(a.place, a.sort)
  BY <1>1, <1>3 DEF sortRows, sortIndex, sortUsers, canSort, percentSort
<1> QED
  BY <1>1, <1>3, <1>4 DEF listing, matching, told, perPage

AnyRow == IndexRow \cup UserRow

LEMMA ListingRows ==
  ASSUME TablesOK, NEW ask, ask.place \in {"index", "users"}
  PROVE  listing(ask) \in Seq(AnyRow)
<1>1. listing(ask) \in Seq(RowSet(ask.place))
  BY Listing DEF ListingOf
<1>2. RowSet(ask.place) \subseteq AnyRow
  BY DEF RowSet, AnyRow
<1> QED
  BY <1>1, <1>2, SeqMonotonic

\* The page that begins where a page begins is that page.
LEMMA StartOfPage ==
  ASSUME TablesOK, NEW ask, NEW n, n = perPage(ask.place), NEW p \in Nat, ask.page = p,
         2 * (n * p) < IntRange
  PROVE  iStart(ask) = n * p /\ int(iStart(ask)) = n * p
<1>1. n \in Nat /\ IntRange \in Nat \ {0}
  BY SettingsOK, IntRangeAssumption
<1>2. PICK x : x = n * p
  OBVIOUS
<1>3. x \in Nat /\ p * n = x
  <2>1. \A a, b \in Nat : a * b \in Nat /\ a * b = b * a
    OBVIOUS
  <2> QED
    BY <1>1, <1>2, <2>1
<1>4. x % IntRange = x
  BY <1>1, <1>2, <1>3, SmallRemainder
<1>5. iStart(ask) = x
  BY <1>3, <1>4 DEF iStart, unsigned
<1>6. int(iStart(ask)) = x
  BY <1>1, <1>2, <1>4, <1>5 DEF int
<1> QED
  BY <1>2, <1>5, <1>6

\* A request for the rows from s on is one for a page of G, or for none.
HasNumber(ask, G, n, s) ==
  /\ ~ numbered(ask) => n # 0 /\ \A p \in Nat : n * p # s
  /\ numbered(ask) =>
       /\ pageNumber(ask) \in 0 .. IntRange /\ n * pageNumber(ask) = s
       /\ n = 0 => pageNumber(ask) = 0
       /\ piece(G, int(s), n, Len(G)) = pageOf(G, pageNumber(ask), n)

LEMMA PageNumbers ==
  ASSUME TablesOK, NEW ask, ask.page \in Int, NEW L \in Nat, 2 * L <= IntRange, NEW G, Len(G) = L
  PROVE  \A n, s : n = perPage(ask.place) /\ s = iStart(ask) => HasNumber(ask, G, n, s)
<1> SUFFICES ASSUME NEW n, NEW s, n = perPage(ask.place), s = iStart(ask)
             PROVE  HasNumber(ask, G, n, s)
  OBVIOUS
<1>1. /\ n \in Nat /\ s \in 0 .. IntRange - 1 /\ IntRange \in Nat \ {0}
      /\ int(s) = IF 2 * s < IntRange THEN s ELSE s - IntRange
  BY StartType, IntRangeAssumption
<1>2. numbered(ask) <=> n = 0 \/ s % n = 0
  BY DEF numbered
<1>3. pageNumber(ask) = IF n = 0 THEN 0 ELSE s \div n
  BY DEF pageNumber
<1>4. CASE n = 0
  <2>1. s = 0
    <3>1. ask.page * n = 0
      BY <1>4
    <3>2. 0 % IntRange = 0
      BY <1>1
    <3> QED
      BY <3>1, <3>2 DEF iStart, unsigned
  <2>2. pageNumber(ask) = 0 /\ n * 0 = 0 /\ int(s) = 0
    BY <1>1, <1>3, <1>4, <2>1
  <2>3. piece(G, int(s), n, L) = pageOf(G, 0, n)
    BY <2>2 DEF pageOf
  <2> QED
    BY <1>1, <1>2, <1>4, <2>1, <2>2, <2>3 DEF HasNumber
<1>5. CASE n # 0 /\ s % n # 0
  <2>1. ASSUME NEW p \in Nat, n * p = s PROVE FALSE
    <3> DEFINE q == s \div n
               r == s % n
    <3>1. q \in Int /\ r \in 1 .. n - 1 /\ s = n * q + r
      <4>1. s \in Nat
        BY <1>1
      <4>2. s \div n \in Int /\ s % n \in 0 .. n - 1 /\ s = n * (s \div n) + (s % n)
        BY <1>1, <1>5, <4>1, Division
      <4> HIDE DEF q, r
      <4>3. q \in Int /\ r \in 0 .. n - 1 /\ s = n * q + r /\ r # 0
        BY <1>5, <4>2 DEF q, r
      <4> QED
        BY <1>1, <4>3
    <3> HIDE DEF q, r
    <3>2. PICK x : x = n * q
      OBVIOUS
    <3>3. x \in Int /\ n * (q + 1) = x + n
      <4>1. n * (q + 1) = n * q + n
        BY <1>1, <3>1, Distributes
      <4>2. n * q \in Int
        BY <1>1, <3>1, TimesOrder
      <4> QED
        BY <3>2, <4>1, <4>2
    <3>4. CASE p <= q
      <4>1. n * p <= n * q
        BY <1>1, <3>1, <3>4, TimesOrder
      <4>2. s <= x /\ s = x + r
        BY <2>1, <3>1, <3>2, <4>1
      <4> QED
        BY <1>1, <3>1, <3>3, <4>2
    <3>5. CASE p >= q + 1
      <4>1. n * (q + 1) <= n * p
        <5>1. q + 1 \in Int /\ p \in Int
          BY <3>1
        <5> QED
          BY <1>1, <3>5, <5>1, TimesOrder
      <4>2. x + n <= s /\ s = x + r
        BY <2>1, <3>1, <3>2, <3>3, <4>1
      <4> QED
        BY <1>1, <3>1, <3>3, <4>2
    <3> QED
      BY <3>1, <3>4, <3>5
  <2> QED
    BY <1>2, <1>5, <2>1 DEF HasNumber
<1>6. CASE n # 0 /\ s % n = 0
  <2> DEFINE q == s \div n
  <2>1. q \in Int /\ n * q = s
    BY <1>1, <1>6
  <2>2. pageNumber(ask) = q
    BY <1>3, <1>6
  <2> HIDE DEF q
  <2>3. q >= 0
    <3>1. CASE q < 0
      <4>1. n * q <= n * (-1) /\ n * (-1) = -n
        BY <1>1, <2>1, <3>1, TimesOrder
      <4> QED
        BY <1>1, <1>6, <2>1, <4>1
    <3> QED
      BY <2>1, <3>1
  <2>4. q <= s
    <3>1. 1 * q <= n * q
      <4>1. q * 1 <= q * n
        BY <1>1, <1>6, <2>1, <2>3, TimesOrder
      <4>2. q * n = n * q /\ q * 1 = 1 * q
        BY <1>1, <2>1
      <4> QED
        BY <4>1, <4>2
    <3> QED
      BY <2>1, <3>1
  <2>5. piece(G, int(s), n, L) = pageOf(G, q, n)
    <3>1. CASE 2 * s < IntRange
      BY <1>1, <2>1, <3>1 DEF pageOf
    <3>2. CASE ~ (2 * s < IntRange)
      <4>1. int(s) < 0 /\ L <= s
        BY <1>1, <3>2
      <4>2. pieceLen(int(s), n, L) = 0 /\ pieceLen(s, n, L) = 0
        BY <4>1 DEF pieceLen
      <4>3. piece(G, int(s), n, L) = [j \in 1 .. 0 |-> G[int(s) + j]]
        BY <4>2 DEF piece
      <4>4. piece(G, s, n, L) = [j \in 1 .. 0 |-> G[s + j]]
        BY <4>2 DEF piece
      <4>5. piece(G, int(s), n, L) = piece(G, s, n, L)
        BY <4>3, <4>4
      <4> QED
        BY <2>1, <4>5 DEF pageOf
    <3> QED
      BY <3>1, <3>2
  <2> QED
    BY <1>1, <1>2, <1>6, <2>1, <2>2, <2>3, <2>4, <2>5 DEF HasNumber
<1> QED
  BY <1>4, <1>5, <1>6

\* What opening a page does.
Opened(ask, G, n) ==
  /\ view' # NoView /\ view'.ask = ask /\ view'.start \in 0 .. IntRange - 1
  /\ view'.links = linksOf(G, n, view'.start)
  /\ ask.page = 0 => view'.start = 0
  /\ walk' = [ask |-> ask, seen |-> walk'.seen,
              forward |-> told(ask) /\ (n = 0 \/ ask.page = 0),
              stayed |-> matching(ask), changes |-> 0]
  /\ \/ walk'.seen = EmptyDicti /\ n # 0 /\ \A p \in Nat : n * p # view'.start
     \/ \E q \in 0 .. IntRange : /\ n * q = view'.start /\ (n = 0 => q = 0)
                                 /\ walk'.seen = setItem(EmptyDicti, q, pageOf(G, q, n))

LEMMA OpenDoes ==
  ASSUME TablesOK, NEW ask \in Ask, Open(ask)
  PROVE  Opened(ask, listing(ask), perPage(ask.place))
<1>1. ask.place \in {"index", "users"} /\ ask.page \in Int
  BY AskAssumption
<1>2. PICK G, n, s : G = listing(ask) /\ n = perPage(ask.place) /\ s = iStart(ask)
  OBVIOUS
<1>3. Len(G) \in Nat /\ 2 * Len(G) <= IntRange
  <2>1. ListingOf(G, ask)
    BY <1>1, <1>2, Listing
  <2> QED
    BY <2>1 DEF ListingOf
<1>4. answer(ask) = [ask |-> ask, start |-> s, shown |-> piece(G, int(s), n, Len(G)),
                     links |-> linksOf(G, n, s)]
  BY <1>1, <1>2, Answered
<1>5. /\ view' = answer(ask)
      /\ walk' = [ask |-> ask,
                  seen |-> IF numbered(ask) THEN setItem(EmptyDicti, pageNumber(ask), view'.shown)
                           ELSE EmptyDicti,
                  forward |-> told(ask) /\ (n = 0 \/ ask.page = 0),
                  stayed |-> matching(ask),
                  changes |-> 0]
  BY <1>2 DEF Open
<1>6. s \in 0 .. IntRange - 1
  BY <1>1, <1>2, StartType
<1>7. /\ ~ numbered(ask) => n # 0 /\ \A p \in Nat : n * p # s
      /\ numbered(ask) =>
           /\ pageNumber(ask) \in 0 .. IntRange /\ n * pageNumber(ask) = s
           /\ n = 0 => pageNumber(ask) = 0
           /\ piece(G, int(s), n, Len(G)) = pageOf(G, pageNumber(ask), n)
  <2>1. HasNumber(ask, G, n, s)
    BY <1>1, <1>2, <1>3, PageNumbers
  <2> QED
    BY <2>1 DEF HasNumber
<1>8. ask.page = 0 => s = 0
  <2>1. n \in Nat /\ IntRange \in Nat \ {0}
    BY <1>2, SettingsOK, IntRangeAssumption
  <2>2. 0 * n = 0 /\ 0 % IntRange = 0
    BY <2>1
  <2> QED
    BY <1>2, <2>2 DEF iStart, unsigned
<1>9. /\ view' # NoView /\ view'.ask = ask /\ view'.start = s /\ view'.links = linksOf(G, n, s)
      /\ view'.shown = piece(G, int(s), n, Len(G))
  <2>1. view' # NoView
    BY <1>4, <1>5 DEF NoView
  <2> QED
    BY <1>4, <1>5, <2>1
<1>10. walk'.seen = IF numbered(ask) THEN setItem(EmptyDicti, pageNumber(ask), view'.shown)
                    ELSE EmptyDicti
  BY <1>5
<1>11. walk' = [ask |-> ask, seen |-> walk'.seen,
                forward |-> told(ask) /\ (n = 0 \/ ask.page = 0),
                stayed |-> matching(ask), changes |-> 0]
  BY <1>5
<1>12. \/ walk'.seen = EmptyDicti /\ n # 0 /\ \A p \in Nat : n * p # s
       \/ \E q \in 0 .. IntRange : /\ n * q = s /\ (n = 0 => q = 0)
                                   /\ walk'.seen = setItem(EmptyDicti, q, pageOf(G, q, n))
  <2>1. CASE ~ numbered(ask)
    BY <1>7, <1>10, <2>1
  <2>2. CASE numbered(ask)
    BY <1>7, <1>9, <1>10, <2>2
  <2> QED
    BY <2>1, <2>2
<1>13. Opened(ask, G, n)
  BY <1>6, <1>8, <1>9, <1>11, <1>12 DEF Opened
<1> QED
  BY <1>2, <1>13

-----------------------------------------------------------------------------
\* What the reader has

\* The reader looks at pages of n rows of the listing a asks for.
Reader(a, n) ==
  /\ a \in Ask /\ walk.ask = a /\ n = perPage(a.place)
  /\ view.ask = [place |-> a.place, page |-> view.ask.page, sort |-> a.sort,
                 search |-> a.search, filter |-> a.filter]
  /\ view.ask.page \in Int
  /\ \A p \in view.links : p \in 0 .. IntRange /\ n # 0 /\ 2 * (n * p) < IntRange
  /\ walk = [ask |-> a, seen |-> walk.seen, forward |-> walk.forward, stayed |-> walk.stayed,
             changes |-> walk.changes]
  /\ DOMAIN walk.seen \subseteq 0 .. IntRange
  /\ walk.seen \in [DOMAIN walk.seen -> Seq(AnyRow)]
  /\ walk.forward \in BOOLEAN /\ IsFiniteSet(walk.stayed) /\ walk.changes \in Nat

WalkOK == view # NoView => \E a, n : Reader(a, n)

LEMMA LinksFit ==
  ASSUME NEW G, Len(G) \in Nat, 2 * Len(G) <= IntRange, NEW n \in Nat, NEW start
  PROVE  \A p \in linksOf(G, n, start) : p \in 0 .. IntRange /\ n # 0 /\ 2 * (n * p) < IntRange
<1> SUFFICES ASSUME NEW p \in linksOf(G, n, start)
             PROVE  p \in 0 .. IntRange /\ n # 0 /\ 2 * (n * p) < IntRange
  OBVIOUS
<1>1. p \in 0 .. Len(G) /\ n > 0 /\ n * p < Len(G)
  BY DEF linksOf
<1>2. PICK x : x = n * p
  OBVIOUS
<1>3. x \in Int
  <2>1. \A b, c \in Int : b * c \in Int
    OBVIOUS
  <2> QED
    BY <1>1, <1>2, <2>1
<1> QED
  BY <1>1, <1>2, <1>3, IntRangeAssumption

\* What following a link does.
Followed(p, a, G, n) ==
  /\ p \in view.links /\ view' # NoView
  /\ view'.ask = [place |-> a.place, page |-> p, sort |-> a.sort, search |-> a.search,
                  filter |-> a.filter]
  /\ view'.start = n * p /\ view'.links = linksOf(G, n, n * p)
  /\ walk' = [ask |-> a, seen |-> setItem(walk.seen, p, pageOf(G, p, n)),
              forward |-> walk.forward /\ told(a) /\ p = view.ask.page + 1,
              stayed |-> walk.stayed \cap matching(a), changes |-> walk.changes]

LEMMA FollowDoes ==
  ASSUME TablesOK, NEW a, NEW n, Reader(a, n), NEW p, Follow(p)
  PROVE  Followed(p, a, listing(a), n)
<1> DEFINE b == [place |-> a.place, page |-> p, sort |-> a.sort, search |-> a.search,
                 filter |-> a.filter]
<1>1. PICK G : G = listing(a)
  OBVIOUS
<1>2. a \in Ask /\ a.place \in {"index", "users"} /\ n = perPage(a.place)
  BY AskAssumption DEF Reader
<1>3. p \in view.links /\ p \in Nat /\ p \in Int /\ 2 * (n * p) < IntRange
  BY DEF Follow, Reader
<1>4. linked(view.ask, p) = {b}
  <2>1. /\ view.ask.place = a.place /\ view.ask.search = a.search /\ view.ask.filter = a.filter
        /\ view.ask.sort = a.sort
    BY DEF Reader
  <2>2. linked(view.ask, p) = {[place |-> a.place, page |-> p, sort |-> view.ask.sort,
                                search |-> a.search, filter |-> a.filter]}
    BY <1>2, <2>1, LinkedAsAsked
  <2> QED
    BY <2>1, <2>2
<1>5. /\ view' = answer(b)
      /\ walk' = [walk EXCEPT !.seen = setItem(@, p, view'.shown),
                              !.stayed = @ \cap matching(b),
                              !.forward = @ /\ told(b) /\ p = view.ask.page + 1]
  BY <1>4 DEF Follow
<1>6. SameListing(a, b) /\ b.place = a.place /\ b.page = p
  BY DEF SameListing
<1> HIDE DEF b
<1>7. listing(b) = G /\ matching(b) = matching(a) /\ told(b) = told(a) /\ perPage(b.place) = n
  <2>1. told(b) \in BOOLEAN /\ told(a) \in BOOLEAN
    BY DEF told, comparable
  <2> QED
    BY <1>1, <1>2, <1>6, <2>1, ListedAgain
<1>8. iStart(b) = n * p /\ int(iStart(b)) = n * p
  BY <1>3, <1>6, <1>7, StartOfPage
<1>9. answer(b) = [ask |-> b, start |-> n * p, shown |-> pageOf(G, p, n),
                   links |-> linksOf(G, n, n * p)]
  <2>1. b.place \in {"index", "users"} /\ b.page \in Int
    BY <1>2, <1>3, <1>6
  <2>2. answer(b) = [ask |-> b, start |-> iStart(b),
                     shown |-> piece(listing(b), int(iStart(b)), perPage(b.place), Len(listing(b))),
                     links |-> linksOf(listing(b), perPage(b.place), iStart(b))]
    BY <2>1, Answered
  <2> QED
    BY <1>7, <1>8, <2>2 DEF pageOf
<1>10. view' # NoView
  BY <1>5, <1>9 DEF NoView
<1>11. walk' = [ask |-> a, seen |-> setItem(walk.seen, p, pageOf(G, p, n)),
                forward |-> walk.forward /\ told(a) /\ p = view.ask.page + 1,
                stayed |-> walk.stayed \cap matching(a), changes |-> walk.changes]
  <2>1. view'.shown = pageOf(G, p, n)
    BY <1>5, <1>9
  <2>2. walk = [ask |-> a, seen |-> walk.seen, forward |-> walk.forward, stayed |-> walk.stayed,
                changes |-> walk.changes]
    BY DEF Reader
  <2>3. PICK f : f = (walk.forward /\ told(a) /\ p = view.ask.page + 1)
    OBVIOUS
  <2>4. walk' = [walk EXCEPT !.seen = setItem(@, p, view'.shown), !.stayed = @ \cap matching(b),
                             !.forward = f]
    BY <1>5, <1>7, <2>3, Zenon
  <2>5. walk' = [ask |-> a, seen |-> setItem(walk.seen, p, pageOf(G, p, n)), forward |-> f,
                 stayed |-> walk.stayed \cap matching(a), changes |-> walk.changes]
    <3>1. PICK s, w, t, c : s = walk.seen /\ w = walk.forward /\ t = walk.stayed /\ c = walk.changes
      OBVIOUS
    <3>2. walk = [ask |-> a, seen |-> s, forward |-> w, stayed |-> t, changes |-> c]
      BY <2>2, <3>1, Zenon
    <3>3. walk' = [walk EXCEPT !.seen = setItem(s, p, pageOf(G, p, n)),
                               !.stayed = t \cap matching(a), !.forward = f]
      BY <1>7, <2>1, <2>4, <3>1, <3>2
    <3>4. PICK x, y : x = setItem(s, p, pageOf(G, p, n)) /\ y = t \cap matching(a)
      OBVIOUS
    <3>5. [[ask |-> a, seen |-> s, forward |-> w, stayed |-> t, changes |-> c]
             EXCEPT !.seen = x, !.stayed = y, !.forward = f]
            = [ask |-> a, seen |-> x, forward |-> f, stayed |-> y, changes |-> c]
      <4>1. [[ask |-> a, seen |-> s, forward |-> w, stayed |-> t, changes |-> c] EXCEPT !.seen = x]
              = [ask |-> a, seen |-> x, forward |-> w, stayed |-> t, changes |-> c]
        OBVIOUS
      <4>2. [[ask |-> a, seen |-> x, forward |-> w, stayed |-> t, changes |-> c]
               EXCEPT !.stayed = y]
              = [ask |-> a, seen |-> x, forward |-> w, stayed |-> y, changes |-> c]
        OBVIOUS
      <4>3. [[ask |-> a, seen |-> x, forward |-> w, stayed |-> y, changes |-> c]
               EXCEPT !.forward = f]
              = [ask |-> a, seen |-> x, forward |-> f, stayed |-> y, changes |-> c]
        OBVIOUS
      <4> QED
        BY <4>1, <4>2, <4>3, Zenon
    <3> QED
      BY <3>1, <3>2, <3>3, <3>4, <3>5, Zenon
  <2> QED
    BY <2>3, <2>5, Zenon
<1>12. view'.ask = b /\ view'.start = n * p /\ view'.links = linksOf(G, n, n * p)
  BY <1>5, <1>9
<1>13. Followed(p, a, G, n)
  BY <1>3, <1>10, <1>11, <1>12 DEF Followed, b
<1> QED
  BY <1>1, <1>13

LEMMA SeenPut ==
  ASSUME NEW d, DOMAIN d \subseteq 0 .. IntRange, d \in [DOMAIN d -> Seq(AnyRow)],
         NEW p \in 0 .. IntRange, NEW t \in Seq(AnyRow)
  PROVE  /\ DOMAIN setItem(d, p, t) \subseteq 0 .. IntRange
         /\ setItem(d, p, t) \in [DOMAIN setItem(d, p, t) -> Seq(AnyRow)]
BY DEF setItem

LEMMA NothingSeen ==
  DOMAIN EmptyDicti \subseteq 0 .. IntRange /\ EmptyDicti \in [DOMAIN EmptyDicti -> Seq(AnyRow)]
BY DEF EmptyDicti

LEMMA WalkInit == Init => WalkOK
BY DEF Init, WalkOK

\* What a change does to what the reader has: it is counted.
OneCounted == walk' = IF view = NoView THEN walk ELSE [walk EXCEPT !.changes = @ + 1]

LEMMA ChangeDoes ==
  ASSUME Change
  PROVE  view' = view /\ settings' = settings /\ OneCounted
BY DEF Change, DeleteTorrent, AddTorrent, Refresh, Rename, DeleteUser, AddUser, Noted, OneCounted

LEMMA ListingFits ==
  ASSUME TablesOK, NEW a \in Ask
  PROVE  /\ listing(a) \in Seq(AnyRow) /\ Len(listing(a)) \in Nat /\ 2 * Len(listing(a)) <= IntRange
         /\ perPage(a.place) \in Nat /\ IsFiniteSet(matching(a))
<1>1. a.place \in {"index", "users"}
  BY AskAssumption
<1>2. ListingOf(listing(a), a) /\ listing(a) \in Seq(AnyRow)
  BY <1>1, Listing, ListingRows
<1>3. matching(a) \subseteq keysOf(a.place)
  BY MatchingKeys
<1>4. IsFiniteSet(matching(a))
  BY <1>3, KeysFinite, FS_Subset
<1> QED
  BY <1>2, <1>4, SettingsOK DEF ListingOf

LEMMA WalkStep == TablesOK /\ WalkOK /\ [Next]_vars => WalkOK'
<1> SUFFICES ASSUME TablesOK, WalkOK, [Next]_vars PROVE WalkOK'
  OBVIOUS
<1>1. ASSUME NEW a \in Ask, Open(a) PROVE WalkOK'
  <2>1. PICK G, n : G = listing(a) /\ n = perPage(a.place)
    OBVIOUS
  <2>2. Opened(a, G, n)
    BY <1>1, <2>1, OpenDoes
  <2>3. /\ G \in Seq(AnyRow) /\ Len(G) \in Nat /\ 2 * Len(G) <= IntRange /\ n \in Nat
        /\ IsFiniteSet(matching(a))
    BY <2>1, ListingFits
  <2>4. settings' = settings
    BY <1>1 DEF Open
  <2>5. (perPage(a.place))' = n
    BY <2>1, <2>4 DEF perPage
  <2>6. \A p \in view'.links : p \in 0 .. IntRange /\ n # 0 /\ 2 * (n * p) < IntRange
    BY <2>2, <2>3, LinksFit DEF Opened
  <2>7. a = [place |-> a.place, page |-> a.page, sort |-> a.sort,
             search |-> a.search, filter |-> a.filter] /\ a.page \in Int
    BY AskAssumption
  <2>8. /\ DOMAIN walk'.seen \subseteq 0 .. IntRange
        /\ walk'.seen \in [DOMAIN walk'.seen -> Seq(AnyRow)]
    <3>1. CASE walk'.seen = EmptyDicti
      BY <3>1, NothingSeen
    <3>2. ASSUME NEW q \in 0 .. IntRange, walk'.seen = setItem(EmptyDicti, q, pageOf(G, q, n))
          PROVE  /\ DOMAIN walk'.seen \subseteq 0 .. IntRange
                 /\ walk'.seen \in [DOMAIN walk'.seen -> Seq(AnyRow)]
      <4>1. pageOf(G, q, n) \in Seq(AnyRow)
        BY <2>3, PageRows
      <4> QED
        BY <3>2, <4>1, NothingSeen, SeenPut
    <3> QED
      BY <2>2, <3>1, <3>2 DEF Opened
  <2>9. walk' = [ask |-> a, seen |-> walk'.seen,
                 forward |-> told(a) /\ (n = 0 \/ a.page = 0),
                 stayed |-> matching(a), changes |-> 0]
    BY <2>2 DEF Opened
  <2>10. /\ walk'.ask = a /\ walk'.changes = 0 /\ walk'.stayed = matching(a)
         /\ walk'.forward \in BOOLEAN
         /\ walk' = [ask |-> a, seen |-> walk'.seen, forward |-> walk'.forward,
                     stayed |-> walk'.stayed, changes |-> walk'.changes]
    <3>1. PICK s, f : s = walk'.seen /\ f = (told(a) /\ (n = 0 \/ a.page = 0))
      OBVIOUS
    <3>2. walk' = [ask |-> a, seen |-> s, forward |-> f, stayed |-> matching(a), changes |-> 0]
      BY <2>9, <3>1, Zenon
    <3>3. f \in BOOLEAN
      BY <3>1
    <3> QED
      BY <3>2, <3>3
  <2>11. view'.ask = a
    BY <2>2 DEF Opened
  <2>12. Reader(a, n)'
    BY <2>3, <2>5, <2>6, <2>7, <2>8, <2>10, <2>11 DEF Reader
  <2> QED
    BY <2>12 DEF WalkOK
<1>2. ASSUME NEW p, Follow(p) PROVE WalkOK'
  <2>0. view # NoView /\ settings' = settings
    BY <1>2 DEF Follow
  <2>1. PICK a, n : Reader(a, n)
    BY <2>0 DEF WalkOK
  <2>2. PICK G : G = listing(a)
    OBVIOUS
  <2>3. Followed(p, a, G, n)
    BY <1>2, <2>1, <2>2, FollowDoes
  <2>4. a \in Ask /\ n = perPage(a.place)
    BY <2>1 DEF Reader
  <2>5. G \in Seq(AnyRow) /\ Len(G) \in Nat /\ 2 * Len(G) <= IntRange /\ n \in Nat
    BY <2>2, <2>4, ListingFits
  <2>6. (perPage(a.place))' = n
    BY <2>0, <2>4 DEF perPage
  <2>7. \A q \in view'.links : q \in 0 .. IntRange /\ n # 0 /\ 2 * (n * q) < IntRange
    BY <2>3, <2>5, LinksFit DEF Followed
  <2>8. p \in 0 .. IntRange /\ p \in Nat
    BY <2>1, <2>3 DEF Reader, Followed
  <2>9. /\ walk' = [ask |-> a, seen |-> setItem(walk.seen, p, pageOf(G, p, n)),
                    forward |-> walk.forward /\ told(a) /\ p = view.ask.page + 1,
                    stayed |-> walk.stayed \cap matching(a), changes |-> walk.changes]
        /\ view'.ask = [place |-> a.place, page |-> p, sort |-> a.sort, search |-> a.search,
                        filter |-> a.filter]
    BY <2>3 DEF Followed
  <2>10. /\ DOMAIN walk'.seen \subseteq 0 .. IntRange
         /\ walk'.seen \in [DOMAIN walk'.seen -> Seq(AnyRow)]
    <3>1. pageOf(G, p, n) \in Seq(AnyRow)
      BY <2>5, <2>8, PageRows
    <3>2. walk'.seen = setItem(walk.seen, p, pageOf(G, p, n))
      BY <2>9
    <3> QED
      BY <2>1, <2>8, <3>1, <3>2, SeenPut DEF Reader
  <2>11. IsFiniteSet(walk'.stayed) /\ walk'.changes \in Nat /\ walk'.forward \in BOOLEAN
    <3>1. walk'.stayed \subseteq walk.stayed /\ walk'.changes = walk.changes
      BY <2>9
    <3>2. IsFiniteSet(walk.stayed) /\ walk.changes \in Nat /\ walk.forward \in BOOLEAN
      BY <2>1 DEF Reader
    <3>3. walk'.forward \in BOOLEAN
      BY <2>9
    <3> QED
      BY <3>1, <3>2, <3>3, FS_Subset
  <2>12. /\ walk'.ask = a /\ view'.ask.page = p /\ p \in Int
         /\ view'.ask = [place |-> a.place, page |-> view'.ask.page, sort |-> a.sort,
                         search |-> a.search, filter |-> a.filter]
         /\ walk' = [ask |-> a, seen |-> walk'.seen, forward |-> walk'.forward,
                     stayed |-> walk'.stayed, changes |-> walk'.changes]
    BY <2>8, <2>9
  <2>13. Reader(a, n)'
    BY <2>4, <2>6, <2>7, <2>10, <2>11, <2>12 DEF Reader
  <2> QED
    BY <2>13 DEF WalkOK
<1>3. CASE Change
  <2>1. view' = view /\ settings' = settings /\ OneCounted
    BY <1>3, ChangeDoes
  <2>2. CASE view = NoView
    BY <2>1, <2>2 DEF WalkOK
  <2>3. CASE view # NoView
    <3>1. PICK a, n : Reader(a, n)
      BY <2>3 DEF WalkOK
    <3>2. (perPage(a.place))' = perPage(a.place)
      BY <2>1 DEF perPage
    <3>3. walk' = [walk EXCEPT !.changes = @ + 1]
      BY <2>1, <2>3 DEF OneCounted
    <3>4. walk = [ask |-> a, seen |-> walk.seen, forward |-> walk.forward, stayed |-> walk.stayed,
                  changes |-> walk.changes] /\ walk.changes \in Nat
      BY <3>1 DEF Reader
    <3>5. walk' = [ask |-> a, seen |-> walk.seen, forward |-> walk.forward, stayed |-> walk.stayed,
                   changes |-> walk.changes + 1]
      BY <3>3, <3>4
    <3>6. /\ walk'.ask = a /\ walk'.seen = walk.seen /\ walk'.forward = walk.forward
          /\ walk'.stayed = walk.stayed /\ walk'.changes = walk.changes + 1
      BY <3>5
    <3>7. Reader(a, n)'
      BY <2>1, <3>1, <3>2, <3>4, <3>5, <3>6 DEF Reader
    <3> QED
      BY <3>7 DEF WalkOK
  <2> QED
    BY <2>2, <2>3
<1>4. CASE UNCHANGED vars
  BY <1>4 DEF vars, WalkOK, Reader, perPage
<1> QED
  BY <1>1, <1>2, <1>3, <1>4 DEF Next

-----------------------------------------------------------------------------
\* Every entry once

\* The reader's pages are pages of G, and the links under the last one those of G.
SeenOf(G, n) ==
  /\ \A p \in DOMAIN walk.seen : walk.seen[p] = pageOf(G, p, n)
  /\ n = 0 => DOMAIN walk.seen = {0}
  /\ view.links = linksOf(G, n, view.start)
  /\ \A p \in Nat : n # 0 /\ n * p = view.start => p \in DOMAIN walk.seen

OnceInv ==
  view # NoView /\ walk.changes = 0 =>
    \E a, G, n : walk.ask = a /\ G = listing(a) /\ n = perPage(a.place) /\ SeenOf(G, n)

LEMMA OnceInit == Init => OnceInv
BY DEF Init, OnceInv

LEMMA OnceStep == TablesOK /\ WalkOK /\ OnceInv /\ [Next]_vars => OnceInv'
<1> SUFFICES ASSUME TablesOK, WalkOK, OnceInv, [Next]_vars PROVE OnceInv'
  OBVIOUS
<1>1. ASSUME NEW a \in Ask, Open(a) PROVE OnceInv'
  <2>1. PICK G, n : G = listing(a) /\ n = perPage(a.place)
    OBVIOUS
  <2>2. Opened(a, G, n)
    BY <1>1, <2>1, OpenDoes
  <2>3. listing(a)' = G /\ perPage(a.place)' = n
    <3>1. UnchangedTables
      BY <1>1 DEF Open, tables, UnchangedTables
    <3> QED
      BY <2>1, <3>1, ListingKept
  <2>4. n \in Nat
    BY <2>1, ListingFits
  <2>5. walk' = [ask |-> a, seen |-> walk'.seen,
                 forward |-> told(a) /\ (n = 0 \/ a.page = 0),
                 stayed |-> matching(a), changes |-> 0]
    BY <2>2 DEF Opened
  <2>6. walk'.ask = a
    BY <2>5
  <2>7. SeenOf(G, n)'
    <3>1. view'.links = linksOf(G, n, view'.start)
      BY <2>2 DEF Opened
    <3>2. CASE walk'.seen = EmptyDicti /\ n # 0 /\ \A p \in Nat : n * p # view'.start
      <4>1. DOMAIN walk'.seen = {}
        BY <3>2 DEF EmptyDicti
      <4> QED
        BY <3>1, <3>2, <4>1 DEF SeenOf
    <3>3. ASSUME NEW q \in 0 .. IntRange, n * q = view'.start, n = 0 => q = 0,
                 walk'.seen = setItem(EmptyDicti, q, pageOf(G, q, n))
          PROVE  SeenOf(G, n)'
      <4>1. DOMAIN walk'.seen = {q} /\ walk'.seen[q] = pageOf(G, q, n)
        BY <3>3 DEF EmptyDicti, setItem
      <4>2. ASSUME NEW p \in Nat, n # 0, n * p = view'.start PROVE p = q
        <5>1. n \in Nat \ {0} /\ q \in Nat /\ n * p = n * q
          BY <2>4, <3>3, <4>2
        <5> QED
          BY <5>1, SameTimes
      <4>3. /\ \A p \in DOMAIN walk'.seen : walk'.seen[p] = pageOf(G, p, n)
            /\ n = 0 => DOMAIN walk'.seen = {0}
            /\ \A p \in Nat : n # 0 /\ n * p = view'.start => p \in DOMAIN walk'.seen
        BY <3>3, <4>1, <4>2
      <4> QED
        BY <3>1, <4>3 DEF SeenOf
    <3> QED
      BY <2>2, <3>2, <3>3 DEF Opened
  <2> QED
    BY <2>3, <2>6, <2>7 DEF OnceInv
<1>2. ASSUME NEW p, Follow(p) PROVE OnceInv'
  <2>0. view # NoView /\ UnchangedTables
    BY <1>2 DEF Follow, tables, UnchangedTables
  <2>1. PICK a, n : Reader(a, n)
    BY <2>0 DEF WalkOK
  <2>2. a \in Ask /\ walk.ask = a /\ n = perPage(a.place)
    BY <2>1 DEF Reader
  <2>3. PICK G : G = listing(a)
    OBVIOUS
  <2>4. Followed(p, a, G, n)
    BY <1>2, <2>1, <2>3, FollowDoes
  <2>5. /\ walk' = [ask |-> a, seen |-> setItem(walk.seen, p, pageOf(G, p, n)),
                    forward |-> walk.forward /\ told(a) /\ p = view.ask.page + 1,
                    stayed |-> walk.stayed \cap matching(a), changes |-> walk.changes]
        /\ view'.start = n * p /\ view'.links = linksOf(G, n, n * p)
    BY <2>4 DEF Followed
  <2>6. listing(a)' = G /\ perPage(a.place)' = n
    BY <2>0, <2>2, <2>3, ListingKept
  <2>7. p \in 0 .. IntRange /\ n # 0 /\ n \in Nat /\ p \in Nat
    <3>1. p \in view.links
      BY <2>4 DEF Followed
    <3> QED
      BY <2>1, <2>2, <3>1, ListingFits DEF Reader
  <2>8. ASSUME walk'.changes = 0 PROVE SeenOf(G, n)'
    <3>1. walk.changes = 0
      BY <2>5, <2>8
    <3>2. SeenOf(G, n)
      BY <2>0, <2>2, <2>3, <3>1 DEF OnceInv
    <3>3. \A q \in DOMAIN walk.seen : walk.seen[q] = pageOf(G, q, n)
      BY <3>2 DEF SeenOf
    <3>4. walk'.seen = setItem(walk.seen, p, pageOf(G, p, n))
      BY <2>5
    <3>5. \A q \in DOMAIN walk'.seen : walk'.seen[q] = pageOf(G, q, n)
      BY <3>3, <3>4 DEF setItem
    <3>6. p \in DOMAIN walk'.seen
      BY <3>4 DEF setItem
    <3>7. ASSUME NEW q \in Nat, n # 0, n * q = view'.start PROVE q = p
      <4>1. n \in Nat \ {0} /\ n * q = n * p
        BY <2>5, <2>7, <3>7
      <4> QED
        BY <2>7, <4>1, SameTimes
    <3> QED
      BY <2>5, <2>7, <3>5, <3>6, <3>7 DEF SeenOf
  <2>9. walk'.ask = a
    BY <2>5
  <2> QED
    BY <2>6, <2>8, <2>9 DEF OnceInv
<1>3. CASE Change
  <2>1. view' = view /\ OneCounted
    BY <1>3, ChangeDoes
  <2>2. CASE view # NoView
    <3>1. PICK a, n : Reader(a, n)
      BY <2>2 DEF WalkOK
    <3>2. walk' = [walk EXCEPT !.changes = @ + 1]
      BY <2>1, <2>2 DEF OneCounted
    <3>3. walk = [ask |-> a, seen |-> walk.seen, forward |-> walk.forward, stayed |-> walk.stayed,
                  changes |-> walk.changes] /\ walk.changes \in Nat
      BY <3>1 DEF Reader
    <3>4. walk' = [ask |-> a, seen |-> walk.seen, forward |-> walk.forward, stayed |-> walk.stayed,
                   changes |-> walk.changes + 1]
      BY <3>2, <3>3
    <3>5. walk'.changes = walk.changes + 1
      BY <3>4
    <3> QED
      BY <3>3, <3>5 DEF OnceInv
  <2> QED
    BY <2>1, <2>2 DEF OnceInv
<1>4. CASE UNCHANGED vars
  <2>1. UnchangedTables /\ view' = view /\ walk' = walk
    BY <1>4 DEF vars, tables, UnchangedTables
  <2>2. CASE view # NoView /\ walk.changes = 0
    <3>1. PICK a, G, n : walk.ask = a /\ G = listing(a) /\ n = perPage(a.place) /\ SeenOf(G, n)
      BY <2>2 DEF OnceInv
    <3>2. listing(a)' = G /\ perPage(a.place)' = n
      BY <2>1, <3>1, ListingKept
    <3>3. SeenOf(G, n)'
      BY <2>1, <3>1 DEF SeenOf
    <3> QED
      BY <2>1, <3>1, <3>2, <3>3 DEF OnceInv
  <2> QED
    BY <2>1, <2>2 DEF OnceInv
<1> QED
  BY <1>1, <1>2, <1>3, <1>4 DEF Next

\* The order in which rows are sorted is the one that was asked for, as it is shown.
LEMMA WantedOrder ==
  ASSUME TablesOK, NEW a \in Ask, sortable(a)
  PROVE  /\ Sorts(a.place, a.sort)
         /\ \A r, s \in RowSet(a.place) :
              notAfterBy(sortedBy(a.place, a.sort), r, s) => inOrder(r, s, wanted(a))
<1>1. a.place \in {"index", "users"} /\ a.sort \in Int
  BY AskAssumption
<1>2. /\ settings.allowed \in BOOLEAN /\ settings.sort \in BOOLEAN /\ settings.progress \in BOOLEAN
  BY SettingsOK
<1>3. Sorts(a.place, a.sort)
  BY <1>1, <1>2 DEF sortable, Sorts
<1>4. ASSUME NEW by, by.field # "iAverageLeft", NEW r, NEW s, notAfterBy(by, r, s)
      PROVE  inOrder(r, s, by)
  BY <1>4 DEF notAfterBy, notAfter, inOrder, displayed
<1>5. CASE a.place = "users"
  <2> DEFINE by == IF a.sort \in DOMAIN UserSort THEN UserSort[a.sort] ELSE dsort("strCreated")
  <2>1. wanted(a) = by /\ sortedBy(a.place, a.sort) = by
    BY <1>5 DEF wanted, sortedBy
  <2>2. by \in By("users")
    BY UserSorts
  <2> HIDE DEF by
  <2>3. by.field # "iAverageLeft"
    BY <2>2 DEF By, Fields
  <2> QED
    BY <1>3, <1>4, <2>1, <2>3
<1>6. CASE a.place = "index" /\ ~ (settings.sort /\ a.sort \in 1 .. 24)
  <2>1. wanted(a) = asort("strLowerName") /\ sortedBy(a.place, a.sort) = asort("strLowerName")
    BY <1>6 DEF wanted, sortedBy
  <2>2. asort("strLowerName").field # "iAverageLeft"
    BY DEF asort
  <2> QED
    BY <1>3, <1>4, <2>1, <2>2
<1>7. CASE a.place = "index" /\ settings.sort /\ a.sort \in 1 .. 24
  <2> DEFINE by == IndexSort(a.sort)
  <2>1. by \in By("index")
    BY <1>7, IndexSorts
  <2>2. wanted(a) = by /\ settings.allowed
    BY <1>7 DEF wanted, sortable
  <2>3. sortedBy(a.place, a.sort) = IF by.field = "iAverageLeft" THEN percentSort(by) ELSE by
    BY <1>7, <2>2 DEF sortedBy
  <2> HIDE DEF by
  <2>4. CASE by.field # "iAverageLeft"
    BY <1>3, <1>4, <2>2, <2>3, <2>4
  <2>5. CASE by.field = "iAverageLeft"
    <3>1. "iAverageLeft" \notin TextField /\ "iAverageLeftPercent" \notin TextField
      BY DEF TextField
    <3>2. \A r \in RowSet(a.place) : r.iAverageLeftPercent \in Int
      BY <1>7 DEF RowSet, IndexRow
    <3>3. \A r : displayed(r, by.field) = IF settings.progress THEN 100 - r.iAverageLeftPercent
                                          ELSE r.iAverageLeftPercent
      BY <2>2, <2>5 DEF displayed
    <3>4. by.up \in BOOLEAN
      BY <2>1 DEF By
    <3>5. ASSUME NEW r \in RowSet(a.place), NEW s \in RowSet(a.place),
                 notAfterBy(sortedBy(a.place, a.sort), r, s)
          PROVE  inOrder(r, s, wanted(a))
      <4>1. PICK x, y : x = r.iAverageLeftPercent /\ y = s.iAverageLeftPercent
        OBVIOUS
      <4>2. x \in Int /\ y \in Int
        BY <3>2, <4>1
      <4>3. IF (IF settings.progress THEN ~ by.up ELSE by.up) THEN x <= y ELSE y <= x
        <5> DEFINE P == percentSort(by)
        <5>1. /\ P.field = "iAverageLeftPercent"
              /\ P.up = (IF settings.progress THEN ~ by.up ELSE by.up)
          BY DEF percentSort
        <5>2. notAfterBy(P, r, s)
          BY <2>3, <2>5, <3>5
        <5> HIDE DEF P
        <5>3. IF P.up THEN x <= y ELSE y <= x
          BY <3>1, <4>1, <5>1, <5>2 DEF notAfterBy, notAfter
        <5> QED
          BY <5>1, <5>3, Zenon
      <4>4. inOrder(r, s, by) <=>
              displayed(IF by.up THEN r ELSE s, by.field)
                <= displayed(IF by.up THEN s ELSE r, by.field)
        BY <2>5, <3>1 DEF inOrder
      <4>5. CASE by.up
        BY <2>2, <3>3, <4>1, <4>2, <4>3, <4>4, <4>5
      <4>6. CASE ~ by.up
        BY <2>2, <3>3, <4>1, <4>2, <4>3, <4>4, <4>6
      <4> QED
        BY <4>5, <4>6
    <3> QED
      BY <1>3, <3>5
  <2> QED
    BY <2>4, <2>5
<1> QED
  BY <1>1, <1>5, <1>6, <1>7

LEMMA AllSeen ==
  ASSUME NEW G, Len(G) \in Nat, NEW n \in Nat \ {0}, SeenOf(G, n),
         view.links \subseteq DOMAIN walk.seen, NEW p \in Nat, n * p < Len(G)
  PROVE  p \in DOMAIN walk.seen
<1>1. CASE n * p = view.start
  BY <1>1 DEF SeenOf
<1>2. CASE n * p # view.start
  <2>1. p <= n * p /\ n * p \in Int
    <3>1. p * 1 <= p * n
      BY TimesOrder
    <3>2. p * n = n * p /\ p * 1 = p
      OBVIOUS
    <3> QED
      BY <3>1, <3>2, TimesOrder
  <2>2. PICK x : x = n * p
    OBVIOUS
  <2>3. p \in 0 .. Len(G)
    BY <2>1, <2>2
  <2>4. p \in linksOf(G, n, view.start)
    BY <1>2, <2>3 DEF linksOf
  <2> QED
    BY <2>4 DEF SeenOf
<1> QED
  BY <1>1, <1>2

\* The pages the reader has seen, one after the other.
LEMMA ShownIs ==
  ASSUME NEW a, NEW n, Reader(a, n)
  PROVE  \E m \in Nat, e \in Seq(Seq(AnyRow)) :
           /\ shown = FlattenSeq(e) /\ Len(e) = m + 1
           /\ \A p \in DOMAIN walk.seen : p \in 0 .. m
           /\ \A p \in 0 .. m : /\ e[p + 1] = IF p \in DOMAIN walk.seen THEN walk.seen[p] ELSE <<>>
                                /\ (p + 1) - 1 = p
           /\ m = 0 \/ m \in DOMAIN walk.seen
<1> DEFINE T == DOMAIN walk.seen \cup {0}
           m == Max(T)
           e == [p \in 1 .. m + 1 |-> getItem(walk.seen, p - 1, <<>>)]
<1>1. DOMAIN walk.seen \subseteq 0 .. IntRange /\ walk.seen \in [DOMAIN walk.seen -> Seq(AnyRow)]
  BY DEF Reader
<1>2. T \in SUBSET (0 .. IntRange) /\ T # {} /\ IntRange \in Nat
  BY <1>1, IntRangeAssumption
<1>3. m \in T /\ \A k \in T : k <= m
  BY <1>2, Greatest
<1>4. shown = FlattenSeq(e)
  BY DEF shown
<1> HIDE DEF m
<1>5. m \in Nat
  BY <1>2, <1>3
<1>6. ASSUME NEW p \in 1 .. m + 1 PROVE e[p] \in Seq(AnyRow)
  <2>1. <<>> \in Seq(AnyRow)
    BY EmptySeq
  <2> QED
    BY <1>1, <2>1 DEF getItem
<1>7. e \in [1 .. m + 1 -> Seq(AnyRow)]
  BY <1>6
<1>8. e \in Seq(Seq(AnyRow)) /\ Len(e) = m + 1
  BY <1>5, <1>7
<1>9. ASSUME NEW p \in 0 .. m
      PROVE  /\ e[p + 1] = IF p \in DOMAIN walk.seen THEN walk.seen[p] ELSE <<>>
             /\ (p + 1) - 1 = p
  <2>1. p + 1 \in 1 .. m + 1 /\ (p + 1) - 1 = p
    BY <1>5
  <2>2. e[p + 1] = getItem(walk.seen, (p + 1) - 1, <<>>)
    BY <2>1
  <2> QED
    BY <2>1, <2>2 DEF getItem
<1>10. \A p \in DOMAIN walk.seen : p \in 0 .. m
  BY <1>1, <1>3, <1>5
<1>11. m = 0 \/ m \in DOMAIN walk.seen
  BY <1>3
<1> HIDE DEF e
<1> QED
  BY <1>4, <1>5, <1>8, <1>9, <1>10, <1>11

LEMMA ShownAll ==
  ASSUME NEW a, NEW n, Reader(a, n), NEW G \in Seq(AnyRow), n \in Nat, SeenOf(G, n),
         view.links \subseteq DOMAIN walk.seen
  PROVE  shown = G
<1>1. PICK m \in Nat, e \in Seq(Seq(AnyRow)) :
        /\ shown = FlattenSeq(e) /\ Len(e) = m + 1
        /\ \A p \in DOMAIN walk.seen : p \in 0 .. m
        /\ \A p \in 0 .. m : /\ e[p + 1] = IF p \in DOMAIN walk.seen THEN walk.seen[p] ELSE <<>>
                             /\ (p + 1) - 1 = p
        /\ m = 0 \/ m \in DOMAIN walk.seen
  BY ShownIs
<1>2. Len(G) \in Nat
  OBVIOUS
<1>3. \A p \in DOMAIN walk.seen : walk.seen[p] = pageOf(G, p, n)
  BY DEF SeenOf
<1>4. n = 0 => DOMAIN walk.seen = {0} /\ m = 0
  BY <1>1 DEF SeenOf
<1>5. ASSUME NEW p \in 0 .. m PROVE e[p + 1] = pageOf(G, p, n)
  <2>1. CASE p \in DOMAIN walk.seen
    BY <1>1, <1>3, <2>1
  <2>2. CASE p \notin DOMAIN walk.seen
    <3>1. n \in Nat \ {0} /\ p \in Nat
      BY <1>4, <2>2
    <3>2. ~ (n * p < Len(G))
      BY <1>2, <2>2, <3>1, AllSeen
    <3>3. PICK x : x = n * p
      OBVIOUS
    <3>4. x \in Int
      BY <3>1, <3>3, TimesOrder
    <3>5. pieceLen(n * p, n, Len(G)) = 0
      BY <1>2, <3>2, <3>3, <3>4 DEF pieceLen
    <3>6. pageOf(G, p, n) \in Seq(AnyRow) /\ Len(pageOf(G, p, n)) = 0
      BY <3>1, <3>5, PageRows DEF RowsFrom
    <3>7. pageOf(G, p, n) = <<>>
      BY <3>6, EmptySeq
    <3> QED
      BY <1>1, <2>2, <3>7
  <2> QED
    BY <2>1, <2>2
<1>6. IF n = 0 THEN m = 0 ELSE n * (m + 1) >= Len(G)
  <2>1. CASE n # 0
    <3>1. m + 1 \in Nat /\ n \in Nat \ {0} /\ m + 1 \notin DOMAIN walk.seen
      <4>1. m + 1 \notin 0 .. m
        OBVIOUS
      <4> QED
        BY <1>1, <2>1, <4>1
    <3>2. ~ (n * (m + 1) < Len(G))
      BY <1>2, <3>1, AllSeen
    <3>3. PICK x : x = n * (m + 1)
      OBVIOUS
    <3>4. x \in Int
      BY <3>1, <3>3, TimesOrder
    <3>5. x >= Len(G)
      BY <1>2, <3>2, <3>3, <3>4
    <3> QED
      BY <2>1, <3>3, <3>5
  <2> QED
    BY <1>4, <2>1
<1>7. FlattenSeq(e) = G
  <2>1. \A p \in 0 .. m : e[p + 1] = pageOf(G, p, n)
    BY <1>5
  <2>2. n \in Nat /\ m \in Nat /\ e \in Seq(Seq(AnyRow)) /\ Len(e) = m + 1
    BY <1>1
  <2> QED
    BY <1>6, <2>1, <2>2, PagesFlattened
<1> QED
  BY <1>1, <1>7

\* A reader who followed every link under a listing that nobody changed has seen each
\* entry that matches once, in the order that was asked for: for all torrents and users
\* there is memory for, page sizes, sorts, searches and page numbers.
THEOREM EveryEntryAlwaysOnce == Spec => []EveryEntryOnce
<1>1. TablesOK /\ WalkOK /\ OnceInv => EveryEntryOnce
  <2> SUFFICES ASSUME TablesOK, WalkOK, OnceInv, view # NoView, walk.changes = 0,
                      view.links \subseteq DOMAIN walk.seen
               PROVE  /\ Len(shown) = Cardinality(matching(walk.ask))
                      /\ {r.key : r \in ToSet(shown)} = matching(walk.ask)
                      /\ sortable(walk.ask) =>
                           \A i \in 2 .. Len(shown) :
                             inOrder(shown[i - 1], shown[i], wanted(walk.ask))
    BY DEF EveryEntryOnce
  <2>1. PICK a, n : Reader(a, n)
    BY DEF WalkOK
  <2>2. a \in Ask /\ walk.ask = a /\ n = perPage(a.place) /\ a.place \in {"index", "users"}
    BY <2>1, AskAssumption DEF Reader
  <2>3. PICK G : G = listing(a) /\ SeenOf(G, n)
    BY <2>2 DEF OnceInv
  <2>4. G \in Seq(AnyRow) /\ n \in Nat
    BY <2>2, <2>3, ListingFits
  <2>5. shown = G
    BY <2>1, <2>3, <2>4, ShownAll
  <2>6. /\ G \in Seq(RowSet(a.place)) /\ Len(G) = Cardinality(matching(a))
        /\ \A i \in 1 .. Len(G) : G[i].key \in matching(a)
        /\ \A k \in matching(a) : \E i \in 1 .. Len(G) : G[i].key = k
    <3>1. ListingOf(G, a)
      BY <2>2, <2>3, Listing
    <3> QED
      BY <3>1 DEF ListingOf
  <2>7. {r.key : r \in ToSet(G)} = matching(a)
    <3>1. \A r : r \in ToSet(G) <=> \E i \in 1 .. Len(G) : r = G[i]
      BY <2>4 DEF ToSet
    <3> QED
      BY <2>6, <3>1
  <2>8. ASSUME sortable(a), NEW i \in 2 .. Len(G) PROVE inOrder(G[i - 1], G[i], wanted(a))
    <3>1. i - 1 \in 1 .. Len(G) /\ i \in 1 .. Len(G) /\ i - 1 < i
      BY <2>4
    <3>2. told(a) /\ Sorts(a.place, a.sort)
      <4>1. told(a)
        BY <2>8 DEF sortable
      <4> QED
        BY <2>2, <2>8, <4>1, WantedOrder
    <3>3. notAfterBy(sortedBy(a.place, a.sort), G[i - 1], G[i])
      BY <2>2, <2>3, <3>1, <3>2, Listing
    <3>4. G[i - 1] \in RowSet(a.place) /\ G[i] \in RowSet(a.place)
      BY <2>6, <3>1, ElementOfSeq
    <3> QED
      BY <2>2, <2>8, <3>3, <3>4, WantedOrder
  <2> QED
    BY <2>2, <2>5, <2>6, <2>7, <2>8
<1>2. Init => TablesOK /\ WalkOK /\ OnceInv
  BY TablesInit, WalkInit, OnceInit
<1>3. TablesOK /\ WalkOK /\ OnceInv /\ [Next]_vars => (TablesOK /\ WalkOK /\ OnceInv)'
  BY TablesStep, WalkStep, OnceStep
<1> QED
  BY <1>1, <1>2, <1>3, PTL DEF Spec

-----------------------------------------------------------------------------
\* The order of the keys

\* What the rows of a place are sorted by, as a relation of their keys.
keyOrder(place, n) ==
  {p \in keysOf(place) \X keysOf(place) :
     precedes(place, n, rowOf(place, p[1]), rowOf(place, p[2]))}

LEMMA KeyOrder ==
  ASSUME TablesOK, NEW place \in {"index", "users"}, NEW n
  PROVE  StrictOrder(keyOrder(place, n), keysOf(place))
<1> DEFINE K == keysOf(place)
           R == keyOrder(place, n)
           by == sortedBy(place, n)
           sorted == Sorts(place, n)
           le(a, b) == notAfterBy(by, rowOf(place, a), rowOf(place, b))
           lt(a, b) == compare(a, b) < 0
<1>1. K \in SUBSET Seq(Char)
  BY KeysFinite
<1>2. \A k \in K : rowOf(place, k) \in RowSet(place) /\ rowOf(place, k).key = k
  BY RowType
<1>3. /\ \A a, b \in K : le(a, b) \/ le(b, a)
      /\ \A a, b, c \in K : le(a, b) /\ le(b, c) => le(a, c)
  <2>1. by.field \in Fields(place)
    BY SortNormal DEF By
  <2>2. PutsInOrder(by.field, RowSet(place))
    BY <2>1, FieldKinds, FieldOrder
  <2> HIDE DEF by
  <2>3. /\ \A a, b \in RowSet(place) : notAfterBy(by, a, b) \/ notAfterBy(by, b, a)
        /\ \A a, b, c \in RowSet(place) : notAfterBy(by, a, b) /\ notAfterBy(by, b, c)
                                            => notAfterBy(by, a, c)
    BY <2>2 DEF PutsInOrder, notAfterBy
  <2> QED
    BY <1>2, <2>3
<1>4. /\ \A a \in K : ~ lt(a, a)
      /\ \A a, b \in K : a # b => lt(a, b) \/ lt(b, a)
      /\ \A a, b, c \in K : lt(a, b) /\ lt(b, c) => lt(a, c)
  <2>1. PICK T : T = {p \in K \X K : compare(p[1], p[2]) < 0}
    OBVIOUS
  <2>2. StrictOrder(T, K)
    BY <1>1, <2>1, TextsOrdered
  <2>3. \A a, b \in K : <<a, b>> \in T <=> lt(a, b)
    BY <2>1
  <2> QED
    BY <2>2, <2>3 DEF StrictOrder
<1>5. \A a, b \in K : <<a, b>> \in R <=> IF sorted /\ ~ (le(a, b) /\ le(b, a)) THEN le(a, b)
                                       ELSE lt(a, b)
  <2>1. ASSUME NEW a \in K, NEW b \in K
        PROVE  <<a, b>> \in R <=> precedes(place, n, rowOf(place, a), rowOf(place, b))
    BY DEF keyOrder
  <2> HIDE DEF R
  <2> QED
    BY <1>2, <2>1 DEF precedes
<1> HIDE DEF K, R, by, sorted, le, lt
<1>6. \A a \in K : <<a, a>> \notin R
  BY <1>4, <1>5
<1>7. \A a, b \in K : a # b => <<a, b>> \in R \/ <<b, a>> \in R
  BY <1>3, <1>4, <1>5
<1>8. \A a, b, c \in K : <<a, b>> \in R /\ <<b, c>> \in R => <<a, c>> \in R
  BY <1>3, <1>4, <1>5
<1> QED
  BY <1>6, <1>7, <1>8 DEF StrictOrder, K, R

\* The place of a key in a listing of rows that are told apart.
LEMMA PlaceIsRank ==
  ASSUME TablesOK, NEW a \in Ask, told(a), NEW G, G = listing(a)
  PROVE  \A i \in 1 .. Len(G) : rank(keyOrder(a.place, a.sort), matching(a), G[i].key) = i - 1
<1> DEFINE R == keyOrder(a.place, a.sort)
           A == matching(a)
<1>1. a.place \in {"index", "users"}
  BY AskAssumption
<1>2. /\ Len(G) \in Nat
      /\ \A i \in 1 .. Len(G) : /\ G[i].key \in A /\ G[i].key \in keysOf(a.place)
                                /\ G[i] = rowOf(a.place, G[i].key)
      /\ \A i, j \in 1 .. Len(G) : G[i].key = G[j].key => i = j
      /\ \A k \in A : \E i \in 1 .. Len(G) : G[i].key = k
  <2>1. ListingOf(G, a)
    BY <1>1, Listing
  <2> QED
    BY <2>1 DEF ListingOf
<1>3. InListingOrder(G, a.place, a.sort)
  BY <1>1, Listing
<1>4. ASSUME NEW i \in 1 .. Len(G), NEW j \in 1 .. Len(G), i < j PROVE <<G[i].key, G[j].key>> \in R
  <2>1. precedes(a.place, a.sort, G[i], G[j])
    BY <1>3, <1>4 DEF InListingOrder
  <2>2. precedes(a.place, a.sort, rowOf(a.place, G[i].key), rowOf(a.place, G[j].key))
    BY <1>2, <2>1
  <2>3. G[i].key \in keysOf(a.place) /\ G[j].key \in keysOf(a.place)
    BY <1>2
  <2> QED
    BY <2>2, <2>3 DEF keyOrder
<1>5. StrictOrder(R, A)
  <2>1. A \in SUBSET keysOf(a.place)
    BY MatchingKeys
  <2>2. StrictOrder(R, keysOf(a.place))
    BY <1>1, KeyOrder
  <2> QED
    BY <2>1, <2>2, SmallerOrder
<1> HIDE DEF R, A
<1>6. ASSUME NEW i \in 1 .. Len(G) PROVE rank(R, A, G[i].key) = i - 1
  <2> DEFINE B == predecessors(R, A, G[i].key)
             f == [j \in 1 .. i - 1 |-> G[j].key]
  <2>1. \A j \in 1 .. i - 1 : j \in 1 .. Len(G) /\ j < i
    BY <1>2
  <2>2. \A j \in 1 .. i - 1 : G[j].key \in B
    BY <1>2, <1>4, <2>1 DEF predecessors
  <2>3. ASSUME NEW k \in B PROVE \E j \in 1 .. i - 1 : G[j].key = k
    <3>1. k \in A /\ <<k, G[i].key>> \in R
      BY DEF predecessors
    <3>2. PICK j \in 1 .. Len(G) : G[j].key = k
      BY <1>2, <3>1
    <3>3. ~ (i < j)
      <4>1. CASE i < j
        <5>1. <<G[i].key, k>> \in R /\ G[i].key \in A
          BY <1>2, <1>4, <3>2, <4>1
        <5>2. <<k, k>> \in R
          BY <1>5, <3>1, <5>1 DEF StrictOrder
        <5> QED
          BY <1>5, <3>1, <5>2 DEF StrictOrder
      <4> QED
        BY <4>1
    <3>4. j # i
      BY <1>2, <1>5, <3>1, <3>2 DEF StrictOrder
    <3>5. j \in 1 .. i - 1
      BY <3>3, <3>4
    <3> QED
      BY <3>2, <3>5
  <2> HIDE DEF B
  <2>4. f \in Bijection(1 .. i - 1, B)
    <3>1. f \in [1 .. i - 1 -> B]
      BY <2>2
    <3>2. \A x, y \in 1 .. i - 1 : f[x] = f[y] => x = y
      BY <1>2, <2>1
    <3>3. \A k \in B : \E j \in 1 .. i - 1 : f[j] = k
      BY <2>3
    <3> HIDE DEF f
    <3> QED
      BY <3>1, <3>2, <3>3 DEF Bijection, Injection, IsInjective, Surjection
  <2>5. ExistsBijection(1 .. i - 1, B)
    BY <2>4 DEF ExistsBijection
  <2>6. i - 1 \in Nat
    BY <1>2
  <2>7. Cardinality(B) = i - 1
    BY <2>5, <2>6, FS_CountingElements
  <2> QED
    BY <2>7 DEF rank, B
<1> QED
  BY <1>6 DEF R, A

-----------------------------------------------------------------------------
\* What one change alters

\* Of the rows of a place the one with key h alone is another, or is there no more, or
\* was not there before.
AltersOne(place, h) ==
  /\ keysOf(place)' \ {h} = keysOf(place) \ {h}
  /\ \A k \in keysOf(place) \ {h} : rowOf(place, k)' = rowOf(place, k)

LEMMA ChangeAlters ==
  ASSUME Change, NEW place \in {"index", "users"}
  PROVE  \E h : AltersOne(place, h)
<1>1. settings' = settings
  BY ChangeDoes
<1>2. ASSUME NEW h, m_pUsers' = m_pUsers, m_pDFile' \ {h} = m_pDFile \ {h},
             \A k : k # h => indexRow(k)' = indexRow(k)
      PROVE  AltersOne(place, h)
  <2>1. CASE place = "index"
    BY <1>2, <2>1 DEF AltersOne, keysOf, rowOf
  <2>2. CASE place = "users"
    BY <1>2, <2>2 DEF AltersOne, keysOf, rowOf, userRow
  <2> QED
    BY <2>1, <2>2
<1>3. ASSUME NEW k,
             getItem(m_pAllowed, k, NoTorrent)' = getItem(m_pAllowed, k, NoTorrent),
             getItem(m_pTags, k, NoTags)' = getItem(m_pTags, k, NoTags),
             getItem(m_pFastCache, k, NoNumbers)' = getItem(m_pFastCache, k, NoNumbers)
      PROVE  indexRow(k)' = indexRow(k)
  BY <1>1, <1>3 DEF indexRow
<1>4. ASSUME NEW h, DeleteTorrent(h) PROVE AltersOne(place, h)
  <2>1. /\ m_pDFile' = m_pDFile \ {h} /\ m_pAllowed' = delItem(m_pAllowed, h)
        /\ m_pTags' = IF settings.allowed THEN delItem(m_pTags, h) ELSE m_pTags
        /\ m_pFastCache' = m_pFastCache /\ m_pUsers' = m_pUsers
    BY <1>4 DEF DeleteTorrent
  <2>2. ASSUME NEW k, k # h PROVE indexRow(k)' = indexRow(k)
    <3>1. getItem(m_pAllowed', k, NoTorrent) = getItem(m_pAllowed, k, NoTorrent)
      BY <2>1, <2>2, OtherItems
    <3>2. getItem(m_pTags', k, NoTags) = getItem(m_pTags, k, NoTags)
      BY <2>1, <2>2, OtherItems
    <3> QED
      BY <1>3, <2>1, <3>1, <3>2
  <2> QED
    BY <1>2, <2>1, <2>2
<1>5. ASSUME NEW h, AddTorrent(h) PROVE AltersOne(place, h)
  <2>1. /\ m_pDFile' = m_pDFile \cup {h}
        /\ m_pAllowed' = IF settings.allowed THEN setItem(m_pAllowed, h, Torrent[h].allowed)
                         ELSE m_pAllowed
        /\ m_pTags' = IF settings.allowed THEN setItem(m_pTags, h, Torrent[h].tags) ELSE m_pTags
        /\ m_pFastCache' = m_pFastCache /\ m_pUsers' = m_pUsers
    BY <1>5 DEF AddTorrent
  <2>2. ASSUME NEW k, k # h PROVE indexRow(k)' = indexRow(k)
    <3>1. getItem(m_pAllowed', k, NoTorrent) = getItem(m_pAllowed, k, NoTorrent)
      BY <2>1, <2>2, OtherItems
    <3>2. getItem(m_pTags', k, NoTags) = getItem(m_pTags, k, NoTags)
      BY <2>1, <2>2, OtherItems
    <3> QED
      BY <1>3, <2>1, <3>1, <3>2
  <2> QED
    BY <1>2, <2>1, <2>2
<1>6. ASSUME NEW h, Refresh(h) PROVE AltersOne(place, h)
  <2>1. /\ \E v : m_pFastCache' = setItem(m_pFastCache, h, v)
        /\ UNCHANGED <<m_pDFile, m_pAllowed, m_pTags, m_pUsers>>
    BY <1>6 DEF Refresh
  <2>2. ASSUME NEW k, k # h PROVE indexRow(k)' = indexRow(k)
    <3>1. getItem(m_pFastCache', k, NoNumbers) = getItem(m_pFastCache, k, NoNumbers)
      BY <2>1, <2>2, OtherItems
    <3> QED
      BY <1>3, <2>1, <3>1
  <2> QED
    BY <1>2, <2>1, <2>2
<1>7. ASSUME NEW h, Rename(h) PROVE AltersOne(place, h)
  <2>1. /\ \E v : m_pTags' = setItem(m_pTags, h, v)
        /\ UNCHANGED <<m_pDFile, m_pAllowed, m_pFastCache, m_pUsers>>
    BY <1>7 DEF Rename
  <2>2. ASSUME NEW k, k # h PROVE indexRow(k)' = indexRow(k)
    <3>1. getItem(m_pTags', k, NoTags) = getItem(m_pTags, k, NoTags)
      BY <2>1, <2>2, OtherItems
    <3> QED
      BY <1>3, <2>1, <3>1
  <2> QED
    BY <1>2, <2>1, <2>2
<1>8. ASSUME NEW h, UNCHANGED <<m_pDFile, m_pAllowed, m_pTags, m_pFastCache>>,
             DOMAIN m_pUsers' \ {h} = DOMAIN m_pUsers \ {h},
             \A k \in DOMAIN m_pUsers \ {h} : m_pUsers'[k] = m_pUsers[k]
      PROVE  AltersOne(place, h)
  <2>1. \A k : indexRow(k)' = indexRow(k)
    BY <1>3, <1>8
  <2>2. CASE place = "index"
    BY <1>8, <2>1, <2>2 DEF AltersOne, keysOf, rowOf
  <2>3. CASE place = "users"
    <3>1. \A k \in DOMAIN m_pUsers \ {h} : userRow(k)' = userRow(k)
      BY <1>8 DEF userRow
    <3> QED
      BY <1>8, <2>3, <3>1 DEF AltersOne, keysOf, rowOf
  <2> QED
    BY <2>2, <2>3
<1>9. ASSUME NEW h, DeleteUser(h) PROVE AltersOne(place, h)
  <2>1. /\ m_pUsers' = delItem(m_pUsers, h)
        /\ UNCHANGED <<m_pDFile, m_pAllowed, m_pTags, m_pFastCache>>
    BY <1>9 DEF DeleteUser
  <2>2. /\ DOMAIN m_pUsers' \ {h} = DOMAIN m_pUsers \ {h}
        /\ \A k \in DOMAIN m_pUsers \ {h} : m_pUsers'[k] = m_pUsers[k]
    BY <2>1 DEF delItem
  <2> QED
    BY <1>8, <2>1, <2>2
<1>10. ASSUME NEW h, AddUser(h) PROVE AltersOne(place, h)
  <2>1. /\ m_pUsers' = setItem(m_pUsers, h, User[h])
        /\ UNCHANGED <<m_pDFile, m_pAllowed, m_pTags, m_pFastCache>>
    BY <1>10 DEF AddUser
  <2>2. /\ DOMAIN m_pUsers' \ {h} = DOMAIN m_pUsers \ {h}
        /\ \A k \in DOMAIN m_pUsers \ {h} : m_pUsers'[k] = m_pUsers[k]
    BY <2>1 DEF setItem
  <2> QED
    BY <1>8, <2>1, <2>2
<1> QED
  BY <1>4, <1>5, <1>6, <1>7, <1>9, <1>10 DEF Change

\* What holds of the keys whatever the tables hold.
KeysInListings ==
  \A a \in Ask :
    /\ StrictOrder(keyOrder(a.place, a.sort), matching(a)) /\ IsFiniteSet(matching(a))
    /\ \A k : k \in matching(a) <=> k \in keysOf(a.place) /\ matches(rowOf(a.place, k), a)
    /\ \A k \in matching(a) : k \in keysOf(a.place)
    /\ \A x, y \in keysOf(a.place) :
         <<x, y>> \in keyOrder(a.place, a.sort) <=>
           precedes(a.place, a.sort, rowOf(a.place, x), rowOf(a.place, y))

LEMMA KeysListed == TablesOK => KeysInListings
<1> SUFFICES ASSUME TablesOK, NEW a \in Ask
             PROVE
               /\ StrictOrder(keyOrder(a.place, a.sort), matching(a)) /\ IsFiniteSet(matching(a))
               /\ \A k : k \in matching(a)
                         <=> k \in keysOf(a.place) /\ matches(rowOf(a.place, k), a)
               /\ \A k \in matching(a) : k \in keysOf(a.place)
               /\ \A x, y \in keysOf(a.place) :
                    <<x, y>> \in keyOrder(a.place, a.sort) <=>
                      precedes(a.place, a.sort, rowOf(a.place, x), rowOf(a.place, y))
  BY DEF KeysInListings
<1>1. a.place \in {"index", "users"}
  BY AskAssumption
<1>2. matching(a) = {k \in keysOf(a.place) : matches(rowOf(a.place, k), a)}
  BY MatchingKeys
<1>3. StrictOrder(keyOrder(a.place, a.sort), keysOf(a.place))
  BY <1>1, KeyOrder
<1>4. StrictOrder(keyOrder(a.place, a.sort), matching(a))
  BY <1>2, <1>3, SmallerOrder
<1>5. IsFiniteSet(matching(a))
  BY ListingFits
<1> QED
  BY <1>2, <1>4, <1>5 DEF keyOrder

LEMMA KeysListedNext == TablesOK' => KeysInListings'
BY KeysListed, PTL

\* A change puts one key elsewhere in each listing, or puts it in, or takes it away.
LEMMA ChangeMoves ==
  ASSUME TablesOK, TablesOK', Change, NEW a \in Ask
  PROVE  \E h : SameBut(h, keyOrder(a.place, a.sort), matching(a),
                        keyOrder(a.place, a.sort)', matching(a)')
<1>1. a.place \in {"index", "users"}
  BY AskAssumption
<1>2. PICK h : AltersOne(a.place, h)
  BY <1>1, ChangeAlters
<1>3. settings' = settings
  BY ChangeDoes
<1>4. KeysInListings /\ KeysInListings'
  BY KeysListed, KeysListedNext
<1>5. /\ \A k : k \in matching(a) <=> k \in keysOf(a.place) /\ matches(rowOf(a.place, k), a)
      /\ \A x, y \in keysOf(a.place) :
           <<x, y>> \in keyOrder(a.place, a.sort) <=>
             precedes(a.place, a.sort, rowOf(a.place, x), rowOf(a.place, y))
  BY <1>4 DEF KeysInListings
<1>6. /\ \A k : k \in matching(a)' <=> k \in keysOf(a.place)' /\ matches(rowOf(a.place, k)', a)
      /\ \A x, y \in keysOf(a.place)' :
           <<x, y>> \in keyOrder(a.place, a.sort)' <=>
             precedes(a.place, a.sort, rowOf(a.place, x), rowOf(a.place, y))'
  BY <1>4 DEF KeysInListings
<1>7. /\ keysOf(a.place)' \ {h} = keysOf(a.place) \ {h}
      /\ \A k \in keysOf(a.place) \ {h} : rowOf(a.place, k)' = rowOf(a.place, k)
  BY <1>2 DEF AltersOne
<1>8. matching(a) \ {h} = matching(a)' \ {h}
  BY <1>5, <1>6, <1>7
<1>9. ASSUME NEW x \in matching(a) \ {h}, NEW y \in matching(a) \ {h}
      PROVE  <<x, y>> \in keyOrder(a.place, a.sort) <=> <<x, y>> \in keyOrder(a.place, a.sort)'
  <2>1. /\ x \in keysOf(a.place) \ {h} /\ y \in keysOf(a.place) \ {h}
        /\ x \in keysOf(a.place)' /\ y \in keysOf(a.place)'
    BY <1>5, <1>7
  <2>2. /\ Sorts(a.place, a.sort)' <=> Sorts(a.place, a.sort)
        /\ sortedBy(a.place, a.sort)' = sortedBy(a.place, a.sort)
    BY <1>3 DEF Sorts, sortedBy, canSort, percentSort
  <2>3. rowOf(a.place, x)' = rowOf(a.place, x) /\ rowOf(a.place, y)' = rowOf(a.place, y)
    BY <1>7, <2>1
  <2>4. precedes(a.place, a.sort, rowOf(a.place, x), rowOf(a.place, y))'
          <=> precedes(a.place, a.sort, rowOf(a.place, x), rowOf(a.place, y))
    BY <2>2, <2>3 DEF precedes
  <2> QED
    BY <1>5, <1>6, <2>1, <2>4
<1>10. SameBut(h, keyOrder(a.place, a.sort), matching(a),
               keyOrder(a.place, a.sort)', matching(a)')
  BY <1>8, <1>9 DEF SameBut
<1> QED
  BY <1>10

-----------------------------------------------------------------------------
\* What a reader misses

\* Entries that were there at every request and on no page the reader has seen.
unread ==
  {k \in walk.stayed :
     \A p \in DOMAIN walk.seen : \A i \in 1 .. Len(walk.seen[p]) : walk.seen[p][i].key # k}

\* Of the entries before the end of the page no more were missed than changes were made;
\* of all entries, when the page is the last.
Missed(n, A, R) ==
  /\ n # 0 =>
       /\ view.ask.page \in Nat /\ DOMAIN walk.seen \subseteq 0 .. view.ask.page
       /\ Cardinality(unread \cap top(R, A, n * (view.ask.page + 1))) <= walk.changes
  /\ (\A p \in view.links : p < view.ask.page) => Cardinality(unread) <= walk.changes

MissInv ==
  view # NoView /\ walk.forward =>
    \E a \in Ask : \E n, A, R :
      /\ walk.ask = a /\ n = perPage(a.place) /\ A = matching(a) /\ R = keyOrder(a.place, a.sort)
      /\ Missed(n, A, R)

\* While the tables are as they were so is every order.
LEMMA OrderKept ==
  ASSUME UnchangedTables, NEW a
  PROVE  keyOrder(a.place, a.sort)' = keyOrder(a.place, a.sort)
<1>1. UNCHANGED <<settings, m_pDFile, m_pAllowed, m_pTags, m_pFastCache, m_pUsers>>
  BY DEF UnchangedTables
<1>2. \A k : indexRow(k)' = indexRow(k) /\ userRow(k)' = userRow(k)
  BY <1>1 DEF indexRow, userRow
<1>3. \A k : rowOf(a.place, k)' = rowOf(a.place, k)
  BY <1>2 DEF rowOf
<1>4. keysOf(a.place)' = keysOf(a.place)
  BY <1>1 DEF keysOf
<1>5. /\ Sorts(a.place, a.sort)' <=> Sorts(a.place, a.sort)
      /\ sortedBy(a.place, a.sort)' = sortedBy(a.place, a.sort)
  BY <1>1 DEF Sorts, sortedBy, canSort, percentSort
<1>6. ASSUME NEW x, NEW y
      PROVE  precedes(a.place, a.sort, rowOf(a.place, x), rowOf(a.place, y))'
               <=> precedes(a.place, a.sort, rowOf(a.place, x), rowOf(a.place, y))
  BY <1>3, <1>5 DEF precedes
<1> QED
  BY <1>4, <1>6 DEF keyOrder

\* Page p has the entries with the places it is for.
HasPlaces(G, n, p, R, A) ==
  \A k \in A :
    (IF n = 0 THEN p = 0 ELSE rank(R, A, k) < n * (p + 1) /\ ~ (rank(R, A, k) < n * p)) =>
      \E i \in 1 .. Len(pageOf(G, p, n)) : pageOf(G, p, n)[i].key = k

LEMMA OnPage ==
  ASSUME TablesOK, NEW a \in Ask, told(a), NEW G, G = listing(a), NEW n \in Nat, NEW p \in Nat,
         NEW A, A = matching(a), NEW R, R = keyOrder(a.place, a.sort)
  PROVE  HasPlaces(G, n, p, R, A)
<1> SUFFICES ASSUME NEW k \in A,
                    IF n = 0 THEN p = 0
                    ELSE rank(R, A, k) < n * (p + 1) /\ ~ (rank(R, A, k) < n * p)
             PROVE  \E i \in 1 .. Len(pageOf(G, p, n)) : pageOf(G, p, n)[i].key = k
  BY DEF HasPlaces
<1>1. G \in Seq(AnyRow) /\ Len(G) \in Nat
  BY ListingFits
<1>2. \A x \in A : \E j \in 1 .. Len(G) : G[j].key = x
  <2>1. a.place \in {"index", "users"}
    BY AskAssumption
  <2>2. ListingOf(G, a)
    BY <2>1, Listing
  <2> QED
    BY <2>2 DEF ListingOf
<1>3. PICK j \in 1 .. Len(G) : G[j].key = k
  BY <1>2
<1>4. rank(R, A, k) = j - 1
  <2>1. \A i \in 1 .. Len(G) : rank(R, A, G[i].key) = i - 1
    BY PlaceIsRank
  <2> QED
    BY <1>3, <2>1
<1>5. PICK s : s = n * p
  OBVIOUS
<1>6. s \in Nat /\ s < j /\ (n # 0 => j <= s + n) /\ (n = 0 => s = 0)
  <2>1. s \in Int /\ n * (p + 1) = s + n
    <3>1. n * p \in Int /\ n * (p + 1) = n * p + n
      BY TimesOrder, Distributes
    <3> QED
      BY <1>5, <3>1
  <2>2. \A x, y \in Nat : x * y \in Nat
    OBVIOUS
  <2>3. s \in Nat
    BY <1>5, <2>2
  <2>4. CASE n = 0
    BY <1>5, <2>4
  <2>5. CASE n # 0
    BY <1>3, <1>4, <1>5, <2>1, <2>3, <2>5
  <2> QED
    BY <2>4, <2>5
<1>7. j - s \in 1 .. pieceLen(s, n, Len(G)) /\ s + (j - s) = j
  BY <1>1, <1>6 DEF pieceLen
<1>8. /\ Len(pageOf(G, p, n)) = pieceLen(s, n, Len(G))
      /\ \A i \in 1 .. pieceLen(s, n, Len(G)) : pageOf(G, p, n)[i] = G[s + i]
  <2>1. RowsFrom(pageOf(G, p, n), n * p, pieceLen(n * p, n, Len(G)), G)
    BY <1>1, PageRows
  <2> QED
    BY <1>5, <2>1 DEF RowsFrom
<1> QED
  BY <1>3, <1>7, <1>8

\* Behind a last page there is nothing.
LEMMA LastPage ==
  ASSUME TablesOK, NEW a \in Ask, NEW G, G = listing(a), NEW n \in Nat \ {0}, NEW p \in Nat,
         \A q \in linksOf(G, n, n * p) : q < p,
         NEW A, A = matching(a), NEW R, R = keyOrder(a.place, a.sort)
  PROVE  top(R, A, n * (p + 1)) = A
<1>1. Len(G) \in Nat /\ IsFiniteSet(A)
  BY ListingFits
<1>2. PICK x : x = n * (p + 1)
  OBVIOUS
<1>3. x \in Int /\ n * p \in Int /\ x = n * p + n
  <2>1. n * (p + 1) = n * p + n
    BY Distributes
  <2>2. n * p \in Int
    BY TimesOrder
  <2> QED
    BY <1>2, <2>1, <2>2
<1>4. p + 1 <= x
  <2>1. (p + 1) * 1 <= (p + 1) * n
    BY TimesOrder
  <2>2. (p + 1) * n = n * (p + 1) /\ (p + 1) * 1 = p + 1
    OBVIOUS
  <2> QED
    BY <1>2, <2>1, <2>2
<1>5. ~ (x < Len(G))
  <2>1. ASSUME x < Len(G) PROVE FALSE
    <3>1. p + 1 \in 0 .. Len(G)
      BY <1>1, <1>3, <1>4, <2>1
    <3>2. n * (p + 1) < Len(G) /\ n * (p + 1) # n * p
      <4>1. PICK y : y = n * p
        OBVIOUS
      <4> QED
        BY <1>2, <1>3, <2>1, <4>1
    <3>3. p + 1 \in linksOf(G, n, n * p)
      BY <3>1, <3>2 DEF linksOf
    <3> QED
      BY <3>3
  <2> QED
    BY <2>1
<1>6. Len(G) = Cardinality(A)
  <2>1. a.place \in {"index", "users"}
    BY AskAssumption
  <2> QED
    BY <2>1, Listing DEF ListingOf
<1>7. \A k \in A : rank(R, A, k) \in 0 .. Cardinality(A) - 1
  <2>1. StrictOrder(R, A)
    BY KeysListed DEF KeysInListings
  <2>2. RankedBy(R, A)
    BY <1>1, <2>1, Ranked
  <2> QED
    BY <2>2 DEF RankedBy
<1>8. \A k \in A : rank(R, A, k) < x
  BY <1>1, <1>3, <1>5, <1>6, <1>7
<1> QED
  BY <1>2, <1>8 DEF top

LEMMA MissInit == Init => MissInv
BY DEF Init, MissInv

LEMMA OpenMisses ==
  ASSUME TablesOK, NEW a \in Ask, Open(a)
  PROVE  MissInv'
<1>1. PICK G, n, A, R : /\ G = listing(a) /\ n = perPage(a.place) /\ A = matching(a)
                        /\ R = keyOrder(a.place, a.sort)
  OBVIOUS
<1>2. Opened(a, G, n)
  BY <1>1, OpenDoes
<1>3. UnchangedTables
  BY DEF Open, tables, UnchangedTables
<1>4. matching(a)' = A /\ keyOrder(a.place, a.sort)' = R /\ perPage(a.place)' = n
  BY <1>1, <1>3, ListingKept, OrderKept
<1>5. n \in Nat /\ IsFiniteSet(A)
  BY <1>1, ListingFits
<1>6. walk' = [ask |-> a, seen |-> walk'.seen,
               forward |-> told(a) /\ (n = 0 \/ a.page = 0),
               stayed |-> matching(a), changes |-> 0]
  BY <1>2 DEF Opened
<1>7. walk'.ask = a /\ walk'.stayed = A /\ walk'.changes = 0
  BY <1>1, <1>6
<1>8. ASSUME walk'.forward PROVE Missed(n, A, R)'
  <2>1. told(a) /\ (n = 0 \/ a.page = 0)
    <3>1. PICK f : f = (told(a) /\ (n = 0 \/ a.page = 0))
      OBVIOUS
    <3>2. PICK s : s = walk'.seen
      OBVIOUS
    <3>3. walk' = [ask |-> a, seen |-> s, forward |-> f, stayed |-> matching(a), changes |-> 0]
      BY <1>6, <3>1, <3>2, Zenon
    <3>4. walk'.forward = f
      BY <3>3
    <3> QED
      BY <1>8, <3>1, <3>4
  <2>2. view'.ask = a /\ view'.links = linksOf(G, n, view'.start) /\ (a.page = 0 => view'.start = 0)
    BY <1>2 DEF Opened
  <2>3. n * 0 = 0
    BY <1>5
  <2>4. walk'.seen = setItem(EmptyDicti, 0, pageOf(G, 0, n))
    <3>1. ASSUME walk'.seen = EmptyDicti, n # 0, \A p \in Nat : n * p # view'.start PROVE FALSE
      <4>1. 0 \in Nat
        OBVIOUS
      <4>2. view'.start = 0
        BY <2>1, <2>2, <3>1
      <4> QED
        BY <2>3, <3>1, <4>1, <4>2
    <3>2. ASSUME NEW q \in 0 .. IntRange, n * q = view'.start, n = 0 => q = 0,
                 walk'.seen = setItem(EmptyDicti, q, pageOf(G, q, n))
          PROVE  q = 0
      <4>1. CASE n # 0
        <5>1. n \in Nat \ {0} /\ q \in Nat /\ n * q = n * 0
          BY <1>5, <2>1, <2>2, <2>3, <3>2, <4>1
        <5> QED
          BY <5>1, SameTimes
      <4> QED
        BY <3>2, <4>1
    <3> QED
      BY <1>2, <3>1, <3>2 DEF Opened
  <2>5. DOMAIN walk'.seen = {0} /\ walk'.seen[0] = pageOf(G, 0, n)
    BY <2>4 DEF setItem, EmptyDicti
  <2>6. \A k \in A :
          (IF n = 0 THEN 0 = 0 ELSE rank(R, A, k) < n * (0 + 1) /\ ~ (rank(R, A, k) < n * 0)) =>
             \E i \in 1 .. Len(pageOf(G, 0, n)) : pageOf(G, 0, n)[i].key = k
    <3>1. HasPlaces(G, n, 0, R, A)
      BY <1>1, <1>5, <2>1, OnPage
    <3> QED
      BY <3>1 DEF HasPlaces
  <2>7. unread' \subseteq A
    BY <1>7 DEF unread
  <2>8. ASSUME NEW k \in unread'
        PROVE  ~ \E i \in 1 .. Len(pageOf(G, 0, n)) : pageOf(G, 0, n)[i].key = k
    BY <2>5 DEF unread
  <2>9. CASE n = 0
    <3>1. unread' = {}
      BY <2>6, <2>7, <2>8, <2>9
    <3>2. Cardinality(unread') = 0
      BY <3>1, FS_EmptySet
    <3> QED
      BY <1>7, <2>9, <3>2 DEF Missed
  <2>10. CASE n # 0
    <3>1. a.page = 0 /\ view'.start = 0
      BY <2>1, <2>2, <2>10
    <3>2. \A k \in A : rank(R, A, k) \in Nat
      <4>1. StrictOrder(R, A)
        BY <1>1, KeysListed DEF KeysInListings
      <4>2. RankedBy(R, A)
        BY <1>5, <4>1, Ranked
      <4> QED
        BY <4>2 DEF RankedBy
    <3>3. unread' \cap top(R, A, n * (0 + 1)) = {}
      <4>1. ASSUME NEW k \in unread', k \in A, rank(R, A, k) < n * (0 + 1) PROVE FALSE
        <5>1. ~ (rank(R, A, k) < n * 0)
          BY <2>3, <3>2, <4>1
        <5> QED
          BY <2>6, <2>8, <2>10, <4>1, <5>1
      <4> QED
        BY <4>1 DEF top
    <3>4. Cardinality(unread' \cap top(R, A, n * (0 + 1))) = 0
      BY <3>3, FS_EmptySet
    <3>5. (\A p \in view'.links : p < 0) => Cardinality(unread') = 0
      <4>1. ASSUME \A p \in view'.links : p < 0 PROVE Cardinality(unread') = 0
        <5>1. \A q \in linksOf(G, n, n * 0) : q < 0
          BY <2>2, <2>3, <3>1, <4>1
        <5>2. 0 \in Nat /\ n \in Nat \ {0}
          BY <1>5, <2>10
        <5>3. top(R, A, n * (0 + 1)) = A
          BY <1>1, <5>1, <5>2, LastPage
        <5>4. unread' = {}
          BY <2>7, <3>3, <5>3
        <5> QED
          BY <5>4, FS_EmptySet
      <4> QED
        BY <4>1
    <3>6. view'.ask.page = 0 /\ DOMAIN walk'.seen \subseteq 0 .. 0 /\ walk'.changes = 0
      BY <1>7, <2>2, <2>5, <3>1
    <3> QED
      BY <3>4, <3>5, <3>6 DEF Missed
  <2> QED
    BY <2>9, <2>10
<1> QED
  BY <1>4, <1>7, <1>8 DEF MissInv

LEMMA FollowMisses ==
  ASSUME TablesOK, WalkOK, MissInv, NEW p, Follow(p)
  PROVE  MissInv'
<1>0. view # NoView /\ UnchangedTables
  BY DEF Follow, tables, UnchangedTables
<1>1. PICK a, n : Reader(a, n)
  BY <1>0 DEF WalkOK
<1>2. a \in Ask /\ walk.ask = a /\ n = perPage(a.place)
  BY <1>1 DEF Reader
<1>3. PICK G, A, R : G = listing(a) /\ A = matching(a) /\ R = keyOrder(a.place, a.sort)
  OBVIOUS
<1>4. Followed(p, a, G, n)
  BY <1>1, <1>3, FollowDoes
<1>5. matching(a)' = A /\ keyOrder(a.place, a.sort)' = R /\ perPage(a.place)' = n
  BY <1>0, <1>2, <1>3, ListingKept, OrderKept
<1>6. n \in Nat \ {0} /\ p \in Nat /\ IsFiniteSet(A)
  <2>1. p \in view.links
    BY <1>4 DEF Followed
  <2>2. p \in 0 .. IntRange /\ n # 0
    BY <1>1, <2>1 DEF Reader
  <2>3. n \in Nat /\ IsFiniteSet(A)
    BY <1>2, <1>3, ListingFits
  <2> QED
    BY <2>2, <2>3
<1>7. /\ walk' = [ask |-> a, seen |-> setItem(walk.seen, p, pageOf(G, p, n)),
                  forward |-> walk.forward /\ told(a) /\ p = view.ask.page + 1,
                  stayed |-> walk.stayed \cap matching(a), changes |-> walk.changes]
      /\ view'.ask = [place |-> a.place, page |-> p, sort |-> a.sort, search |-> a.search,
                      filter |-> a.filter]
      /\ view'.links = linksOf(G, n, n * p)
  BY <1>4 DEF Followed
<1>8. /\ walk'.ask = a /\ walk'.seen = setItem(walk.seen, p, pageOf(G, p, n))
      /\ walk'.stayed = walk.stayed \cap A /\ walk'.changes = walk.changes /\ view'.ask.page = p
  BY <1>3, <1>7
<1>9. ASSUME walk'.forward PROVE Missed(n, A, R)'
  <2>1. walk.forward /\ told(a) /\ p = view.ask.page + 1
    <3>1. PICK f : f = (walk.forward /\ told(a) /\ p = view.ask.page + 1)
      OBVIOUS
    <3>2. walk' = [ask |-> a, seen |-> setItem(walk.seen, p, pageOf(G, p, n)), forward |-> f,
                   stayed |-> walk.stayed \cap matching(a), changes |-> walk.changes]
      BY <1>7, <3>1, Zenon
    <3>3. walk'.forward = f
      BY <3>2
    <3> QED
      BY <1>9, <3>1, <3>3
  <2>2. Missed(n, A, R)
    BY <1>0, <1>2, <1>3, <2>1 DEF MissInv
  <2>3. /\ view.ask.page \in Nat /\ DOMAIN walk.seen \subseteq 0 .. view.ask.page
        /\ Cardinality(unread \cap top(R, A, n * (view.ask.page + 1))) <= walk.changes
    BY <1>6, <2>2 DEF Missed
  <2>4. DOMAIN walk.seen \subseteq 0 .. p - 1 /\ p \notin DOMAIN walk.seen
        /\ Cardinality(unread \cap top(R, A, n * p)) <= walk.changes
    BY <2>1, <2>3
  <2>5. DOMAIN walk'.seen = DOMAIN walk.seen \cup {p} /\ walk'.seen[p] = pageOf(G, p, n)
        /\ \A q \in DOMAIN walk.seen : walk'.seen[q] = walk.seen[q]
    BY <1>8, <2>4 DEF setItem
  <2>6. unread' \subseteq unread /\ unread' \subseteq A
    BY <1>8, <2>5 DEF unread
  <2>7. ASSUME NEW k \in unread'
        PROVE  ~ \E i \in 1 .. Len(pageOf(G, p, n)) : pageOf(G, p, n)[i].key = k
    BY <2>5 DEF unread
  <2>8. \A k \in A :
          (IF n = 0 THEN p = 0 ELSE rank(R, A, k) < n * (p + 1) /\ ~ (rank(R, A, k) < n * p)) =>
             \E i \in 1 .. Len(pageOf(G, p, n)) : pageOf(G, p, n)[i].key = k
    <3>1. told(a) /\ n \in Nat
      BY <1>6, <2>1
    <3>2. HasPlaces(G, n, p, R, A)
      BY <1>2, <1>3, <1>6, <3>1, OnPage
    <3> QED
      BY <3>2 DEF HasPlaces
  <2>9. unread' \cap top(R, A, n * (p + 1)) \subseteq unread \cap top(R, A, n * p)
    BY <1>6, <2>6, <2>7, <2>8 DEF top
  <2>10. Cardinality(unread' \cap top(R, A, n * (p + 1))) <= walk.changes
    <3> DEFINE X == unread' \cap top(R, A, n * (p + 1))
               Y == unread \cap top(R, A, n * p)
    <3>1. IsFiniteSet(Y) /\ X \in SUBSET Y
      <4>1. Y \subseteq A
        BY DEF top
      <4> QED
        BY <1>6, <2>9, <4>1, FS_Subset
    <3>2. Cardinality(X) <= Cardinality(Y)
      BY <3>1, FS_Subset
    <3>3. Cardinality(X) \in Nat /\ Cardinality(Y) \in Nat /\ walk.changes \in Nat
      BY <1>1, <3>1, FS_Subset, FS_CardinalityType DEF Reader
    <3> QED
      BY <2>4, <3>2, <3>3
  <2>11. (\A q \in view'.links : q < p) => Cardinality(unread') <= walk.changes
    <3>1. ASSUME \A q \in view'.links : q < p PROVE Cardinality(unread') <= walk.changes
      <4>1. top(R, A, n * (p + 1)) = A
        <5>1. \A q \in linksOf(G, n, n * p) : q < p
          BY <1>7, <3>1
        <5> QED
          BY <1>2, <1>3, <1>6, <5>1, LastPage
      <4>2. unread' \cap top(R, A, n * (p + 1)) = unread'
        BY <2>6, <4>1
      <4> QED
        BY <2>10, <4>2
    <3> QED
      BY <3>1
  <2>12. view'.ask.page \in Nat /\ DOMAIN walk'.seen \subseteq 0 .. view'.ask.page
    BY <1>6, <1>8, <2>4, <2>5
  <2> QED
    BY <1>8, <2>10, <2>11, <2>12 DEF Missed
<1> QED
  BY <1>2, <1>5, <1>8, <1>9 DEF MissInv

LEMMA ChangeMisses ==
  ASSUME TablesOK, TablesOK', WalkOK, MissInv, Change
  PROVE  MissInv'
<1>1. view' = view /\ settings' = settings /\ OneCounted
  BY ChangeDoes
<1>2. CASE view = NoView
  BY <1>1, <1>2 DEF MissInv
<1>3. CASE view # NoView
  <2>1. PICK b, l : Reader(b, l)
    BY <1>3 DEF WalkOK
  <2>2. walk' = [walk EXCEPT !.changes = @ + 1]
    BY <1>1, <1>3 DEF OneCounted
  <2>3. /\ walk = [ask |-> b, seen |-> walk.seen, forward |-> walk.forward, stayed |-> walk.stayed,
                   changes |-> walk.changes]
        /\ walk.changes \in Nat /\ IsFiniteSet(walk.stayed)
    BY <2>1 DEF Reader
  <2>4. walk' = [ask |-> b, seen |-> walk.seen, forward |-> walk.forward, stayed |-> walk.stayed,
                 changes |-> walk.changes + 1]
    BY <2>2, <2>3
  <2>5. /\ walk'.ask = walk.ask /\ walk'.seen = walk.seen /\ walk'.forward = walk.forward
        /\ walk'.stayed = walk.stayed /\ walk'.changes = walk.changes + 1
    <3>1. walk.ask = b
      BY <2>1 DEF Reader
    <3> QED
      BY <2>4, <3>1
  <2>6. unread' = unread
    BY <2>5 DEF unread
  <2>7. IsFiniteSet(unread) /\ Cardinality(unread) \in Nat
    <3>1. unread \subseteq walk.stayed
      BY DEF unread
    <3> QED
      BY <2>3, <3>1, FS_Subset, FS_CardinalityType
  <2>8. ASSUME walk'.forward PROVE MissInv'
    <3>1. walk.forward
      BY <2>5, <2>8
    <3>2. PICK a, n, A, R :
            /\ a \in Ask /\ walk.ask = a /\ n = perPage(a.place) /\ A = matching(a)
            /\ R = keyOrder(a.place, a.sort) /\ Missed(n, A, R)
      BY <1>3, <3>1 DEF MissInv
    <3>3. PICK A2, R2 : A2 = matching(a)' /\ R2 = keyOrder(a.place, a.sort)'
      OBVIOUS
    <3>4. PICK h : SameBut(h, R, A, R2, A2)
      BY <3>2, <3>3, ChangeMoves
    <3>5. /\ StrictOrder(R, A) /\ IsFiniteSet(A)
          /\ StrictOrder(R2, A2) /\ IsFiniteSet(A2)
      BY <3>2, <3>3, KeysListed, KeysListedNext DEF KeysInListings
    <3>6. ASSUME n # 0
          PROVE  Cardinality(unread \cap top(R2, A2, n * (view.ask.page + 1))) <= walk.changes + 1
      <4>1. PICK m : m = n * (view.ask.page + 1)
        OBVIOUS
      <4>2. view.ask.page \in Nat /\ Cardinality(unread \cap top(R, A, m)) <= walk.changes
        BY <3>2, <3>6, <4>1 DEF Missed
      <4>3. m \in Nat
        <5>1. n \in Nat
          BY <3>2, ListingFits
        <5>2. \A x, y \in Nat : x * y \in Nat
          OBVIOUS
        <5> QED
          BY <4>1, <4>2, <5>1, <5>2
      <4>4. PICK x : top(R2, A2, m) \ top(R, A, m) \subseteq {x}
        BY <3>4, <3>5, <4>3, OneMoves
      <4> DEFINE X == unread \cap top(R, A, m)
                 Y == unread \cap top(R2, A2, m)
      <4>5. Y \in SUBSET (X \cup {x})
        BY <4>4
      <4>6. IsFiniteSet(X) /\ Cardinality(X) \in Nat
        BY <2>7, FS_Subset, FS_CardinalityType
      <4> HIDE DEF X, Y
      <4>7. /\ IsFiniteSet(X \cup {x})
            /\ \/ Cardinality(X \cup {x}) = Cardinality(X)
               \/ Cardinality(X \cup {x}) = Cardinality(X) + 1
        <5>1. /\ IsFiniteSet(X \cup {x})
              /\ Cardinality(X \cup {x}) = IF x \in X THEN Cardinality(X) ELSE Cardinality(X) + 1
          BY <4>6, FS_AddElement
        <5> QED
          BY <5>1
      <4>8. IsFiniteSet(Y) /\ Cardinality(Y) <= Cardinality(X \cup {x}) /\ Cardinality(Y) \in Nat
        BY <4>5, <4>7, FS_Subset, FS_CardinalityType
      <4>9. Cardinality(X) <= walk.changes
        BY <4>2 DEF X
      <4>10. Cardinality(Y) <= walk.changes + 1
        BY <2>3, <4>6, <4>7, <4>8, <4>9
      <4> QED
        BY <4>1, <4>10 DEF Y
    <3>7. n # 0 => view.ask.page \in Nat /\ DOMAIN walk.seen \subseteq 0 .. view.ask.page
      BY <3>2 DEF Missed
    <3>8. (\A p \in view.links : p < view.ask.page) => Cardinality(unread) <= walk.changes + 1
      <4>1. (\A p \in view.links : p < view.ask.page) => Cardinality(unread) <= walk.changes
        BY <3>2 DEF Missed
      <4> QED
        BY <2>3, <2>7, <4>1
    <3>9. Missed(n, A2, R2)'
      BY <1>1, <2>5, <2>6, <3>6, <3>7, <3>8 DEF Missed
    <3>10. walk'.ask = a /\ n = perPage(a.place)'
      <4>1. perPage(a.place)' = perPage(a.place)
        BY <1>1 DEF perPage
      <4> QED
        BY <2>5, <3>2, <4>1
    <3> QED
      BY <3>2, <3>3, <3>9, <3>10 DEF MissInv
  <2> QED
    BY <2>8 DEF MissInv
<1> QED
  BY <1>2, <1>3

LEMMA MissStep == TablesOK /\ WalkOK /\ MissInv /\ [Next]_vars => MissInv'
<1> SUFFICES ASSUME TablesOK, WalkOK, MissInv, [Next]_vars PROVE MissInv'
  OBVIOUS
<1>1. ASSUME NEW a \in Ask, Open(a) PROVE MissInv'
  BY <1>1, OpenMisses
<1>2. ASSUME NEW p, Follow(p) PROVE MissInv'
  BY <1>2, FollowMisses
<1>3. CASE Change
  BY <1>3, TablesStep, ChangeMisses
<1>4. CASE UNCHANGED vars
  <2>1. UnchangedTables /\ view' = view /\ walk' = walk
    BY <1>4 DEF vars, tables, UnchangedTables
  <2>2. CASE view # NoView /\ walk.forward
    <3>1. PICK a, n, A, R :
            /\ a \in Ask /\ walk.ask = a /\ n = perPage(a.place) /\ A = matching(a)
            /\ R = keyOrder(a.place, a.sort) /\ Missed(n, A, R)
      BY <2>2 DEF MissInv
    <3>2. perPage(a.place)' = n /\ matching(a)' = A /\ keyOrder(a.place, a.sort)' = R
      BY <2>1, <3>1, ListingKept, OrderKept
    <3>3. Missed(n, A, R)'
      <4>1. unread' = unread
        BY <2>1 DEF unread
      <4> QED
        BY <2>1, <3>1, <4>1 DEF Missed
    <3> QED
      BY <2>1, <3>1, <3>2, <3>3 DEF MissInv
  <2> QED
    BY <2>1, <2>2 DEF MissInv
<1> QED
  BY <1>1, <1>2, <1>3, <1>4 DEF Next

\* What was on a page is among what the reader has seen.
LEMMA SeenShown ==
  ASSUME NEW a, NEW n, Reader(a, n)
  PROVE  walk.stayed \ {r.key : r \in ToSet(shown)} \subseteq unread
<1>1. PICK m \in Nat, e \in Seq(Seq(AnyRow)) :
        /\ shown = FlattenSeq(e) /\ Len(e) = m + 1
        /\ \A p \in DOMAIN walk.seen : p \in 0 .. m
        /\ \A p \in 0 .. m : /\ e[p + 1] = IF p \in DOMAIN walk.seen THEN walk.seen[p] ELSE <<>>
                             /\ (p + 1) - 1 = p
        /\ m = 0 \/ m \in DOMAIN walk.seen
  BY ShownIs
<1>2. PICK f, P : f = shown /\ f \in Seq(AnyRow) /\ PlacesOf(P, e, f)
  <2>1. FlattenSeq(e) \in Seq(AnyRow) /\ \E P : PlacesOf(P, e, FlattenSeq(e))
    BY PlacesExist
  <2> QED
    BY <1>1, <2>1
<1>3. ASSUME NEW p \in DOMAIN walk.seen, NEW i \in 1 .. Len(walk.seen[p])
      PROVE  walk.seen[p][i] \in ToSet(shown)
  <2>1. p + 1 \in 1 .. Len(e) /\ e[p + 1] = walk.seen[p] /\ (p + 1) - 1 = p /\ p \in 0 .. Len(e)
    <3>1. p \in 0 .. m
      BY <1>1
    <3>2. e[p + 1] = walk.seen[p]
      BY <1>1, <3>1
    <3> QED
      BY <1>1, <3>1, <3>2
  <2>2. i \in 1 .. Len(e[p + 1])
    BY <2>1
  <2>3. /\ P \in [0 .. Len(e) -> Nat]
        /\ \A q \in 1 .. Len(e) :
             /\ P[q] = P[q - 1] + Len(e[q]) /\ P[q] <= Len(f)
             /\ \A j \in 1 .. Len(e[q]) : f[P[q - 1] + j] = e[q][j]
    BY <1>2 DEF PlacesOf
  <2>4. P[p + 1] = P[p] + Len(e[p + 1]) /\ P[p + 1] <= Len(f) /\ f[P[p] + i] = e[p + 1][i]
    BY <2>1, <2>2, <2>3
  <2>5. P[p] \in Nat /\ Len(e[p + 1]) \in Nat
    <3>1. e[p + 1] \in Seq(AnyRow)
      BY <2>1, ElementOfSeq
    <3> QED
      BY <2>1, <2>3, <3>1
  <2>6. P[p] + i \in 1 .. Len(f)
    <3>1. i \in 1 .. Len(e[p + 1]) /\ Len(f) \in Nat
      BY <1>2, <2>2
    <3> QED
      BY <2>4, <2>5, <3>1
  <2>7. f[P[p] + i] \in ToSet(f)
    BY <1>2, <2>6 DEF ToSet
  <2> QED
    BY <1>2, <2>1, <2>4, <2>7
<1> QED
  BY <1>3 DEF unread

\* A reader who goes from the first page to the last misses at most one entry for each
\* change on the way: for all torrents and users there is memory for, all page sizes,
\* sorts and searches, and however many changes there are.
THEOREM MissedAlwaysBounded == Spec => []MissedBounded
<1>1. TablesOK /\ WalkOK /\ MissInv => MissedBounded
  <2> SUFFICES ASSUME TablesOK, WalkOK, MissInv, view # NoView, walk.forward,
                      \A p \in view.links : p < view.ask.page
               PROVE  Cardinality(walk.stayed \ {r.key : r \in ToSet(shown)}) <= walk.changes
    BY DEF MissedBounded
  <2>1. PICK a, n : Reader(a, n)
    BY DEF WalkOK
  <2>2. IsFiniteSet(walk.stayed) /\ walk.changes \in Nat
    BY <2>1 DEF Reader
  <2>3. Cardinality(unread) <= walk.changes
    BY DEF MissInv, Missed
  <2> DEFINE X == walk.stayed \ {r.key : r \in ToSet(shown)}
  <2>4. X \in SUBSET unread
    BY <2>1, SeenShown
  <2>5. IsFiniteSet(unread)
    <3>1. unread \subseteq walk.stayed
      BY DEF unread
    <3> QED
      BY <2>2, <3>1, FS_Subset
  <2> HIDE DEF X
  <2>6. /\ Cardinality(X) <= Cardinality(unread)
        /\ Cardinality(X) \in Nat /\ Cardinality(unread) \in Nat
    BY <2>4, <2>5, FS_Subset, FS_CardinalityType
  <2>7. Cardinality(X) <= walk.changes
    BY <2>2, <2>3, <2>6
  <2> QED
    BY <2>7 DEF X
<1>2. Init => TablesOK /\ WalkOK /\ MissInv
  BY TablesInit, WalkInit, MissInit
<1>3. TablesOK /\ WalkOK /\ MissInv /\ [Next]_vars => (TablesOK /\ WalkOK /\ MissInv)'
  BY TablesStep, WalkStep, MissStep
<1> QED
  BY <1>1, <1>2, <1>3, PTL DEF Spec
=============================================================================
