---------------------------- MODULE AnswersProofs ---------------------------
(***************************************************************************)
(* Theorems about what is kept between requests and handed out.  About     *)
(* PeerCache: what the lists and answers are made of, that the lists never *)
(* outgrow the number of peers, that no peer starves in them and that no   *)
(* answer is too long.  About FastCache: how old the numbers on the index  *)
(* page and in full scrapes can be, for every refresh interval.  The steps *)
(* of Swarm are used through its type invariant only.                      *)
(***************************************************************************)
EXTENDS PeerCache, FastCache, SwarmProofs

-----------------------------------------------------------------------------
(* How many entries are taken                                              *)

\* The entries that are given can be counted.
LEMMA GivenFinite ==
  ASSUME NEW list, NEW k \in Nat, NEW compact
  PROVE  LET S == {i \in 1 .. k : IsGiven(list[i], compact)}
         IN  IsFiniteSet(S) /\ Cardinality(S) \in Nat /\ Cardinality(S) <= k
<1>1. IsFiniteSet(1 .. k) /\ Cardinality(1 .. k) = k
  BY FS_Interval
<1> QED
  BY <1>1, FS_Subset, FS_CardinalityType

\* They are some of those that are taken.
LEMMA GivenAtMostTaken ==
  ASSUME NEW list, NEW k \in Nat, NEW compact
  PROVE  Given(list, k, compact) \in Nat /\ Given(list, k, compact) <= k
BY GivenFinite DEF Given

\* An entry more is one given more, or none.
LEMMA GivenNext ==
  ASSUME NEW list, NEW k \in Nat, NEW compact
  PROVE  Given(list, k + 1, compact) =
           Given(list, k, compact) + (IF IsGiven(list[k + 1], compact) THEN 1 ELSE 0)
<1> DEFINE S == {i \in 1 .. k : IsGiven(list[i], compact)}
           T == {i \in 1 .. k + 1 : IsGiven(list[i], compact)}
<1>1. T = S \cup (IF IsGiven(list[k + 1], compact) THEN {k + 1} ELSE {})
  OBVIOUS
<1>2. IsFiniteSet(S) /\ k + 1 \notin S
  BY GivenFinite
<1>3. Given(list, k, compact) = Cardinality(S)
  BY DEF Given
<1>4. Given(list, k + 1, compact) = Cardinality(T)
  BY DEF Given
<1> HIDE DEF S, T
<1>5. Cardinality(S \cup {k + 1}) = Cardinality(S) + 1 /\ Cardinality(S) \in Nat
  BY <1>2, FS_AddElement, FS_CardinalityType
<1> QED
  BY <1>1, <1>3, <1>4, <1>5

\* Before the first entry nothing is given.
LEMMA GivenNone ==
  ASSUME NEW list, NEW compact
  PROVE  Given(list, 0, compact) = 0
<1>1. Given(list, 0, compact) \in Nat /\ Given(list, 0, compact) <= 0
  BY GivenAtMostTaken
<1> QED
  BY <1>1

\* An answer takes what it wants, or all there is, and stops at what completes it.
LEMMA TakenEnough ==
  ASSUME NEW list \in Seq(Entry), NEW size \in Nat, NEW compact
  PROVE  LET n == Taken(list, size, compact)
         IN  /\ n \in 0 .. Len(list)
             /\ n >= size \/ n = Len(list)
             /\ \A k \in 0 .. n - 1 : Given(list, k, compact) < size
<1> DEFINE Done(n) == Given(list, n, compact) >= size \/ n = Len(list)
           T == {n \in 0 .. Len(list) : Done(n)}
<1>1. Len(list) \in Nat
  OBVIOUS
<1>2. PICK n \in T : \A k \in T : n <= k
  <2>1. T \in SUBSET Nat /\ Len(list) \in T
    BY <1>1
  <2> QED
    BY <2>1, LeastNumber
<1>3. \A k \in 0 .. n - 1 : Given(list, k, compact) < size
  <2>1. TAKE k \in 0 .. n - 1
  <2>2. k \in 0 .. Len(list) /\ k \notin T
    BY <1>1, <1>2
  <2>3. k \in Nat
    BY <1>1
  <2>4. Given(list, k, compact) \in Nat
    BY <2>3, GivenAtMostTaken
  <2> QED
    BY <2>2, <2>4
<1> DEFINE Fits(m) == Done(m) /\ \A k \in 0 .. m - 1 : Given(list, k, compact) < size
           c == CHOOSE m \in 0 .. Len(list) : Fits(m)
<1>4. c \in 0 .. Len(list) /\ Fits(c)
  <2>1. n \in 0 .. Len(list) /\ Fits(n)
    BY <1>2, <1>3
  <2> HIDE DEF Fits
  <2> QED
    BY <2>1
<1>5. Taken(list, size, compact) = c
  BY DEF Taken
<1>6. Given(list, c, compact) \in Nat /\ Given(list, c, compact) <= c
  <2>1. c \in Nat
    BY <1>1, <1>4
  <2> QED
    BY <2>1, GivenAtMostTaken
<1> HIDE DEF c
<1>7. c >= size \/ c = Len(list)
  BY <1>4, <1>6
<1> QED
  BY <1>4, <1>5, <1>7

\* No more is given than is wanted: the entry that completes the answer is the last.
LEMMA GivenFits ==
  ASSUME NEW list \in Seq(Entry), NEW size \in Nat, NEW compact
  PROVE  Given(list, Taken(list, size, compact), compact) <= size
<1> DEFINE n == Taken(list, size, compact)
<1>1. n \in 0 .. Len(list) /\ \A k \in 0 .. n - 1 : Given(list, k, compact) < size
  BY TakenEnough
<1> HIDE DEF n
<1>2. CASE n = 0
  BY <1>2, GivenNone DEF n
<1>3. CASE n # 0
  <2>1. n - 1 \in Nat /\ n - 1 \in 0 .. n - 1 /\ (n - 1) + 1 = n
    BY <1>1, <1>3
  <2>2. Given(list, n - 1, compact) \in Nat /\ Given(list, n - 1, compact) < size
    BY <1>1, <2>1, GivenAtMostTaken
  <2>3. Given(list, n, compact) <= Given(list, n - 1, compact) + 1
    <3>1. Given(list, (n - 1) + 1, compact) =
            Given(list, n - 1, compact)
              + (IF IsGiven(list[(n - 1) + 1], compact) THEN 1 ELSE 0)
      BY <2>1, GivenNext
    <3> QED
      BY <2>1, <2>2, <3>1
  <2>4. Given(list, n, compact) \in Nat
    BY <1>1, <2>1, GivenAtMostTaken
  <2> QED
    BY <2>2, <2>3, <2>4 DEF n
<1> QED
  BY <1>2, <1>3

\* The k-th entry given is there, in the list, and is one that may be given.
LEMMA PlaceIsThere ==
  ASSUME NEW list \in Seq(Entry), NEW n \in 0 .. Len(list), NEW compact,
         NEW k \in 1 .. Given(list, n, compact)
  PROVE  /\ PlaceGiven(list, k, compact) \in 1 .. Len(list)
         /\ IsGiven(list[PlaceGiven(list, k, compact)], compact)
<1>1. n \in Nat /\ Len(list) \in Nat /\ n <= Len(list)
  OBVIOUS
<1>2. Given(list, n, compact) \in Nat /\ k \in Nat /\ k >= 1
  BY <1>1, GivenAtMostTaken
<1> DEFINE T == {i \in 0 .. n : Given(list, i, compact) >= k}
<1>3. PICK i \in T : \A j \in T : i <= j
  <2>1. T \in SUBSET Nat /\ n \in T
    BY <1>1, <1>2
  <2> QED
    BY <2>1, LeastNumber
<1>4. i # 0
  BY <1>2, <1>3, GivenNone
<1>5. i - 1 \in Nat /\ i - 1 \in 0 .. n /\ i - 1 \notin T /\ (i - 1) + 1 = i
  BY <1>1, <1>3, <1>4
<1>6. Given(list, i - 1, compact) \in Nat /\ Given(list, i - 1, compact) < k
  BY <1>2, <1>5, GivenAtMostTaken
<1>7. Given(list, i, compact) = k /\ IsGiven(list[i], compact)
  <2>1. Given(list, (i - 1) + 1, compact) =
          Given(list, i - 1, compact)
            + (IF IsGiven(list[(i - 1) + 1], compact) THEN 1 ELSE 0)
    BY <1>5, GivenNext
  <2> HIDE DEF T
  <2>2. Given(list, i, compact) =
          Given(list, i - 1, compact) + (IF IsGiven(list[i], compact) THEN 1 ELSE 0)
    BY <1>5, <2>1
  <2>3. Given(list, i, compact) >= k
    BY <1>3 DEF T
  <2> QED
    BY <1>2, <1>6, <2>2, <2>3
<1> DEFINE Is(m) == IsGiven(list[m], compact) /\ Given(list, m, compact) = k
           c == CHOOSE m \in 1 .. Len(list) : Is(m)
<1>8. c \in 1 .. Len(list) /\ Is(c)
  <2>1. i \in 1 .. Len(list) /\ Is(i)
    BY <1>1, <1>3, <1>4, <1>7
  <2> HIDE DEF Is
  <2> QED
    BY <2>1
<1> QED
  BY <1>8 DEF PlaceGiven

\* An answer is made of entries of the list, and of no more than are wanted.
LEMMA AnswerType ==
  ASSUME NEW list \in Seq(Entry), NEW size \in Nat, NEW compact
  PROVE  LET answer == Answer(list, Taken(list, size, compact), compact)
         IN  answer \in Seq(Entry) /\ Len(answer) <= size
<1> DEFINE n == Taken(list, size, compact)
           given == Given(list, n, compact)
           answer == Answer(list, n, compact)
<1>1. n \in 0 .. Len(list) /\ n \in Nat
  BY TakenEnough
<1>2. given \in Nat /\ given <= size
  <2>1. given <= size
    BY GivenFits
  <2> HIDE DEF n
  <2> QED
    BY <1>1, <2>1, GivenAtMostTaken
<1>3. \A k \in 1 .. given : list[PlaceGiven(list, k, compact)] \in Entry
  <2> HIDE DEF n
  <2>1. TAKE k \in 1 .. given
  <2>2. PlaceGiven(list, k, compact) \in 1 .. Len(list)
    BY <1>1, PlaceIsThere
  <2> QED
    BY <2>2
<1>4. answer = [k \in 1 .. given |-> list[PlaceGiven(list, k, compact)]]
  BY DEF Answer
<1> HIDE DEF given, n, answer
<1>5. answer \in Seq(Entry) /\ Len(answer) = given
  BY <1>2, <1>3, <1>4
<1>6. answer \in Seq(Entry) /\ Len(answer) <= size
  BY <1>2, <1>5
<1> QED
  BY <1>6 DEF answer, n

\* No answer is to hold more than max_give, whatever numwant says.
LEMMA SizeBound ==
  ASSUME NEW numwant \in NumWant
  PROVE  iRSize(numwant) \in 0 .. m_iMaxGive
  BY NumWantAssumption, GiveAssumption DEF iRSize

-----------------------------------------------------------------------------
(* The lengthened list                                                     *)

Copies(list, p) == {i \in 1 .. Len(list) : list[i].id = p}

Old(a) == m_pCached[a.strInfoHash]

\* An announce leaves a table for its torrent.
LEMMA AnnouncedTable ==
  ASSUME NEW a \in announce_t, Announce(a), TypeOK'
  PROVE  /\ a.strInfoHash \in DOMAIN m_pDFile'
         /\ DOMAIN m_pDFile'[a.strInfoHash] \subseteq Peer
         /\ \A p \in DOMAIN m_pDFile'[a.strInfoHash] :
              m_pDFile'[a.strInfoHash][p] \in Record
<1>1. a.strInfoHash \in DOMAIN m_pDFile'
  BY DEF Announce, AnnouncePeer, AnnounceStopped, AnnounceStoppedUnknown, setItem
<1>2. IsDicti(m_pDFile'[a.strInfoHash], Peer, Record)
  BY <1>1 DEF TypeOK, IsPeerTable, IsTable
<1> QED
  BY <1>1, <1>2 DEF IsDicti

\* The peers appended are some of all.
LEMMA AppendedFinite ==
  ASSUME NEW a \in announce_t, Announce(a), TypeOK'
  PROVE  /\ Appended(a) \subseteq Peer
         /\ IsFiniteSet(Appended(a)) /\ Cardinality(Appended(a)) \in Nat
         /\ Cardinality(Appended(a)) <= Cardinality(Peer)
<1>1. Appended(a) \subseteq Peer
  BY AnnouncedTable DEF Appended
<1> QED
  BY <1>1, FiniteAssumption, FS_Subset, FS_CardinalityType

\* A refill is a list of entries, longer by the peers appended.
LEMMA RefilledType ==
  ASSUME NEW a \in announce_t, Announce(a), TypeOK',
         m_pCached \in [Hash -> Seq(Entry)],
         NEW list \in Refilled(a, Appended(a))
  PROVE  /\ list \in Seq(Entry)
         /\ Len(list) = Len(Old(a)) + Cardinality(Appended(a))
<1> DEFINE add == Appended(a)
           h == a.strInfoHash
           n == Len(Old(a)) + Cardinality(add)
<1>1. Old(a) \in Seq(Entry)
  BY DEF Old, announce_t
<1>2. n \in Nat
  BY <1>1, AppendedFinite
<1>3. PICK f \in Bijection(1 .. n, Places(a, add)) : list = [i \in 1 .. n |-> At(a, f[i])]
  BY DEF Refilled, Old
<1>4. f \in [1 .. n -> Places(a, add)]
  BY DEF Bijection, Injection
<1>5. ASSUME NEW place \in Places(a, add) PROVE At(a, place) \in Entry
  <2>1. CASE place \in {0} \X (1 .. Len(Old(a)))
    <3>1. At(a, place) = Old(a)[place[2]] /\ place[2] \in 1 .. Len(Old(a))
      BY <2>1 DEF At, Old
    <3> QED
      BY <1>1, <3>1
  <2>2. CASE place \in {1} \X add
    <3>1. /\ At(a, place) = EntryOf(place[2], m_pDFile'[h][place[2]])
          /\ place[2] \in add
      BY <2>2 DEF At
    <3>2. place[2] \in Peer /\ m_pDFile'[h][place[2]] \in Record
      BY <3>1, AnnouncedTable DEF Appended
    <3> QED
      BY <3>1, <3>2 DEF EntryOf, Entry, Record
  <2> QED
    BY <1>5, <2>1, <2>2 DEF Places, Old
<1>6. \A i \in 1 .. n : At(a, f[i]) \in Entry
  BY <1>4, <1>5
<1> HIDE DEF n
<1>7. list \in Seq(Entry) /\ Len(list) = n
  BY <1>2, <1>3, <1>6
<1> QED
  BY <1>7 DEF n

\* What maps one to one to copies of p in a list, none of them among the first
\* n, is no more than the copies of p after the first n.
LEMMA CopiesLeft ==
  ASSUME NEW list \in Seq(Entry), NEW n \in 0 .. Len(list), NEW p,
         \A i \in 1 .. n : list[i].id # p,
         NEW S, NEW g \in [S -> Copies(list, p)],
         \A s, t \in S : g[s] = g[t] => s = t
  PROVE  LET rest == SubSeq(list, n + 1, Len(list))
         IN  /\ IsFiniteSet(S)
             /\ Cardinality(S) <= Cardinality(Copies(rest, p))
             /\ Cardinality(Copies(rest, p)) \in Nat
<1> DEFINE rest == SubSeq(list, n + 1, Len(list))
           T == Copies(rest, p)
           f == [s \in S |-> g[s] - n]
<1>1. /\ Len(rest) = Len(list) - n
      /\ \A i \in 1 .. Len(rest) : rest[i] = list[i + n]
      /\ Len(list) \in Nat
  BY SMTT(30)
<1> HIDE DEF rest
<1>2. IsFiniteSet(T) /\ Cardinality(T) \in Nat
  <2>1. IsFiniteSet(1 .. Len(rest))
    BY <1>1, FS_Interval
  <2> QED
    BY <2>1, FS_Subset, FS_CardinalityType DEF Copies
<1>3. ASSUME NEW s \in S PROVE g[s] - n \in T /\ g[s] \in Int
  <2>1. g[s] \in 1 .. Len(list) /\ list[g[s]].id = p
    BY DEF Copies
  <2>2. g[s] \notin 1 .. n
    BY <2>1
  <2>3. g[s] - n \in 1 .. Len(rest)
    BY <1>1, <2>1, <2>2
  <2>4. rest[g[s] - n] = list[g[s]]
    <3>1. rest[g[s] - n] = list[(g[s] - n) + n]
      BY <1>1, <2>3
    <3> QED
      BY <2>1, <3>1
  <2>5. g[s] - n \in T
    BY <2>1, <2>3, <2>4 DEF Copies
  <2> QED
    BY <2>1, <2>5
<1>4. f \in Injection(S, T)
  <2>1. f \in [S -> T]
    BY <1>3
  <2>2. ASSUME NEW s \in S, NEW t \in S, f[s] = f[t] PROVE s = t
    <3>1. g[s] = g[t]
      BY <1>3, <2>2
    <3> QED
      BY <3>1
  <2> QED
    BY <2>1, <2>2 DEF Injection, IsInjective
<1>5. IsFiniteSet(S) /\ Cardinality(S) <= Cardinality(T)
  BY <1>2, <1>4, FS_Injection
<1> QED
  BY <1>2, <1>5 DEF rest

\* A refill leaves one copy more of each peer appended, wherever it is shuffled.
LEMMA RefillLeavesCopies ==
  ASSUME NEW a \in announce_t, Announce(a), TypeOK',
         m_pCached \in [Hash -> Seq(Entry)],
         NEW list \in Refilled(a, Appended(a)),
         NEW n \in 0 .. Len(list), NEW p \in Peer,
         \A i \in 1 .. n : list[i].id # p
  PROVE  LET rest == SubSeq(list, n + 1, Len(list))
         IN  /\ Cardinality(Copies(rest, p)) \in Nat
             /\ Cardinality(Copies(Old(a), p)) <= Cardinality(Copies(rest, p))
             /\ p \in Appended(a) =>
                  Cardinality(Copies(Old(a), p)) + 1 <= Cardinality(Copies(rest, p))
<1> DEFINE add == Appended(a)
           h == a.strInfoHash
           N == Len(Old(a)) + Cardinality(add)
           rest == SubSeq(list, n + 1, Len(list))
           C == Copies(Old(a), p)
           S == IF p \in add THEN C \cup {0} ELSE C
           place(s) == IF s = 0 THEN <<1, p>> ELSE <<0, s>>
<1>1. Old(a) \in Seq(Entry) /\ Len(Old(a)) \in Nat
  BY DEF Old, announce_t
<1>2. list \in Seq(Entry) /\ Len(list) = N
  BY RefilledType
<1>3. PICK f \in Bijection(1 .. N, Places(a, add)) : list = [i \in 1 .. N |-> At(a, f[i])]
  BY DEF Refilled, Old
<1>4. ASSUME NEW s \in S
      PROVE  place(s) \in Places(a, add) /\ At(a, place(s)).id = p
  <2>1. CASE s = 0
    <3>1. p \in add
      BY <1>1, <2>1 DEF Copies
    <3> QED
      BY <2>1, <3>1 DEF Places, At, EntryOf
  <2>2. CASE s # 0
    <3>1. s \in 1 .. Len(Old(a)) /\ Old(a)[s].id = p
      BY <2>2 DEF Copies
    <3> QED
      BY <2>2, <3>1 DEF Places, At, Old
  <2> QED
    BY <2>1, <2>2
<1> DEFINE g == [s \in S |-> CHOOSE i \in 1 .. N : f[i] = place(s)]
<1>5. ASSUME NEW s \in S PROVE g[s] \in 1 .. N /\ f[g[s]] = place(s)
  <2>1. \E i \in 1 .. N : f[i] = place(s)
    BY <1>3, <1>4 DEF Bijection, Surjection
  <2> HIDE DEF place
  <2> QED
    BY <2>1
<1> HIDE DEF g, N, place
<1>6. g \in [S -> Copies(list, p)]
  <2>1. ASSUME NEW s \in S PROVE g[s] \in Copies(list, p)
    <3>1. list[g[s]] = At(a, f[g[s]])
      BY <1>3, <1>5
    <3>2. list[g[s]].id = p
      BY <1>4, <1>5, <3>1
    <3> QED
      BY <1>2, <1>5, <3>2 DEF Copies
  <2>2. g = [s \in S |-> g[s]]
    BY DEF g
  <2> QED
    BY <2>1, <2>2
<1>7. ASSUME NEW s \in S, NEW t \in S, g[s] = g[t] PROVE s = t
  <2>1. place(s) = place(t)
    BY <1>5, <1>7
  <2> QED
    BY <2>1 DEF place
<1>8. /\ IsFiniteSet(S)
      /\ Cardinality(S) <= Cardinality(Copies(rest, p))
      /\ Cardinality(Copies(rest, p)) \in Nat
  <2> HIDE DEF S
  <2> QED
    BY <1>2, <1>6, <1>7, CopiesLeft
<1>9. IsFiniteSet(C) /\ 0 \notin C
  <2>1. IsFiniteSet(1 .. Len(Old(a)))
    BY <1>1, FS_Interval
  <2> QED
    BY <1>1, <2>1, FS_Subset DEF Copies
<1>10. Cardinality(C) \in Nat /\ Cardinality(S) = Cardinality(C) + (IF p \in add THEN 1 ELSE 0)
  BY <1>9, FS_AddElement, FS_CardinalityType
<1> HIDE DEF S, C, rest, add
<1>11. /\ Cardinality(C) <= Cardinality(Copies(rest, p))
       /\ p \in add => Cardinality(C) + 1 <= Cardinality(Copies(rest, p))
  BY <1>8, <1>10
<1> QED
  BY <1>8, <1>11 DEF C, rest, add

\* Copies that are not taken from a list that is not refilled stay.
LEMMA TakingLeavesCopies ==
  ASSUME NEW list \in Seq(Entry), NEW n \in 0 .. Len(list), NEW p,
         \A i \in 1 .. n : list[i].id # p
  PROVE  LET rest == SubSeq(list, n + 1, Len(list))
         IN  /\ Cardinality(Copies(rest, p)) \in Nat
             /\ Cardinality(Copies(list, p)) <= Cardinality(Copies(rest, p))
<1> DEFINE g == [s \in Copies(list, p) |-> s]
<1>1. g \in [Copies(list, p) -> Copies(list, p)]
  OBVIOUS
<1>2. \A s, t \in Copies(list, p) : g[s] = g[t] => s = t
  OBVIOUS
<1> HIDE DEF g
<1> QED
  BY <1>1, <1>2, CopiesLeft

\* A list holds no more copies of a peer than it has entries.
LEMMA CopiesAtMostAll ==
  ASSUME NEW list \in Seq(Entry), NEW p
  PROVE  /\ Cardinality(Copies(list, p)) \in Nat
         /\ Cardinality(Copies(list, p)) <= Len(list)
<1> DEFINE n == Len(list)
<1>1. IsFiniteSet(1 .. n) /\ Cardinality(1 .. n) = n
  <2>1. n \in Nat
    OBVIOUS
  <2> HIDE DEF n
  <2> QED
    BY <2>1, FS_Interval
<1>2. Copies(list, p) \in SUBSET (1 .. Len(list))
  BY DEF Copies
<1> QED
  BY <1>1, <1>2, FS_Subset, FS_CardinalityType

-----------------------------------------------------------------------------
(* The invariant                                                           *)

\* A peer was passed over at most as often as the list still has copies of it.
CopiesCover ==
  \A h \in Hash, p \in Peer : passedOver[h][p] <= Cardinality(Copies(m_pCached[h], p))

CacheInv ==
  /\ TypeOK /\ CacheTypeOK
  /\ CacheBounded /\ CopiesCover /\ NeverStarved
  /\ GiveBounded

\* There are peers, and none has a copy in an empty list.
LEMMA EmptyList ==
  /\ Len(<<>>) < Cardinality(Peer)
  /\ \A p \in Peer : 0 <= Cardinality(Copies(<<>>, p))
<1>1. Cardinality(Peer) \in Nat /\ Cardinality(Peer) # 0
  BY FiniteAssumption, PeerAssumption, FS_CardinalityType, FS_EmptySet
<1>2. ASSUME NEW p \in Peer PROVE Cardinality(Copies(<<>>, p)) \in Nat
  <2>1. <<>> \in Seq(Entry)
    OBVIOUS
  <2> QED
    BY <2>1, CopiesAtMostAll
<1> QED
  BY <1>1, <1>2

\* An announce that finds too few entries has its list refilled, any other not.
LEMMA ListOfAnswer ==
  ASSUME TypeOK', CacheTypeOK, NEW a \in announce_t, Announce(a), NEW size \in Nat,
         NEW list \in IF RefillDue(a, size) THEN Refilled(a, Appended(a)) ELSE {Old(a)}
  PROVE  /\ Old(a) \in Seq(Entry) /\ list \in Seq(Entry)
         /\ RefillDue(a, size) => /\ Len(Old(a)) < size
                                  /\ Len(list) = Len(Old(a)) + Cardinality(Appended(a))
         /\ ~ RefillDue(a, size) => list = Old(a)
<1>1. Old(a) \in Seq(Entry)
  BY DEF Old, announce_t, CacheTypeOK
<1>2. RefillDue(a, size) <=> Len(Old(a)) < size
  BY DEF RefillDue, Old
<1> QED
  BY <1>1, <1>2, RefilledType DEF CacheTypeOK

\* What is left after an answer has fewer entries than there are peers.
LEMMA AnswerLeavesFew ==
  ASSUME TypeOK', CacheTypeOK, CacheBounded,
         NEW a \in announce_t, Announce(a), NEW size \in Nat, NEW compact,
         NEW list \in IF RefillDue(a, size) THEN Refilled(a, Appended(a)) ELSE {Old(a)}
  PROVE  LET n == Taken(list, size, compact)
         IN  Len(SubSeq(list, n + 1, Len(list))) < Cardinality(Peer)
<1> DEFINE n == Taken(list, size, compact)
           rest == SubSeq(list, n + 1, Len(list))
<1>1. list \in Seq(Entry) /\ Old(a) \in Seq(Entry)
  BY ListOfAnswer
<1>2. n \in 0 .. Len(list) /\ (n >= size \/ n = Len(list))
  BY <1>1, TakenEnough
<1> HIDE DEF n
<1>3. Len(rest) = Len(list) - n /\ Len(list) \in Nat /\ Len(Old(a)) \in Nat
  BY <1>1, <1>2
<1>4. Cardinality(Peer) \in Nat /\ Cardinality(Peer) # 0
  BY FiniteAssumption, PeerAssumption, FS_CardinalityType, FS_EmptySet
<1> HIDE DEF rest
<1>5. CASE RefillDue(a, size)
  <2>1. Len(Old(a)) < size /\ Len(list) = Len(Old(a)) + Cardinality(Appended(a))
    BY <1>5, ListOfAnswer
  <2>2. Cardinality(Appended(a)) \in Nat /\ Cardinality(Appended(a)) <= Cardinality(Peer)
    BY AppendedFinite
  <2>3. Len(rest) < Cardinality(Peer)
    BY <1>2, <1>3, <1>4, <2>1, <2>2
  <2> QED
    BY <2>3 DEF rest, n
<1>6. CASE ~ RefillDue(a, size)
  <2>1. list = Old(a)
    BY <1>6, ListOfAnswer
  <2>2. Len(Old(a)) < Cardinality(Peer)
    BY DEF CacheBounded, Old, announce_t
  <2>3. Len(rest) < Cardinality(Peer)
    BY <1>2, <1>3, <1>4, <2>1, <2>2
  <2> QED
    BY <2>3 DEF rest, n
<1> QED
  BY <1>5, <1>6

\* The history after an answer that took the first n entries of the list.
PassedOver(a, list, n, add, p) ==
  IF \E i \in 1 .. n : list[i].id = p THEN 0
  ELSE IF p \in add THEN passedOver[a.strInfoHash][p] + 1
       ELSE passedOver[a.strInfoHash][p]

\* A peer passed over once more has one copy more in what is left, and was passed
\* over less than max_give times: the list it was in had fewer entries.
LEMMA AnswerCovers ==
  ASSUME CacheInv, TypeOK',
         NEW a \in announce_t, Announce(a), NEW size \in 0 .. m_iMaxGive,
         NEW list \in IF RefillDue(a, size) THEN Refilled(a, Appended(a)) ELSE {Old(a)},
         NEW n \in 0 .. Len(list), NEW p \in Peer
  PROVE  LET add == IF RefillDue(a, size) THEN Appended(a) ELSE {}
             po  == PassedOver(a, list, n, add, p)
         IN  /\ po \in Nat /\ po <= m_iMaxGive
             /\ po <= Cardinality(Copies(SubSeq(list, n + 1, Len(list)), p))
<1> DEFINE add == IF RefillDue(a, size) THEN Appended(a) ELSE {}
           po == PassedOver(a, list, n, add, p)
           rest == SubSeq(list, n + 1, Len(list))
           before == passedOver[a.strInfoHash][p]
<1>1. size \in Nat /\ m_iMaxGive \in Nat
  BY GiveAssumption
<1>2. list \in Seq(Entry) /\ Old(a) \in Seq(Entry)
  BY <1>1, ListOfAnswer DEF CacheInv
<1>3. /\ before \in Nat /\ before <= m_iMaxGive
      /\ before <= Cardinality(Copies(Old(a), p))
  BY DEF CacheInv, CacheTypeOK, NeverStarved, CopiesCover, Old, announce_t
<1>4. /\ Cardinality(Copies(Old(a), p)) \in Nat
      /\ Cardinality(Copies(Old(a), p)) <= Len(Old(a))
  BY <1>2, CopiesAtMostAll
<1>5. Len(Old(a)) \in Nat
  BY <1>2
<1>6. CASE \E i \in 1 .. n : list[i].id = p
  <2>1. po = 0
    BY <1>6 DEF PassedOver
  <2>2. rest \in Seq(Entry)
    BY <1>2
  <2>3. Cardinality(Copies(rest, p)) \in Nat
    BY <2>2, CopiesAtMostAll
  <2> QED
    BY <1>1, <2>1, <2>3
<1>7. CASE (\A i \in 1 .. n : list[i].id # p) /\ RefillDue(a, size)
  <2>1. list \in Refilled(a, Appended(a)) /\ add = Appended(a)
    BY <1>7
  <2>2. /\ Cardinality(Copies(rest, p)) \in Nat
        /\ Cardinality(Copies(Old(a), p)) <= Cardinality(Copies(rest, p))
        /\ p \in add => Cardinality(Copies(Old(a), p)) + 1 <= Cardinality(Copies(rest, p))
    BY <1>7, <2>1, RefillLeavesCopies DEF CacheInv, CacheTypeOK
  <2>3. Len(Old(a)) < size
    BY <1>1, <1>7, ListOfAnswer DEF CacheInv
  <2>4. po = IF p \in add THEN before + 1 ELSE before
    BY <1>7 DEF PassedOver
  <2> HIDE DEF po, rest, before, add
  <2>5. po \in Nat /\ po <= m_iMaxGive /\ po <= Cardinality(Copies(rest, p))
    BY <1>1, <1>3, <1>4, <1>5, <2>2, <2>3, <2>4
  <2> QED
    BY <2>5 DEF po, rest, add
<1>8. CASE (\A i \in 1 .. n : list[i].id # p) /\ ~ RefillDue(a, size)
  <2>1. list = Old(a) /\ add = {}
    BY <1>8
  <2>2. /\ Cardinality(Copies(rest, p)) \in Nat
        /\ Cardinality(Copies(list, p)) <= Cardinality(Copies(rest, p))
    BY <1>2, <1>8, TakingLeavesCopies
  <2>3. po = before
    BY <1>8, <2>1 DEF PassedOver
  <2> HIDE DEF po, rest, before, add
  <2>4. po \in Nat /\ po <= m_iMaxGive /\ po <= Cardinality(Copies(rest, p))
    BY <1>1, <1>3, <1>4, <2>1, <2>2, <2>3
  <2> QED
    BY <2>4 DEF po, rest, add
<1> QED
  BY <1>6, <1>7, <1>8

\* An answered announce.
LEMMA AnswerStep ==
  ASSUME CacheInv, TypeOK', NEW a \in announce_t, NEW numwant \in NumWant,
         NEW compact \in BOOLEAN, serverResponseAnnounce(a, numwant, compact)
  PROVE  /\ CacheTypeOK' /\ CacheBounded' /\ CopiesCover' /\ NeverStarved'
         /\ GiveBounded'
<1> DEFINE h == a.strInfoHash
           size == iRSize(numwant)
           add == IF RefillDue(a, size) THEN Appended(a) ELSE {}
           lists == IF RefillDue(a, size) THEN Refilled(a, Appended(a)) ELSE {Old(a)}
<1>1. h \in Hash /\ size \in 0 .. m_iMaxGive /\ size \in Nat
  BY SizeBound, GiveAssumption DEF announce_t
<1> DEFINE n(list) == Taken(list, size, compact)
           rest(list) == SubSeq(list, n(list) + 1, Len(list))
<1>2. PICK list \in lists :
        /\ m_pCached' = [m_pCached EXCEPT ![h] = rest(list)]
        /\ passedOver' = [passedOver EXCEPT ![h] =
                            [p \in Peer |-> PassedOver(a, list, n(list), add, p)]]
        /\ response' = [hash |-> h, ip |-> a.strIP, port |-> a.iPort, left |-> a.iLeft,
                        peers |-> Answer(list, n(list), compact)]
  BY DEF serverResponseAnnounce, Old, PassedOver
<1>3. Announce(a)
  BY DEF serverResponseAnnounce
<1>4. CacheTypeOK /\ CacheBounded /\ CopiesCover /\ NeverStarved
  BY DEF CacheInv
<1>5. list \in Seq(Entry)
  BY <1>1, <1>3, <1>4, ListOfAnswer
<1>6. n(list) \in 0 .. Len(list)
  BY <1>1, <1>5, TakenEnough
<1>7. rest(list) \in Seq(Entry)
  BY <1>5, <1>6
<1>8. Len(rest(list)) < Cardinality(Peer)
  BY <1>1, <1>3, <1>4, AnswerLeavesFew
<1>9. \A p \in Peer :
        LET po == PassedOver(a, list, n(list), add, p)
        IN  /\ po \in Nat /\ po <= m_iMaxGive
            /\ po <= Cardinality(Copies(rest(list), p))
  BY <1>1, <1>3, <1>6, AnswerCovers
<1> DEFINE R == rest(list)
           P == [p \in Peer |-> PassedOver(a, list, n(list), add, p)]
<1>10. response'.peers \in Seq(Entry) /\ Len(response'.peers) <= m_iMaxGive
  <2>1. response'.peers = Answer(list, n(list), compact)
    BY <1>2
  <2>2. response'.peers \in Seq(Entry) /\ Len(response'.peers) <= size
    BY <1>1, <1>5, <2>1, AnswerType
  <2> QED
    BY <1>1, <2>2, GiveAssumption
<1>11. /\ R \in Seq(Entry) /\ Len(R) < Cardinality(Peer)
       /\ P \in [Peer -> Nat]
       /\ \A p \in Peer : P[p] <= m_iMaxGive /\ P[p] <= Cardinality(Copies(R, p))
  BY <1>7, <1>8, <1>9
<1>12. /\ m_pCached' = [m_pCached EXCEPT ![h] = R]
       /\ passedOver' = [passedOver EXCEPT ![h] = P]
  BY <1>2
<1> HIDE DEF R, P, h
<1>13. /\ m_pCached'[h] = R /\ passedOver'[h] = P
       /\ \A k \in Hash : k # h => m_pCached'[k] = m_pCached[k] /\ passedOver'[k] = passedOver[k]
  BY <1>1, <1>4, <1>12 DEF CacheTypeOK
<1>14. CacheTypeOK'
  BY <1>1, <1>4, <1>11, <1>12, <1>10 DEF CacheTypeOK
<1>15. CacheBounded'
  <2>1. ASSUME NEW k \in Hash PROVE Len(m_pCached'[k]) < Cardinality(Peer)
    BY <1>4, <1>11, <1>13 DEF CacheBounded
  <2> QED
    BY <2>1 DEF CacheBounded
<1>16. CopiesCover'
  <2>1. ASSUME NEW k \in Hash, NEW p \in Peer
        PROVE  passedOver'[k][p] <= Cardinality(Copies(m_pCached'[k], p))
    BY <1>4, <1>11, <1>13 DEF CopiesCover
  <2> QED
    BY <2>1 DEF CopiesCover, Copies
<1>17. NeverStarved'
  <2>1. ASSUME NEW k \in Hash, NEW p \in Peer PROVE passedOver'[k][p] <= m_iMaxGive
    BY <1>4, <1>11, <1>13 DEF NeverStarved
  <2> QED
    BY <2>1 DEF NeverStarved
<1> QED
  BY <1>14, <1>15, <1>16, <1>17, <1>10 DEF GiveBounded

\* Every step is one of the peer database, so that its types stay.
LEMMA StepOfDatabase ==
  ASSUME [CacheNext]_<<vars, cacheVars>>
  PROVE  [Next]_vars
<1>1. CASE CacheNext
  BY <1>1 DEF CacheNext, serverResponseAnnounce, ListsKept, Started, Next, Handler
<1>2. CASE UNCHANGED <<vars, cacheVars>>
  BY <1>2
<1> QED
  BY <1>1, <1>2

LEMMA CacheStep ==
  ASSUME CacheInv, [CacheNext]_<<vars, cacheVars>>
  PROVE  CacheInv'
<1>1. TypeOK'
  BY StepOfDatabase, TypeStep DEF CacheInv
<1>2. ASSUME UNCHANGED cacheVars
      PROVE  /\ CacheTypeOK' /\ CacheBounded' /\ CopiesCover' /\ NeverStarved'
             /\ GiveBounded'
  BY <1>2 DEF CacheInv, cacheVars, CacheTypeOK, CacheBounded, CopiesCover, Copies, NeverStarved,
                GiveBounded
<1>3. ASSUME NEW a \in announce_t, NEW numwant \in NumWant, NEW compact \in BOOLEAN,
             serverResponseAnnounce(a, numwant, compact)
      PROVE  /\ CacheTypeOK' /\ CacheBounded' /\ CopiesCover' /\ NeverStarved'
             /\ GiveBounded'
  BY <1>1, <1>3, AnswerStep
<1>4. ASSUME Started
      PROVE  /\ CacheTypeOK' /\ CacheBounded' /\ CopiesCover' /\ NeverStarved'
             /\ GiveBounded'
  <2>1. /\ m_pCached' = [h \in Hash |-> <<>>]
        /\ passedOver' = [h \in Hash |-> [p \in Peer |-> 0]]
        /\ response'.peers = <<>>
    BY <1>4 DEF Started, NoResponse
  <2>2. CacheTypeOK' /\ NeverStarved' /\ GiveBounded'
    BY <2>1, GiveAssumption DEF CacheTypeOK, NeverStarved, GiveBounded
  <2>3. CacheBounded'
    BY <2>1, EmptyList DEF CacheBounded
  <2>4. CopiesCover'
    BY <2>1, EmptyList DEF CopiesCover, Copies
  <2> QED
    BY <2>2, <2>3, <2>4
<1>5. CASE CacheNext
  BY <1>1, <1>2, <1>3, <1>4, <1>5 DEF CacheNext, ListsKept, CacheInv
<1>6. CASE UNCHANGED <<vars, cacheVars>>
  BY <1>1, <1>2, <1>6 DEF CacheInv
<1> QED
  BY <1>5, <1>6

LEMMA CacheInitial ==
  ASSUME CacheInit
  PROVE  CacheInv
<1>1. TypeOK
  BY TypeInit DEF CacheInit
<1>2. CacheTypeOK /\ NeverStarved /\ GiveBounded
  BY GiveAssumption DEF CacheInit, NoResponse, CacheTypeOK, NeverStarved, GiveBounded
<1>3. CacheBounded
  BY EmptyList DEF CacheInit, CacheBounded
<1>4. CopiesCover
  BY EmptyList DEF CacheInit, CopiesCover, Copies
<1> QED
  BY <1>1, <1>2, <1>3, <1>4 DEF CacheInv

LEMMA CacheAlways == CacheSpec => []CacheInv
  BY CacheInitial, CacheStep, PTL DEF CacheSpec

-----------------------------------------------------------------------------
(* Theorems                                                                *)

\* CacheBounded: between announces a list holds fewer entries than there are
\* peers, for every number of peers, every response_size and every max_give.
THEOREM ListsBounded == CacheSpec => []CacheBounded
<1>1. CacheInv => CacheBounded
  BY DEF CacheInv
<1> QED
  BY <1>1, CacheAlways, PTL

\* NeverStarved: of every max_give + 1 refills that had an entry of a peer, one
\* was followed by an answer that took it, for every max_give.
THEOREM NoPeerStarves == CacheSpec => []NeverStarved
<1>1. CacheInv => NeverStarved
  BY DEF CacheInv
<1> QED
  BY <1>1, CacheAlways, PTL

\* CacheTypeOK: lists and answers are made of entries with an id, an address and a
\* port, whatever was appended, shuffled and left out.
THEOREM EntriesOnly == CacheSpec => []CacheTypeOK
<1>1. CacheInv => CacheTypeOK
  BY DEF CacheInv
<1> QED
  BY <1>1, CacheAlways, PTL

\* GiveBounded: no answer has more peers than max_give, for every numwant.
THEOREM AnswersBounded == CacheSpec => []GiveBounded
<1>1. CacheInv => GiveBounded
  BY DEF CacheInv
<1> QED
  BY <1>1, CacheAlways, PTL

-----------------------------------------------------------------------------
(* The fast cache                                                          *)

\* The timer never runs further ahead of the last refresh than the interval.
TimerInv ==
  /\ TypeOK
  /\ refreshed \in Nat
  /\ m_iRefreshFastCacheNext \in Nat
  /\ m_iRefreshFastCacheNext <= refreshed + m_iRefreshFastCacheInterval

FreshInv == TimerInv /\ FullyFresh

-----------------------------------------------------------------------------
(* The invariant                                                           *)

\* What the fast cache adds to a step leaves Swarm's step a step of Swarm.
LEMMA StepOfSwarm ==
  ASSUME FastNext
  PROVE  [Next]_vars
<1>1. CASE Index \/ FullScrape \/ \E H \in (SUBSET Hash) \ {{}} : ScrapeOf(H)
  BY <1>1 DEF Index, FullScrape, ScrapeOf
<1>2. CASE \E a \in announce_t : AnnounceShows(a)
  BY <1>2 DEF AnnounceShows, Next, Handler
<1>3. CASE CacheKept
  BY <1>3 DEF CacheKept, Next, Handler
<1>4. CASE FastStarted
  BY <1>4 DEF FastStarted, Next
<1> QED
  BY <1>1, <1>2, <1>3, <1>4 DEF FastNext

\* After RefreshIfDue the cache is no older than the interval.
LEMMA RefreshBounds ==
  ASSUME TimerInv, RefreshIfDue
  PROVE  /\ refreshed' \in Nat /\ m_iRefreshFastCacheNext' \in Nat
         /\ m_iRefreshFastCacheNext' <= refreshed' + m_iRefreshFastCacheInterval
         /\ now - refreshed' <= m_iRefreshFastCacheInterval
<1>0. now \in Nat /\ m_iRefreshFastCacheInterval \in Nat
  BY RefreshAssumption DEF TimerInv, TypeOK
<1>1. CASE now > m_iRefreshFastCacheNext
  BY <1>0, <1>1 DEF RefreshIfDue, RefreshFastCache, TimerInv
<1>2. CASE ~ (now > m_iRefreshFastCacheNext)
  BY <1>0, <1>2 DEF RefreshIfDue, TimerInv
<1> QED
  BY <1>1, <1>2

\* What is shown to requests of a kind that refreshes is fresh enough.
LEMMA ShownFresh ==
  ASSUME NEW kind, NEW H, Show(kind, H),
         now - refreshed' <= m_iRefreshFastCacheInterval
  PROVE  FullyFresh'
<1>1. shown'.at = now /\ shown'.builtAt = refreshed'
  BY DEF Show
<1> QED
  BY <1>1 DEF FullyFresh

LEMMA FreshInit ==
  ASSUME FastInit
  PROVE  FreshInv
<1>1. TypeOK
  BY TypeInit DEF FastInit
<1>2. TimerInv
  BY <1>1, RefreshAssumption DEF FastInit, TimerInv
<1>3. FullyFresh
  BY DEF FastInit, NothingShown, FullyFresh
<1> QED
  BY <1>2, <1>3 DEF FreshInv

LEMMA FreshStep ==
  ASSUME FreshInv, [FastNext]_<<vars, fastVars>>
  PROVE  FreshInv'
<1>0. TimerInv /\ FullyFresh /\ TypeOK
  BY DEF FreshInv, TimerInv
<1>1. TypeOK'
  <2>1. [Next]_vars
    BY StepOfSwarm
  <2> QED
    BY <1>0, <2>1, TypeStep
<1>2. CASE Index
  <2>1. RefreshIfDue /\ Show("index", DOMAIN m_pDFile)
    BY <1>2 DEF Index
  <2> QED
    BY <1>0, <1>1, <2>1, RefreshBounds, ShownFresh DEF FreshInv, TimerInv
<1>3. CASE FullScrape
  <2>1. RefreshIfDue /\ Show("scrape", Hash)
    BY <1>3 DEF FullScrape
  <2> QED
    BY <1>0, <1>1, <2>1, RefreshBounds, ShownFresh DEF FreshInv, TimerInv
<1>4. CASE \E H \in (SUBSET Hash) \ {{}} : ScrapeOf(H)
  <2>0. PICK H \in (SUBSET Hash) \ {{}} : ScrapeOf(H)
    BY <1>4
  <2>1. UNCHANGED <<m_iRefreshFastCacheNext, refreshed>> /\ shown'.to = "scrape of"
    BY <2>0 DEF ScrapeOf, Show
  <2> QED
    BY <1>0, <1>1, <2>1 DEF FreshInv, TimerInv, FullyFresh
<1>5. CASE \E a \in announce_t : AnnounceShows(a)
  <2>1. UNCHANGED <<m_iRefreshFastCacheNext, refreshed>> /\ shown'.to = "announce"
    BY <1>5 DEF AnnounceShows, Show
  <2> QED
    BY <1>0, <1>1, <2>1 DEF FreshInv, TimerInv, FullyFresh
<1>6. CASE CacheKept
  BY <1>0, <1>1, <1>6 DEF CacheKept, fastVars, FreshInv, TimerInv, FullyFresh
<1>7. CASE FastStarted
  <2>1. m_iRefreshFastCacheNext' = 0 /\ refreshed' = 0 /\ shown' = NothingShown
    BY <1>7 DEF FastStarted
  <2>2. TimerInv'
    BY <1>1, <2>1, RefreshAssumption DEF TimerInv
  <2>3. FullyFresh'
    BY <2>1 DEF FullyFresh, NothingShown
  <2> QED
    BY <2>2, <2>3 DEF FreshInv
<1>8. CASE UNCHANGED <<vars, fastVars>>
  BY <1>0, <1>1, <1>8 DEF fastVars, FreshInv, TimerInv, FullyFresh
<1> QED
  BY <1>2, <1>3, <1>4, <1>5, <1>6, <1>7, <1>8 DEF FastNext

-----------------------------------------------------------------------------
(* Types                                                                   *)

FastTypeInv == TypeOK /\ FastTypeOK

CacheEntry == [complete : Nat, incomplete : Nat, downloaded : Nat]

\* What is counted of the peers of a torrent is a number.
LEMMA NumbersType ==
  ASSUME TypeOK, NEW h \in DOMAIN m_pDFile
  PROVE  Numbers(h) \in CacheEntry
<1>1. h \in Hash /\ DOMAIN m_pDFile[h] \subseteq Peer
  BY DEF TypeOK, IsPeerTable, IsTable, IsDicti
<1>2. IsFiniteSet(Peer)
  BY FiniteAssumption
<1>3. Seeders(h) \subseteq Peer /\ Leechers(h) \subseteq Peer
  BY <1>1 DEF Seeders, Leechers
<1>4. Cardinality(Seeders(h)) \in Nat /\ Cardinality(Leechers(h)) \in Nat
  BY <1>2, <1>3, FS_Subset, FS_CardinalityType
<1>5. m_pCompleted[h] \in Nat
  BY <1>1 DEF TypeOK
<1> QED
  BY <1>4, <1>5 DEF Numbers, CacheEntry

LEMMA RefreshType ==
  ASSUME FastTypeInv, RefreshIfDue
  PROVE  /\ IsDicti(m_pFastCache', Hash, CacheEntry)
         /\ m_iRefreshFastCacheNext' \in Nat /\ refreshed' \in Nat
<1>1. now \in Nat /\ DOMAIN m_pDFile \subseteq Hash
  BY DEF FastTypeInv, TypeOK, IsPeerTable, IsTable
<1>2. CASE now > m_iRefreshFastCacheNext
  <2>1. /\ m_pFastCache' = [h \in DOMAIN m_pDFile |-> Numbers(h)]
        /\ refreshed' = now
        /\ m_iRefreshFastCacheNext' = now + m_iRefreshFastCacheInterval
    BY <1>2 DEF RefreshIfDue, RefreshFastCache
  <2>2. \A h \in DOMAIN m_pDFile : Numbers(h) \in CacheEntry
    BY NumbersType DEF FastTypeInv
  <2> QED
    BY <1>1, <2>1, <2>2, RefreshAssumption DEF IsDicti
<1>3. CASE ~ (now > m_iRefreshFastCacheNext)
  BY <1>3 DEF RefreshIfDue, FastTypeInv, FastTypeOK, CacheEntry
<1> QED
  BY <1>2, <1>3

LEMMA ShowType ==
  ASSUME TypeOK, NEW kind, NEW H, Show(kind, H), refreshed' \in Nat
  PROVE  shown'.at \in Nat /\ shown'.builtAt \in Nat
  BY DEF Show, TypeOK

LEMMA FastTypeInit ==
  ASSUME FastInit
  PROVE  FastTypeInv
<1>1. TypeOK
  BY TypeInit DEF FastInit
<1>2. IsDicti(EmptyDicti, Hash, CacheEntry)
  BY EmptyDictiType
<1> QED
  BY <1>1, <1>2 DEF FastInit, NothingShown, FastTypeInv, FastTypeOK, CacheEntry

LEMMA FastTypeStep ==
  ASSUME FastTypeInv, [FastNext]_<<vars, fastVars>>
  PROVE  FastTypeInv'
<1>1. TypeOK'
  <2>1. [Next]_vars
    BY StepOfSwarm
  <2> QED
    BY <2>1, TypeStep DEF FastTypeInv
<1>2. CASE Index \/ FullScrape
  <2>1. RefreshIfDue /\ \E kind, H : Show(kind, H)
    BY <1>2 DEF Index, FullScrape
  <2> QED
    BY <1>1, <2>1, RefreshType, ShowType DEF FastTypeInv, FastTypeOK, CacheEntry
<1>3. CASE (\E H \in (SUBSET Hash) \ {{}} : ScrapeOf(H)) \/ \E a \in announce_t : AnnounceShows(a)
  <2>1. /\ UNCHANGED <<m_pFastCache, m_iRefreshFastCacheNext, refreshed>>
        /\ \E kind, H : Show(kind, H)
    BY <1>3 DEF ScrapeOf, AnnounceShows
  <2> QED
    BY <1>1, <2>1, ShowType DEF FastTypeInv, FastTypeOK
<1>4. CASE CacheKept \/ UNCHANGED <<vars, fastVars>>
  BY <1>1, <1>4 DEF CacheKept, fastVars, FastTypeInv, FastTypeOK
<1>5. CASE FastStarted
  <2>1. IsDicti(EmptyDicti, Hash, CacheEntry)
    BY EmptyDictiType
  <2> QED
    BY <1>1, <1>5, <2>1 DEF FastStarted, NothingShown, FastTypeInv, FastTypeOK, CacheEntry
<1> QED
  BY <1>2, <1>3, <1>4, <1>5 DEF FastNext

-----------------------------------------------------------------------------
(* Theorems                                                                *)

\* The index page and full scrapes never show numbers older than the interval
\* (doc/changelog.txt:9), for every interval and every spread of requests.
THEOREM FullScrapesFresh == FastSpec => []FullyFresh
<1>1. FreshInv => FullyFresh
  BY DEF FreshInv
<1> QED
  BY <1>1, FreshInit, FreshStep, PTL DEF FastSpec

\* The cache, its timer and what was shown of it keep their types: the numbers are
\* counted of tables that are finite, whatever announces made of them.
THEOREM FastTypeCorrect == FastSpec => []FastTypeOK
<1>1. FastTypeInv => FastTypeOK
  BY DEF FastTypeInv
<1> QED
  BY <1>1, FastTypeInit, FastTypeStep, PTL DEF FastSpec
=============================================================================
