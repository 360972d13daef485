------------------------------- MODULE Bencode -------------------------------
(***************************************************************************)
(* How the tables are written to files and read back (bencode.cpp and the  *)
(* lengths of atom.cpp).  A file is a sequence of bytes: numerals, the     *)
(* letters i, l, d, e, the colon, the minus sign, and any other.  The      *)
(* decoder does not count what it has read: it goes on after an item by    *)
(* the length the item would have if it were encoded again.                *)
(***************************************************************************)
EXTENDS Integers, SequencesExt, FiniteSetsExt, Dicti

CONSTANTS
  Radix,           \* of the numbers in a file: ten in the code
  Uninitialised    \* stands for a number sscanf did not find and did not set

ASSUME RadixAssumption == Radix \in Nat /\ Radix >= 2

Numeral == 0 .. Radix - 1

I == Radix
L == Radix + 1
D == Radix + 2
E == Radix + 3
Colon == Radix + 4
Minus == Radix + 5
Other == Radix + 6

Byte == 0 .. Other

\* The kinds of CAtom, and the NULL a decoder returns when it gives up.
Long(n) == [long |-> n]
String(s) == [string |-> s]
List(s) == [list |-> s]
Dict(f) == [dicti |-> f]
Null == [null |-> TRUE]

is(kind, a) == kind \in DOMAIN a

\* The order of std::map.
before(s, t) ==
  LET same == Len(LongestCommonPrefix({s, t}))
  IN IF same = Len(s) THEN s # t ELSE same < Len(t) /\ s[same + 1] < t[same + 1]

keys(f) ==
  [n \in 1 .. Cardinality(DOMAIN f) |->
     CHOOSE k \in DOMAIN f : Cardinality({j \in DOMAIN f : before(j, k)}) = n - 1]

-----------------------------------------------------------------------------
(* Writing                                                                 *)

decimal[n \in Nat] == IF n < Radix THEN <<n>> ELSE Append(decimal[n \div Radix], n % Radix)

signed(n) == IF n < 0 THEN <<Minus>> \o decimal[-n] ELSE decimal[n]

EncodeString(s) == decimal[Len(s)] \o <<Colon>> \o s

RECURSIVE Encode(_)
Encode(a) ==
  CASE is("long", a) -> <<I>> \o signed(a.long) \o <<E>>
    [] is("string", a) -> EncodeString(a.string)
    [] is("list", a) -> <<L>> \o FlattenSeq([n \in DOMAIN a.list |-> Encode(a.list[n])]) \o <<E>>
    [] is("dicti", a) ->
         <<D>> \o FlattenSeq([n \in DOMAIN keys(a.dicti) |->
                   EncodeString(keys(a.dicti)[n]) \o Encode(a.dicti[keys(a.dicti)[n]])]) \o <<E>>

\* Mutant: the signs of numbers are not counted.
RECURSIVE EncodedLengthUnsigned(_)
EncodedLengthUnsigned(a) ==
  CASE is("long", a) -> Len(signed(IF a.long < 0 THEN -a.long ELSE a.long)) + 2
    [] is("string", a) -> Len(a.string) + Len(decimal[Len(a.string)]) + 1
    [] is("list", a) ->
         2 + FoldLeft(LAMBDA n, b : n + EncodedLengthUnsigned(b), 0, a.list)
    [] is("dicti", a) ->
         2 + FoldLeft(LAMBDA n, k : n + EncodedLengthUnsigned(String(k))
                                      + EncodedLengthUnsigned(a.dicti[k]),
                      0, keys(a.dicti))

RECURSIVE EncodedLength(_)
EncodedLength(a) ==
  CASE is("long", a) -> Len(signed(a.long)) + 2
    [] is("string", a) -> Len(a.string) + Len(decimal[Len(a.string)]) + 1
    [] is("list", a) -> 2 + FoldLeft(LAMBDA n, b : n + EncodedLength(b), 0, a.list)
    [] is("dicti", a) ->
         2 + FoldLeft(LAMBDA n, k : n + EncodedLength(String(k)) + EncodedLength(a.dicti[k]),
                      0, keys(a.dicti))

-----------------------------------------------------------------------------
(* Reading                                                                 *)

\* The places from p on of the bytes in B, counted from zero.
placesOf(x, p, B) == {n \in p .. Len(x) - 1 : x[n + 1] \in B}

\* The number at the beginning of x: atoi.
atoi(x) ==
  LET end == Min(placesOf(Append(x, Colon), 0, Byte \ Numeral))
  IN FoldLeft(LAMBDA n, c : n * Radix + c, 0, SubSeq(x, 1, end))

\* sscanf( "%lld" )
scanLong(x) ==
  CASE x # <<>> /\ x[1] \in Numeral -> atoi(x)
    [] Len(x) > 1 /\ x[1] = Minus /\ x[2] \in Numeral -> -atoi(Tail(x))
    [] OTHER -> Uninitialised

DecodeLong(x, p) ==
  LET ends == placesOf(x, p, {E})
  IN IF ends = {} THEN Null ELSE Long(scanLong(SubSeq(x, p + 2, Min(ends))))

\* Whatever follows the numerals is taken for the colon, and the end of the file for
\* the end of the string.
DecodeString(x, p) ==
  LET splits == placesOf(x, p, Byte \ Numeral)
      size == atoi(SubSeq(x, p + 1, Min(splits)))
      end == Min({Len(x), Min(splits) + 1 + size})
  IN IF splits = {} THEN Null ELSE String(SubSeq(x, Min(splits) + 2, end))

RECURSIVE Decode(_, _), DecodeList(_, _, _), DecodeDicti(_, _, _)

\* The items from place p on, after those in got; the end of the file ends a list.
DecodeList(x, p, got) ==
  IF p >= Len(x) \/ x[p + 1] = E THEN List(got)
  ELSE LET a == Decode(x, p)
       IN IF a = Null THEN Null ELSE DecodeList(x, p + EncodedLength(a), Append(got, a))

\* Mutant: a key at the end of the file is kept, with an empty value.
DecodeDictiPadded(x, p, got) ==
  IF p >= Len(x) \/ x[p + 1] = E THEN Dict(got)
  ELSE LET key == Decode(x, p)
           q == p + EncodedLength(key)
           value == IF q >= Len(x) THEN String(<<>>) ELSE Decode(x, q)
       IN IF key = Null \/ ~is("string", key) \/ value = Null THEN Null
          ELSE DecodeDicti(x, q + EncodedLength(value), setItem(got, key.string, value))

\* A key at the end of the file is dropped; a value that is not understood discards
\* the dictionary.
DecodeDicti(x, p, got) ==
  IF p >= Len(x) \/ x[p + 1] = E THEN Dict(got)
  ELSE LET key == Decode(x, p)
           q == p + EncodedLength(key)
           value == Decode(x, q)
       IN IF key = Null \/ ~is("string", key) THEN Null
          ELSE IF q >= Len(x) THEN Dict(got)
          ELSE IF value = Null THEN Null
          ELSE DecodeDicti(x, q + EncodedLength(value), setItem(got, key.string, value))

Decode(x, p) ==
  CASE p < Len(x) /\ x[p + 1] = I -> DecodeLong(x, p)
    [] p < Len(x) /\ x[p + 1] \in Numeral -> DecodeString(x, p)
    [] p < Len(x) /\ x[p + 1] = L -> DecodeList(x, p + 1, <<>>)
    [] p < Len(x) /\ x[p + 1] = D -> DecodeDicti(x, p + 1, EmptyDicti)
    [] OTHER -> Null

-----------------------------------------------------------------------------
(* What a cut file is worth                                                *)

\* The items of a list, the keys and values of a dictionary, and back.
itemsOf(a) ==
  CASE is("list", a) -> a.list
    [] is("dicti", a) -> FlattenSeq([n \in DOMAIN keys(a.dicti) |->
                           <<String(keys(a.dicti)[n]), a.dicti[keys(a.dicti)[n]]>>])
    [] OTHER -> <<>>

dictOf(items) ==
  Dict([s \in {items[2 * n - 1].string : n \in 1 .. Len(items) \div 2} |->
          items[2 * CHOOSE n \in 1 .. Len(items) \div 2 : items[2 * n - 1].string = s]])

\* What is left of an atom when the file has n bytes of it: of a string those before
\* the cut, of a list its items, of a dictionary its entries.  All is lost with an item
\* that cannot be understood: a number without its end, a string without its colon.
RECURSIVE leftOf(_, _), leftItems(_, _)
leftItems(items, n) ==
  IF items = <<>> \/ n <= 0 THEN <<>>
  ELSE <<leftOf(Head(items), n)>> \o leftItems(Tail(items), n - Len(Encode(Head(items))))

leftOf(a, n) ==
  LET items == leftItems(itemsOf(a), n - 1)
      colon == Len(decimal[Len(a.string)]) + 1
  IN CASE is("long", a) /\ n >= Len(Encode(a)) -> a
       [] is("string", a) /\ n >= colon ->
            String(SubSeq(a.string, 1, Min({n - colon, Len(a.string)})))
       [] is("list", a) /\ n > 0 /\ Null \notin ToSet(items) -> List(items)
       [] is("dicti", a) /\ n > 0 /\ Null \notin ToSet(items) -> dictOf(items)
       [] OTHER -> Null

\* The bytes read again when the file has n bytes of these items: the decoder goes on
\* behind the one that is cut by the length of what is left of it, less than the file
\* has of it where a string's size lost digits or a dictionary dropped a key.
RECURSIVE readAgain(_, _)
readAgain(items, n) ==
  LET size == Len(Encode(Head(items)))
      left == leftOf(Head(items), n)
  IN CASE items = <<>> \/ n <= 0 -> 0
       [] items # <<>> /\ n > 0 /\ n >= size -> readAgain(Tail(items), n - size)
       [] items # <<>> /\ n > 0 /\ n < size ->
            Max({0, readAgain(itemsOf(Head(items)), n - 1)}
                \cup IF left = Null THEN {} ELSE {n - Len(Encode(left))})

\* b has all that a has, with up to n items more at the end of a list or of its last
\* item, or up to n entries of a dictionary new or changed.
RECURSIVE holds(_, _, _)
holds(b, a, n) ==
  \/ b = a
  \/ /\ is("list", a) /\ is("list", b)
     /\ Len(b.list) - Len(a.list) \in 0 .. n
     /\ \A k \in DOMAIN a.list :
          b.list[k] = a.list[k] \/ (k = Len(a.list) /\ holds(b.list[k], a.list[k], n))
  \/ /\ is("dicti", a) /\ is("dicti", b)
     /\ DOMAIN a.dicti \subseteq DOMAIN b.dicti
     /\ Cardinality({s \in DOMAIN b.dicti :
                       s \notin DOMAIN a.dicti \/ b.dicti[s] # a.dicti[s]}) <= n
=============================================================================
