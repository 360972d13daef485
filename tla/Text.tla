-------------------------------- MODULE Text --------------------------------
(***************************************************************************)
(* What the pages and the requests do to text (util.cpp): the escapes of   *)
(* links and parameters, the digits of info hashes, the entities of HTML.  *)
(* A text is a sequence of bytes, and a byte is two digits: the byte d     *)
(* below Base is the digit d itself, written either in upper or in lower   *)
(* case, and the bytes above stand for one character of each kind the code *)
(* treats in its own way.                                                  *)
(***************************************************************************)
EXTENDS Integers, SequencesExt

CONSTANTS
  Base,       \* values of a digit: 16 in the code
  HashSize,   \* bytes in an info hash: 20 in the code
  SizeRange   \* values of a size_t

ASSUME BaseAssumption == Base \in Nat /\ Base >= 4
ASSUME HashSizeAssumption == HashSize \in Nat \ {0}
ASSUME SizeRangeAssumption == SizeRange \in Nat \ {0}

Digit == 0 .. Base - 1
Char == 0 .. Base * Base - 1

Percent == Base
Plus == Base + 1
Space == Base + 2
Less == Base + 3
Greater == Base + 4
Ampersand == Base + 5
Quote == Base + 6
CR == Base + 7
LF == Base + 8
Upper == Base + 9     \* a letter and, next to it, its lower case
Lower == Base + 10

digits(c) == <<c \div Base, c % Base>>

\* Text is read and compared byte by byte, with a terminator after the last one.
Terminator == -1

at(s, i) == IF i < Len(s) THEN s[i + 1] ELSE Terminator

-----------------------------------------------------------------------------
(* Escapes                                                                 *)

Unreserved == Digit \cup {Upper, Lower}

\* UTIL_StringToEscapedStrict
StringToEscapedStrict(s) ==
  FlattenSeq([i \in DOMAIN s |->
    IF s[i] \in Unreserved THEN <<s[i]>> ELSE <<Percent>> \o digits(s[i])])

\* Mutant: a plus is taken for unreserved.
StringToEscapedPlus(s) ==
  FlattenSeq([i \in DOMAIN s |->
    CASE s[i] \in Unreserved \cup {Plus} -> <<s[i]>>
      [] s[i] = Space -> <<Plus>>
      [] OTHER -> <<Percent>> \o digits(s[i])])

\* UTIL_StringToEscaped
StringToEscaped(s) ==
  FlattenSeq([i \in DOMAIN s |->
    CASE s[i] \in Unreserved -> <<s[i]>>
      [] s[i] = Space -> <<Plus>>
      [] OTHER -> <<Percent>> \o digits(s[i])])

\* What sscanf( "%02X" ) leaves in c: it skips blanks and takes a sign, and of two
\* bytes that are no number it reads none, which leaves c uninitialised.
scanHex(a, b) ==
  CASE a \in Digit /\ b \in Digit -> {a * Base + b}
    [] a \in Digit /\ b \notin Digit -> {a}
    [] a \in {Space, CR, LF, Plus} /\ b \in Digit -> {b}
    [] OTHER -> Char

\* Mutant: the last escape of a text is taken for a cut one.
EscapedToStringShort(s) ==
  LET from[i \in 0 .. Len(s) + 2] ==
        CASE i >= Len(s) -> {<<>>}
          [] i < Len(s) /\ at(s, i) = Percent ->
               IF i < (Len(s) - 3) % SizeRange
               THEN {<<c>> \o r : c \in scanHex(at(s, i + 1), at(s, i + 2)), r \in from[i + 3]}
               ELSE {<<>>}
          [] OTHER -> {<<IF at(s, i) = Plus THEN Space ELSE at(s, i)>> \o r : r \in from[i + 1]}
  IN from[0]

\* UTIL_EscapedToString: the texts it can return, more than one when it reads what
\* was never set.  An escape that is cut ends the text, but the test subtracts
\* from a size_t: for a single byte it wraps.
EscapedToString(s) ==
  LET from[i \in 0 .. Len(s) + 2] ==
        CASE i >= Len(s) -> {<<>>}
          [] i < Len(s) /\ at(s, i) = Percent ->
               IF i < (Len(s) - 2) % SizeRange
               THEN {<<c>> \o r : c \in scanHex(at(s, i + 1), at(s, i + 2)), r \in from[i + 3]}
               ELSE {<<>>}
          [] OTHER -> {<<IF at(s, i) = Plus THEN Space ELSE at(s, i)>> \o r : r \in from[i + 1]}
  IN from[0]

-----------------------------------------------------------------------------
(* Info hashes and case                                                    *)

\* UTIL_HashToString
HashToString(s) == FlattenSeq([i \in DOMAIN s |-> digits(s[i])])

\* UTIL_StringToHash: the texts it can return, the empty one for a wrong length.
StringToHash(s) ==
  IF Len(s) # 2 * HashSize THEN {<<>>}
  ELSE {h \in [1 .. HashSize -> Char] :
          \A i \in 1 .. HashSize : h[i] \in scanHex(s[2 * i - 1], s[2 * i])}

\* UTIL_ToLower
ToLower(s) == [i \in DOMAIN s |-> IF s[i] = Upper THEN Lower ELSE s[i]]

\* string::find
occursIn(sub, s) == \E i \in 0 .. Len(s) - Len(sub) : SubSeq(s, i + 1, i + Len(sub)) = sub

\* string::compare: the sign of the first difference, or of the shorter text.
compare(a, b) ==
  LET at1 == {i \in 0 .. Len(a) : at(a, i) # at(b, i)}
      i == CHOOSE j \in at1 : \A k \in at1 : j <= k
  IN CASE a = b -> 0
       [] a # b /\ at(a, i) < at(b, i) -> -1
       [] OTHER -> 1

-----------------------------------------------------------------------------
(* HTML                                                                    *)

\* The name of an entity, with its semicolon, and the name of the tag br.
entity(c) == <<Ampersand, Terminator - c>>
Br == <<Less, Terminator, Greater>>

Markup == {Less, Greater, Ampersand, Quote}

\* What has been made of the bytes before c, and c.
withByte(out, c) ==
  CASE c \in Markup -> out \o entity(c)
    [] c = LF /\ out # <<>> /\ Last(out) = CR -> Front(out) \o Br
    [] c = LF /\ (out = <<>> \/ Last(out) # CR) -> out \o Br
    [] OTHER -> Append(out, c)

\* UTIL_RemoveHTML
RemoveHTML(s) ==
  LET made[n \in 0 .. Len(s)] == IF n = 0 THEN <<>> ELSE withByte(made[n - 1], s[n])
  IN made[Len(s)]
=============================================================================
