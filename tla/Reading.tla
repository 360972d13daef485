------------------------------ MODULE Reading -------------------------------
(***************************************************************************)
(* How the texts the tracker writes are read: its links and parameters by  *)
(* the tracker itself, its pages by a browser.  A job is one text that is  *)
(* written and read.                                                       *)
(***************************************************************************)
EXTENDS Text

CONSTANT Sample   \* texts

\* An escaped text, up to three times as long, has a size.
ASSUME SampleAssumption == \A s \in Sample : s \in Seq(Char) /\ 3 * Len(s) <= SizeRange

VARIABLE job      \* what is converted, or NoJob

NoJob == [none |-> TRUE]

-----------------------------------------------------------------------------
(* Steps                                                                   *)

ShowText == job = NoJob /\ \E s \in Sample : job' = [text |-> s]

Done == job # NoJob /\ job' = NoJob

TextSpec == job = NoJob /\ [][ShowText \/ Done]_job

-----------------------------------------------------------------------------
(* Correctness                                                             *)

\* How a browser reads what RemoveHTML makes: no byte of the text is markup.
asRead(s) ==
  LET from[n \in 0 .. Len(s) + 3] ==
        CASE n >= Len(s) -> <<>>
          [] n < Len(s) /\ at(s, n) = Ampersand /\ at(s, n + 1) < Terminator ->
               <<Terminator - at(s, n + 1)>> \o from[n + 2]
          [] n + 3 <= Len(s) /\ SubSeq(s, n + 1, n + 3) = Br -> <<LF>> \o from[n + 3]
          [] OTHER -> <<IF at(s, n) \in {Less, Greater, Quote, LF} THEN Terminator
                        ELSE at(s, n)>> \o from[n + 1]
  IN from[0]

\* A line break is written with or without a carriage return.
oneBreak(s) ==
  FlattenSeq([n \in DOMAIN s |-> IF s[n] = CR /\ at(s, n) = LF THEN <<>> ELSE <<s[n]>>])

\* Names, searches, logins and info hashes come back from the pages and links they
\* are put in as they were: the escapes are undone by EscapedToString and the digits
\* by StringToHash, nothing else can be read from them, and no name is markup.
TextsReadBack ==
  \A s \in {job.text : x \in {"text"} \cap DOMAIN job} :
    /\ EscapedToString(StringToEscaped(s)) = {s}
    /\ EscapedToString(StringToEscapedStrict(s)) = {s}
    /\ Len(s) = HashSize => StringToHash(HashToString(s)) = {s}
    /\ asRead(RemoveHTML(s)) = oneBreak(s)
=============================================================================
