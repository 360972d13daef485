------------------------------- MODULE Sorting -------------------------------
(***************************************************************************)
(* The comparison functions of the pages (sort.cpp) and qsort, which puts  *)
(* the rows of a page in order.  A row is a record; the comparison of its  *)
(* field depends on the type: texts and 64 bit numbers are compared, the   *)
(* difference of two unsigned numbers is returned as a signed one.         *)
(***************************************************************************)
EXTENDS Text

CONSTANTS
  IntRange,   \* values of an int
  Infinite,   \* the share ratio of a peer that downloaded nothing: -1.0
  Tolerance   \* share ratios that differ by no more are equal

ASSUME ToleranceAssumption == Tolerance \in Nat
ASSUME IntRangeAssumption == IntRange \in Nat \ {0} /\ IntRange % 2 = 0

\* Conversions to int and to unsigned int.
int(n) == LET m == n % IntRange IN IF 2 * m < IntRange THEN m ELSE m - IntRange
unsigned(n) == n % IntRange

TextField ==
  {"strLowerName", "strAdded", "strTag", "strUploader", "strLowerLogin", "strLowerMail",
   "strCreated"}

UnsignedField ==
  {"iSeeders", "iLeechers", "iFiles", "iComments", "iAverageLeftPercent", "iCompleted",
   "iAccess", "iConnected"}

LongField ==
  {"iSize", "iAverageLeft", "iTransferred", "iUpped", "iDowned", "iLeft"}

threeWay(a, b) == IF a < b THEN -1 ELSE IF a > b THEN 1 ELSE 0

\* A share ratio is a number of steps so small that no two differ by 0.001 exactly.
close(a, b) == a - b \in -Tolerance .. Tolerance

\* asortpByShareRatio and dsortpByShareRatio
byShareRatio(a, b) ==
  CASE close(a, b) -> 0
    [] ~close(a, b) /\ close(a, Infinite) -> 1
    [] ~close(a, b) /\ ~close(a, Infinite) /\ close(b, Infinite) -> -1
    [] OTHER -> threeWay(a, b)

byField(f, a, b) ==
  CASE f \in TextField -> compare(a[f], b[f])
    [] f \in UnsignedField -> int(a[f] - b[f])
    [] f \in LongField -> threeWay(a[f], b[f])
    [] OTHER -> byShareRatio(a[f], b[f])

\* The function for field f in ascending (asort...) or in descending order.
asort(f) == [field |-> f, up |-> TRUE]
dsort(f) == [field |-> f, up |-> FALSE]

order(by, a, b) == IF by.up THEN byField(by.field, a, b) ELSE byField(by.field, b, a)

\* Rows whose unsigned numbers are so close that their differences are what they seem.
comparable(rows) ==
  \A r, s \in rows, f \in UnsignedField : f \in DOMAIN r => 2 * (r[f] - s[f]) < IntRange

\* row is put behind the last of the sorted rows that it is not before.
inserted(sorted, row, by) ==
  LET last == Max({0} \cup {n \in DOMAIN sorted : order(by, sorted[n], row) <= 0})
  IN InsertAt(sorted, last + 1, row)

\* qsort, where equal rows keep their order, as the C library's merge sort does.  Of
\* rows the comparison does not put in an order it makes some permutation.
qsort(rows, by) ==
  LET sorted[n \in 0 .. Len(rows)] ==
        IF n = 0 THEN <<>> ELSE inserted(sorted[n - 1], rows[n], by)
  IN sorted[Len(rows)]
=============================================================================
