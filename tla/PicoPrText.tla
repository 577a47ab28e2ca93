------------------------------ MODULE PicoPrText ------------------------------
(***************************************************************************)
(* What the text preprocessing (picopr.c) reads out of a token: Roman      *)
(* numbers, values, capital letters, and the comparison that leads the     *)
(* search through the alternatives of a network.  A string is the sequence *)
(* of its characters.                                                      *)
(***************************************************************************)
EXTENDS PicoBase, FiniteSets

CONSTANTS
  PrValues,       \* the function from digits to their values (the graphs table)
  PrNumbers,      \* the numbers tried
  PrRomans,       \* the strings read as Roman numbers
  PrHalf          \* half the range of an integer (2^31)

VARIABLES
  prText  \* the number or the string tried, and what the code makes of it

prTextVars == <<prText>>

PrInt32(v) == ((v + PrHalf) % (2 * PrHalf)) - PrHalf

-----------------------------------------------------------------------------
(***************************************************************************)
(* Strings.                                                                *)
(***************************************************************************)
PrLower(str) == [i \in DOMAIN str |-> base_utf32_lowercase(str[i])]
pr_firstLetterToLowerCase(str) ==
  IF str = <<>> THEN str ELSE <<base_utf32_lowercase(str[1])>> \o Tail(str)
pr_isSUC(str) ==
  \A i \in DOMAIN str :
    IF i = 1 THEN str[i] = base_utf32_uppercase(str[i]) ELSE str[i] = base_utf32_lowercase(str[i])

\* The part of str from position ind (from 0) to the next term.
pr_getTermPartStr(str, ind, term) ==
  LET ends == {i \in ind + 1 .. Len(str) : str[i] = term}
      end == IF ends = {} THEN Len(str) + 1 ELSE CHOOSE i \in ends : \A j \in ends : i <= j
  IN  [part |-> SubSeq(str, ind + 1, end - 1), done |-> ends # {},
       ind |-> IF ends = {} THEN Len(str) ELSE end]
pr_removeSubstring(pos, len, str) ==
  IF pos >= Len(str) THEN str ELSE SubSeq(str, 1, pos) \o SubSeq(str, pos + len + 1, Len(str))

\* What the first place i (from 0) says in which two strings differ.
PrComparedAt(s1, s2, i) ==
  CASE i = Len(s1) /\ i = Len(s2) -> "EQUAL"
    [] i = Len(s1) /\ i < Len(s2) -> "SMALLER"
    [] i < Len(s1) /\ i = Len(s2) -> "LARGER"
    [] OTHER -> IF s1[i + 1] < s2[i + 1] THEN "SMALLER" ELSE "LARGER"
PrSame(s1, s2, n) == n <= Len(s1) /\ n <= Len(s2) /\ SubSeq(s1, 1, n) = SubSeq(s2, 1, n)
PrCompare(s1, s2) ==
  PrComparedAt(s1, s2, CHOOSE n \in 0 .. Len(s1) : PrSame(s1, s2, n) /\ ~PrSame(s1, s2, n + 1))
\* How str1 (in lower case) compares with str2.
pr_compare(str1lc, str2) == PrCompare(str1lc, PrLower(str2))

-----------------------------------------------------------------------------
(***************************************************************************)
(* Numbers.                                                                *)
(***************************************************************************)
pr_int_to_string(n) ==
  LET m == IF n < 0 THEN -n ELSE n
      nr == CHOOSE k \in 0 .. 10 : m < 10 ^ k /\ (k = 0 \/ m >= 10 ^ (k - 1))
      digits == [k \in 1 .. nr |-> 48 + ((m \div (10 ^ (nr - k))) % 10)]
  IN  IF n < 0 THEN <<45>> \o digits ELSE digits

tok_tokenDigitStrToInt(str) ==
  FoldLeft(LAMBDA v, c : IF c \in DOMAIN PrValues THEN PrInt32((10 * v) + PrValues[c])
                         ELSE IF c \in 48 .. 57 THEN PrInt32((10 * v) + c - 48) ELSE v, 0, str)

\* Mutation of PrRomanUnit: nine is read as eleven.
PrRomanUnitAdded(a, unit, five, ten) ==
  LET pair == a.prev # a.act /\ a.seq >= 4 * unit
  IN  CASE pair /\ a.next = five -> [add |-> 4 * unit, skip |-> 1, seq |-> unit]
        [] pair /\ a.next = ten -> [add |-> 11 * unit, skip |-> 1, seq |-> unit]
        [] OTHER -> [add |-> unit, skip |-> 0, seq |-> IF pair THEN 3 * unit ELSE a.seq - unit]

\* One digit of a Roman number: one, five and ten are its letters, unit its value, seq
\* the value up to which what comes next is in order.
PrRomanUnit(a, unit, five, ten) ==
  IF a.prev # a.act /\ a.seq >= 4 * unit
  THEN CASE a.next = five -> [add |-> 4 * unit, skip |-> 1, seq |-> unit]
         [] a.next = ten -> [add |-> 9 * unit, skip |-> 1, seq |-> unit]
         [] OTHER -> [add |-> unit, skip |-> 0, seq |-> 3 * unit]
  ELSE [add |-> unit, skip |-> 0, seq |-> a.seq - unit]
PrRomanFive(unit) == [add |-> 5 * unit, skip |-> 0, seq |-> 5 * unit]

PrRomanBad == [add |-> 0, skip |-> 0, seq |-> -1]
PrRomanLetters(case) ==
  [i |-> 73 + case, v |-> 86 + case, x |-> 88 + case, l |-> 76 + case,
   c |-> 67 + case, d |-> 68 + case, m |-> 77 + case]
PrRomanDigit(L, a) ==
  CASE a.seq > 1 /\ a.act = L.i -> PrRomanUnit(a, 1, L.v, L.x)
    [] a.seq > 5 /\ a.act = L.v -> PrRomanFive(1)
    [] a.seq > 10 /\ a.act = L.x -> PrRomanUnit(a, 10, L.l, L.c)
    [] a.seq > 50 /\ a.act = L.l -> PrRomanFive(10)
    [] a.seq > 100 /\ a.act = L.c -> PrRomanUnit(a, 100, L.d, L.m)
    [] a.seq > 500 /\ a.act = L.d -> PrRomanFive(100)
    [] a.seq >= 1000 /\ a.act = L.m -> [add |-> 1000, skip |-> 0, seq |-> a.seq]
    [] OTHER -> PrRomanBad
PrRomanAdd(r, i, d) ==
  [ok |-> d # PrRomanBad, val |-> r.val + d.add, seq |-> d.seq, upto |-> i + d.skip]
PrRomanSum(str, L) ==
  LET At(i) == IF i \in DOMAIN str THEN str[i] ELSE 0
      Around(r, i) == [act |-> At(i), prev |-> At(i - 1), next |-> At(i + 1), seq |-> r.seq]
      Step(r, i) == IF ~r.ok \/ i <= r.upto THEN r
                    ELSE PrRomanAdd(r, i, PrRomanDigit(L, Around(r, i)))
  IN  FoldLeft(Step, [ok |-> TRUE, val |-> 0, seq |-> 1000, upto |-> 0],
               [i \in DOMAIN str |-> i])
pr_isLatinNumber(str) ==
  LET case == IF str # <<>> /\ str[1] = base_utf32_uppercase(str[1]) THEN 0 ELSE 32
      r == PrRomanSum(str, PrRomanLetters(case))
  IN  [ok |-> r.ok, val |-> r.val]

-----------------------------------------------------------------------------
(***************************************************************************)
(* A number written in Roman letters, in Arabic digits, and read.          *)
(***************************************************************************)
\* n in its standard form.
PrRoman(n) ==
  LET Group(d, one, five, ten) ==
        CASE d = 9 -> <<one, ten>> [] d = 4 -> <<one, five>>
          [] OTHER -> IF d >= 5 THEN <<five>> \o [k \in 1 .. d - 5 |-> one]
                      ELSE [k \in 1 .. d |-> one]
  IN  [k \in 1 .. n \div 1000 |-> 77] \o Group((n \div 100) % 10, 67, 68, 77)
      \o Group((n \div 10) % 10, 88, 76, 67) \o Group(n % 10, 73, 86, 88)

PrTextStart(n, str) ==
  prText = [number |-> n, str |-> str, read |-> [ok |-> FALSE, val |-> 0], done |-> FALSE]
PrTextInit ==
  \/ \E n \in PrNumbers, lower \in BOOLEAN :
       PrTextStart(n, IF n > 0 THEN IF lower THEN PrLower(PrRoman(n)) ELSE PrRoman(n) ELSE <<>>)
  \/ \E str \in PrRomans : PrTextStart(-1, str)

PrRead ==
  /\ ~prText.done
  /\ prText' = [prText EXCEPT !.done = TRUE, !.read = pr_isLatinNumber(prText.str)]

PrTextNext == PrRead
PrTextSpec == PrTextInit /\ [][PrTextNext]_prTextVars

-----------------------------------------------------------------------------
\* Every number that has a Roman form is read as itself, in capitals or not, and its
\* Arabic digits have its value again, which is how the networks speak it; what is read
\* from any other string is never more than its letters are worth added up.
PrRomanRead ==
  LET Worth(c) == CASE c \in {73, 105} -> 1 [] c \in {86, 118} -> 5 [] c \in {88, 120} -> 10
                    [] c \in {76, 108} -> 50 [] c \in {67, 99} -> 100 [] c \in {68, 100} -> 500
                    [] c \in {77, 109} -> 1000 [] OTHER -> 0
  IN  prText.done =>
        /\ prText.number > 0 => prText.read = [ok |-> TRUE, val |-> prText.number]
        /\ prText.read.ok =>
             /\ prText.read.val <= FoldLeft(LAMBDA a, c : a + Worth(c), 0, prText.str)
             /\ tok_tokenDigitStrToInt(pr_int_to_string(prText.read.val)) = prText.read.val
=============================================================================
