------------------------------- MODULE PicoBase -------------------------------
(***************************************************************************)
(* Characters (picobase.c): utf-8 forward and backward, the two case       *)
(* tables, and the conversion of a whole string, which picotok.c and       *)
(* picopr.c apply to a string in place.                                    *)
(*                                                                         *)
(* A string is a sequence of bytes that ends in 0; positions count from 0. *)
(***************************************************************************)
EXTENDS Integers, Sequences, SequencesExt, TLC

CONSTANTS
  BaseStrings,   \* sequences of characters to be converted
  BaseMaxLens    \* the room for the result

VARIABLES
  base   \* what is converted: the characters, the string, reader i and writer k

baseVars == <<base>>

(***************************************************************************)
(* utf-8                                                                   *)
(***************************************************************************)
BaseUtf8Max == 4
picobase_det_utf8_length(b) ==
  CASE b < 128 -> 1 [] b >= 248 -> 0 [] b >= 240 -> 4 [] b >= 224 -> 3
    [] b >= 192 -> 2 [] OTHER -> 0

picobase_utf8_to_utf32(u) ==
  LET Low(i) == u[i] % 64
  IN  CASE u[1] < 128 -> u[1]
        [] u[1] >= 248 -> 0
        [] u[1] >= 240 -> (262144 * (u[1] % 8)) + (4096 * Low(2)) + (64 * Low(3)) + Low(4)
        [] u[1] >= 224 -> (4096 * (u[1] % 16)) + (64 * Low(2)) + Low(3)
        [] u[1] >= 192 -> (64 * (u[1] % 32)) + Low(2)
        [] OTHER -> 0
picobase_utf32_to_utf8(c) ==
  LET Follow(shift) == 128 + ((c \div shift) % 64)
  IN  CASE c < 128 -> <<c>>
        [] c >= 128 /\ c < 2048 -> <<192 + (c \div 64), Follow(1)>>
        [] c >= 2048 /\ c < 65536 -> <<224 + (c \div 4096), Follow(64), Follow(1)>>
        [] c >= 65536 /\ c < 1048576 ->
             <<240 + (c \div 262144), Follow(4096), Follow(64), Follow(1)>>
        [] OTHER -> <<>>
BaseUtf8(chars) == FlattenSeq([i \in DOMAIN chars |-> picobase_utf32_to_utf8(chars[i])])

BaseByte(str, pos) == str[pos + 1]
BaseTake(str, pos, n) == SubSeq(str, pos + 1, pos + n)
BaseAllOf(str, pos, n) == \A j \in 0 .. n - 1 : BaseByte(str, pos + j) # 0

\* The character at pos, cut short by the end of the string.
picobase_get_utf8char(str, pos) ==
  LET len == picobase_det_utf8_length(BaseByte(str, pos))
      Whole(n) == BaseAllOf(str, pos, n) /\ (n = len \/ BaseByte(str, pos + n) = 0)
  IN  BaseTake(str, pos, CHOOSE n \in 0 .. len : Whole(n))
\* The character at pos, or none if it is not whole.
picobase_get_next_utf8char(str, max, pos) ==
  LET len == picobase_det_utf8_length(BaseByte(str, pos))
  IN  IF pos + len <= max /\ BaseAllOf(str, pos, len) THEN BaseTake(str, pos, len) ELSE <<>>
\* The character that ends before pos: the first byte that says so is its start.
BasePrevLen(str, min, pos) ==
  LET Starts(n) == picobase_det_utf8_length(BaseByte(str, pos - n)) = n
      In(n) == pos - n >= min /\ BaseByte(str, pos - n) # 0
      found == {n \in 1 .. BaseUtf8Max :
                  (\A k \in 1 .. n : In(k)) /\ Starts(n) /\ \A k \in 1 .. n - 1 : ~Starts(k)}
  IN  IF pos = 0 \/ found = {} THEN 0 ELSE CHOOSE n \in found : TRUE
picobase_get_prev_utf8char(str, min, pos) ==
  LET n == BasePrevLen(str, min, pos) IN BaseTake(str, pos - n, n)

\* The number of characters, or -1.
picobase_utf8_length(str, max) ==
  LET Byte(a, b) ==
        CASE a.stop \/ b = 0 -> [a EXCEPT !.stop = TRUE]
          [] ~a.stop /\ b # 0 /\ a.follow > 0 ->
               IF b \in 128 .. 191 THEN [a EXCEPT !.follow = @ - 1]
               ELSE [a EXCEPT !.ok = FALSE, !.stop = TRUE]
          [] OTHER ->
               IF picobase_det_utf8_length(b) = 0 THEN [a EXCEPT !.ok = FALSE, !.stop = TRUE]
               ELSE [a EXCEPT !.len = @ + 1, !.follow = picobase_det_utf8_length(b) - 1]
      r == FoldLeft(Byte, [ok |-> TRUE, len |-> 0, follow |-> 0, stop |-> FALSE],
                    SubSeq(str, 1, IF max < Len(str) THEN max ELSE Len(str)))
  IN  IF r.ok THEN r.len ELSE -1

(***************************************************************************)
(* The case tables: <<first, last, every, by>> moves characters by some    *)
(* distance, a pair moves one.                                             *)
(***************************************************************************)
BaseLowerShiftsHigh == <<
  <<7680, 7828, 2, 1>>, <<7840, 7928, 2, 1>>, <<7944, 7951, 1, -8>>, <<7960, 7965, 1, -8>>,
  <<7976, 7983, 1, -8>>, <<7992, 7999, 1, -8>>, <<8008, 8013, 1, -8>>, <<8040, 8047, 1, -8>>,
  <<8072, 8079, 1, -8>>, <<8088, 8095, 1, -8>>, <<8104, 8111, 1, -8>>, <<8025, 8031, 2, -8>>,
  <<8544, 8559, 1, 16>>, <<9398, 9423, 1, 26>>>>
BaseLowerPairsHigh == <<
  <<8120, 8112>>, <<8121, 8113>>, <<8122, 8048>>, <<8123, 8049>>, <<8124, 8115>>, <<8136, 8050>>,
  <<8137, 8051>>, <<8138, 8052>>, <<8139, 8053>>, <<8140, 8131>>, <<8152, 8144>>, <<8153, 8145>>,
  <<8154, 8054>>, <<8155, 8055>>, <<8168, 8160>>, <<8169, 8161>>, <<8170, 8058>>, <<8171, 8059>>,
  <<8172, 8165>>, <<8184, 8056>>, <<8185, 8057>>, <<8186, 8060>>, <<8187, 8061>>, <<8188, 8179>>,
  <<8486, 969>>, <<8490, 107>>, <<8491, 229>>>>
BaseLowerShifts == <<
  <<65, 90, 1, 32>>, <<192, 214, 1, 32>>, <<216, 222, 1, 32>>, <<913, 929, 1, 32>>,
  <<931, 939, 1, 32>>, <<1040, 1071, 1, 32>>, <<256, 302, 2, 1>>, <<306, 310, 2, 1>>,
  <<330, 374, 2, 1>>, <<416, 420, 2, 1>>, <<478, 494, 2, 1>>, <<504, 542, 2, 1>>,
  <<546, 562, 2, 1>>, <<984, 1006, 2, 1>>, <<1120, 1152, 2, 1>>, <<1162, 1214, 2, 1>>,
  <<1232, 1268, 2, 1>>, <<1280, 1294, 2, 1>>, <<313, 327, 2, 1>>, <<377, 381, 2, 1>>,
  <<459, 475, 2, 1>>, <<1217, 1229, 2, 1>>, <<1024, 1039, 1, 80>>, <<1329, 1366, 1, 48>>>>
BaseLowerPairsLatin == <<
  <<304, 105>>, <<376, 255>>, <<385, 595>>, <<386, 387>>, <<388, 389>>, <<390, 596>>,
  <<391, 392>>, <<393, 598>>, <<394, 599>>, <<395, 396>>, <<398, 477>>, <<399, 601>>,
  <<400, 603>>, <<401, 402>>, <<403, 608>>, <<404, 611>>, <<406, 617>>, <<407, 616>>,
  <<408, 409>>, <<412, 623>>, <<413, 626>>, <<415, 629>>, <<422, 640>>, <<423, 424>>,
  <<425, 643>>, <<428, 429>>, <<430, 648>>, <<431, 432>>, <<433, 650>>, <<434, 651>>,
  <<435, 436>>, <<437, 438>>, <<439, 658>>, <<440, 441>>, <<444, 445>>, <<452, 454>>,
  <<453, 454>>, <<455, 457>>, <<456, 457>>, <<458, 460>>, <<497, 499>>, <<498, 499>>,
  <<500, 501>>, <<502, 405>>, <<503, 447>>, <<544, 414>>>>
BaseLowerPairsOther == <<
  <<902, 940>>, <<904, 941>>, <<905, 942>>, <<906, 943>>, <<908, 972>>, <<910, 973>>,
  <<911, 974>>, <<1012, 952>>, <<1015, 1016>>, <<1017, 1010>>, <<1018, 1019>>, <<1272, 1273>>>>
BaseUpperShiftsHigh == <<
  <<7681, 7829, 2, -1>>, <<7841, 7929, 2, -1>>, <<7936, 7943, 1, 8>>, <<7952, 7957, 1, 8>>,
  <<7968, 7975, 1, 8>>, <<7984, 7991, 1, 8>>, <<8000, 8005, 1, 8>>, <<8032, 8039, 1, 8>>,
  <<8064, 8071, 1, 8>>, <<8080, 8087, 1, 8>>, <<8096, 8103, 1, 8>>, <<8017, 8023, 2, 8>>,
  <<8560, 8575, 1, -16>>, <<9424, 9449, 1, -26>>>>
BaseUpperPairsHigh == <<
  <<7835, 7776>>, <<8048, 8122>>, <<8049, 8123>>, <<8050, 8136>>, <<8051, 8137>>, <<8052, 8138>>,
  <<8053, 8139>>, <<8054, 8154>>, <<8055, 8155>>, <<8056, 8184>>, <<8057, 8185>>, <<8058, 8170>>,
  <<8059, 8171>>, <<8060, 8186>>, <<8061, 8187>>, <<8112, 8120>>, <<8113, 8121>>, <<8115, 8124>>,
  <<8126, 921>>, <<8131, 8140>>, <<8144, 8152>>, <<8145, 8153>>, <<8160, 8168>>, <<8161, 8169>>,
  <<8165, 8172>>, <<8179, 8188>>>>
BaseUpperShifts == <<
  <<97, 122, 1, -32>>, <<224, 246, 1, -32>>, <<248, 254, 1, -32>>, <<945, 961, 1, -32>>,
  <<963, 971, 1, -32>>, <<1072, 1103, 1, -32>>, <<257, 303, 2, -1>>, <<307, 311, 2, -1>>,
  <<331, 375, 2, -1>>, <<417, 421, 2, -1>>, <<481, 495, 2, -1>>, <<507, 511, 2, -1>>,
  <<513, 543, 2, -1>>, <<547, 563, 2, -1>>, <<985, 1007, 2, -1>>, <<1121, 1153, 2, -1>>,
  <<1163, 1215, 2, -1>>, <<1233, 1269, 2, -1>>, <<1281, 1295, 2, -1>>, <<314, 328, 2, -1>>,
  <<378, 382, 2, -1>>, <<464, 476, 2, -1>>, <<1218, 1230, 2, -1>>, <<1104, 1119, 1, -80>>,
  <<1377, 1414, 1, -48>>>>
BaseUpperPairsLatin == <<
  <<181, 924>>, <<255, 376>>, <<305, 73>>, <<383, 83>>, <<387, 386>>, <<389, 388>>,
  <<392, 391>>, <<396, 395>>, <<402, 401>>, <<405, 502>>, <<409, 408>>, <<414, 544>>,
  <<424, 423>>, <<429, 428>>, <<432, 431>>, <<436, 435>>, <<438, 437>>, <<441, 440>>,
  <<445, 444>>, <<447, 503>>, <<453, 452>>, <<454, 452>>, <<456, 455>>, <<457, 455>>,
  <<459, 458>>, <<460, 458>>, <<462, 461>>, <<477, 398>>, <<479, 478>>, <<498, 497>>,
  <<499, 497>>, <<501, 500>>, <<505, 504>>, <<595, 385>>, <<596, 390>>, <<598, 393>>,
  <<599, 394>>, <<601, 399>>, <<603, 400>>, <<608, 403>>, <<611, 404>>, <<616, 407>>,
  <<617, 406>>, <<623, 412>>, <<626, 413>>, <<629, 415>>, <<640, 422>>, <<643, 425>>,
  <<648, 430>>, <<650, 433>>, <<651, 434>>, <<658, 439>>, <<837, 921>>>>
BaseUpperPairsOther == <<
  <<940, 902>>, <<941, 904>>, <<942, 905>>, <<943, 906>>, <<962, 931>>, <<972, 908>>,
  <<973, 910>>, <<974, 911>>, <<976, 914>>, <<977, 920>>, <<981, 934>>, <<982, 928>>,
  <<1008, 922>>, <<1009, 929>>, <<1010, 1017>>, <<1013, 917>>, <<1016, 1015>>, <<1019, 1018>>,
  <<1273, 1272>>>>

BaseWide == <<<<65313, 65338, 1, 32>>, <<66560, 66599, 1, 40>>>>
BaseWideUpper == <<<<65345, 65370, 1, -32>>, <<66600, 66639, 1, -40>>>>

BaseShiftMap(shifts) ==
  [c \in UNION {{x \in s[1] .. s[2] : (x - s[1]) % s[3] = 0} : s \in ToSet(shifts)} |->
     c + (CHOOSE s \in ToSet(shifts) : c \in s[1] .. s[2] /\ (c - s[1]) % s[3] = 0)[4]]
BasePairMap(pairs) ==
  [c \in {p[1] : p \in ToSet(pairs)} |-> (CHOOSE p \in ToSet(pairs) : p[1] = c)[2]]
BaseLowerMap ==
  BaseShiftMap(BaseWide \o BaseLowerShiftsHigh \o BaseLowerShifts)
  @@ BasePairMap(BaseLowerPairsHigh \o BaseLowerPairsLatin \o BaseLowerPairsOther)
BaseUpperMap ==
  BaseShiftMap(BaseWideUpper \o BaseUpperShiftsHigh \o BaseUpperShifts)
  @@ BasePairMap(BaseUpperPairsHigh \o BaseUpperPairsLatin \o BaseUpperPairsOther)
\* Mutation of base_utf32_uppercase: the table of pairs is left out.
BaseUppercaseShift(c) ==
  LET map == BaseShiftMap(BaseWideUpper \o BaseUpperShiftsHigh \o BaseUpperShifts)
  IN  IF c \in DOMAIN map THEN map[c] ELSE c
base_utf32_lowercase(c) == IF c \in DOMAIN BaseLowerMap THEN BaseLowerMap[c] ELSE c
base_utf32_uppercase(c) == IF c \in DOMAIN BaseUpperMap THEN BaseUpperMap[c] ELSE c

picobase_is_utf8_uppercase(chars) ==
  \A i \in DOMAIN chars : chars[i] = base_utf32_uppercase(chars[i])
picobase_is_utf8_lowercase(chars) ==
  \A i \in DOMAIN chars : chars[i] = base_utf32_lowercase(chars[i])

(***************************************************************************)
(* picobase_lowercase_utf8_str and picobase_uppercase_utf8_str: in place,  *)
(* what is written is what is read next if the writer is ahead             *)
(***************************************************************************)
BaseConvert(op, c) ==
  IF op = "lower" THEN base_utf32_lowercase(c) ELSE base_utf32_uppercase(c)

BaseStart(chars, op, room) ==
  base = [chars |-> chars, op |-> op, max |-> room, str |-> Append(BaseUtf8(chars), 0),
          i |-> 0, k |-> 0, done |-> FALSE]
BaseInit ==
  \E chars \in BaseStrings, op \in {"lower", "upper"}, room \in BaseMaxLens : BaseStart(chars, op, room)

BaseConvertChar ==
  LET at == picobase_get_utf8char(base.str, base.i)
      to == picobase_utf32_to_utf8(BaseConvert(base.op, picobase_utf8_to_utf32(at)))
      fits == IF base.k + Len(to) <= base.max - 1 THEN Len(to)
              ELSE IF base.max - 1 > base.k THEN base.max - 1 - base.k ELSE 0
  IN  /\ ~base.done /\ BaseByte(base.str, base.i) # 0
      /\ base' = [base EXCEPT
           !.i = @ + Len(at), !.k = @ + fits,
           !.str = [p \in DOMAIN @ |-> IF p - 1 \in base.k .. base.k + fits - 1
                                       THEN to[p - base.k] ELSE @[p]]]
BaseConvertEnd ==
  /\ ~base.done /\ BaseByte(base.str, base.i) = 0
  /\ base' = [base EXCEPT !.str[base.k + 1] = 0, !.done = TRUE]

BaseNext == BaseConvertChar \/ BaseConvertEnd
BaseSpec == BaseInit /\ [][BaseNext]_baseVars

-----------------------------------------------------------------------------
BaseResult == BaseTake(base.str, 0, base.k)
BaseWanted == BaseUtf8([i \in DOMAIN base.chars |-> BaseConvert(base.op, base.chars[i])])

\* A string converted in place becomes what it should, or as much of it as there is
\* room for: the writer never gets ahead of the reader, also where a character and
\* its other case have utf-8 of different lengths.
BaseConvertedInPlace ==
  base.done => /\ IsPrefix(BaseResult, BaseWanted)
               /\ Len(BaseResult) = Len(BaseWanted) \/ Len(BaseResult) = base.max - 1

\* The two tables agree: what is the other case of some character has itself another
\* case, and going there and back again ends where it was.
BaseTablesAgree ==
  \A i \in DOMAIN base.chars :
    LET c == base.chars[i]
        other == BaseConvert(base.op, c)
        back == BaseConvert(IF base.op = "lower" THEN "upper" ELSE "lower", other)
    IN  other # c => back # other /\ BaseConvert(base.op, back) = other

\* Going forward and backward over a string meets the same characters.
BaseWalk ==
  LET str == Append(BaseUtf8(base.chars), 0)
      n == Len(base.chars)
      Start(i) == Len(BaseUtf8(SubSeq(base.chars, 1, i - 1)))
  IN  /\ picobase_utf8_length(str, Len(str)) = n
      /\ \A i \in 1 .. n :
           LET u == picobase_get_next_utf8char(str, Len(str), Start(i))
           IN  /\ picobase_utf8_to_utf32(u) = base.chars[i]
               /\ picobase_get_prev_utf8char(str, 0, Start(i) + Len(u)) = u

\* Text may be taken apart and written in another case, in place.
BaseSound == BaseConvertedInPlace /\ BaseTablesAgree /\ BaseWalk
=============================================================================
