---------------------------- MODULE PicoSaProofs ----------------------------
(***************************************************************************)
(* What sentence analysis says is what it was told: every item once and in *)
(* its order, words decided, made into phones, divided into syllables and  *)
(* passed through the transducers as the lingware answered.  The invariant *)
(* has one part for each of these, and a step lemma for each part and      *)
(* action.                                                                 *)
(***************************************************************************)
EXTENDS PicoSa, PicoInduction, TLAPS

-----------------------------------------------------------------------------
(* Types: what each field holds in each phase. *)

SaFieldNames ==
  {"case", "phase", "inspaceok", "needsmoreitems", "headx", "cbuf1", "cbuf2", "i", "prevout",
   "val", "last", "count", "phones", "outs", "phon", "passed", "transduced", "curFst", "bufOut",
   "tmp", "said"}

SaToldNames == {"phrase", "asked", "outs", "g2p", "made", "said", "lost"}
SaItemNames == {"id", "type", "info1", "info2", "data"}

\* An item of the phrase has its fields and contents of its kind.
SaHeld(item) ==
  /\ DOMAIN item = SaItemNames /\ item.id \in Nat
  /\ IF item.type = "WORDINDEX" THEN item.data \in Seq(SaEntry) /\ item.data # <<>>
     ELSE item.data \in Seq(STRING)

SaAnswerable(item) ==
  item.type = "WORDGRAPH" => \A k \in 1 .. Len(item.data) : item.data[k] \in DOMAIN SaG2pAnswers

SaAllHeld(headx) ==
  /\ Listed(headx)
  /\ \A k \in 1 .. Len(headx) : SaHeld(headx[k]) /\ SaAnswerable(headx[k])

SaInWord(x) == x.phase \in {"FST", "FEED"}
SaTyped(x) ==
  /\ DOMAIN x = SaFieldNames /\ x.case \in SaTexts
  /\ x.phase \in {"COLLECT", "POSD", "DISAMB", "WPHO", "G2P", "PARSE", "FST", "FEED"}
  /\ SaAllHeld(x.headx)
  /\ SaInWord(x) => SaHeld(x.tmp)
  /\ x.phase \in {"DISAMB", "WPHO", "G2P"} => x.i \in 1 .. Len(x.headx) + 1
  /\ x.cbuf2 \in 0 .. SaMaxCbuf
  /\ x.phase = "G2P" =>
       /\ x.i <= Len(x.headx) /\ x.headx[x.i].type = "WORDGRAPH"
       /\ x.count \in 0 .. Len(x.headx[x.i].data)
       /\ x.phones \in Seq(STRING) /\ Len(x.phones) <= SaMaxCbuf - x.cbuf2

SaTypes ==
  /\ SaTyped(sa) /\ DOMAIN saTold = SaToldNames /\ saResets \in Nat

\* What is still to be fed: the items behind the first c.
SaRest(x, in, c) == c \in 0 .. Len(x.case.items) /\ in = SubSeq(x.case.items, c + 1, Len(x.case.items))
SaFeeding == \E c \in 0 .. Len(sa.case.items) : SaRest(sa, saIn, c)

LEMMA SaHeadIs ==
  ASSUME NEW x, x.case \in SaTexts, NEW in, NEW c, SaRest(x, in, c), in # <<>>
  PROVE  /\ SaRest(x, Tail(in), c + 1) /\ Head(in) = x.case.items[c + 1] /\ SaKnown(Head(in))
         /\ c + 1 \in 1 .. Len(x.case.items)
<1>1. PICK R, s : R = {x.case.items[k] : k \in DOMAIN x.case.items} /\ s = x.case.items OBVIOUS
<1>2. s \in Seq(R) /\ \A k \in DOMAIN s : SaKnown(s[k]) BY <1>1, SaAssumption
<1>3. c \in 0 .. Len(s) /\ in = SubSeq(s, c + 1, Len(s)) BY <1>1 DEF SaRest
<1>4. c < Len(s) BY <1>2, <1>3
<1>5. Head(in) = s[c + 1] /\ Tail(in) = SubSeq(s, c + 2, Len(s)) BY <1>2, <1>3, <1>4
<1> QED BY <1>1, <1>2, <1>3, <1>4, <1>5 DEF SaRest

LEMMA SaConvertedHeld ==
  ASSUME NEW item, SaKnown(item)
  PROVE  /\ SaHeld(SaConverted(item)) /\ SaAnswerable(SaConverted(item))
         /\ SaConverted(item).id = item.id
         /\ SaIsWord(SaConverted(item)) => SaConverted(item).info1 # SaEps
<1> PICK conv : conv = SaConverted(item) OBVIOUS
<1>1. SaHeld(item) /\ SaAnswerable(item) /\ (SaIsWord(item) => item.info1 # SaEps)
  BY DEF SaKnown, SaHeld, SaAnswerable, SaItemNames
<1>2. CASE item.type = "CMD" /\ item.info1 = "FLUSH"
  <2>1. conv = [item EXCEPT !.type = "PUNC", !.data = <<>>] BY <1>2, Zenon DEF SaConverted
  <2> QED BY <1>1, <2>1 DEF SaHeld, SaAnswerable, SaItemNames, SaIsWord
<1>3. CASE item.type = "CMD" /\ item.info1 = "PHONEME" /\ item.info2 = "START"
  <2> PICK ends : ends = {k \in DOMAIN item.data : item.data[k] = SaWordsep} OBVIOUS
  <2> PICK data : data = IF ends = {} THEN item.data ELSE SubSeq(item.data, 1, Min(ends) - 1)
    OBVIOUS
  <2>1. conv = [item EXCEPT !.type = "WORDPHON", !.info1 = "XX", !.info2 = "NA",
                            !.data = IF ends = {} THEN @ ELSE SubSeq(@, 1, Min(ends) - 1)]
    <3>1. ~(item.type = "CMD" /\ item.info1 = "FLUSH") BY <1>3
    <3> QED BY <1>3, <3>1, Zenon DEF SaConverted
  <2>2. item.data \in Seq(STRING) BY <1>1, <1>3 DEF SaHeld
  <2>3. data \in Seq(STRING)
    <3>1. CASE ends # {}
      <4>1. ends \subseteq Nat BY <2>2
      <4>2. Min(ends) \in ends BY <3>1, <4>1, MinOf
      <4>3. Min(ends) - 1 \in Nat /\ Min(ends) - 1 <= Len(item.data) BY <2>2, <4>2
      <4>4. SubSeq(item.data, 1, Min(ends) - 1) \in Seq(STRING) BY <2>2, <4>3, FirstOf
      <4> QED BY <3>1, <4>4
    <3> QED BY <2>2, <3>1
  <2>4. conv = [item EXCEPT !.type = "WORDPHON", !.info1 = "XX", !.info2 = "NA", !.data = data]
    BY <2>1
  <2> QED BY <1>1, <2>3, <2>4 DEF SaHeld, SaAnswerable, SaItemNames, SaIsWord, SaEps
<1>4. CASE ~(item.type = "CMD" /\ item.info1 = "FLUSH")
           /\ ~(item.type = "CMD" /\ item.info1 = "PHONEME" /\ item.info2 = "START")
  <2>1. conv = item BY <1>4, Zenon DEF SaConverted
  <2> QED BY <1>1, <2>1
<1> QED BY <1>2, <1>3, <1>4

\* One item more, one less, and one that is another.
LEMMA SaHeldMore ==
  ASSUME NEW h, SaAllHeld(h), NEW item, SaHeld(item), SaAnswerable(item)
  PROVE  SaAllHeld(Append(h, item))
BY ListedAppend, ListedLen DEF SaAllHeld

LEMMA SaHeldLess ==
  ASSUME NEW h, SaAllHeld(h), h # <<>>
  PROVE  SaAllHeld(Tail(h)) /\ SaHeld(Head(h)) /\ SaAnswerable(Head(h))
<1>1. Listed(h) /\ Len(h) \in Nat \ {0} BY ListedLen DEF SaAllHeld
<1>2. /\ Listed(Tail(h)) /\ Len(Tail(h)) = Len(h) - 1 /\ Head(h) = h[1]
      /\ \A i \in 1 .. Len(h) - 1 : Tail(h)[i] = h[i + 1]
  BY <1>1, ListedTail
<1> QED BY <1>1, <1>2 DEF SaAllHeld

LEMMA SaHeldOther ==
  ASSUME NEW h, SaAllHeld(h), NEW i \in 1 .. Len(h), NEW item, SaHeld(item), SaAnswerable(item)
  PROVE  /\ SaAllHeld([h EXCEPT ![i] = item]) /\ Len([h EXCEPT ![i] = item]) = Len(h)
         /\ \A k \in 1 .. Len(h) : [h EXCEPT ![i] = item][k] = IF k = i THEN item ELSE h[k]
<1>1. PICK n \in Nat : h = [k \in 1 .. n |-> h[k]] BY DEF SaAllHeld, Listed
<1>2. Len(h) = n BY <1>1
<1>3. PICK g : g = [h EXCEPT ![i] = item] OBVIOUS
<1>4. g = [k \in 1 .. n |-> IF k = i THEN item ELSE h[k]] BY <1>1, <1>3
<1>5. Len(g) = n /\ g = [k \in 1 .. n |-> g[k]] BY <1>4
<1>6. Listed(g) BY <1>5 DEF Listed
<1> QED BY <1>2, <1>3, <1>4, <1>5, <1>6 DEF SaAllHeld

\* What a field of the unit or of its history is once it is set.
LEMMA SaSelectedHeld ==
  ASSUME NEW item, SaHeld(item), SaAnswerable(item), NEW class
  PROVE  LET j == [item EXCEPT !.info1 = class, !.data = SaSelected(item, class)]
         IN  SaHeld(j) /\ SaAnswerable(j) /\ j.id = item.id /\ j.type = item.type
<1> PICK data : data = SaSelected(item, class) OBVIOUS
<1>1. IF item.type = "WORDINDEX" THEN data \in Seq(SaEntry) /\ data # <<>> ELSE data = item.data
  <2>1. CASE item.type = "WORDINDEX"
    <3> PICK fits : fits = {k \in DOMAIN item.data :
                              picoktab_isPartOfPosGroup(class, item.data[k].pos)} OBVIOUS
    <3>1. item.data \in Seq(SaEntry) /\ item.data # <<>> /\ fits \subseteq 1 .. Len(item.data)
      BY <2>1 DEF SaHeld
    <3>2. (IF fits = {} THEN 1 ELSE Min(fits)) \in 1 .. Len(item.data)
      <4>1. fits \subseteq Nat BY <3>1
      <4>2. fits # {} => Min(fits) \in fits BY <4>1, MinOf
      <4> QED BY <3>1, <4>2
    <3>3. data = <<item.data[IF fits = {} THEN 1 ELSE Min(fits)]>>
      BY <2>1, Zenon DEF SaSelected
    <3> PICK k : k = IF fits = {} THEN 1 ELSE Min(fits) OBVIOUS
    <3> PICK e : e = item.data[k] OBVIOUS
    <3>4. k \in 1 .. Len(item.data) BY <3>2
    <3>5. e \in SaEntry BY ONLY <3>1, <3>4, e = item.data[k]
    <3>6. data = <<e>> BY <3>3
    <3> QED BY <2>1, <3>5, <3>6
  <2>2. CASE item.type # "WORDINDEX"
    <3>1. data = item.data BY <2>2, Zenon DEF SaSelected
    <3> QED BY <2>2, <3>1
  <2> QED BY <2>1, <2>2
<1> QED BY <1>1 DEF SaHeld, SaAnswerable, SaItemNames

LEMMA SaCopiedHeld ==
  ASSUME NEW item, SaHeld(item), SaAnswerable(item), item.type # "WORDGRAPH", SaRoom \in Nat
  PROVE  /\ SaHeld(SaCopied(item)) /\ SaAnswerable(SaCopied(item)) /\ SaCopied(item).id = item.id
         /\ Len(SaCopied(item).data) \in 0 .. SaRoom
         /\ SaCopied(item).type # "WORDINDEX" /\ SaCopied(item).data \in Seq(STRING)
<1> PICK room \in Nat : room = SaRoom OBVIOUS
<1> PICK data : data = IF item.type = "WORDINDEX" THEN item.data[1].phon ELSE item.data OBVIOUS
<1>1. data \in Seq(STRING)
  <2>1. CASE item.type = "WORDINDEX"
    <3>1. item.data \in Seq(SaEntry) /\ item.data # <<>> BY <2>1 DEF SaHeld
    <3>2. item.data[1] \in SaEntry BY <3>1
    <3> QED BY <2>1, <3>2 DEF SaEntry
  <2> QED BY <2>1 DEF SaHeld
<1> PICK m : m = Min({Len(data), room}) OBVIOUS
<1>2. m \in 0 .. Len(data) /\ m <= room
  <2>1. Len(data) \in Nat BY <1>1
  <2>2. {Len(data), room} \in SUBSET Nat /\ {Len(data), room} # {} BY <2>1
  <2>3. m \in {Len(data), room} /\ \A y \in {Len(data), room} : m <= y BY <2>2, MinOf
  <2> QED BY <2>1, <2>3
<1> PICK cut : cut = SubSeq(data, 1, m) OBVIOUS
<1>3. cut \in Seq(STRING) /\ Len(cut) = m
  <2>1. m \in Nat /\ m <= Len(data) BY <1>1, <1>2
  <2> QED BY <1>1, <2>1, FirstOf
<1>4. SaCopied(item) = [item EXCEPT !.type = IF @ = "WORDINDEX" THEN "WORDPHON" ELSE @, !.data = cut]
  BY Zenon DEF SaCopied
<1> PICK type : type = IF item.type = "WORDINDEX" THEN "WORDPHON" ELSE item.type OBVIOUS
<1>5. SaCopied(item) = [item EXCEPT !.type = type, !.data = cut] BY <1>4
<1> PICK c : c = SaCopied(item) OBVIOUS
<1>6. /\ DOMAIN c = SaItemNames /\ c.id = item.id /\ c.type = type /\ c.data = cut
  BY <1>5 DEF SaHeld, SaItemNames
<1>7. item.id \in Nat /\ type # "WORDINDEX" /\ type # "WORDGRAPH" BY DEF SaHeld
<1>8. SaHeld(c) /\ SaAnswerable(c) BY <1>3, <1>6, <1>7 DEF SaHeld, SaAnswerable
<1>9. Len(c.data) \in 0 .. room /\ c.type # "WORDINDEX" /\ c.data \in Seq(STRING)
  BY ONLY <1>1, <1>2, <1>3, <1>6, <1>7, room \in Nat
<1> QED BY <1>6, <1>8, <1>9

LEMMA SaAddedIs ==
  ASSUME NEW phones \in Seq(STRING), NEW more \in Seq(STRING), SaRoom \in Nat, Len(phones) <= SaRoom
  PROVE  SaAdded(phones, more) \in Seq(STRING) /\ Len(SaAdded(phones, more)) <= SaRoom
<1> PICK room, n, m : room = SaRoom /\ n = Len(phones) /\ m = Len(more) OBVIOUS
<1>0. room \in Nat /\ n \in Nat /\ m \in Nat /\ n <= room OBVIOUS
<1> PICK k : k = Min({m, room - n}) OBVIOUS
<1>1. k \in 0 .. m /\ k + n <= room
  <2>1. {m, room - n} \in SUBSET Nat /\ {m, room - n} # {} BY <1>0
  <2>2. k \in {m, room - n} /\ \A y \in {m, room - n} : k <= y BY <2>1, MinOf
  <2> QED BY ONLY <1>0, <2>2
<1> PICK a : a = m - k + 1 OBVIOUS
<1>2. k \in Nat /\ a \in Nat \ {0} /\ (IF a <= m THEN m - a + 1 ELSE 0) = k
  BY ONLY <1>0, <1>1, a = m - k + 1
<1> PICK cut : cut = SubSeq(more, a, m) OBVIOUS
<1>3. cut \in Seq(STRING) /\ Len(cut) = k
  <2>1. m <= Len(more) BY <1>0
  <2>2. a \in Nat \ {0} /\ m \in Nat BY <1>0, <1>2
  <2>3. cut \in Seq(STRING) /\ Len(cut) = IF a <= m THEN m - a + 1 ELSE 0
    BY ONLY <2>1, <2>2, more \in Seq(STRING), cut = SubSeq(more, a, m), PartOf
  <2> QED BY ONLY <1>2, <2>3
<1>4. SaAdded(phones, more) = cut \o phones BY Zenon DEF SaAdded
<1>5. cut \o phones \in Seq(STRING) /\ Len(cut \o phones) = k + n
  BY ONLY <1>3, phones \in Seq(STRING), n = Len(phones)
<1> QED BY <1>0, <1>1, <1>4, <1>5

LEMMA SaTypesCollect == ASSUME SaTypes, SaFeeding, SaCollect PROVE SaTypes'
<1> PICK c \in 0 .. Len(sa.case.items) : SaRest(sa, saIn, c) BY DEF SaFeeding
<1>0. sa.case \in SaTexts /\ saIn # <<>> BY DEF SaTypes, SaTyped, SaCollect
<1> PICK item, conv : item = Head(saIn) /\ conv = SaConverted(item) OBVIOUS
<1>1. SaHeld(conv) /\ SaAnswerable(conv)
  <2>1. SaKnown(item) BY <1>0, SaHeadIs
  <2> QED BY <2>1, SaConvertedHeld
<1>2. \/ UNCHANGED sa /\ DOMAIN saTold' = DOMAIN saTold
      \/ \E b1, b2 \in BOOLEAN : \E n :
           /\ sa' = [sa EXCEPT !.headx = Append(@, conv), !.needsmoreitems = b1, !.inspaceok = b2,
                               !.cbuf1 = @ + n]
           /\ UNCHANGED saTold
  BY DEF SaCollect
<1>3. sa.phase = "COLLECT" /\ saResets' = saResets BY DEF SaCollect
<1>4. CASE UNCHANGED sa /\ DOMAIN saTold' = DOMAIN saTold
  BY <1>3, <1>4 DEF SaTypes
<1>5. ASSUME NEW b1 \in BOOLEAN, NEW b2 \in BOOLEAN, NEW n, UNCHANGED saTold,
             sa' = [sa EXCEPT !.headx = Append(@, conv), !.needsmoreitems = b1, !.inspaceok = b2,
                               !.cbuf1 = @ + n]
      PROVE  SaTypes'
  <2>1. SaAllHeld(Append(sa.headx, conv)) BY <1>1, SaHeldMore DEF SaTypes, SaTyped
  <2> QED BY <1>3, <1>5, <2>1 DEF SaTypes, SaTyped, SaFieldNames, SaInWord
<1> QED BY <1>2, <1>4, <1>5

LEMMA SaTypesCollected == ASSUME SaTypes, SaCollected PROVE SaTypes'
<1> PICK h : h = IF sa.needsmoreitems THEN Append(sa.headx, SaForced) ELSE sa.headx OBVIOUS
<1>1. /\ sa.phase = "COLLECT" /\ saResets' = saResets
      /\ sa' = [sa EXCEPT !.phase = "POSD", !.needsmoreitems = FALSE, !.headx = h]
      /\ DOMAIN saTold' = DOMAIN saTold
  BY DEF SaCollected
<1>2. SaHeld(SaForced) /\ SaAnswerable(SaForced)
  BY DEF SaForced, SaHeld, SaAnswerable, SaItemNames
<1>3. SaAllHeld(h) BY <1>2, SaHeldMore DEF SaTypes, SaTyped
<1> QED BY <1>1, <1>3 DEF SaTypes, SaTyped, SaFieldNames, SaInWord

LEMMA SaTypesDisambBegin == ASSUME SaTypes, SaDisambBegin PROVE SaTypes'
<1> PICK words : words = {k \in DOMAIN sa.headx : SaIsWord(sa.headx[k])} OBVIOUS
<1> PICK first : first = Min(words) OBVIOUS
<1>1. /\ sa.phase = "POSD" /\ saResets' = saResets /\ saTold' = saTold
      /\ \E val, last :
           sa' = IF words = {} THEN [sa EXCEPT !.phase = "WPHO", !.i = 1]
                 ELSE [sa EXCEPT !.phase = "DISAMB", !.i = first, !.prevout = SaZero,
                                 !.val = val, !.last = last]
  BY Zenon DEF SaDisambBegin
<1> PICK val, last : sa' = IF words = {} THEN [sa EXCEPT !.phase = "WPHO", !.i = 1]
                 ELSE [sa EXCEPT !.phase = "DISAMB", !.i = first, !.prevout = SaZero,
                                 !.val = val, !.last = last]
  BY <1>1
<1>2. Len(sa.headx) \in Nat /\ DOMAIN sa.headx = 1 .. Len(sa.headx)
  BY ListedLen DEF SaTypes, SaTyped, SaAllHeld
<1>3. words # {} => first \in 1 .. Len(sa.headx)
  <2>1. words \subseteq Nat BY <1>2
  <2> QED BY <1>2, <2>1, MinOf
<1> QED BY <1>1, <1>2, <1>3 DEF SaTypes, SaTyped, SaFieldNames, SaInWord

LEMMA SaTypesDisambOther == ASSUME SaTypes, SaDisambOther PROVE SaTypes'
<1>1. Len(sa.headx) \in Nat BY ListedLen DEF SaTypes, SaTyped, SaAllHeld
<1> QED BY <1>1 DEF SaTypes, SaTyped, SaFieldNames, SaInWord, SaDisambOther

LEMMA SaTypesDisambEnd == ASSUME SaTypes, SaDisambEnd PROVE SaTypes'
<1>1. Len(sa.headx) \in Nat BY ListedLen DEF SaTypes, SaTyped, SaAllHeld
<1> QED BY <1>1 DEF SaTypes, SaTyped, SaFieldNames, SaInWord, SaDisambEnd

\* A word goes by: it is decided already, or the tree is asked.
SaMoved(right, item) ==
  [sa EXCEPT !.val = [SaShifted(right.val) EXCEPT ![4] = item.info1], !.last = right.at, !.i = @ + 1]

SaPassedBy(right, item) ==
  \/ /\ sa' = [SaMoved(right, item) EXCEPT !.prevout = item.info1]
     /\ saTold' = [saTold EXCEPT !.outs = Append(@, item.info1)]
  \/ \E class, out :
       /\ sa' = [SaMoved(right, item) EXCEPT !.prevout = out,
                   !.headx[sa.i] = [item EXCEPT !.info1 = class, !.data = SaSelected(item, class)]]
       /\ saTold' = [saTold EXCEPT !.outs = Append(@, out),
                                   !.asked = Append(@, [at |-> sa.i, val |-> SaShifted(right.val)])]

LEMMA SaDisambWordIs ==
  ASSUME SaDisambWord
  PROVE  /\ sa.phase = "DISAMB" /\ sa.i <= Len(sa.headx) /\ SaIsWord(sa.headx[sa.i])
         /\ SaPassedBy(saPosDItemSeqGetPosRight(sa.last), sa.headx[sa.i])
         /\ saIn' = saIn /\ saOut' = saOut /\ saResets' = saResets
<1>1. /\ sa.phase = "DISAMB" /\ sa.i <= Len(sa.headx) /\ SaIsWord(sa.headx[sa.i])
      /\ saIn' = saIn /\ saOut' = saOut /\ saResets' = saResets
  BY DEF SaDisambWord
<1>2. SaPassedBy(saPosDItemSeqGetPosRight(sa.last), sa.headx[sa.i])
  BY Zenon DEF SaDisambWord, SaPassedBy, SaMoved
<1> QED BY <1>1, <1>2

LEMMA SaHeadxLen == ASSUME SaTypes PROVE /\ Len(sa.headx) \in Nat /\ DOMAIN sa.headx = 1 .. Len(sa.headx)
                                         /\ Listed(sa.headx) /\ SaRoom \in Nat
BY ListedLen, SaAssumption DEF SaTypes, SaTyped, SaAllHeld, SaRoom

LEMMA SaTypesDisambWord == ASSUME SaTypes, SaDisambWord PROVE SaTypes'
<1> PICK right : right = saPosDItemSeqGetPosRight(sa.last) OBVIOUS
<1> PICK item : item = sa.headx[sa.i] OBVIOUS
<1> PICK m : m = SaMoved(right, item) OBVIOUS
<1>1. /\ sa.phase = "DISAMB" /\ sa.i <= Len(sa.headx) /\ SaPassedBy(right, item)
      /\ saResets' = saResets
  BY SaDisambWordIs
<1>2. sa.i \in 1 .. Len(sa.headx) /\ Len(sa.headx) \in Nat /\ SaHeld(item) /\ SaAnswerable(item)
  BY <1>1, SaHeadxLen DEF SaTypes, SaTyped, SaAllHeld
<1>3. /\ DOMAIN m = SaFieldNames /\ m.case = sa.case /\ m.phase = sa.phase /\ m.headx = sa.headx
      /\ m.cbuf2 = sa.cbuf2 /\ m.i = sa.i + 1
  BY DEF SaMoved, SaTypes, SaTyped, SaFieldNames
<1>4. CASE /\ sa' = [SaMoved(right, item) EXCEPT !.prevout = item.info1]
           /\ saTold' = [saTold EXCEPT !.outs = Append(@, item.info1)]
  <2>1. sa' = [m EXCEPT !.prevout = item.info1] /\ DOMAIN saTold' = SaToldNames
    BY <1>4 DEF SaTypes
  <2> QED BY <1>1, <1>2, <1>3, <2>1 DEF SaTypes, SaTyped, SaFieldNames, SaInWord
<1>5. ASSUME NEW class, NEW out,
             /\ sa' = [SaMoved(right, item) EXCEPT !.prevout = out,
                         !.headx[sa.i] = [item EXCEPT !.info1 = class, !.data = SaSelected(item, class)]]
             /\ saTold' = [saTold EXCEPT !.outs = Append(@, out),
                  !.asked = Append(@, [at |-> sa.i, val |-> SaShifted(right.val)])]
      PROVE  SaTypes'
  <2> PICK j : j = [item EXCEPT !.info1 = class, !.data = SaSelected(item, class)] OBVIOUS
  <2> PICK h : h = [sa.headx EXCEPT ![sa.i] = j] OBVIOUS
  <2>1. SaHeld(j) /\ SaAnswerable(j) BY <1>2, SaSelectedHeld
  <2>2. SaAllHeld(h) /\ Len(h) = Len(sa.headx)
    BY <1>2, <2>1, SaHeldOther DEF SaTypes, SaTyped
  <2>3. sa' = [m EXCEPT !.prevout = out, !.headx[sa.i] = j] BY <1>5
  <2>4. sa' = [m EXCEPT !.prevout = out, !.headx = h] BY <1>3, <2>3 DEF SaFieldNames
  <2>5. DOMAIN saTold' = SaToldNames BY <1>5 DEF SaTypes
  <2> QED BY ONLY <1>1, <1>2, <1>3, <2>2, <2>4, <2>5, SaTypes DEF SaTypes, SaTyped, SaFieldNames, SaInWord
<1> QED BY <1>1, <1>4, <1>5 DEF SaPassedBy

LEMMA SaTypesMadeAs ==
  ASSUME SaTypes, sa.phase \in {"WPHO", "G2P"}, sa.i <= Len(sa.headx), NEW item, SaHeld(item),
         SaAnswerable(item), Len(item.data) \in 0 .. SaRoom, SaMadeAs(item), saResets' = saResets
  PROVE  SaTypes'
<1> PICK h : h = [sa.headx EXCEPT ![sa.i] = item] OBVIOUS
<1> PICK n : n = Len(item.data) OBVIOUS
<1>1. Len(sa.headx) \in Nat /\ sa.i \in 1 .. Len(sa.headx)
  BY SaHeadxLen DEF SaTypes, SaTyped
<1>2. SaAllHeld(h) /\ Len(h) = Len(sa.headx) BY <1>1, SaHeldOther DEF SaTypes, SaTyped
<1>3. sa' = [sa EXCEPT !.headx[sa.i] = item, !.cbuf2 = @ + n, !.i = @ + 1, !.phase = "WPHO"]
      /\ DOMAIN saTold' = SaToldNames
  BY DEF SaMadeAs, SaTypes
<1>4. sa' = [sa EXCEPT !.headx = h, !.cbuf2 = @ + n, !.i = @ + 1, !.phase = "WPHO"]
  BY <1>3 DEF SaTypes, SaTyped, SaFieldNames
<1>5. sa.cbuf2 + n \in 0 .. SaMaxCbuf BY SaAssumption DEF SaRoom, SaTypes, SaTyped
<1>6. /\ DOMAIN sa' = SaFieldNames /\ sa'.case = sa.case /\ sa'.phase = "WPHO" /\ sa'.headx = h
      /\ sa'.cbuf2 = sa.cbuf2 + n /\ sa'.i = sa.i + 1
  BY ONLY <1>4, SaTypes DEF SaTypes, SaTyped, SaFieldNames
<1>7. SaTyped(sa)' BY ONLY <1>1, <1>2, <1>5, <1>6, SaTypes DEF SaTypes, SaTyped, SaInWord
<1> QED BY ONLY <1>3, <1>7, SaTypes, saResets' = saResets DEF SaTypes

LEMMA SaTypesWphoCopy == ASSUME SaTypes, SaWphoCopy PROVE SaTypes'
<1>1. /\ sa.phase = "WPHO" /\ sa.i <= Len(sa.headx) /\ SaItem.type # "WORDGRAPH"
      /\ SaMadeAs(SaCopied(SaItem)) /\ saResets' = saResets
  BY DEF SaWphoCopy
<1>2. SaHeld(SaItem) /\ SaAnswerable(SaItem) /\ SaRoom \in Nat
  BY <1>1, SaHeadxLen DEF SaTypes, SaTyped, SaAllHeld, SaItem
<1>3. /\ SaHeld(SaCopied(SaItem)) /\ SaAnswerable(SaCopied(SaItem))
      /\ Len(SaCopied(SaItem).data) \in 0 .. SaRoom
  BY <1>1, <1>2, SaCopiedHeld
<1> QED BY <1>1, <1>3, SaTypesMadeAs

LEMMA SaTypesWphoGraph == ASSUME SaTypes, SaWphoGraph PROVE SaTypes'
<1> PICK n : n = Len(SaItem.data) OBVIOUS
<1>1. /\ sa.phase = "WPHO" /\ sa.i <= Len(sa.headx) /\ sa.headx[sa.i].type = "WORDGRAPH"
      /\ sa' = [sa EXCEPT !.phase = "G2P", !.count = n, !.phones = <<>>, !.outs = <<>>]
      /\ saResets' = saResets /\ saTold' = saTold
  BY DEF SaWphoGraph, SaItem
<1>2. SaHeld(sa.headx[sa.i]) /\ SaRoom \in Nat
  BY <1>1, SaHeadxLen DEF SaTypes, SaTyped, SaAllHeld
<1>3. n \in Nat /\ n = Len(sa.headx[sa.i].data) BY <1>1, <1>2 DEF SaHeld, SaItem
<1>4. <<>> \in Seq(STRING) /\ Len(<<>>) = 0 OBVIOUS
<1> QED BY <1>1, <1>2, <1>3, <1>4 DEF SaTypes, SaTyped, SaFieldNames, SaInWord, SaRoom

\* What the tree says of a grapheme, and what was seen of its last three outputs.
SaAsk(at) == [vowels |-> saGetNrVowel(SaItem.data, at), outs |-> SaLastOuts(sa.outs),
              primary |-> SaStress \in ToSet(sa.phones)]

SaHeard(answer, out) ==
  /\ sa' = [sa EXCEPT !.count = @ - 1, !.outs = <<out>> \o @,
                      !.phones = IF answer = SaNone THEN @ ELSE SaAdded(@, answer)]
  /\ saTold' = [saTold EXCEPT !.g2p = Append(@, [at |-> sa.i, room |-> SaRoom,
                                ask |-> SaAsk(sa.count), answer |-> answer, out |-> out])]

LEMMA SaG2pGraphIs ==
  ASSUME SaG2pGraph
  PROVE  /\ sa.phase = "G2P" /\ sa.count > 0 /\ saIn' = saIn /\ saOut' = saOut /\ saResets' = saResets
         /\ \E answer, out : /\ answer \in SaG2pAnswers[SaItem.data[sa.count]]
                             /\ SaHeard(answer, out)
<1>1. sa.phase = "G2P" /\ sa.count > 0 /\ saIn' = saIn /\ saOut' = saOut /\ saResets' = saResets
  BY DEF SaG2pGraph
<1>2. \/ \E answer \in SaG2pAnswers[SaItem.data[sa.count]] : answer # SaNone /\ SaHeard(answer, answer)
      \/ /\ SaNone \in SaG2pAnswers[SaItem.data[sa.count]]
         /\ \E out \in IF sa.outs = <<>> THEN {<<SaZero>>, SaNone} ELSE {Head(sa.outs)} :
              SaHeard(SaNone, out)
  BY Zenon DEF SaG2pGraph, SaHeard, SaAsk
<1> QED BY <1>1, <1>2, Zenon

LEMMA SaTypesG2pGraph == ASSUME SaTypes, SaG2pGraph PROVE SaTypes'
<1>1. sa.phase = "G2P" /\ sa.count > 0 /\ saResets' = saResets BY SaG2pGraphIs
<1>2. PICK answer, out : answer \in SaG2pAnswers[SaItem.data[sa.count]] /\ SaHeard(answer, out)
  BY SaG2pGraphIs
<1> PICK phones : phones = IF answer = SaNone THEN sa.phones ELSE SaAdded(sa.phones, answer) OBVIOUS
<1> PICK outs : outs = <<out>> \o sa.outs OBVIOUS
<1>3. sa' = [sa EXCEPT !.count = @ - 1, !.outs = outs, !.phones = phones] /\ DOMAIN saTold' = SaToldNames
  BY <1>2 DEF SaHeard, SaTypes
<1>4. /\ SaHeld(SaItem) /\ SaAnswerable(SaItem) /\ SaItem.type = "WORDGRAPH" /\ SaRoom \in Nat
      /\ sa.count \in 1 .. Len(SaItem.data) /\ sa.phones \in Seq(STRING) /\ Len(sa.phones) <= SaRoom
  BY <1>1, SaHeadxLen DEF SaTypes, SaTyped, SaAllHeld, SaItem, SaRoom
<1>5. answer \in Seq(STRING)
  <2>1. SaItem.data[sa.count] \in DOMAIN SaG2pAnswers BY <1>4 DEF SaAnswerable
  <2> QED BY <1>2, <2>1, SaAssumption
<1>6. phones \in Seq(STRING) /\ Len(phones) <= SaRoom BY <1>4, <1>5, SaAddedIs
<1> QED BY ONLY <1>1, <1>3, <1>4, <1>6, SaTypes
        DEF SaTypes, SaTyped, SaFieldNames, SaInWord, SaRoom, SaItem

LEMMA SaTypesG2pEnd == ASSUME SaTypes, SaG2pEnd PROVE SaTypes'
<1> PICK m : m = Min({SaMaxLen, Len(sa.phones)}) OBVIOUS
<1> PICK data : data = SubSeq(sa.phones, 1, m) OBVIOUS
<1> PICK item : item = [SaItem EXCEPT !.type = "WORDPHON", !.data = data] OBVIOUS
<1>1. sa.phase = "G2P" /\ SaMadeAs(item) /\ saResets' = saResets BY DEF SaG2pEnd
<1>2. /\ SaHeld(SaItem) /\ SaRoom \in Nat /\ sa.i <= Len(sa.headx)
      /\ sa.phones \in Seq(STRING) /\ Len(sa.phones) <= SaRoom
  BY <1>1, SaHeadxLen DEF SaTypes, SaTyped, SaAllHeld, SaItem, SaRoom
<1>3. m \in Nat /\ m <= Len(sa.phones)
  <2>1. {SaMaxLen, Len(sa.phones)} \in SUBSET Nat /\ {SaMaxLen, Len(sa.phones)} # {}
    BY <1>2, SaAssumption
  <2> QED BY <2>1, MinOf
<1>4. data \in Seq(STRING) /\ Len(data) = m BY <1>2, <1>3, FirstOf
<1>5. DOMAIN item = SaItemNames /\ item.id \in Nat /\ item.type = "WORDPHON" /\ item.data = data
  BY <1>2 DEF SaHeld, SaItemNames
<1>6. SaHeld(item) /\ SaAnswerable(item) BY <1>4, <1>5 DEF SaHeld, SaAnswerable
<1>7. Len(item.data) \in 0 .. SaRoom BY <1>2, <1>3, <1>4, <1>5
<1> QED BY <1>1, <1>2, <1>6, <1>7, SaTypesMadeAs

LEMMA SaTypesWphoEnd == ASSUME SaTypes, SaWphoEnd PROVE SaTypes'
BY DEF SaTypes, SaTyped, SaFieldNames, SaInWord, SaWphoEnd

LEMMA SaTypesParseEnd == ASSUME SaTypes, SaParseEnd PROVE SaTypes'
BY SaAssumption DEF SaTypes, SaTyped, SaFieldNames, SaInWord, SaParseEnd

LEMMA SaTypesParse == ASSUME SaTypes, SaParse PROVE SaTypes'
<1> PICK item : item = Head(sa.headx) OBVIOUS
<1>1. /\ sa.phase = "PARSE" /\ sa.headx # <<>> /\ saTold' = saTold /\ saResets' = saResets
      /\ \E phase \in {"FST", "FEED"} : \E phon :
           sa' = [sa EXCEPT !.headx = Tail(@), !.tmp = item, !.said = item.data, !.passed = <<>>,
                            !.phase = phase, !.phon = phon]
  <2>1. sa.phase = "PARSE" /\ sa.headx # <<>> /\ saTold' = saTold /\ saResets' = saResets
    BY DEF SaParse
  <2>2. \/ sa' = [[sa EXCEPT !.headx = Tail(@), !.tmp = item, !.said = item.data, !.passed = <<>>]
                    EXCEPT !.phase = "FST", !.phon = SaExtracted(item)]
        \/ sa' = [[sa EXCEPT !.headx = Tail(@), !.tmp = item, !.said = item.data, !.passed = <<>>]
                    EXCEPT !.phase = "FEED"]
    BY DEF SaParse
  <2>3. \E phase \in {"FST", "FEED"} : \E phon :
           sa' = [sa EXCEPT !.headx = Tail(@), !.tmp = item, !.said = item.data, !.passed = <<>>,
                            !.phase = phase, !.phon = phon]
    <3>1. CASE sa' = [[sa EXCEPT !.headx = Tail(@), !.tmp = item, !.said = item.data, !.passed = <<>>]
                    EXCEPT !.phase = "FST", !.phon = SaExtracted(item)]
      <4>1. sa' = [sa EXCEPT !.headx = Tail(@), !.tmp = item, !.said = item.data, !.passed = <<>>,
                            !.phase = "FST", !.phon = SaExtracted(item)]
        BY <3>1
      <4> QED BY <4>1
    <3>2. CASE sa' = [[sa EXCEPT !.headx = Tail(@), !.tmp = item, !.said = item.data, !.passed = <<>>]
                    EXCEPT !.phase = "FEED"]
      <4>1. sa' = [sa EXCEPT !.headx = Tail(@), !.tmp = item, !.said = item.data, !.passed = <<>>,
                            !.phase = "FEED", !.phon = sa.phon]
        BY <3>2 DEF SaTypes, SaTyped, SaFieldNames
      <4> QED BY <4>1
    <3> QED BY <2>2, <3>1, <3>2
  <2> QED BY <2>1, <2>3
<1>2. SaAllHeld(Tail(sa.headx)) /\ SaHeld(item) BY <1>1, SaHeldLess DEF SaTypes, SaTyped
<1> QED BY <1>1, <1>2 DEF SaTypes, SaTyped, SaFieldNames, SaInWord

LEMMA SaTypesSyllabify == ASSUME SaTypes, SaSyllabify PROVE SaTypes'
<1>1. /\ sa.phase = "FST" /\ saTold' = saTold /\ saResets' = saResets
      /\ \E new, phon : sa' = [sa EXCEPT !.phase = "FEED", !.transduced = TRUE, !.bufOut = new, !.phon = phon]
  BY Zenon DEF SaSyllabify
<1> QED BY <1>1 DEF SaTypes, SaTyped, SaFieldNames, SaInWord

LEMMA SaTypesFst == ASSUME SaTypes, SaFst PROVE SaTypes'
<1>1. /\ sa.phase = "FST" /\ saTold' = saTold /\ saResets' = saResets
      /\ \E phon : sa' = [sa EXCEPT !.phon = phon, !.transduced = TRUE, !.passed = Append(@, sa.curFst),
                        !.curFst = @ + 1]
  BY Zenon DEF SaFst
<1> QED BY <1>1 DEF SaTypes, SaTyped, SaFieldNames, SaInWord

LEMMA SaTypesFstEnd == ASSUME SaTypes, SaFstEnd PROVE SaTypes'
BY DEF SaTypes, SaTyped, SaFieldNames, SaInWord, SaFstEnd

LEMMA SaTypesReplace == ASSUME SaTypes, SaReplace PROVE SaTypes'
BY DEF SaTypes, SaTyped, SaFieldNames, SaInWord, SaReplace

LEMMA SaTypesTake == ASSUME SaTypes, SaTake PROVE SaTypes'
BY DEF SaTypes, SaTake

LEMMA SaTypesFeed == ASSUME SaTypes, SaFeed PROVE SaTypes'
<1>1. /\ sa.phase = "FEED" /\ sa' = [sa EXCEPT !.phase = "PARSE"] /\ saResets' = saResets
      /\ DOMAIN saTold' = DOMAIN saTold
  BY DEF SaFeed
<1> QED BY <1>1 DEF SaTypes, SaTyped, SaFieldNames, SaInWord

LEMMA SaFreshTyped == ASSUME NEW case \in SaTexts, NEW curFst, NEW bufOut PROVE SaTyped(SaFresh(case, curFst, bufOut))
<1> PICK x : x = SaFresh(case, curFst, bufOut) OBVIOUS
<1>1. DOMAIN x = SaFieldNames /\ x.case = case /\ x.phase = "COLLECT" /\ x.headx = <<>> /\ x.cbuf2 = 0
  BY DEF SaFresh, SaFieldNames
<1>2. SaAllHeld(<<>>)
  <2>1. Listed(<<>>) /\ Len(<<>>) = 0 BY ListedEmpty
  <2> QED BY <2>1 DEF SaAllHeld
<1> QED BY <1>1, <1>2, SaAssumption DEF SaTyped, SaInWord

LEMMA SaTypesReset == ASSUME SaTypes, SaReset PROVE SaTypes'
<1>1. /\ \E curFst : sa' = SaFresh(sa.case, curFst, sa.bufOut)
      /\ saTold' = SaNothing /\ saResets' = saResets + 1
  BY DEF SaReset
<1>2. sa.case \in SaTexts /\ saResets \in Nat BY DEF SaTypes, SaTyped
<1>3. SaTyped(sa)' BY <1>1, <1>2, SaFreshTyped
<1> QED BY <1>1, <1>2, <1>3 DEF SaTypes, SaNothing, SaToldNames

LEMMA SaTypesInit == ASSUME SaInit PROVE SaTypes
<1>1. PICK c \in SaTexts : SaStart(c) BY DEF SaInit
<1> QED BY <1>1, SaFreshTyped DEF SaStart, SaTypes, SaNothing, SaToldNames

-----------------------------------------------------------------------------
(* Every item once: what was said, what is being said and what is held are the items that
   came in, in their order. *)

\* The numbers of what was said, is being said and is still to be said; those of the first
\* c items fed.
SaNow(x) == IF SaInWord(x) THEN <<x.tmp>> ELSE <<>>
SaLineIds(said, now, headx) ==
  [k \in 1 .. Len(said) + Len(now) + Len(headx) |->
     IF k <= Len(said) THEN said[k].id
     ELSE IF k <= Len(said) + Len(now) THEN now[k - Len(said)].id
     ELSE headx[k - Len(said) - Len(now)].id]

SaFedIds(items, c) == [k \in 1 .. c |-> items[k].id]
SaNumbered(ids) == ElementsAt(ids, {k \in 1 .. Len(ids) : ids[k] # 0})
SaKept(items, lost, c) == ElementsAt(SaFedIds(items, c), {k \in 1 .. c : items[k].id \notin lost})
SaCame(items, lost, c, ids) ==
  (\A x \in lost : \E k \in 1 .. c : items[k].id = x) /\ SaNumbered(ids) = SaKept(items, lost, c)

SaLined(x, in, told) ==
  /\ Listed(told.said)
  /\ \E c \in 0 .. Len(x.case.items) :
       /\ SaRest(x, in, c)
       /\ SaCame(x.case.items, told.lost, c, SaLineIds(told.said, SaNow(x), x.headx))

SaLine == SaLined(sa, saIn, saTold)

LEMMA SaLineFeeds == ASSUME SaLine PROVE SaFeeding BY DEF SaLine, SaLined, SaFeeding

LEMMA SaLineListed ==
  ASSUME NEW said, Listed(said), NEW x, SaAllHeld(x.headx)
  PROVE  /\ Listed(SaLineIds(said, SaNow(x), x.headx))
         /\ Len(SaLineIds(said, SaNow(x), x.headx)) = Len(said) + Len(SaNow(x)) + Len(x.headx)
         /\ Len(said) \in Nat /\ Len(SaNow(x)) \in Nat /\ Len(x.headx) \in Nat
<1>1. Len(said) \in Nat /\ Len(x.headx) \in Nat BY ListedLen DEF SaAllHeld
<1>2. Len(SaNow(x)) \in Nat
  <2>1. Len(<<x.tmp>>) = 1 /\ Len(<<>>) = 0 OBVIOUS
  <2> QED BY <2>1 DEF SaNow
<1> PICK n : n = Len(said) + Len(SaNow(x)) + Len(x.headx) OBVIOUS
<1>6. n \in Nat
  <2> PICK a, b, c : a = Len(said) /\ b = Len(SaNow(x)) /\ c = Len(x.headx) OBVIOUS
  <2>1. a \in Nat /\ b \in Nat /\ c \in Nat BY <1>1, <1>2
  <2>2. n = a + b + c OBVIOUS
  <2> QED BY ONLY <2>1, <2>2
<1> PICK s : s = SaLineIds(said, SaNow(x), x.headx) OBVIOUS
<1> PICK l, m, h : l = Len(said) /\ m = Len(SaNow(x)) /\ h = x.headx OBVIOUS
<1>5. s = [k \in 1 .. n |-> IF k <= l THEN said[k].id ELSE IF k <= l + m THEN SaNow(x)[k - l].id
                            ELSE h[k - l - m].id]
  BY Zenon DEF SaLineIds
<1> DEFINE F(k) == IF k <= l THEN said[k].id ELSE IF k <= l + m THEN SaNow(x)[k - l].id
                   ELSE h[k - l - m].id
<1>7. s = [k \in 1 .. n |-> F(k)] BY <1>5
<1> HIDE DEF F
<1>3. s = [k \in 1 .. n |-> s[k]] BY ONLY <1>7
<1>4. Listed(s) /\ Len(s) = n BY ONLY <1>3, <1>6 DEF Listed
<1> QED BY <1>1, <1>2, <1>4

\* One number more.
LEMMA SaNumberedMore ==
  ASSUME NEW ids, Listed(ids), NEW x
  PROVE  /\ Listed(SaNumbered(ids))
         /\ SaNumbered(Append(ids, x)) = IF x # 0 THEN Append(SaNumbered(ids), x) ELSE SaNumbered(ids)
<1> PICK more : more = Append(ids, x) OBVIOUS
<1> PICK P : P = {k \in 1 .. Len(more) : more[k] # 0} OBVIOUS
<1>1. /\ Len(ids) \in Nat /\ Len(more) = Len(ids) + 1 /\ more[Len(ids) + 1] = x
      /\ \A k \in 1 .. Len(ids) : more[k] = ids[k]
  BY ListedAppend, ListedLen
<1>2. SaNumbered(more) = IF Len(ids) + 1 \in P THEN Append(ElementsAt(ids, P), x) ELSE ElementsAt(ids, P)
  BY ElementsGrow DEF SaNumbered
<1>3. Listed(ElementsAt(ids, P)) BY ElementsGrow
<1>4. ElementsAt(ids, P) = SaNumbered(ids)
  <2>1. \A k \in 1 .. Len(ids) : k \in P <=> k \in {j \in 1 .. Len(ids) : ids[j] # 0} BY <1>1
  <2> QED BY <2>1, ElementsSame DEF SaNumbered
<1>5. Len(ids) + 1 \in P <=> x # 0 BY <1>1
<1> QED BY <1>2, <1>3, <1>4, <1>5

\* One item more has been fed, and it is kept or lost.
SaKeptGrows(items, lost, c) ==
  /\ SaKept(items, lost, c + 1) = Append(SaKept(items, lost, c), items[c + 1].id)
  /\ SaKept(items, lost \cup {items[c + 1].id}, c + 1) = SaKept(items, lost, c)
  /\ items[c + 1].id # 0

LEMMA SaKeptMore ==
  ASSUME NEW case \in SaTexts, NEW items, items = case.items, NEW c \in Nat, c + 1 \in 1 .. Len(items),
         NEW lost, \A x \in lost : \E k \in 1 .. c : items[k].id = x
  PROVE  SaKeptGrows(items, lost, c)
<1> PICK id : id = items[c + 1].id OBVIOUS
<1>1. /\ \A k \in 1 .. Len(items) : SaKnown(items[k])
      /\ \A k, l \in 1 .. Len(items) : items[k].id = items[l].id => k = l
  <2>1. /\ case.items \in Seq({case.items[k] : k \in DOMAIN case.items})
        /\ \A k \in DOMAIN case.items : SaKnown(case.items[k])
        /\ \A k, l \in DOMAIN case.items : case.items[k].id = case.items[l].id => k = l
    BY ONLY case \in SaTexts, SaAssumption
  <2>2. DOMAIN items = 1 .. Len(items) BY <2>1
  <2> QED BY <2>1, <2>2
<1>2. \A k \in 1 .. c : items[k].id # id
  <2> TAKE k \in 1 .. c
  <2>1. k \in 1 .. Len(items) /\ k # c + 1 OBVIOUS
  <2> QED BY <1>1, <2>1
<1>3. id \notin lost BY <1>2
<1>4. id # 0 BY <1>1 DEF SaKnown
<1> PICK s : s = SaFedIds(items, c) OBVIOUS
<1>5. s = [k \in 1 .. c |-> s[k]] /\ Len(s) = c BY DEF SaFedIds
<1>6. Listed(s) BY <1>5 DEF Listed
<1>7. SaFedIds(items, c + 1) = Append(s, id)
  <2>1. Listed(Append(s, id)) BY <1>6, ListedAppend
  <2>2. /\ Len(Append(s, id)) = c + 1 /\ Append(s, id)[c + 1] = id
        /\ \A k \in 1 .. c : Append(s, id)[k] = items[k].id
    BY <1>5, <1>6, ListedAppend DEF SaFedIds
  <2>3. PICK n \in Nat : Append(s, id) = [k \in 1 .. n |-> Append(s, id)[k]] BY <2>1 DEF Listed
  <2>4. n = c + 1 BY <2>2, <2>3
  <2>5. \A k \in 1 .. c + 1 : k \in 1 .. c \/ k = c + 1 OBVIOUS
  <2>6. \A k \in 1 .. c + 1 : Append(s, id)[k] = items[k].id BY <2>2, <2>5
  <2> QED BY <2>3, <2>4, <2>6 DEF SaFedIds
<1>8. ASSUME NEW gone, NEW P, P = {k \in 1 .. c + 1 : items[k].id \notin gone}, \A k \in 1 .. c : items[k].id \in gone <=> items[k].id \in lost
      PROVE  SaKept(items, gone, c + 1)
               = IF c + 1 \in P THEN Append(SaKept(items, lost, c), id) ELSE SaKept(items, lost, c)
  <2>1. SaKept(items, gone, c + 1)
          = IF c + 1 \in P THEN Append(ElementsAt(s, P), id) ELSE ElementsAt(s, P)
    <3>1. ElementsAt(Append(s, id), P)
            = IF Len(s) + 1 \in P THEN Append(ElementsAt(s, P), id) ELSE ElementsAt(s, P)
      BY ONLY <1>6, ElementsGrow
    <3> QED BY ONLY <1>5, <1>7, <1>8, <3>1 DEF SaKept
  <2>2. ElementsAt(s, P) = SaKept(items, lost, c)
    <3>1. \A k \in 1 .. c : k \in P <=> k \in {j \in 1 .. c : items[j].id \notin lost} BY <1>8
    <3> QED BY <1>5, <3>1, ElementsSame DEF SaKept
  <2> QED BY <2>1, <2>2
<1>9. SaKept(items, lost, c + 1) = Append(SaKept(items, lost, c), id)
  <2> PICK P : P = {k \in 1 .. c + 1 : items[k].id \notin lost} OBVIOUS
  <2>1. c + 1 \in P BY <1>3
  <2> QED BY <1>8, <2>1
<1>10. SaKept(items, lost \cup {id}, c + 1) = SaKept(items, lost, c)
  <2> PICK P : P = {k \in 1 .. c + 1 : items[k].id \notin lost \cup {id}} OBVIOUS
  <2>1. c + 1 \notin P OBVIOUS
  <2>2. \A k \in 1 .. c : items[k].id \in lost \cup {id} <=> items[k].id \in lost BY <1>2
  <2> QED BY <1>8, <2>1, <2>2
<1> QED BY <1>4, <1>9, <1>10 DEF SaKeptGrows

\* The same items in the line.
SaSameIds(a, b) == Len(a) = Len(b) /\ \A k \in 1 .. Len(a) : a[k].id = b[k].id
LEMMA SaSameLine ==
  ASSUME NEW said, NEW now, NEW a, NEW b, SaSameIds(a, b), Listed(a), Listed(b), Len(said) \in Nat, Len(now) \in Nat
  PROVE  SaLineIds(said, now, a) = SaLineIds(said, now, b)
<1>1. PICK n, m, l \in Nat : n = Len(said) /\ m = Len(now) /\ l = Len(a) BY ListedLen
<1>2. \A k \in 1 .. n + m + l : ~(k <= n) /\ ~(k <= n + m) => a[k - n - m].id = b[k - n - m].id
  <2> TAKE k \in 1 .. n + m + l
  <2> HAVE ~(k <= n) /\ ~(k <= n + m)
  <2>1. k - n - m \in 1 .. l OBVIOUS
  <2> QED BY <1>1, <2>1 DEF SaSameIds
<1>3. Len(b) = l BY <1>1 DEF SaSameIds
<1> QED BY <1>1, <1>2, <1>3 DEF SaLineIds

LEMMA SaLineSame ==
  ASSUME SaTypes, SaLine, SaTypes', saIn' = saIn, saTold'.lost = saTold.lost, saTold'.said = saTold.said, sa'.case = sa.case,
         SaNow(sa)' = SaNow(sa), SaSameIds(sa.headx, sa'.headx)
  PROVE  SaLine'
<1>1. Listed(saTold.said) /\ Len(SaNow(sa)) \in Nat /\ Len(saTold.said) \in Nat
  BY SaLineListed DEF SaLine, SaLined, SaTypes, SaTyped
<1>2. Listed(sa.headx) /\ Listed(sa'.headx) BY DEF SaTypes, SaTyped, SaAllHeld
<1>3. SaLineIds(saTold.said, SaNow(sa), sa.headx) = SaLineIds(saTold.said, SaNow(sa), sa'.headx)
  BY <1>1, <1>2, SaSameLine
<1>4. SaLineIds(saTold.said, SaNow(sa), sa.headx)' = SaLineIds(saTold.said, SaNow(sa), sa.headx)
  BY <1>3
<1> QED BY <1>4 DEF SaLine, SaLined, SaRest

\* Steps that leave the items of the phrase and the word as they are.
SaQuiet ==
  /\ saIn' = saIn /\ saTold'.lost = saTold.lost /\ saTold'.said = saTold.said /\ sa'.case = sa.case
  /\ (SaInWord(sa') <=> SaInWord(sa)) /\ sa'.tmp = sa.tmp

LEMMA SaQuietLine ==
  ASSUME SaTypes, SaTypes', SaLine, SaQuiet, SaSameIds(sa.headx, sa'.headx) PROVE SaLine'
<1>1. SaNow(sa)' = SaNow(sa) BY DEF SaQuiet, SaNow
<1> QED BY <1>1, SaLineSame DEF SaQuiet

LEMMA SaDisambBeginQuiet == ASSUME SaTypes, SaDisambBegin PROVE SaQuiet /\ sa'.headx = sa.headx
<1> PICK words : words = {k \in DOMAIN sa.headx : SaIsWord(sa.headx[k])} OBVIOUS
<1>1. /\ sa.phase = "POSD" /\ saIn' = saIn /\ saTold' = saTold
      /\ \E first, val, last :
           sa' = IF words = {} THEN [sa EXCEPT !.phase = "WPHO", !.i = 1]
                 ELSE [sa EXCEPT !.phase = "DISAMB", !.i = first, !.prevout = SaZero,
                                 !.val = val, !.last = last]
  BY Zenon DEF SaDisambBegin
<1> QED BY <1>1 DEF SaQuiet, SaTypes, SaTyped, SaFieldNames, SaInWord

LEMMA SaDisambOtherQuiet ==
  ASSUME SaTypes, SaDisambOther \/ SaDisambEnd PROVE SaQuiet /\ sa'.headx = sa.headx
BY DEF SaQuiet, SaTypes, SaTyped, SaFieldNames, SaInWord, SaDisambOther, SaDisambEnd

LEMMA SaWphoQuiet ==
  ASSUME SaTypes, SaWphoGraph \/ SaWphoEnd \/ SaParseEnd PROVE SaQuiet /\ sa'.headx = sa.headx
BY DEF SaQuiet, SaTypes, SaTyped, SaFieldNames, SaInWord, SaWphoGraph, SaWphoEnd, SaParseEnd

LEMMA SaG2pGraphQuiet == ASSUME SaTypes, SaG2pGraph PROVE SaQuiet /\ sa'.headx = sa.headx
<1>1. sa.phase = "G2P" /\ saIn' = saIn BY SaG2pGraphIs
<1>2. PICK answer, out : SaHeard(answer, out) BY SaG2pGraphIs
<1>3. PICK n, outs, phones, g2p :
        /\ sa' = [sa EXCEPT !.count = n, !.outs = outs, !.phones = phones]
        /\ saTold' = [saTold EXCEPT !.g2p = g2p]
  BY <1>2 DEF SaHeard
<1> QED BY <1>1, <1>3 DEF SaQuiet, SaTypes, SaTyped, SaFieldNames, SaToldNames, SaInWord

LEMMA SaSyllabifyQuiet == ASSUME SaTypes, SaSyllabify \/ SaFst PROVE SaQuiet /\ sa'.headx = sa.headx
<1>1. CASE SaSyllabify
  <2>1. /\ sa.phase = "FST" /\ saTold' = saTold /\ saIn' = saIn
        /\ \E new, phon : sa' = [sa EXCEPT !.phase = "FEED", !.transduced = TRUE, !.bufOut = new, !.phon = phon]
    BY <1>1, Zenon DEF SaSyllabify
  <2> QED BY <2>1 DEF SaQuiet, SaTypes, SaTyped, SaFieldNames, SaInWord
<1>2. CASE SaFst
  <2>1. /\ sa.phase = "FST" /\ saTold' = saTold /\ saIn' = saIn
        /\ \E phon : sa' = [sa EXCEPT !.phon = phon, !.transduced = TRUE, !.passed = Append(@, sa.curFst),
                          !.curFst = @ + 1]
    BY <1>2, Zenon DEF SaFst
  <2> QED BY <2>1 DEF SaQuiet, SaTypes, SaTyped, SaFieldNames, SaInWord
<1> QED BY <1>1, <1>2

LEMMA SaFeedQuiet ==
  ASSUME SaTypes, SaFstEnd \/ SaReplace \/ SaTake PROVE SaQuiet /\ sa'.headx = sa.headx
BY DEF SaQuiet, SaTypes, SaTyped, SaFieldNames, SaInWord, SaFstEnd, SaReplace, SaTake

LEMMA SaLineHeld ==
  ASSUME SaTypes, SaTypes', SaLine,
         \/ SaDisambBegin \/ SaDisambOther \/ SaDisambEnd \/ SaWphoGraph \/ SaWphoEnd \/ SaParseEnd
         \/ SaG2pGraph \/ SaSyllabify \/ SaFst \/ SaFstEnd \/ SaReplace \/ SaTake
  PROVE  SaLine'
<1>1. SaQuiet /\ sa'.headx = sa.headx
  BY SaDisambBeginQuiet, SaDisambOtherQuiet, SaWphoQuiet, SaG2pGraphQuiet, SaSyllabifyQuiet,
     SaFeedQuiet, Zenon
<1>2. SaSameIds(sa.headx, sa'.headx) BY <1>1 DEF SaSameIds
<1> QED BY <1>1, <1>2, SaQuietLine

\* One item of the phrase is made another with its number.
LEMMA SaOtherIds ==
  ASSUME NEW h, SaAllHeld(h), NEW i \in 1 .. Len(h), NEW item, item.id = h[i].id
  PROVE  SaSameIds(h, [h EXCEPT ![i] = item])
<1>1. PICK n \in Nat : h = [k \in 1 .. n |-> h[k]] BY DEF SaAllHeld, Listed
<1>2. PICK g : g = [h EXCEPT ![i] = item] OBVIOUS
<1>3. Len(h) = n /\ g = [k \in 1 .. n |-> IF k = i THEN item ELSE h[k]] BY <1>1, <1>2
<1>4. Len(g) = n BY <1>1, <1>3
<1> QED BY <1>2, <1>3, <1>4 DEF SaSameIds

LEMMA SaLineMadeAs ==
  ASSUME SaTypes, SaTypes', SaLine, sa.phase \in {"WPHO", "G2P"}, sa.i <= Len(sa.headx),
         NEW item, item.id = sa.headx[sa.i].id, SaMadeAs(item), saIn' = saIn
  PROVE  SaLine'
<1> PICK h : h = [sa.headx EXCEPT ![sa.i] = item] OBVIOUS
<1>1. PICK n, made : /\ sa' = [sa EXCEPT !.headx[sa.i] = item, !.cbuf2 = n, !.i = @ + 1, !.phase = "WPHO"]
                     /\ saTold' = [saTold EXCEPT !.made = made]
  BY DEF SaMadeAs
<1>2. sa' = [sa EXCEPT !.headx = h, !.cbuf2 = n, !.i = @ + 1, !.phase = "WPHO"]
  BY <1>1 DEF SaTypes, SaTyped, SaFieldNames
<1>3. SaQuiet /\ sa'.headx = h
  BY <1>1, <1>2 DEF SaQuiet, SaTypes, SaTyped, SaFieldNames, SaToldNames, SaInWord
<1>4. SaSameIds(sa.headx, h) BY SaOtherIds, SaHeadxLen DEF SaTypes, SaTyped
<1> QED BY <1>3, <1>4, SaQuietLine

LEMMA SaLineWpho == ASSUME SaTypes, SaTypes', SaLine, SaWphoCopy \/ SaG2pEnd PROVE SaLine'
<1>1. CASE SaWphoCopy
  <2>1. /\ sa.phase = "WPHO" /\ sa.i <= Len(sa.headx) /\ SaItem.type # "WORDGRAPH"
        /\ SaMadeAs(SaCopied(SaItem)) /\ saIn' = saIn
    BY <1>1 DEF SaWphoCopy
  <2>2. SaHeld(SaItem) /\ SaAnswerable(SaItem) /\ SaRoom \in Nat
    BY <2>1, SaHeadxLen DEF SaTypes, SaTyped, SaAllHeld, SaItem
  <2>3. SaCopied(SaItem).id = sa.headx[sa.i].id BY <2>1, <2>2, SaCopiedHeld DEF SaItem
  <2> QED BY <2>1, <2>3, SaLineMadeAs
<1>2. CASE SaG2pEnd
  <2>1. PICK data : /\ sa.phase = "G2P" /\ SaMadeAs([SaItem EXCEPT !.type = "WORDPHON", !.data = data])
                    /\ saIn' = saIn
    BY <1>2 DEF SaG2pEnd
  <2>2. SaHeld(SaItem) /\ sa.i <= Len(sa.headx)
    BY <2>1, SaHeadxLen DEF SaTypes, SaTyped, SaAllHeld, SaItem
  <2>3. [SaItem EXCEPT !.type = "WORDPHON", !.data = data].id = sa.headx[sa.i].id
    BY <2>2 DEF SaItem, SaHeld, SaItemNames
  <2> QED BY <2>1, <2>2, <2>3, SaLineMadeAs
<1> QED BY <1>1, <1>2

LEMMA SaLineDisambWord == ASSUME SaTypes, SaTypes', SaLine, SaDisambWord PROVE SaLine'
<1> PICK right : right = saPosDItemSeqGetPosRight(sa.last) OBVIOUS
<1> PICK item : item = sa.headx[sa.i] OBVIOUS
<1> PICK m : m = SaMoved(right, item) OBVIOUS
<1>1. /\ sa.phase = "DISAMB" /\ sa.i <= Len(sa.headx) /\ SaPassedBy(right, item) /\ saIn' = saIn
  BY SaDisambWordIs
<1>2. sa.i \in 1 .. Len(sa.headx) /\ Len(sa.headx) \in Nat /\ SaHeld(item) /\ SaAnswerable(item)
  BY <1>1, SaHeadxLen DEF SaTypes, SaTyped, SaAllHeld
<1>3. /\ DOMAIN m = SaFieldNames /\ m.case = sa.case /\ m.phase = sa.phase /\ m.headx = sa.headx
      /\ m.tmp = sa.tmp
  BY DEF SaMoved, SaTypes, SaTyped, SaFieldNames
<1>4. CASE /\ sa' = [SaMoved(right, item) EXCEPT !.prevout = item.info1]
           /\ saTold' = [saTold EXCEPT !.outs = Append(@, item.info1)]
  <2>1. SaQuiet /\ sa'.headx = sa.headx
    BY <1>1, <1>3, <1>4 DEF SaQuiet, SaTypes, SaFieldNames, SaToldNames, SaInWord
  <2> QED BY <2>1, SaQuietLine DEF SaSameIds
<1>5. ASSUME NEW class, NEW out,
             /\ sa' = [SaMoved(right, item) EXCEPT !.prevout = out,
                         !.headx[sa.i] = [item EXCEPT !.info1 = class, !.data = SaSelected(item, class)]]
             /\ saTold' = [saTold EXCEPT !.outs = Append(@, out),
                  !.asked = Append(@, [at |-> sa.i, val |-> SaShifted(right.val)])]
      PROVE  SaLine'
  <2> PICK j : j = [item EXCEPT !.info1 = class, !.data = SaSelected(item, class)] OBVIOUS
  <2> PICK h : h = [sa.headx EXCEPT ![sa.i] = j] OBVIOUS
  <2>1. j.id = item.id BY <1>2, SaSelectedHeld
  <2>2. SaSameIds(sa.headx, h) BY <1>2, <2>1, SaOtherIds DEF SaTypes, SaTyped
  <2>3. sa' = [m EXCEPT !.prevout = out, !.headx[sa.i] = j] BY <1>5
  <2>4. sa' = [m EXCEPT !.prevout = out, !.headx = h] BY <1>3, <2>3 DEF SaFieldNames
  <2>5. saTold'.lost = saTold.lost /\ saTold'.said = saTold.said
    BY <1>5 DEF SaTypes, SaToldNames
  <2>6. SaQuiet /\ sa'.headx = h
    BY ONLY <1>1, <1>3, <2>4, <2>5 DEF SaQuiet, SaFieldNames, SaInWord
  <2> QED BY <2>2, <2>6, SaQuietLine
<1> QED BY <1>1, <1>4, <1>5 DEF SaPassedBy

SaLineAt(ids, said, now, headx, n, m, l) ==
  /\ Listed(ids) /\ Len(ids) = n + m + l
  /\ \A k \in 1 .. n : ids[k] = said[k].id
  /\ \A k \in 1 .. m : ids[n + k] = now[k].id
  /\ \A k \in 1 .. l : ids[n + m + k] = headx[k].id

LEMMA SaLineIs ==
  ASSUME NEW said, NEW now, NEW headx, NEW n \in Nat, n = Len(said), NEW m \in Nat, m = Len(now),
         NEW l \in Nat, l = Len(headx), NEW ids, ids = SaLineIds(said, now, headx)
  PROVE  SaLineAt(ids, said, now, headx, n, m, l)
<1> DEFINE F(k) == IF k <= Len(said) THEN said[k].id
                   ELSE IF k <= Len(said) + Len(now) THEN now[k - Len(said)].id
                   ELSE headx[k - Len(said) - Len(now)].id
<1>1. ids = [k \in 1 .. Len(said) + Len(now) + Len(headx) |-> F(k)] BY DEF SaLineIds
<1>2. ids = [k \in 1 .. n + m + l |-> F(k)] BY <1>1
<1>3. \A k \in 1 .. n : F(k) = said[k].id OBVIOUS
<1>4. ASSUME NEW k \in 1 .. m PROVE F(n + k) = now[k].id
  <2>1. ~(n + k <= n) /\ n + k <= n + m /\ (n + k) - n = k OBVIOUS
  <2> QED BY <2>1
<1>5. ASSUME NEW k \in 1 .. l PROVE F(n + m + k) = headx[k].id
  <2>1. ~(n + m + k <= n) /\ ~(n + m + k <= n + m) /\ (n + m + k) - n - m = k OBVIOUS
  <2> QED BY <2>1
<1> HIDE DEF F
<1>6. ids = [k \in 1 .. n + m + l |-> ids[k]] /\ n + m + l \in Nat BY <1>2
<1>7. \A k \in 1 .. n : k \in 1 .. n + m + l
  OBVIOUS
<1>8. \A k \in 1 .. m : n + k \in 1 .. n + m + l
  OBVIOUS
<1>9. \A k \in 1 .. l : n + m + k \in 1 .. n + m + l
  OBVIOUS
<1>10. \A k \in 1 .. n + m + l : ids[k] = F(k) BY <1>2
<1>11. Len(ids) = n + m + l BY <1>6
<1>12. Listed(ids) BY <1>6 DEF Listed
<1> QED BY <1>3, <1>4, <1>5, <1>7, <1>8, <1>9, <1>10, <1>11, <1>12 DEF SaLineAt

\* A new item at the end of the line, the next one taken up, and one put out.
LEMMA SaLineAppend ==
  ASSUME NEW said, Listed(said), NEW h, Listed(h), NEW item
  PROVE  SaLineIds(said, <<>>, Append(h, item)) = Append(SaLineIds(said, <<>>, h), item.id)
<1>1. PICK n, l \in Nat : n = Len(said) /\ l = Len(h) BY ListedLen
<1> PICK g : g = Append(h, item) OBVIOUS
<1>2. Len(g) = l + 1 /\ g[l + 1] = item /\ \A k \in 1 .. l : g[k] = h[k]
  BY <1>1, ListedAppend
<1> PICK s, t : s = SaLineIds(said, <<>>, h) /\ t = SaLineIds(said, <<>>, g) OBVIOUS
<1>3. Len(<<>>) = 0 /\ 0 \in Nat /\ l + 1 \in Nat BY <1>1
<1>4. /\ Listed(s) /\ Len(s) = n + 0 + l
      /\ \A k \in 1 .. n : s[k] = said[k].id
      /\ \A k \in 1 .. l : s[n + 0 + k] = h[k].id
  <2>1. SaLineAt(s, said, <<>>, h, n, 0, l) BY <1>1, <1>3, SaLineIs
  <2> QED BY ONLY <2>1 DEF SaLineAt
<1>5. /\ Listed(t) /\ Len(t) = n + 0 + (l + 1)
      /\ \A k \in 1 .. n : t[k] = said[k].id
      /\ \A k \in 1 .. l + 1 : t[n + 0 + k] = g[k].id
  <2>1. SaLineAt(t, said, <<>>, g, n, 0, l + 1) BY <1>1, <1>2, <1>3, SaLineIs
  <2> QED BY ONLY <2>1 DEF SaLineAt
<1> PICK e : e = item.id OBVIOUS
<1> PICK u : u = Append(s, e) OBVIOUS
<1>6. /\ Listed(u) /\ Len(u) = n + l + 1 /\ u[n + l + 1] = e
      /\ \A k \in 1 .. n + l : u[k] = s[k]
  <2>1. Len(s) = n + l BY <1>1, <1>4
  <2>2. Listed(s) BY <1>4
  <2>3. /\ Listed(Append(s, e)) /\ Len(Append(s, e)) = Len(s) + 1
        /\ \A k \in 1 .. Len(s) : Append(s, e)[k] = s[k]
        /\ Append(s, e)[Len(s) + 1] = e
    BY ONLY <2>2, ListedAppend
  <2> QED BY ONLY <2>1, <2>3, u = Append(s, e)
<1>7. ASSUME NEW k \in 1 .. n + l + 1 PROVE u[k] = t[k]
  <2>1. CASE k <= n
    <3>1. k \in 1 .. n /\ k \in 1 .. n + l BY <1>1, <2>1
    <3> QED BY <1>4, <1>5, <1>6, <3>1
  <2>2. CASE k > n /\ k <= n + l
    <3>1. PICK j \in 1 .. l : k = n + 0 + j
      <4>1. k - n \in 1 .. l /\ k = n + 0 + (k - n) BY <1>1, <2>2
      <4> QED BY <4>1
    <3>2. j \in 1 .. l + 1 /\ k \in 1 .. n + l BY <1>1, <2>2, <3>1
    <3>3. u[k] = h[j].id BY <1>4, <1>6, <3>1, <3>2
    <3>4. t[k] = h[j].id BY <1>2, <1>5, <3>1, <3>2
    <3> QED BY <3>3, <3>4
  <2>3. CASE k = n + l + 1
    <3>1. k = n + 0 + (l + 1) /\ l + 1 \in 1 .. l + 1 BY <1>1, <2>3
    <3>2. t[k] = g[l + 1].id BY <1>5, <3>1
    <3> QED BY <1>2, <1>6, <2>3, <3>2
  <2>4. k <= n \/ (k > n /\ k <= n + l) \/ k = n + l + 1 BY ONLY <1>1, <1>7
  <2> QED BY ONLY <2>1, <2>2, <2>3, <2>4
<1>8. Len(u) = Len(t) BY <1>1, <1>5, <1>6
<1> QED BY <1>5, <1>6, <1>7, <1>8, ListedSame

LEMMA SaLineParsed ==
  ASSUME NEW said, Listed(said), NEW h, Listed(h), h # <<>>
  PROVE  SaLineIds(said, <<Head(h)>>, Tail(h)) = SaLineIds(said, <<>>, h)
<1>1. PICK n, l \in Nat : n = Len(said) /\ l = Len(h) BY ListedLen
<1> PICK e, g, o : e = Head(h) /\ g = Tail(h) /\ o = <<e>> OBVIOUS
<1>2. l > 0 /\ Len(g) = l - 1 /\ e = h[1] /\ \A k \in 1 .. l - 1 : g[k] = h[k + 1]
  <2>1. Len(g) = l - 1 /\ e = h[1] /\ \A k \in 1 .. l - 1 : g[k] = h[k + 1] BY <1>1, ListedTail
  <2>2. l # 0 BY <1>1, ListedLen
  <2> QED BY <1>1, <2>1, <2>2
<1>3. /\ Len(o) = 1 /\ o[1] = e /\ Len(<<>>) = 0 /\ 0 \in Nat /\ 1 \in Nat /\ l - 1 \in Nat
      /\ 1 \in 1 .. 1
  BY <1>1, <1>2
<1> PICK s, t : s = SaLineIds(said, <<>>, h) /\ t = SaLineIds(said, o, g) OBVIOUS
<1>4. /\ Listed(s) /\ Len(s) = n + 0 + l
      /\ \A k \in 1 .. n : s[k] = said[k].id
      /\ \A k \in 1 .. l : s[n + 0 + k] = h[k].id
  <2>1. SaLineAt(s, said, <<>>, h, n, 0, l) BY <1>1, <1>3, SaLineIs
  <2> QED BY ONLY <2>1 DEF SaLineAt
<1>5. /\ Listed(t) /\ Len(t) = n + 1 + (l - 1)
      /\ \A k \in 1 .. n : t[k] = said[k].id
      /\ \A k \in 1 .. 1 : t[n + k] = o[k].id
      /\ \A k \in 1 .. l - 1 : t[n + 1 + k] = g[k].id
  <2>1. SaLineAt(t, said, o, g, n, 1, l - 1) BY <1>1, <1>2, <1>3, SaLineIs
  <2> QED BY ONLY <2>1 DEF SaLineAt
<1>6. ASSUME NEW k \in 1 .. n + l PROVE s[k] = t[k]
  <2>1. CASE k <= n
    <3>1. k \in 1 .. n BY <1>1, <2>1
    <3> QED BY <1>4, <1>5, <3>1
  <2>2. CASE k = n + 1
    <3>1. k = n + 0 + 1 /\ 1 \in 1 .. l BY <1>1, <1>2, <2>2
    <3> QED BY <1>2, <1>3, <1>4, <1>5, <2>2, <3>1
  <2>3. CASE k > n + 1
    <3>1. PICK j \in 1 .. l - 1 : k = n + 1 + j /\ k = n + 0 + (j + 1) /\ j + 1 \in 1 .. l
      <4>1. k - n - 1 \in 1 .. l - 1 BY <1>1, <2>3
      <4>2. k = n + 1 + (k - n - 1) /\ k = n + 0 + ((k - n - 1) + 1) /\ (k - n - 1) + 1 \in 1 .. l
        BY <1>1, <2>3
      <4> QED BY <4>1, <4>2
    <3>2. s[k] = h[j + 1].id BY <1>4, <3>1
    <3>3. t[k] = g[j].id BY <1>5, <3>1
    <3> QED BY <1>2, <3>1, <3>2, <3>3
  <2> QED BY <1>1, <2>1, <2>2, <2>3
<1>7. Len(s) = n + l /\ Len(s) = Len(t) BY <1>1, <1>4, <1>5
<1> QED BY <1>4, <1>5, <1>6, <1>7, ListedSame

LEMMA SaLineSaid ==
  ASSUME NEW said, Listed(said), NEW h, Listed(h), NEW tmp, NEW e, e.id = tmp.id
  PROVE  SaLineIds(Append(said, e), <<>>, h) = SaLineIds(said, <<tmp>>, h)
<1>1. PICK n, l \in Nat : n = Len(said) /\ l = Len(h) BY ListedLen
<1> PICK more, o : more = Append(said, e) /\ o = <<tmp>> OBVIOUS
<1>2. Len(more) = n + 1 /\ more[n + 1] = e /\ \A k \in 1 .. n : more[k] = said[k]
  BY <1>1, ListedAppend
<1>3. /\ Len(o) = 1 /\ o[1] = tmp /\ Len(<<>>) = 0 /\ 0 \in Nat /\ 1 \in Nat /\ n + 1 \in Nat
      /\ 1 \in 1 .. 1
  BY <1>1
<1> PICK s, t : s = SaLineIds(more, <<>>, h) /\ t = SaLineIds(said, o, h) OBVIOUS
<1>4. /\ Listed(s) /\ Len(s) = n + 1 + 0 + l
      /\ \A k \in 1 .. n + 1 : s[k] = more[k].id
      /\ \A k \in 1 .. l : s[n + 1 + 0 + k] = h[k].id
  <2>1. SaLineAt(s, more, <<>>, h, n + 1, 0, l)
    <3>1. n + 1 = Len(more) BY <1>2
    <3> QED BY ONLY <1>1, <1>3, <3>1, s = SaLineIds(more, <<>>, h), SaLineIs
  <2> QED BY ONLY <2>1 DEF SaLineAt
<1>5. /\ Listed(t) /\ Len(t) = n + 1 + l
      /\ \A k \in 1 .. n : t[k] = said[k].id
      /\ \A k \in 1 .. 1 : t[n + k] = o[k].id
      /\ \A k \in 1 .. l : t[n + 1 + k] = h[k].id
  <2>1. SaLineAt(t, said, o, h, n, 1, l) BY <1>1, <1>3, SaLineIs
  <2> QED BY ONLY <2>1 DEF SaLineAt
<1>6. ASSUME NEW k \in 1 .. n + 1 + l PROVE s[k] = t[k]
  <2>1. CASE k <= n
    <3>1. k \in 1 .. n /\ k \in 1 .. n + 1 BY <1>1, <2>1
    <3> QED BY <1>2, <1>4, <1>5, <3>1
  <2>2. CASE k = n + 1
    <3>1. k \in 1 .. n + 1 BY <1>1, <2>2
    <3> QED BY <1>2, <1>3, <1>4, <1>5, <2>2, <3>1
  <2>3. CASE k > n + 1
    <3>1. PICK j \in 1 .. l : k = n + 1 + j /\ k = n + 1 + 0 + j
      <4>1. k - n - 1 \in 1 .. l /\ k = n + 1 + (k - n - 1) /\ k = n + 1 + 0 + (k - n - 1)
        BY <1>1, <2>3
      <4> QED BY <4>1
    <3>2. s[k] = h[j].id BY <1>4, <3>1
    <3>3. t[k] = h[j].id BY <1>5, <3>1
    <3> QED BY <3>2, <3>3
  <2> QED BY <1>1, <2>1, <2>2, <2>3
<1>7. Len(s) = n + 1 + l /\ Len(s) = Len(t) BY <1>1, <1>4, <1>5
<1> QED BY <1>4, <1>5, <1>6, <1>7, ListedSame

LEMMA SaLineCollect == ASSUME SaTypes, SaTypes', SaLine, SaCollect PROVE SaLine'
<1> PICK items, lost, h : items = sa.case.items /\ lost = saTold.lost /\ h = sa.headx OBVIOUS
<1> PICK said, ids : said = saTold.said /\ ids = SaLineIds(said, <<>>, h) OBVIOUS
<1>1. /\ sa.phase = "COLLECT" /\ saIn # <<>> /\ saIn' = Tail(saIn) /\ saResets' = saResets
  BY DEF SaCollect
<1>2. SaNow(sa) = <<>> BY <1>1 DEF SaNow, SaInWord
<1>3. PICK c \in 0 .. Len(items) : SaRest(sa, saIn, c) /\ SaCame(items, lost, c, ids)
  BY <1>2 DEF SaLine, SaLined
<1>4. sa.case \in SaTexts /\ Listed(said) /\ SaAllHeld(h) /\ Listed(h)
  BY DEF SaTypes, SaTyped, SaLine, SaLined, SaAllHeld
<1> PICK item, conv : item = Head(saIn) /\ conv = SaConverted(item) OBVIOUS
<1>5. /\ SaRest(sa, Tail(saIn), c + 1) /\ item = items[c + 1] /\ SaKnown(item)
      /\ c + 1 \in 1 .. Len(items)
  BY <1>1, <1>3, <1>4, SaHeadIs
<1>6. c \in Nat /\ c + 1 \in 0 .. Len(items) BY <1>5
<1>7. \A x \in lost : \E k \in 1 .. c : items[k].id = x BY <1>3 DEF SaCame
<1>8. /\ SaKept(items, lost, c + 1) = Append(SaKept(items, lost, c), item.id)
      /\ SaKept(items, lost \cup {item.id}, c + 1) = SaKept(items, lost, c)
      /\ item.id # 0
  <2>1. PICK case \in SaTexts : items = case.items BY <1>4
  <2>2. c \in Nat BY <1>6
  <2>4. c + 1 \in 1 .. Len(items) BY <1>5
  <2>3. SaKeptGrows(items, lost, c) BY ONLY <1>7, <2>1, <2>2, <2>4, SaKeptMore
  <2> QED BY ONLY <1>5, <2>3 DEF SaKeptGrows
<1>9. \/ /\ \E b1, b2 \in BOOLEAN : \E n :
              sa' = [sa EXCEPT !.headx = Append(@, conv), !.needsmoreitems = b1, !.inspaceok = b2,
                               !.cbuf1 = @ + n]
         /\ UNCHANGED saTold
      \/ saTold' = [saTold EXCEPT !.lost = @ \cup {item.id}] /\ UNCHANGED sa
  BY DEF SaCollect
<1>10. SaNumbered(ids) = SaKept(items, lost, c) BY <1>3 DEF SaCame
<1>11. CASE /\ \E b1, b2 \in BOOLEAN : \E n :
                 sa' = [sa EXCEPT !.headx = Append(@, conv), !.needsmoreitems = b1, !.inspaceok = b2,
                               !.cbuf1 = @ + n]
            /\ UNCHANGED saTold
  <2>1. sa'.headx = Append(h, conv) /\ sa'.case = sa.case /\ sa'.phase = sa.phase
    BY <1>11 DEF SaTypes, SaTyped, SaFieldNames
  <2>2. conv.id = item.id BY <1>5, SaConvertedHeld
  <2> PICK more : more = SaLineIds(said, <<>>, Append(h, conv)) OBVIOUS
  <2>3. more = Append(ids, item.id)
    <3>1. SaLineIds(said, <<>>, Append(h, conv)) = Append(SaLineIds(said, <<>>, h), conv.id)
      BY ONLY <1>4, SaLineAppend
    <3> QED BY <2>2, <3>1
  <2>4. Listed(ids)
    <3>1. Listed(SaLineIds(said, SaNow(sa), sa.headx)) BY <1>4, SaLineListed
    <3> QED BY <1>2, <3>1
  <2>5. SaNumbered(more) = Append(SaNumbered(ids), item.id) BY <1>8, <2>3, <2>4, SaNumberedMore
  <2>6. SaNumbered(more) = SaKept(items, lost, c + 1) BY <1>8, <1>10, <2>5
  <2>7. \A x \in lost : \E k \in 1 .. c + 1 : items[k].id = x BY <1>6, <1>7
  <2>8. SaCame(items, lost, c + 1, more) BY <2>6, <2>7 DEF SaCame
  <2>9. SaNow(sa)' = <<>> BY <1>1, <2>1 DEF SaNow, SaInWord
  <2>10. SaRest(sa', saIn', c + 1) BY <1>1, <1>5, <2>1 DEF SaRest
  <2>11. SaLineIds(saTold'.said, SaNow(sa)', sa'.headx) = more BY <1>11, <2>1, <2>9
  <2> QED BY <1>4, <1>6, <1>11, <2>1, <2>8, <2>10, <2>11 DEF SaLine, SaLined
<1>12. CASE saTold' = [saTold EXCEPT !.lost = @ \cup {item.id}] /\ UNCHANGED sa
  <2>1. saTold'.lost = lost \cup {item.id} /\ saTold'.said = said
    BY <1>12 DEF SaTypes, SaToldNames
  <2>2. \A x \in lost \cup {item.id} : \E k \in 1 .. c + 1 : items[k].id = x
    <3> TAKE x \in lost \cup {item.id}
    <3>1. CASE x \in lost BY <1>6, <1>7, <3>1
    <3>2. CASE x = item.id
      <4>1. c + 1 \in 1 .. c + 1 BY <1>6
      <4> QED BY <1>5, <3>2, <4>1
    <3> QED BY <3>1, <3>2
  <2>3. SaCame(items, lost \cup {item.id}, c + 1, ids) BY <1>8, <1>10, <2>2 DEF SaCame
  <2>4. SaLineIds(saTold'.said, SaNow(sa)', sa'.headx) = ids BY <1>2, <1>12, <2>1 DEF SaNow, SaInWord
  <2>5. SaRest(sa', saIn', c + 1) BY <1>1, <1>5, <1>12
  <2>6. sa'.case = sa.case BY <1>12
  <2> QED BY <1>4, <1>6, <2>1, <2>3, <2>4, <2>5, <2>6 DEF SaLine, SaLined
<1> QED BY <1>9, <1>11, <1>12

LEMMA SaLineCollected == ASSUME SaTypes, SaTypes', SaLine, SaCollected PROVE SaLine'
<1> PICK h : h = IF sa.needsmoreitems THEN Append(sa.headx, SaForced) ELSE sa.headx OBVIOUS
<1>1. /\ sa.phase = "COLLECT" /\ saIn' = saIn
      /\ sa' = [sa EXCEPT !.phase = "POSD", !.needsmoreitems = FALSE, !.headx = h]
      /\ \E phrase, asked, outs, g2p, made :
           saTold' = [saTold EXCEPT !.phrase = phrase, !.asked = asked, !.outs = outs,
                                    !.g2p = g2p, !.made = made]
  BY DEF SaCollected
<1>2. /\ sa'.headx = h /\ sa'.case = sa.case /\ sa'.phase = "POSD"
      /\ saTold'.lost = saTold.lost /\ saTold'.said = saTold.said
  BY <1>1 DEF SaTypes, SaTyped, SaFieldNames, SaToldNames
<1>3. Listed(saTold.said) /\ SaAllHeld(sa.headx) /\ Listed(sa.headx)
  BY DEF SaTypes, SaTyped, SaLine, SaLined, SaAllHeld
<1>4. SaNow(sa) = <<>> /\ SaNow(sa)' = <<>> BY <1>1, <1>2 DEF SaNow, SaInWord
<1> PICK ids : ids = SaLineIds(saTold.said, <<>>, sa.headx) OBVIOUS
<1>5. Listed(ids)
  <2>1. Listed(SaLineIds(saTold.said, SaNow(sa), sa.headx)) BY <1>3, SaLineListed
  <2> QED BY <1>4, <2>1
<1>6. SaNumbered(SaLineIds(saTold.said, <<>>, h)) = SaNumbered(ids)
  <2>1. CASE sa.needsmoreitems
    <3>1. SaForced.id = 0 BY DEF SaForced
    <3>2. SaLineIds(saTold.said, <<>>, Append(sa.headx, SaForced)) = Append(ids, 0)
      BY <1>3, <3>1, SaLineAppend
    <3> QED BY <1>5, <2>1, <3>2, SaNumberedMore
  <2> QED BY <2>1
<1>7. PICK c \in 0 .. Len(sa.case.items) : SaRest(sa, saIn, c) /\ SaCame(sa.case.items, saTold.lost, c, ids)
  BY <1>4 DEF SaLine, SaLined
<1>8. SaRest(sa', saIn', c) BY <1>1, <1>2, <1>7 DEF SaRest
<1>9. SaLineIds(saTold'.said, SaNow(sa)', sa'.headx) = SaLineIds(saTold.said, <<>>, h) BY <1>2, <1>4
<1>10. SaCame(sa'.case.items, saTold'.lost, c, SaLineIds(saTold'.said, SaNow(sa)', sa'.headx))
  BY <1>2, <1>6, <1>7, <1>9 DEF SaCame
<1> QED BY <1>2, <1>3, <1>7, <1>8, <1>10 DEF SaLine, SaLined

\* A word is taken up or put out: the line is the same.
LEMMA SaLineMoves ==
  ASSUME SaTypes, SaTypes', SaLine, saIn' = saIn, saTold'.lost = saTold.lost, sa'.case = sa.case,
         Listed(saTold'.said),
         SaLineIds(saTold.said, SaNow(sa), sa.headx)' = SaLineIds(saTold.said, SaNow(sa), sa.headx)
  PROVE  SaLine'
BY DEF SaLine, SaLined, SaRest

LEMMA SaParseIs ==
  ASSUME SaTypes, SaParse
  PROVE  /\ sa.phase = "PARSE" /\ sa.headx # <<>> /\ saTold' = saTold /\ saResets' = saResets
         /\ saIn' = saIn
         /\ sa'.headx = Tail(sa.headx) /\ sa'.case = sa.case /\ sa'.tmp = Head(sa.headx)
         /\ sa'.said = Head(sa.headx).data /\ sa'.passed = <<>> /\ sa'.curFst = sa.curFst
         /\ sa'.transduced = sa.transduced /\ sa'.bufOut = sa.bufOut
         /\ IF Head(sa.headx).type = "WORDPHON" /\ Len(SaExtracted(Head(sa.headx))) <= SaMaxPhon
            THEN sa'.phase = "FST" /\ sa'.phon = SaExtracted(Head(sa.headx))
            ELSE sa'.phase = "FEED"
<1> PICK item : item = Head(sa.headx) OBVIOUS
<1> PICK phon : phon = SaExtracted(item) OBVIOUS
<1> PICK next : next = [sa EXCEPT !.headx = Tail(@), !.tmp = item, !.said = item.data, !.passed = <<>>]
  OBVIOUS
<1>1. sa.phase = "PARSE" /\ sa.headx # <<>> /\ saTold' = saTold /\ saResets' = saResets /\ saIn' = saIn
  BY DEF SaParse
<1>2. sa' = IF item.type = "WORDPHON" /\ Len(phon) <= SaMaxPhon
            THEN [next EXCEPT !.phase = "FST", !.phon = phon] ELSE [next EXCEPT !.phase = "FEED"]
  BY DEF SaParse
<1>3. /\ DOMAIN next = SaFieldNames
      /\ next.headx = Tail(sa.headx) /\ next.case = sa.case /\ next.tmp = item /\ next.said = item.data
      /\ next.passed = <<>> /\ next.curFst = sa.curFst /\ next.transduced = sa.transduced
      /\ next.bufOut = sa.bufOut
  BY DEF SaTypes, SaTyped, SaFieldNames
<1>4. CASE item.type = "WORDPHON" /\ Len(phon) <= SaMaxPhon
  <2>1. sa' = [next EXCEPT !.phase = "FST", !.phon = phon] BY ONLY <1>2, <1>4
  <2>2. /\ sa'.headx = next.headx /\ sa'.case = next.case /\ sa'.tmp = next.tmp
        /\ sa'.said = next.said /\ sa'.passed = next.passed /\ sa'.curFst = next.curFst
        /\ sa'.transduced = next.transduced /\ sa'.bufOut = next.bufOut
        /\ sa'.phase = "FST" /\ sa'.phon = phon
    BY ONLY <1>3, <2>1 DEF SaFieldNames
  <2> QED BY <1>1, <1>3, <1>4, <2>2
<1>5. CASE ~(item.type = "WORDPHON" /\ Len(phon) <= SaMaxPhon)
  <2>1. sa' = [next EXCEPT !.phase = "FEED"] BY ONLY <1>2, <1>5
  <2>2. /\ sa'.headx = next.headx /\ sa'.case = next.case /\ sa'.tmp = next.tmp
        /\ sa'.said = next.said /\ sa'.passed = next.passed /\ sa'.curFst = next.curFst
        /\ sa'.transduced = next.transduced /\ sa'.bufOut = next.bufOut
        /\ sa'.phase = "FEED"
    BY ONLY <1>3, <2>1 DEF SaFieldNames
  <2> QED BY <1>1, <1>3, <1>5, <2>2
<1> QED BY <1>4, <1>5

LEMMA SaLineParse == ASSUME SaTypes, SaTypes', SaLine, SaParse PROVE SaLine'
<1>1. /\ sa.phase = "PARSE" /\ sa.headx # <<>> /\ saTold' = saTold /\ saIn' = saIn
      /\ sa'.headx = Tail(sa.headx) /\ sa'.case = sa.case /\ sa'.tmp = Head(sa.headx)
      /\ sa'.phase \in {"FST", "FEED"}
  BY SaParseIs
<1>2. SaNow(sa) = <<>> /\ SaNow(sa)' = <<Head(sa.headx)>> BY <1>1 DEF SaNow, SaInWord
<1>3. Listed(saTold.said) /\ Listed(sa.headx) BY DEF SaTypes, SaTyped, SaLine, SaLined, SaAllHeld
<1>4. SaLineIds(saTold.said, <<Head(sa.headx)>>, Tail(sa.headx)) = SaLineIds(saTold.said, <<>>, sa.headx)
  BY <1>1, <1>3, SaLineParsed
<1> QED BY <1>1, <1>2, <1>3, <1>4, SaLineMoves

\* What is put out of a word.
SaSaying == [id |-> sa.tmp.id, type |-> sa.tmp.type, made |-> sa.tmp.data, data |-> sa.said,
             passed |-> sa.passed]

LEMMA SaFeedIs ==
  ASSUME SaTypes, SaFeed
  PROVE  /\ sa.phase = "FEED" /\ ~sa.transduced /\ saIn' = saIn /\ saResets' = saResets
         /\ sa' = [sa EXCEPT !.phase = "PARSE"] /\ DOMAIN saTold' = SaToldNames
         /\ saTold'.said = Append(saTold.said, SaSaying) /\ saTold'.lost = saTold.lost
         /\ saTold'.phrase = saTold.phrase /\ saTold'.asked = saTold.asked /\ saTold'.outs = saTold.outs
         /\ saTold'.g2p = saTold.g2p /\ saTold'.made = saTold.made
<1>1. /\ sa.phase = "FEED" /\ ~sa.transduced /\ saIn' = saIn /\ saResets' = saResets
      /\ sa' = [sa EXCEPT !.phase = "PARSE"]
      /\ saTold' = [saTold EXCEPT !.said = Append(@, SaSaying)]
  BY Zenon DEF SaFeed, SaSaying
<1> PICK e : e = SaSaying OBVIOUS
<1> QED BY <1>1 DEF SaTypes, SaToldNames

LEMMA SaLineFeed == ASSUME SaTypes, SaTypes', SaLine, SaFeed PROVE SaLine'
<1> PICK e : e = SaSaying OBVIOUS
<1>1. /\ sa.phase = "FEED" /\ saIn' = saIn /\ sa' = [sa EXCEPT !.phase = "PARSE"]
      /\ saTold'.said = Append(saTold.said, e) /\ saTold'.lost = saTold.lost
  BY SaFeedIs
<1>2. sa'.headx = sa.headx /\ sa'.case = sa.case /\ sa'.phase = "PARSE"
  BY <1>1 DEF SaTypes, SaTyped, SaFieldNames
<1>3. SaNow(sa) = <<sa.tmp>> /\ SaNow(sa)' = <<>> BY <1>1, <1>2 DEF SaNow, SaInWord
<1>4. Listed(saTold.said) /\ Listed(sa.headx) BY DEF SaTypes, SaTyped, SaLine, SaLined, SaAllHeld
<1>5. e.id = sa.tmp.id BY DEF SaSaying
<1>6. SaLineIds(Append(saTold.said, e), <<>>, sa.headx) = SaLineIds(saTold.said, <<sa.tmp>>, sa.headx)
  BY <1>4, <1>5, SaLineSaid
<1>7. Listed(saTold'.said) BY <1>1, <1>4, ListedAppend
<1> QED BY <1>1, <1>2, <1>3, <1>6, <1>7, SaLineMoves

LEMMA SaLineFresh ==
  ASSUME NEW x, x.case \in SaTexts, x.phase = "COLLECT", x.headx = <<>>,
         NEW in, in = x.case.items, NEW told, told = SaNothing
  PROVE  SaLined(x, in, told)
<1> PICK items : items = x.case.items OBVIOUS
<1>1. items \in Seq({items[k] : k \in DOMAIN items}) BY SaAssumption
<1>2. Len(items) \in Nat /\ SubSeq(items, 1, Len(items)) = items
  <2> PICK R : R = {items[k] : k \in DOMAIN items} OBVIOUS
  <2>1. items \in Seq(R) BY <1>1
  <2>2. Len(items) \in Nat BY <2>1
  <2>3. SubSeq(items, 1, Len(items)) \in Seq(R) /\ Len(SubSeq(items, 1, Len(items))) = Len(items)
        /\ \A k \in 1 .. Len(items) : SubSeq(items, 1, Len(items))[k] = items[k]
    BY <2>1, <2>2, FirstOf
  <2> QED BY <2>1, <2>2, <2>3, SeqEqual
<1>3. SaRest(x, in, 0)
  <2>1. 0 + 1 = 1 OBVIOUS
  <2> QED BY <1>2, <2>1 DEF SaRest
<1>4. told.said = <<>> /\ told.lost = {} BY DEF SaNothing
<1>5. SaNow(x) = <<>> BY DEF SaNow, SaInWord
<1>6. SaLineIds(<<>>, <<>>, <<>>) = <<>>
  <2>1. Len(<<>>) = 0 /\ 0 \in Nat OBVIOUS
  <2> PICK ids : ids = SaLineIds(<<>>, <<>>, <<>>) OBVIOUS
  <2>2. SaLineAt(ids, <<>>, <<>>, <<>>, 0, 0, 0) BY <2>1, SaLineIs
  <2>3. Listed(ids) /\ Len(ids) = 0 BY <2>2 DEF SaLineAt
  <2> QED BY <2>3, ListedLen
<1>7. SaNumbered(<<>>) = <<>> BY ElementsNone DEF SaNumbered
<1>8. SaKept(items, {}, 0) = <<>>
  <2>1. SaFedIds(items, 0) = <<>> BY DEF SaFedIds
  <2> QED BY <2>1, ElementsNone DEF SaKept
<1>9. SaCame(items, {}, 0, <<>>) BY <1>7, <1>8 DEF SaCame
<1>10. 0 \in 0 .. Len(items) BY <1>2
<1> QED BY <1>3, <1>4, <1>5, <1>6, <1>9, <1>10, ListedEmpty DEF SaLined

LEMMA SaLineReset == ASSUME SaTypes, SaTypes', SaLine, SaReset PROVE SaLine'
<1>1. PICK curFst : sa' = SaFresh(sa.case, curFst, sa.bufOut)
  BY DEF SaReset
<1>2. saIn' = sa.case.items /\ saTold' = SaNothing BY DEF SaReset
<1>3. sa'.case = sa.case /\ sa'.phase = "COLLECT" /\ sa'.headx = <<>> BY <1>1 DEF SaFresh
<1>4. sa'.case \in SaTexts BY <1>3 DEF SaTypes, SaTyped
<1> QED BY <1>2, <1>3, <1>4, SaLineFresh DEF SaLine

LEMMA SaLineInit == ASSUME SaInit PROVE SaLine
<1>1. PICK c \in SaTexts : SaStart(c) BY DEF SaInit
<1>2. sa = SaFresh(c, 1, <<>>) /\ saIn = c.items /\ saTold = SaNothing BY <1>1 DEF SaStart
<1>3. sa.case = c /\ sa.phase = "COLLECT" /\ sa.headx = <<>> BY <1>2 DEF SaFresh
<1> QED BY <1>2, <1>3, SaLineFresh DEF SaLine

LEMMA SaLineOnce == ASSUME SaTypes, SaLine PROVE SaSaidOnce
<1> PICK items, lost : items = sa.case.items /\ lost = saTold.lost OBVIOUS
<1> PICK told : told = saTold.said OBVIOUS
<1> PICK line : line = SaLineIds(told, SaNow(sa), sa.headx) OBVIOUS
<1> PICK said : said = [k \in DOMAIN told |-> told[k].id] OBVIOUS
<1> PICK all : all = [k \in DOMAIN items |-> items[k].id] OBVIOUS
<1>1. Listed(told) /\ SaAllHeld(sa.headx) /\ sa.case \in SaTexts BY DEF SaLine, SaLined, SaTypes, SaTyped
<1>2. PICK m, n, l \in Nat : m = Len(told) /\ n = Len(SaNow(sa)) /\ l = Len(sa.headx)
  BY <1>1, SaLineListed
<1>3. SaLineAt(line, told, SaNow(sa), sa.headx, m, n, l) BY <1>2, SaLineIs
<1>4. Listed(line) /\ Len(line) = m + n + l /\ \A k \in 1 .. m : line[k] = told[k].id
  BY <1>3 DEF SaLineAt
<1>5. DOMAIN told = 1 .. m BY <1>1, <1>2, ListedLen
<1>6. said = [k \in 1 .. m |-> line[k]] BY <1>4, <1>5
<1>7. PICK c \in 0 .. Len(items) : SaCame(items, lost, c, line) BY DEF SaLine, SaLined
<1>8. SaNumbered(line) = SaKept(items, lost, c) BY <1>7 DEF SaCame
<1> PICK P, Q : P = {k \in 1 .. Len(line) : line[k] # 0} /\ Q = {k \in DOMAIN said : said[k] # 0} OBVIOUS
<1> PICK a, b : a = ElementsAt(said, Q) /\ b = ElementsAt(line, P) OBVIOUS
<1>9. Leads(a, b)
  <2>1. m \in 0 .. Len(line)
    <3>1. m \in Nat /\ n \in Nat /\ l \in Nat BY <1>2
    <3>2. Len(line) = m + n + l BY <1>4
    <3> QED BY ONLY <3>1, <3>2
  <2>2. \A k \in 1 .. m : k \in P <=> k \in Q BY <1>4, <1>6, <2>1
  <2> QED BY ONLY <1>4, <1>6, <2>1, <2>2, ElementsPrefix, a = ElementsAt(said, Q), b = ElementsAt(line, P)
<1>10. b = SaKept(items, lost, c) BY <1>8 DEF SaNumbered
<1>11. Len(items) \in Nat /\ DOMAIN items = 1 .. Len(items)
  <2>1. items \in Seq({items[k] : k \in DOMAIN items}) BY <1>1, SaAssumption
  <2> PICK R : R = {items[k] : k \in DOMAIN items} OBVIOUS
  <2>2. items \in Seq(R) BY <2>1
  <2> QED BY ONLY <2>2
<1>12. Listed(all) /\ Len(all) = Len(items)
  <2>1. all = [k \in 1 .. Len(items) |-> all[k]] BY <1>11
  <2> QED BY <1>11, <2>1 DEF Listed
<1>13. SaFedIds(items, c) = [k \in 1 .. c |-> all[k]]
  <2>1. \A k \in 1 .. c : all[k] = items[k].id BY <1>11
  <2> QED BY <2>1 DEF SaFedIds
<1> PICK N : N = {k \in DOMAIN all : all[k] \notin lost} OBVIOUS
<1> PICK K : K = {k \in 1 .. c : items[k].id \notin lost} OBVIOUS
<1> PICK d : d = ElementsAt(all, N) OBVIOUS
<1>14. b = ElementsAt(SaFedIds(items, c), K) BY <1>10 DEF SaKept
<1>15. Leads(b, d)
  <2>1. c \in 0 .. Len(all) BY <1>12
  <2>2. \A k \in 1 .. c : k \in N <=> k \in K BY <1>11
  <2> QED BY ONLY <1>12, <1>13, <1>14, <2>1, <2>2, ElementsPrefix, d = ElementsAt(all, N)
<1>17. IsPrefix(a, d) BY <1>9, <1>15, LeadsOn, PrefixIs
<1>18. a = ElementsAt(said, {k \in DOMAIN said : said[k] # 0})
       /\ d = ElementsAt(all, {k \in DOMAIN all : all[k] \notin lost})
  OBVIOUS
<1> QED BY <1>17, <1>18 DEF SaSaidOnce

-----------------------------------------------------------------------------
(* The transducers are passed in their order, and only by words that have room. *)

\* Words for which there is room in phonBuf; those among what was said.
SaFits(type, data) == type = "WORDPHON" /\ Len(data) + 2 <= SaMaxPhon
SaFitting(said) == ElementsAt(said, {k \in DOMAIN said : SaFits(said[k].type, said[k].made)})
SaStarted(said, resets) == SaFitting(said) = <<>> /\ resets > 0

\* The transducers passed are those up to one, in their order, from the first on but for
\* the first word after a soft reset.
SaInTurn(passed, upto, said, resets) ==
  /\ upto - Len(passed) >= 0 /\ passed = [j \in 1 .. Len(passed) |-> upto - Len(passed) + j]
  /\ upto - Len(passed) > 0 => SaStarted(said, resets)

SaPasses(x, said, resets) ==
  /\ x.curFst \in 1 .. x.case.fsts + 1
  /\ x.phase # "FST" => x.curFst = 1 \/ SaStarted(said, resets)
  /\ SaInWord(x) => Listed(x.passed)
  /\ x.phase = "FST" => /\ SaFits(x.tmp.type, x.tmp.data)
                        /\ SaInTurn(x.passed, x.curFst - 1, said, resets)
  /\ (x.phase = "FEED" /\ SaFits(x.tmp.type, x.tmp.data)) =>
       x.curFst = 1 /\ SaInTurn(x.passed, x.case.fsts, said, resets)
  /\ (x.phase = "FEED" /\ x.tmp.type # "WORDPHON") => x.passed = <<>> /\ x.said = x.tmp.data
  /\ x.transduced => SaInWord(x) /\ x.tmp.type = "WORDPHON"
  /\ x.transduced \in BOOLEAN

\* SaPassed and SaOthersKept, of what was said.
SaWordsPass(said, fsts, resets) ==
  \A k \in DOMAIN SaFitting(said) :
    LET passed == SaFitting(said)[k].passed
        lack   == fsts - Len(passed)
    IN  /\ passed = [j \in 1 .. fsts - lack |-> lack + j]
        /\ lack > 0 => k = 1 /\ resets > 0

SaRestKept(said) == \A x \in ToSet(said) : x.type # "WORDPHON" => x.data = x.made /\ x.passed = <<>>
SaPassing ==
  /\ SaPasses(sa, saTold.said, saResets)
  /\ SaWordsPass(saTold.said, sa.case.fsts, saResets)
  /\ SaRestKept(saTold.said)

\* Steps that are not about the word that is fed.
SaAside ==
  /\ sa'.case = sa.case /\ sa'.curFst = sa.curFst /\ sa'.transduced = sa.transduced
  /\ sa'.bufOut = sa.bufOut
  /\ saTold'.said = saTold.said /\ saResets' = saResets
  /\ (~SaInWord(sa) /\ ~SaInWord(sa')) \/ sa' = sa

LEMMA SaAsideBegin == ASSUME SaTypes, SaDisambBegin PROVE SaAside
<1> PICK words : words = {k \in DOMAIN sa.headx : SaIsWord(sa.headx[k])} OBVIOUS
<1>1. /\ sa.phase = "POSD" /\ saResets' = saResets /\ saTold' = saTold
      /\ \E first, val, last :
           sa' = IF words = {} THEN [sa EXCEPT !.phase = "WPHO", !.i = 1]
                 ELSE [sa EXCEPT !.phase = "DISAMB", !.i = first, !.prevout = SaZero,
                                 !.val = val, !.last = last]
  BY Zenon DEF SaDisambBegin
<1> QED BY <1>1 DEF SaAside, SaTypes, SaTyped, SaFieldNames, SaInWord

LEMMA SaAsideCollect == ASSUME SaTypes, SaCollect \/ SaCollected PROVE SaAside
<1>1. CASE SaCollect
  <2> PICK conv : conv = SaConverted(Head(saIn)) OBVIOUS
  <2> PICK lost : lost = saTold.lost \cup {Head(saIn).id} OBVIOUS
  <2>1. /\ sa.phase = "COLLECT" /\ saResets' = saResets
        /\ \/ UNCHANGED sa /\ saTold' = [saTold EXCEPT !.lost = lost]
           \/ \E b1, b2 \in BOOLEAN : \E n :
                /\ sa' = [sa EXCEPT !.headx = Append(@, conv), !.needsmoreitems = b1, !.inspaceok = b2,
                               !.cbuf1 = @ + n]
                /\ UNCHANGED saTold
    BY <1>1 DEF SaCollect
  <2> QED BY <2>1 DEF SaAside, SaTypes, SaTyped, SaFieldNames, SaToldNames, SaInWord
<1>2. CASE SaCollected
  <2> PICK h : h = IF sa.needsmoreitems THEN Append(sa.headx, SaForced) ELSE sa.headx OBVIOUS
  <2>1. /\ sa.phase = "COLLECT" /\ saResets' = saResets
        /\ sa' = [sa EXCEPT !.phase = "POSD", !.needsmoreitems = FALSE, !.headx = h]
        /\ saTold' = [saTold EXCEPT !.phrase = h, !.asked = <<>>, !.outs = <<>>,
                                    !.g2p = <<>>, !.made = <<>>]
    BY <1>2 DEF SaCollected
  <2> QED BY <2>1 DEF SaAside, SaTypes, SaTyped, SaFieldNames, SaToldNames, SaInWord
<1> QED BY <1>1, <1>2

LEMMA SaAsideOther ==
  ASSUME SaTypes, \/ SaDisambOther \/ SaDisambEnd \/ SaWphoGraph \/ SaWphoEnd \/ SaParseEnd \/ SaTake
  PROVE  SaAside
BY DEF SaAside, SaTypes, SaTyped, SaFieldNames, SaInWord, SaDisambOther, SaDisambEnd, SaWphoGraph,
       SaWphoEnd, SaParseEnd, SaTake

LEMMA SaAsideG2pGraph == ASSUME SaTypes, SaG2pGraph PROVE SaAside
<1>1. sa.phase = "G2P" /\ saResets' = saResets BY SaG2pGraphIs
<1>2. PICK answer, out : SaHeard(answer, out) BY SaG2pGraphIs
<1>3. PICK n, outs, phones, g2p :
        /\ sa' = [sa EXCEPT !.count = n, !.outs = outs, !.phones = phones]
        /\ saTold' = [saTold EXCEPT !.g2p = g2p]
  BY <1>2 DEF SaHeard
<1> QED BY <1>1, <1>3 DEF SaAside, SaTypes, SaTyped, SaFieldNames, SaToldNames, SaInWord

LEMMA SaAsideWpho == ASSUME SaTypes, SaWphoCopy \/ SaG2pEnd PROVE SaAside
<1>1. PICK item : SaMadeAs(item) /\ sa.phase \in {"WPHO", "G2P"} /\ saResets' = saResets
  BY DEF SaWphoCopy, SaG2pEnd
<1>2. PICK h, n, i, made : /\ sa' = [sa EXCEPT !.headx = h, !.cbuf2 = n, !.i = i, !.phase = "WPHO"]
                        /\ saTold' = [saTold EXCEPT !.made = made]
  <2>1. PICK n, i, made : /\ sa' = [sa EXCEPT !.headx[sa.i] = item, !.cbuf2 = n, !.i = i, !.phase = "WPHO"]
                       /\ saTold' = [saTold EXCEPT !.made = made]
    BY <1>1 DEF SaMadeAs
  <2>2. sa' = [sa EXCEPT !.headx = [sa.headx EXCEPT ![sa.i] = item], !.cbuf2 = n, !.i = i, !.phase = "WPHO"]
    BY <2>1 DEF SaTypes, SaTyped, SaFieldNames
  <2> QED BY <2>1, <2>2
<1> QED BY <1>1, <1>2 DEF SaAside, SaTypes, SaTyped, SaFieldNames, SaToldNames, SaInWord

LEMMA SaAsideWord == ASSUME SaTypes, SaDisambWord PROVE SaAside
<1> PICK right : right = saPosDItemSeqGetPosRight(sa.last) OBVIOUS
<1> PICK item : item = sa.headx[sa.i] OBVIOUS
<1> PICK m : m = SaMoved(right, item) OBVIOUS
<1>1. sa.phase = "DISAMB" /\ SaPassedBy(right, item) /\ saResets' = saResets BY SaDisambWordIs
<1>2. /\ DOMAIN m = SaFieldNames /\ m.case = sa.case /\ m.phase = sa.phase /\ m.headx = sa.headx
      /\ m.curFst = sa.curFst /\ m.transduced = sa.transduced /\ m.bufOut = sa.bufOut
  BY DEF SaMoved, SaTypes, SaTyped, SaFieldNames
<1>3. \E out, h : sa' = [m EXCEPT !.prevout = out, !.headx = h]
  <2>1. CASE sa' = [m EXCEPT !.prevout = item.info1]
    <3>1. sa' = [m EXCEPT !.prevout = item.info1, !.headx = m.headx] BY <1>2, <2>1 DEF SaFieldNames
    <3> QED BY <3>1
  <2>2. ASSUME NEW j, NEW out, sa' = [m EXCEPT !.prevout = out, !.headx[sa.i] = j]
        PROVE  \E h : sa' = [m EXCEPT !.prevout = out, !.headx = h]
    <3>1. sa' = [m EXCEPT !.prevout = out, !.headx = [sa.headx EXCEPT ![sa.i] = j]]
      BY <1>2, <2>2 DEF SaFieldNames
    <3> QED BY <3>1
  <2>3. \/ sa' = [m EXCEPT !.prevout = item.info1]
        \/ \E j, out : sa' = [m EXCEPT !.prevout = out, !.headx[sa.i] = j]
    <3>1. \/ sa' = [SaMoved(right, item) EXCEPT !.prevout = item.info1]
          \/ \E class, out :
               sa' = [SaMoved(right, item) EXCEPT !.prevout = out,
                        !.headx[sa.i] = [item EXCEPT !.info1 = class, !.data = SaSelected(item, class)]]
      BY <1>1, Zenon DEF SaPassedBy
    <3>2. SaMoved(right, item) = m OBVIOUS
    <3> QED BY ONLY <3>1, <3>2
  <2>4. ASSUME NEW j, NEW out, sa' = [m EXCEPT !.prevout = out, !.headx[sa.i] = j]
        PROVE  \E o, h : sa' = [m EXCEPT !.prevout = o, !.headx = h]
    BY <2>2, <2>4
  <2> QED BY ONLY <2>1, <2>3, <2>4
<1>4. saTold'.said = saTold.said /\ DOMAIN saTold' = SaToldNames
  BY <1>1 DEF SaPassedBy, SaTypes, SaToldNames
<1> QED BY ONLY <1>1, <1>2, <1>3, <1>4 DEF SaAside, SaFieldNames, SaInWord

LEMMA SaAsideAll ==
  ASSUME SaTypes,
         \/ SaCollect \/ SaCollected \/ SaDisambBegin \/ SaDisambOther \/ SaDisambWord \/ SaDisambEnd
         \/ SaWphoCopy \/ SaWphoGraph \/ SaG2pGraph \/ SaG2pEnd \/ SaWphoEnd \/ SaParseEnd \/ SaTake
  PROVE  SaAside
BY SaAsideBegin, SaAsideCollect, SaAsideOther, SaAsideG2pGraph, SaAsideWpho, SaAsideWord, Zenon

LEMMA SaPassedIs ==
  /\ SaPassed <=> SaWordsPass(saTold.said, sa.case.fsts, saResets)
  /\ SaOthersKept <=> SaRestKept(saTold.said)
<1>1. SaPassed <=> SaWordsPass(saTold.said, sa.case.fsts, saResets)
  BY Zenon DEF SaPassed, SaWordsPass, SaFitting, SaFits
<1> QED BY <1>1 DEF SaOthersKept, SaRestKept

LEMMA SaPassingAside == ASSUME SaTypes, SaPassing, SaAside PROVE SaPassing'
<1>1. SaPasses(sa, saTold.said, saResets)'
  BY DEF SaPassing, SaPasses, SaAside, SaInWord
<1> QED BY <1>1 DEF SaPassing, SaAside

LEMMA SaExtractedLen ==
  ASSUME NEW item, item.data \in Seq(STRING)
  PROVE  Len(SaExtracted(item)) = Len(item.data) + 2
<1> PICK data : data = item.data OBVIOUS
<1> PICK n \in Nat : n = Len(data) OBVIOUS
<1> PICK a, b : a = SaIntern("start") /\ b = SaIntern("term") OBVIOUS
<1> PICK d : d = [k \in 1 .. n |-> [pos |-> "item", sym |-> data[k]]] OBVIOUS
<1>1. Listed(d) /\ Len(d) = n
  <2>1. d = [k \in 1 .. n |-> d[k]] OBVIOUS
  <2> QED BY <2>1 DEF Listed
<1> PICK R : R = {d[k] : k \in DOMAIN d} \cup {a, b} OBVIOUS
<1>2. d \in Seq(R) /\ a \in R /\ b \in R
  <2>1. \A k \in DOMAIN d : d[k] \in R OBVIOUS
  <2> QED BY <1>1, <2>1, ListedIn
<1>3. Len(<<a>> \o d \o <<b>>) = n + 2 BY <1>1, <1>2
<1>4. DOMAIN data = 1 .. n OBVIOUS
<1>5. SaExtracted(item) = <<a>> \o d \o <<b>> BY <1>4 DEF SaExtracted
<1> QED BY <1>3, <1>5

LEMMA SaPassingParse == ASSUME SaTypes, SaPassing, SaParse PROVE SaPassing'
<1> PICK item : item = Head(sa.headx) OBVIOUS
<1>1. /\ sa.phase = "PARSE" /\ sa.headx # <<>> /\ saTold' = saTold /\ saResets' = saResets
      /\ sa'.case = sa.case /\ sa'.tmp = item
      /\ sa'.said = item.data /\ sa'.passed = <<>> /\ sa'.curFst = sa.curFst
      /\ sa'.transduced = sa.transduced
      /\ IF item.type = "WORDPHON" /\ Len(SaExtracted(item)) <= SaMaxPhon
         THEN sa'.phase = "FST" ELSE sa'.phase = "FEED"
  BY SaParseIs
<1>2. SaHeld(item) BY <1>1, SaHeldLess DEF SaTypes, SaTyped
<1>3. item.type = "WORDPHON" => Len(SaExtracted(item)) = Len(item.data) + 2
  BY <1>2, SaExtractedLen DEF SaHeld
<1>4. sa'.phase = "FST" <=> SaFits(item.type, item.data) BY <1>1, <1>3 DEF SaFits
<1>5. sa.transduced = FALSE BY <1>1 DEF SaPassing, SaPasses, SaInWord
<1>6. Listed(<<>>) /\ Len(<<>>) = 0 BY ListedEmpty
<1>7. ASSUME NEW n \in Nat, n > 0 => SaStarted(saTold.said, saResets)
      PROVE  SaInTurn(<<>>, n, saTold.said, saResets)
  <2>1. n - 0 >= 0 /\ n - 0 = n OBVIOUS
  <2>2. [j \in 1 .. 0 |-> n - 0 + j] = <<>> OBVIOUS
  <2> QED BY <1>6, <1>7, <2>1, <2>2 DEF SaInTurn
<1>8. sa.curFst - 1 \in Nat /\ (sa.curFst - 1 > 0 => SaStarted(saTold.said, saResets))
  <2>1. sa.case.fsts \in Nat BY SaAssumption DEF SaTypes, SaTyped
  <2> QED BY <1>1, <2>1 DEF SaPassing, SaPasses
<1>9. sa'.phase = "FST" => SaInTurn(sa'.passed, sa'.curFst - 1, saTold.said, saResets)
  BY <1>1, <1>7, <1>8
<1>10. SaPasses(sa, saTold.said, saResets)'
  <2>1. sa.curFst \in 1 .. sa.case.fsts + 1 /\ (sa.curFst = 1 \/ SaStarted(saTold.said, saResets))
    BY <1>1 DEF SaPassing, SaPasses
  <2>2. sa'.curFst = 1 \/ SaStarted(saTold.said, saResets)' BY <1>1, <2>1
  <2>3. sa'.phase = "FST" => SaInTurn(sa'.passed, sa'.curFst - 1, saTold'.said, saResets')
    BY <1>1, <1>9
  <2> QED BY ONLY <1>1, <1>4, <1>5, <1>6, <2>1, <2>2, <2>3 DEF SaPasses, SaInWord
<1> QED BY <1>1, <1>10 DEF SaPassing

LEMMA SaPassingSyllabify == ASSUME SaTypes, SaPassing, SaSyllabify PROVE SaPassing'
<1>1. /\ sa.phase = "FST" /\ sa.case.fsts = 0 /\ saTold' = saTold /\ saResets' = saResets
      /\ \E new, phon : sa' = [sa EXCEPT !.phase = "FEED", !.transduced = TRUE, !.bufOut = new, !.phon = phon]
  BY Zenon DEF SaSyllabify
<1>2. /\ sa'.phase = "FEED" /\ sa'.transduced = TRUE /\ sa'.case = sa.case /\ sa'.curFst = sa.curFst
      /\ sa'.passed = sa.passed /\ sa'.tmp = sa.tmp
  BY <1>1 DEF SaTypes, SaTyped, SaFieldNames
<1>3. sa.curFst = 1 BY <1>1 DEF SaPassing, SaPasses
<1>4. SaInTurn(sa.passed, 0, saTold.said, saResets)
  <2>1. sa.curFst - 1 = 0 BY <1>3
  <2> QED BY <1>1, <2>1 DEF SaPassing, SaPasses
<1>5. Listed(sa.passed) /\ SaFits(sa.tmp.type, sa.tmp.data) BY <1>1 DEF SaPassing, SaPasses, SaInWord
<1>6. SaPasses(sa, saTold.said, saResets)'
  BY ONLY <1>1, <1>2, <1>3, <1>4, <1>5 DEF SaPasses, SaInWord, SaFits
<1> QED BY <1>1, <1>2, <1>6 DEF SaPassing

LEMMA SaPassingFst == ASSUME SaTypes, SaPassing, SaFst PROVE SaPassing'
<1>1. /\ sa.phase = "FST" /\ sa.curFst <= sa.case.fsts /\ saTold' = saTold /\ saResets' = saResets
      /\ \E phon : sa' = [sa EXCEPT !.phon = phon, !.transduced = TRUE, !.passed = Append(@, sa.curFst),
                        !.curFst = @ + 1]
  BY Zenon DEF SaFst
<1>2. /\ sa'.phase = "FST" /\ sa'.transduced = TRUE /\ sa'.case = sa.case /\ sa'.curFst = sa.curFst + 1
      /\ sa'.passed = Append(sa.passed, sa.curFst) /\ sa'.tmp = sa.tmp
  BY <1>1 DEF SaTypes, SaTyped, SaFieldNames
<1> PICK p, q, c : p = sa.passed /\ q = Append(p, c) /\ c = sa.curFst OBVIOUS
<1>3. sa.case.fsts \in Nat BY SaAssumption DEF SaTypes, SaTyped
<1>4. /\ c \in 1 .. sa.case.fsts + 1 /\ c \in Nat /\ c <= sa.case.fsts
      /\ Listed(p) /\ SaFits(sa.tmp.type, sa.tmp.data)
      /\ SaInTurn(p, c - 1, saTold.said, saResets)
  BY <1>1, <1>3 DEF SaPassing, SaPasses, SaInWord
<1>5. Listed(q) /\ Len(q) = Len(p) + 1 /\ Len(p) \in Nat /\ q[Len(p) + 1] = c
      /\ \A k \in 1 .. Len(p) : q[k] = p[k]
  BY <1>4, ListedAppend, ListedLen
<1> PICK l \in Nat : l = Len(p) BY <1>5
<1>6. (c - 1) - l >= 0 /\ (\A k \in 1 .. l : p[k] = c - 1 - l + k)
      /\ (c - 1 - l > 0 => SaStarted(saTold.said, saResets))
  BY <1>4 DEF SaInTurn
<1>7. q = [k \in 1 .. l + 1 |-> q[k]] BY <1>5 DEF Listed
<1>8. \A k \in 1 .. l + 1 : q[k] = c - (l + 1) + k
  <2> TAKE k \in 1 .. l + 1
  <2>1. CASE k \in 1 .. l BY <1>4, <1>5, <1>6, <2>1
  <2>2. CASE k = l + 1 BY <1>4, <1>5, <2>2
  <2> QED BY <2>1, <2>2
<1>9. SaInTurn(q, c, saTold.said, saResets)
  <2>1. Len(q) = l + 1 /\ c - (l + 1) = c - 1 - l BY <1>4, <1>5
  <2>2. q = [j \in 1 .. l + 1 |-> c - (l + 1) + j] BY <1>7, <1>8
  <2> QED BY ONLY <1>6, <2>1, <2>2 DEF SaInTurn
<1>10. SaPasses(sa, saTold.said, saResets)'
  <2>1. sa'.curFst - 1 = c BY <1>2, <1>4
  <2>2. sa'.curFst \in 1 .. sa'.case.fsts + 1 BY <1>2, <1>3, <1>4
  <2>3. SaInTurn(sa.passed, sa.curFst - 1, saTold.said, saResets)' BY <1>1, <1>2, <1>9, <2>1
  <2>4. sa'.tmp.type = "WORDPHON" /\ SaFits(sa'.tmp.type, sa'.tmp.data) BY <1>2, <1>4 DEF SaFits
  <2>5. Listed(sa'.passed) BY <1>2, <1>5
  <2> QED BY ONLY <1>2, <2>2, <2>3, <2>4, <2>5 DEF SaPasses, SaInWord
<1> QED BY <1>1, <1>2, <1>10 DEF SaPassing

LEMMA SaPassingFstEnd == ASSUME SaTypes, SaPassing, SaFstEnd PROVE SaPassing'
<1>1. /\ sa.phase = "FST" /\ sa.curFst > sa.case.fsts /\ saTold' = saTold /\ saResets' = saResets
      /\ sa' = [sa EXCEPT !.phase = "FEED", !.transduced = TRUE, !.curFst = 1]
  BY DEF SaFstEnd
<1>2. /\ sa'.phase = "FEED" /\ sa'.transduced = TRUE /\ sa'.case = sa.case /\ sa'.curFst = 1
      /\ sa'.passed = sa.passed /\ sa'.tmp = sa.tmp
  BY <1>1 DEF SaTypes, SaTyped, SaFieldNames
<1>3. sa.case.fsts \in Nat BY SaAssumption DEF SaTypes, SaTyped
<1>4. sa.curFst - 1 = sa.case.fsts /\ 1 \in 1 .. sa.case.fsts + 1 BY <1>1, <1>3 DEF SaPassing, SaPasses
<1>5. SaInTurn(sa.passed, sa.case.fsts, saTold.said, saResets) /\ Listed(sa.passed)
      /\ sa.tmp.type = "WORDPHON"
  BY <1>1, <1>4 DEF SaPassing, SaPasses, SaInWord, SaFits
<1>6. SaPasses(sa, saTold.said, saResets)' BY ONLY <1>1, <1>2, <1>4, <1>5 DEF SaPasses, SaInWord
<1> QED BY <1>1, <1>2, <1>6 DEF SaPassing

LEMMA SaPassingReplace == ASSUME SaTypes, SaPassing, SaReplace PROVE SaPassing'
<1> PICK data : data = SaRead(sa.phon) OBVIOUS
<1>1. /\ sa.phase = "FEED" /\ sa.transduced /\ saTold' = saTold /\ saResets' = saResets
      /\ sa' = [sa EXCEPT !.transduced = FALSE, !.said = data]
  BY DEF SaReplace
<1>2. /\ sa'.phase = "FEED" /\ sa'.transduced = FALSE /\ sa'.case = sa.case /\ sa'.curFst = sa.curFst
      /\ sa'.passed = sa.passed /\ sa'.tmp = sa.tmp
  BY <1>1 DEF SaTypes, SaTyped, SaFieldNames
<1>3. sa.tmp.type = "WORDPHON" BY <1>1 DEF SaPassing, SaPasses
<1>4. SaPasses(sa, saTold.said, saResets)'
  BY ONLY <1>1, <1>2, <1>3, SaPassing DEF SaPassing, SaPasses, SaInWord
<1> QED BY <1>1, <1>2, <1>4 DEF SaPassing

\* One more is said: it is among the words that fit, or it is not.
LEMMA SaFittingMore ==
  ASSUME NEW said, Listed(said), NEW e
  PROVE  /\ Listed(SaFitting(said))
         /\ SaFitting(Append(said, e)) = IF SaFits(e.type, e.made) THEN Append(SaFitting(said), e)
                                         ELSE SaFitting(said)
<1> PICK more : more = Append(said, e) OBVIOUS
<1> PICK P : P = {k \in DOMAIN more : SaFits(more[k].type, more[k].made)} OBVIOUS
<1>1. /\ Len(said) \in Nat /\ Len(more) = Len(said) + 1 /\ more[Len(said) + 1] = e
      /\ \A k \in 1 .. Len(said) : more[k] = said[k]
      /\ DOMAIN more = 1 .. Len(said) + 1 /\ DOMAIN said = 1 .. Len(said)
  BY ListedAppend, ListedLen
<1>2. SaFitting(more) = IF Len(said) + 1 \in P THEN Append(ElementsAt(said, P), e) ELSE ElementsAt(said, P)
  BY ElementsGrow DEF SaFitting
<1>3. Listed(ElementsAt(said, P)) BY ElementsGrow
<1>4. ElementsAt(said, P) = SaFitting(said)
  <2>1. \A k \in 1 .. Len(said) : k \in P <=> k \in {j \in DOMAIN said : SaFits(said[j].type, said[j].made)}
    BY <1>1
  <2> QED BY <2>1, ElementsSame DEF SaFitting
<1>5. Len(said) + 1 \in P <=> SaFits(e.type, e.made) BY <1>1
<1> QED BY <1>2, <1>3, <1>4, <1>5

LEMMA SaPassingFeed == ASSUME SaTypes, SaLine, SaPassing, SaFeed PROVE SaPassing'
<1> PICK e : e = SaSaying OBVIOUS
<1> PICK said, n : said = saTold.said /\ n = sa.case.fsts OBVIOUS
<1>1. /\ sa.phase = "FEED" /\ ~sa.transduced /\ saResets' = saResets
      /\ sa' = [sa EXCEPT !.phase = "PARSE"] /\ saTold'.said = Append(said, e)
  BY SaFeedIs
<1>2. /\ sa'.phase = "PARSE" /\ sa'.transduced = sa.transduced /\ sa'.case = sa.case
      /\ sa'.curFst = sa.curFst
  BY <1>1 DEF SaTypes, SaTyped, SaFieldNames
<1>3. Listed(said) /\ n \in Nat BY SaAssumption DEF SaLine, SaLined, SaTypes, SaTyped
<1>4. /\ e.type = sa.tmp.type /\ e.made = sa.tmp.data /\ e.data = sa.said /\ e.passed = sa.passed
  BY DEF SaSaying
<1>5. /\ Listed(SaFitting(said))
      /\ SaFitting(Append(said, e)) = IF SaFits(e.type, e.made) THEN Append(SaFitting(said), e)
                                         ELSE SaFitting(said)
  BY <1>3, SaFittingMore
<1>6. SaPasses(sa, saTold.said, saResets)'
  <2>1. sa.curFst = 1 \/ SaStarted(Append(said, e), saResets)
    BY <1>1, <1>4, <1>5 DEF SaPassing, SaPasses, SaStarted
  <2>2. sa'.curFst = 1 \/ SaStarted(saTold.said, saResets)' BY <1>1, <1>2, <2>1
  <2> QED BY ONLY <1>1, <1>2, <2>2, SaPassing DEF SaPassing, SaPasses, SaInWord
<1>7. SaWordsPass(Append(said, e), n, saResets)
  <2> PICK words, p : words = SaFitting(said) /\ p = e.passed OBVIOUS
  <2>1. SaWordsPass(said, n, saResets) BY DEF SaPassing
  <2>2. CASE SaFits(e.type, e.made)
    <3>1. SaInTurn(p, n, said, saResets) /\ Listed(p) BY <1>1, <1>4, <2>2 DEF SaPassing, SaPasses, SaInWord
    <3>2. Len(p) \in Nat BY <3>1, ListedLen
    <3>3. /\ DOMAIN Append(words, e) = 1 .. Len(words) + 1 /\ DOMAIN words = 1 .. Len(words)
          /\ Len(words) \in Nat /\ Append(words, e)[Len(words) + 1] = e
          /\ \A k \in 1 .. Len(words) : Append(words, e)[k] = words[k]
      BY <1>5, ListedAppend, ListedLen
    <3>4. words = <<>> => Len(words) + 1 = 1 BY <1>5, ListedLen
    <3>5. n - (n - Len(p)) = Len(p) BY <1>3, <3>2
    <3>6. /\ p = [j \in 1 .. n - (n - Len(p)) |-> (n - Len(p)) + j]
          /\ n - Len(p) > 0 => Len(words) + 1 = 1 /\ saResets > 0
      BY <3>1, <3>4, <3>5 DEF SaInTurn, SaStarted
    <3>7. SaFitting(Append(said, e)) = Append(words, e) BY <1>5, <2>2
    <3>8. ASSUME NEW k \in 1 .. Len(words) + 1
          PROVE  LET passed == Append(words, e)[k].passed
                     lack   == n - Len(passed)
                 IN  /\ passed = [j \in 1 .. n - lack |-> lack + j]
                     /\ lack > 0 => k = 1 /\ saResets > 0
      <4>1. CASE k = Len(words) + 1 BY <3>3, <3>6, <4>1
      <4>2. CASE k # Len(words) + 1
        <5>1. k \in 1 .. Len(words) BY <3>3, <4>2
        <5>2. Append(words, e)[k] = words[k] /\ k \in DOMAIN words BY <3>3, <5>1
        <5> QED BY <2>1, <5>2 DEF SaWordsPass
      <4> QED BY <4>1, <4>2
    <3> QED BY ONLY <3>3, <3>7, <3>8 DEF SaWordsPass
  <2>3. CASE ~SaFits(e.type, e.made) BY <1>5, <2>1, <2>3 DEF SaWordsPass
  <2> QED BY <2>2, <2>3
<1>8. SaRestKept(Append(said, e))
  <2>1. SaRestKept(said) BY DEF SaPassing
  <2>2. e.type # "WORDPHON" => e.data = e.made /\ e.passed = <<>>
    BY <1>1, <1>4 DEF SaPassing, SaPasses
  <2>3. \A x \in ToSet(Append(said, e)) : x \in ToSet(said) \/ x = e
    <3>1. /\ DOMAIN Append(said, e) = 1 .. Len(said) + 1 /\ DOMAIN said = 1 .. Len(said)
          /\ Len(said) \in Nat /\ Append(said, e)[Len(said) + 1] = e
          /\ \A k \in 1 .. Len(said) : Append(said, e)[k] = said[k]
      BY <1>3, ListedAppend, ListedLen
    <3>2. \A k \in 1 .. Len(said) + 1 : k \in 1 .. Len(said) \/ k = Len(said) + 1 BY <3>1
    <3> QED BY ONLY <3>1, <3>2 DEF ToSet
  <2> QED BY <2>1, <2>2, <2>3 DEF SaRestKept
<1> QED BY <1>1, <1>2, <1>6, <1>7, <1>8 DEF SaPassing

LEMMA SaPassingFresh ==
  ASSUME NEW x, x.case \in SaTexts, x.phase = "COLLECT", x.transduced = FALSE, NEW resets \in Nat,
         x.curFst \in 1 .. x.case.fsts + 1, x.curFst = 1 \/ resets > 0
  PROVE  /\ SaPasses(x, <<>>, resets) /\ SaWordsPass(<<>>, x.case.fsts, resets)
         /\ SaRestKept(<<>>)
<1>1. SaFitting(<<>>) = <<>> BY ElementsNone DEF SaFitting
<1>2. DOMAIN <<>> = {} OBVIOUS
<1>3. SaWordsPass(<<>>, x.case.fsts, resets) BY <1>1, <1>2 DEF SaWordsPass
<1>4. SaRestKept(<<>>) BY <1>2 DEF SaRestKept, ToSet
<1>5. SaPasses(x, <<>>, resets) BY <1>1 DEF SaPasses, SaStarted, SaInWord
<1> QED BY <1>3, <1>4, <1>5

LEMMA SaPassingReset == ASSUME SaTypes, SaPassing, SaReset PROVE SaPassing'
<1>1. PICK curFst \in {1, sa.curFst} :
         sa' = SaFresh(sa.case, curFst, sa.bufOut) /\ saTold' = SaNothing /\ saResets' = saResets + 1
  BY DEF SaReset
<1>2. sa'.case = sa.case /\ sa'.phase = "COLLECT" /\ sa'.transduced = FALSE /\ sa'.curFst = curFst
      /\ saTold'.said = <<>>
  BY <1>1 DEF SaFresh, SaNothing
<1>3. sa.case \in SaTexts /\ sa.case.fsts \in Nat /\ saResets \in Nat BY SaAssumption DEF SaTypes, SaTyped
<1>4. curFst \in 1 .. sa.case.fsts + 1 BY <1>3 DEF SaPassing, SaPasses
<1> PICK x, r : x = sa' /\ r = saResets' OBVIOUS
<1>5. SaPasses(x, <<>>, r) /\ SaWordsPass(<<>>, x.case.fsts, r) /\ SaRestKept(<<>>)
  <2>1. r \in Nat /\ r > 0 BY <1>1, <1>3
  <2>2. x.case \in SaTexts /\ x.phase = "COLLECT" /\ x.transduced = FALSE
        /\ x.curFst \in 1 .. x.case.fsts + 1
    BY <1>2, <1>3, <1>4
  <2> QED BY <2>1, <2>2, SaPassingFresh
<1> QED BY <1>2, <1>5 DEF SaPassing

LEMMA SaPassingInit == ASSUME SaInit PROVE SaPassing
<1>1. PICK c \in SaTexts : SaStart(c) BY DEF SaInit
<1>2. sa = SaFresh(c, 1, <<>>) /\ saTold = SaNothing /\ saResets = 0 BY <1>1 DEF SaStart
<1>3. sa.case = c /\ sa.phase = "COLLECT" /\ sa.transduced = FALSE /\ sa.curFst = 1
  BY <1>2 DEF SaFresh
<1>5. saTold.said = <<>> BY <1>2 DEF SaNothing
<1>4. 1 \in 1 .. c.fsts + 1
  <2>1. c.fsts \in Nat BY SaAssumption
  <2> QED BY <2>1
<1> QED BY <1>2, <1>3, <1>4, <1>5, SaPassingFresh DEF SaPassing

-----------------------------------------------------------------------------
(* Phones made of graphemes: each is asked about with the answers to those behind it, and
   what is made are the answers that fit. *)

\* One question more.
LEMMA SaAskedMore ==
  ASSUME NEW g2p, Listed(g2p), NEW e, NEW at
  PROVE  /\ Listed(SaAskedOf(g2p, at))
         /\ SaAskedOf(Append(g2p, e), at)
              = IF e.at = at THEN Fronted(e, SaAskedOf(g2p, at)) ELSE SaAskedOf(g2p, at)
<1> PICK more : more = Append(g2p, e) OBVIOUS
<1> PICK P : P = {k \in DOMAIN more : more[k].at = at} OBVIOUS
<1>1. /\ Len(g2p) \in Nat /\ Len(more) = Len(g2p) + 1 /\ more[Len(g2p) + 1] = e
      /\ \A k \in 1 .. Len(g2p) : more[k] = g2p[k]
      /\ DOMAIN more = 1 .. Len(g2p) + 1 /\ DOMAIN g2p = 1 .. Len(g2p)
  BY ListedAppend, ListedLen
<1> PICK a : a = ElementsAt(g2p, P) OBVIOUS
<1>2. ElementsAt(more, P) = IF Len(g2p) + 1 \in P THEN Append(a, e) ELSE a BY ElementsGrow
<1>3. Listed(a) BY ElementsGrow
<1>4. a = ElementsAt(g2p, {j \in DOMAIN g2p : g2p[j].at = at})
  <2>1. \A k \in 1 .. Len(g2p) : k \in P <=> k \in {j \in DOMAIN g2p : g2p[j].at = at} BY <1>1
  <2> QED BY <2>1, ElementsSame
<1>5. Len(g2p) + 1 \in P <=> e.at = at BY <1>1
<1>6. SaAskedOf(g2p, at) = Reverse(a) /\ SaAskedOf(more, at) = Reverse(ElementsAt(more, P))
  BY <1>4 DEF SaAskedOf
<1>7. Listed(Reverse(a)) /\ Reverse(Append(a, e)) = Fronted(e, Reverse(a))
  BY <1>3, ReverseListed, ReverseNext
<1> QED BY <1>2, <1>5, <1>6, <1>7

\* An answer is a string of phones.
SaAnswered(g2p) == Listed(g2p) /\ \A k \in 1 .. Len(g2p) : g2p[k].answer \in Seq(STRING) /\ g2p[k].at \in Nat
LEMMA SaAskedHeld ==
  ASSUME NEW g2p, SaAnswered(g2p), NEW at
  PROVE  \A k \in 1 .. Len(SaAskedOf(g2p, at)) : SaAskedOf(g2p, at)[k].answer \in Seq(STRING)
<1> PICK R : R = {g2p[k] : k \in DOMAIN g2p} OBVIOUS
<1>1. g2p \in Seq(R) /\ \A x \in R : x.answer \in Seq(STRING)
  BY ListedLen DEF SaAnswered
<1> PICK P : P = {j \in DOMAIN g2p : g2p[j].at = at} OBVIOUS
<1> PICK a : a = ElementsAt(g2p, P) OBVIOUS
<1>2. a \in Seq(R) BY <1>1, ElementsType
<1> PICK n \in Nat : n = Len(a) BY ONLY <1>2
<1>3. SaAskedOf(g2p, at) = [k \in 1 .. n |-> a[(n - k) + 1]] BY DEF SaAskedOf, Reverse
<1>4. \A k \in 1 .. n : (n - k) + 1 \in 1 .. n /\ a[(n - k) + 1] \in R
  <2> TAKE k \in 1 .. n
  <2>1. (n - k) + 1 \in 1 .. n OBVIOUS
  <2> QED BY ONLY <1>2, <2>1, n = Len(a)
<1>5. Len(SaAskedOf(g2p, at)) = n BY <1>3
<1> QED BY <1>1, <1>3, <1>4, <1>5

\* The phones that were answered: those of the last question stand in front.
SaSaidTo(e) == IF e.answer = SaNone THEN <<>> ELSE e.answer
SaPhonesAhead(e, asked) ==
  /\ SaPhonesOf(asked) \in Seq(STRING) /\ SaSaidTo(e) \in Seq(STRING)
  /\ SaPhonesOf(Fronted(e, asked)) = SaSaidTo(e) \o SaPhonesOf(asked)

LEMMA SaPhonesFront ==
  ASSUME NEW asked, Listed(asked), \A k \in 1 .. Len(asked) : asked[k].answer \in Seq(STRING),
         NEW e, e.answer \in Seq(STRING)
  PROVE  SaPhonesAhead(e, asked)
<1> PICK n \in Nat : n = Len(asked) BY ListedLen
<1> PICK a : a = SaSaidTo(e) OBVIOUS
<1> PICK P : P = [k \in 1 .. n + 1 |-> IF k <= n THEN SaSaidTo(asked[k]) ELSE <<>>] OBVIOUS
<1>0. \A x : x.answer \in Seq(STRING) => SaSaidTo(x) \in Seq(STRING)
  <2>1. <<>> \in Seq(STRING) OBVIOUS
  <2> QED BY ONLY <2>1 DEF SaSaidTo
<1>1. a \in Seq(STRING) BY <1>0
<1>2. \A k \in 1 .. n + 1 : P[k] \in Seq(STRING)
  <2>1. <<>> \in Seq(STRING) OBVIOUS
  <2>2. \A k \in 1 .. n : SaSaidTo(asked[k]) \in Seq(STRING) BY <1>0
  <2> TAKE k \in 1 .. n + 1
  <2>3. CASE k <= n
    <3>1. k \in 1 .. n BY <2>3
    <3>2. P[k] = SaSaidTo(asked[k]) BY <2>3
    <3> QED BY <2>2, <3>1, <3>2
  <2>4. CASE ~(k <= n) BY <2>1, <2>4
  <2> QED BY <2>3, <2>4
<1>3. FlattenSeq([k \in 1 .. n |-> P[k]]) \in Seq(STRING) BY ONLY <1>2, n \in Nat, FlattenNext
<1>4. /\ \A k \in 1 .. n : P[k] \in Seq(STRING)
      /\ \A k \in 1 .. n : P[k] = SaSaidTo(asked[k])
  <2>1. \A k \in 1 .. n : k \in 1 .. n + 1 OBVIOUS
  <2> QED BY <1>2, <2>1
<1> PICK A, B : A = [k \in 1 .. n + 1 |-> IF k = 1 THEN a ELSE P[k - 1]] /\ B = [k \in 1 .. n |-> P[k]]
  OBVIOUS
<1>5. FlattenSeq(A) = a \o FlattenSeq(B)
  <2>1. \A k \in 1 .. n : P[k] \in Seq(STRING) BY <1>4
  <2>2. InFront(A, a, n, P) BY DEF InFront
  <2>3. FirstAre(B, n, P) BY DEF FirstAre
  <2>4. n \in Nat OBVIOUS
  <2>5. FlatFront(A, a, B) BY ONLY <1>1, <2>1, <2>2, <2>3, <2>4, FlattenFront
  <2> QED BY ONLY <2>5 DEF FlatFront
<1>6. SaPhonesOf(asked) = FlattenSeq([k \in 1 .. n |-> P[k]])
  <2>1. [k \in 1 .. n |-> P[k]] = [k \in 1 .. n |-> SaSaidTo(asked[k])] BY <1>4
  <2> QED BY <2>1 DEF SaPhonesOf, SaSaidTo
<1> PICK f : f = Fronted(e, asked) OBVIOUS
<1>7. f = [k \in 1 .. n + 1 |-> IF k = 1 THEN e ELSE asked[k - 1]] BY DEF Fronted
<1>8. Len(f) = n + 1 /\ \A k \in 1 .. n + 1 : f[k] = IF k = 1 THEN e ELSE asked[k - 1] BY <1>7
<1>9. SaPhonesOf(f) = FlattenSeq([k \in 1 .. n + 1 |-> SaSaidTo(f[k])]) BY <1>8 DEF SaPhonesOf, SaSaidTo
<1>10. [k \in 1 .. n + 1 |-> SaSaidTo(f[k])] = [k \in 1 .. n + 1 |-> IF k = 1 THEN a ELSE P[k - 1]]
  <2>1. \A k \in 1 .. n + 1 : SaSaidTo(f[k]) = IF k = 1 THEN a ELSE P[k - 1]
    <3> TAKE k \in 1 .. n + 1
    <3>1. k # 1 => k - 1 \in 1 .. n OBVIOUS
    <3> QED BY <1>4, <1>8, <3>1
  <2> QED BY <2>1
<1> QED BY <1>1, <1>3, <1>5, <1>6, <1>9, <1>10 DEF SaPhonesAhead

\* The last elements of a sequence that have room.
SaLastAt(s, m, t) ==
  /\ s \in Seq(STRING) /\ Len(s) = m /\ \A k \in 1 .. m : s[k] = t[Len(t) - m + k]

LEMMA SaLastFitIs ==
  ASSUME NEW p \in Seq(STRING), NEW room \in Nat
  PROVE  SaLastAt(SaLastFit(p, room), IF Len(p) <= room THEN Len(p) ELSE room, p)
<1> PICK n \in Nat : n = Len(p) OBVIOUS
<1> PICK a : a = Max({1, Len(p) - room + 1}) OBVIOUS
<1>0. a = Max({1, n - room + 1}) OBVIOUS
<1>1. a = IF n - room + 1 <= 1 THEN 1 ELSE n - room + 1
  <2>1. CASE n - room + 1 <= 1
    <3>1. ASSUME NEW S, 1 \in S, \A y \in S : y \in Int /\ y <= 1 PROVE Max(S) = 1
      <4>1. \A x \in S : (\A y \in S : x >= y) <=> x = 1 BY <3>1
      <4> QED BY ONLY <4>1, 1 \in S DEF Max
    <3> QED BY <1>0, <2>1, <3>1
  <2>2. CASE ~(n - room + 1 <= 1)
    <3>1. {1, n - room + 1} \in SUBSET (1 .. n + 1) /\ {1, n - room + 1} # {} BY <2>2
    <3>2. a \in {1, n - room + 1} /\ \A y \in {1, n - room + 1} : y <= a
      <4> PICK S, N : S = {1, n - room + 1} /\ N = n + 1 OBVIOUS
      <4>1. N \in Nat /\ S \in SUBSET (1 .. N) /\ S # {} BY <3>1
      <4>2. Max(S) \in S /\ \A y \in S : y <= Max(S) BY ONLY <4>1, MaxOf
      <4>3. a = Max(S) BY <1>0
      <4> QED BY ONLY <4>2, <4>3, S = {1, n - room + 1}
    <3> QED BY <2>2, <3>2
  <2> QED BY <2>1, <2>2
<1> PICK m : m = IF n <= room THEN n ELSE room OBVIOUS
<1>2. a \in Nat \ {0} /\ m \in Nat /\ a = n - m + 1 /\ (IF a <= n THEN n - a + 1 ELSE 0) = m
      /\ n - a + 1 = m
  BY ONLY <1>1, n \in Nat, room \in Nat, m = IF n <= room THEN n ELSE room
<1> PICK s : s = SubSeq(p, a, n) OBVIOUS
<1>3. /\ s \in Seq(STRING) /\ Len(s) = m /\ \A k \in 1 .. m : s[k] = p[a + k - 1]
  <2>1. /\ s \in Seq(STRING) /\ Len(s) = IF a <= n THEN n - a + 1 ELSE 0
        /\ \A k \in 1 .. n - a + 1 : s[k] = p[a + k - 1]
    <3>1. n <= Len(p) /\ a \in Nat \ {0} BY <1>2
    <3> QED BY ONLY <3>1, p \in Seq(STRING), n \in Nat, s = SubSeq(p, a, n), PartOf
  <2> QED BY ONLY <1>2, <2>1
<1>4. \A k \in 1 .. m : a + k - 1 = n - m + k BY ONLY <1>2, n \in Nat
<1>5. SaLastFit(p, room) = s
  <2>1. SaLastFit(p, room) = SubSeq(p, a, Len(p)) BY Zenon DEF SaLastFit
  <2> QED BY ONLY <2>1, n = Len(p), s = SubSeq(p, a, n)
<1>6. m = IF Len(p) <= room THEN Len(p) ELSE room OBVIOUS
<1>7. SaLastAt(s, m, p)
  <2>1. \A k \in 1 .. m : s[k] = p[Len(p) - m + k] BY ONLY <1>3, <1>4, n = Len(p)
  <2> QED BY ONLY <1>3, <2>1 DEF SaLastAt
<1> QED BY ONLY <1>5, <1>6, <1>7

LEMMA SaAddedFits ==
  ASSUME NEW p \in Seq(STRING), NEW more \in Seq(STRING), SaRoom \in Nat
  PROVE  SaAdded(SaLastFit(p, SaRoom), more) = SaLastFit(more \o p, SaRoom)
<1> PICK room, n, m \in Nat : room = SaRoom /\ n = Len(p) /\ m = Len(more) OBVIOUS
<1> PICK f : f = SaLastFit(p, room) OBVIOUS
<1> PICK l : l = IF n <= room THEN n ELSE room OBVIOUS
<1>1. l \in Nat /\ l <= room /\ SaLastAt(f, l, p) BY SaLastFitIs
<1> PICK k : k = Min({m, room - l}) OBVIOUS
<1>2. k = IF m <= room - l THEN m ELSE room - l
  <2>1. {m, room - l} \in SUBSET Nat /\ {m, room - l} # {} BY <1>1
  <2>2. k \in {m, room - l} /\ \A y \in {m, room - l} : k <= y BY <2>1, MinOf
  <2> QED BY ONLY <1>1, <2>2, m \in Nat, room \in Nat
<1>3. k \in 0 .. m /\ k + l <= room BY ONLY <1>1, <1>2, m \in Nat, room \in Nat
<1> PICK a : a = m - k + 1 OBVIOUS
<1>4. k \in Nat /\ a \in Nat \ {0} /\ (IF a <= m THEN m - a + 1 ELSE 0) = k /\ m - a + 1 = k
  BY ONLY <1>3, m \in Nat, a = m - k + 1
<1> PICK cut : cut = SubSeq(more, a, m) OBVIOUS
<1>5. cut \in Seq(STRING) /\ Len(cut) = k /\ \A i \in 1 .. k : cut[i] = more[a + i - 1]
  <2>1. cut \in Seq(STRING) /\ Len(cut) = (IF a <= m THEN m - a + 1 ELSE 0)
        /\ \A i \in 1 .. m - a + 1 : cut[i] = more[a + i - 1]
    <3>1. m <= Len(more) /\ a \in Nat \ {0} BY <1>4
    <3> QED BY ONLY <3>1, m \in Nat, more \in Seq(STRING), cut = SubSeq(more, a, m), PartOf
  <2> QED BY ONLY <1>4, <2>1
<1>6. SaAdded(f, more) = cut \o f
  <2>1. Len(f) = l BY <1>1 DEF SaLastAt
  <2> QED BY <2>1 DEF SaAdded
<1> PICK x, y, t : x = cut \o f /\ t = more \o p /\ y = SaLastFit(t, room) OBVIOUS
<1>7. t \in Seq(STRING) /\ Len(t) = m + n
      /\ \A i \in 1 .. m + n : t[i] = IF i <= m THEN more[i] ELSE p[i - m]
  OBVIOUS
<1> PICK w : w = IF m + n <= room THEN m + n ELSE room OBVIOUS
<1>8. w = k + l /\ w \in Nat
  BY ONLY <1>2, m \in Nat, n \in Nat, room \in Nat, w = IF m + n <= room THEN m + n ELSE room,
     l = IF n <= room THEN n ELSE room
<1>9. y \in Seq(STRING) /\ Len(y) = w /\ \A i \in 1 .. w : y[i] = t[m + n - w + i]
  <2>0. w = IF Len(t) <= room THEN Len(t) ELSE room BY <1>7
  <2>1. SaLastAt(y, w, t)
    <3>1. t \in Seq(STRING) /\ room \in Nat BY <1>7
    <3>2. SaLastAt(SaLastFit(t, room), IF Len(t) <= room THEN Len(t) ELSE room, t) BY ONLY <3>1, SaLastFitIs
    <3> QED BY ONLY <2>0, <3>2, y = SaLastFit(t, room)
  <2>2. y \in Seq(STRING) /\ Len(y) = w /\ \A i \in 1 .. w : y[i] = t[Len(t) - w + i]
    BY ONLY <2>1 DEF SaLastAt
  <2>3. Len(t) = m + n BY <1>7
  <2> QED BY ONLY <2>2, <2>3
<1>10. f \in Seq(STRING) /\ Len(f) = l /\ \A i \in 1 .. l : f[i] = p[n - l + i] BY <1>1 DEF SaLastAt
<1>11. x \in Seq(STRING) /\ Len(x) = k + l /\ \A i \in 1 .. k + l : x[i] = IF i <= k THEN cut[i] ELSE f[i - k]
  <2>1. cut \in Seq(STRING) /\ f \in Seq(STRING) /\ Len(cut) = k /\ Len(f) = l BY <1>5, <1>10
  <2>2. /\ x \in Seq(STRING) /\ Len(x) = Len(cut) + Len(f)
        /\ \A i \in 1 .. Len(cut) + Len(f) : x[i] = IF i <= Len(cut) THEN cut[i] ELSE f[i - Len(cut)]
    BY ONLY <2>1, x = cut \o f, ConcatProperties
  <2> QED BY ONLY <2>1, <2>2
<1>12. \A i \in 1 .. w : x[i] = y[i]
  <2> TAKE i \in 1 .. w
  <2>1. i \in 1 .. k + l /\ i \in Nat BY ONLY <1>8, i \in 1 .. w
  <2>2. CASE i <= k
    <3>1. n = l BY ONLY <1>1, <1>2, <2>1, <2>2, m \in Nat, n \in Nat, room \in Nat,
                       l = IF n <= room THEN n ELSE room
    <3>2. i \in 1 .. k /\ a + i - 1 \in 1 .. m /\ m + n - w + i = a + i - 1 /\ m + n - w + i \in 1 .. m + n
      BY ONLY <1>3, <1>4, <1>8, <2>1, <2>2, <3>1, m \in Nat, n \in Nat, a = m - k + 1
    <3>3. x[i] = more[a + i - 1] BY ONLY <1>5, <1>11, <2>1, <2>2, <3>2
    <3>4. y[i] = more[a + i - 1] BY ONLY <1>7, <1>9, <3>2, i \in 1 .. w, m \in Nat
    <3> QED BY <3>3, <3>4
  <2>3. CASE ~(i <= k)
    <3>1. /\ i - k \in 1 .. l /\ m + n - w + i \in 1 .. m + n
          /\ n - l + (i - k) = (m + n - w + i) - m
      BY ONLY <1>3, <1>4, <1>8, <2>1, <2>3, m \in Nat, n \in Nat, l \in Nat, <1>1,
         l = IF n <= room THEN n ELSE room, room \in Nat
    <3>2. (m + n - w + i) - m > 0
      BY ONLY <1>1, <3>1, m \in Nat, n \in Nat, room \in Nat, l = IF n <= room THEN n ELSE room
    <3>3. ~(m + n - w + i <= m) BY ONLY <3>1, <3>2, m \in Nat, n \in Nat
    <3>4. x[i] = f[i - k] BY ONLY <1>11, <2>1, <2>3
    <3>5. f[i - k] = p[n - l + (i - k)] BY ONLY <1>10, <3>1
    <3>6. y[i] = p[(m + n - w + i) - m] BY ONLY <1>7, <1>9, <3>1, <3>3, i \in 1 .. w
    <3> QED BY ONLY <3>1, <3>4, <3>5, <3>6
  <2> QED BY <2>2, <2>3
<1>13. x = y BY ONLY <1>8, <1>9, <1>11, <1>12, SeqEqual
<1> QED BY <1>6, <1>13

\* SaG2pAsked and SaG2pMade, of what was asked and what was made.
SaAskRight(g, before) ==
  LET outs == [j \in DOMAIN before |-> before[j].out]
      kept == SaLastFit(SaPhonesOf(before), g.room)
  IN  g.ask.outs = SaPadded(outs, 3, <<SaZero>>) /\ (g.ask.primary <=> SaStress \in ToSet(kept))

SaAsksRight(g2p) ==
  \A k \in DOMAIN g2p : SaAskRight(g2p[k], SaAskedOf(SubSeq(g2p, 1, k - 1), g2p[k].at))

SaMadeOf(m, asked) ==
  LET fit == SaLastFit(SaPhonesOf(asked), m.room) IN m.data = SubSeq(fit, 1, Min({SaMaxLen, Len(fit)}))

SaMadeRight(phrase, g2p, made) ==
  \A k \in DOMAIN made : phrase[k].type = "WORDGRAPH" => SaMadeOf(made[k], SaAskedOf(g2p, k))

LEMMA SaAsksIs ==
  /\ SaG2pAsked <=> SaAsksRight(saTold.g2p)
  /\ SaG2pMade <=> SaMadeRight(saTold.phrase, saTold.g2p, saTold.made)
<1>1. SaG2pAsked <=> SaAsksRight(saTold.g2p) BY Zenon DEF SaG2pAsked, SaAsksRight, SaAskRight
<1>2. SaG2pMade <=> SaMadeRight(saTold.phrase, saTold.g2p, saTold.made)
  BY Zenon DEF SaG2pMade, SaMadeRight, SaMadeOf
<1> QED BY <1>1, <1>2

\* No word from this one on has been asked about.
SaUnasked(g2p, from) == \A at \in Nat : at >= from => SaAskedOf(g2p, at) = <<>>
SaSameTypes(headx, phrase, from) ==
  /\ Len(headx) = Len(phrase) /\ Len(headx) \in Nat
  /\ \A k \in from .. Len(headx) : headx[k].type = phrase[k].type

SaAskedSoFar(x, asked) ==
  /\ x.outs = [j \in 1 .. Len(asked) |-> asked[j].out]
  /\ x.phones = SaLastFit(SaPhonesOf(asked), SaMaxCbuf - x.cbuf2)

SaOnPhrase(x) == x.phase \in {"POSD", "DISAMB", "WPHO", "G2P"}
SaMakes(x, told) ==
  /\ SaAnswered(told.g2p) /\ Listed(told.made)
  /\ x.phase \in {"POSD", "DISAMB"} => told.g2p = <<>> /\ told.made = <<>>
  /\ SaOnPhrase(x) => SaSameTypes(x.headx, told.phrase, Len(told.made) + 1)
  /\ x.phase = "WPHO" => Len(told.made) = x.i - 1 /\ SaUnasked(told.g2p, x.i)
  /\ x.phase = "G2P" => /\ Len(told.made) = x.i - 1 /\ SaUnasked(told.g2p, x.i + 1)
                        /\ SaAskedSoFar(x, SaAskedOf(told.g2p, x.i))
  /\ SaAsksRight(told.g2p) /\ SaMadeRight(told.phrase, told.g2p, told.made)

SaMaking == SaMakes(sa, saTold)

\* Nothing was asked or made.
LEMMA SaMakesNothing ==
  ASSUME NEW x, NEW told, told.g2p = <<>>, told.made = <<>>,
         SaOnPhrase(x) => SaSameTypes(x.headx, told.phrase, 1),
         x.phase # "G2P", x.phase = "WPHO" => x.i = 1
  PROVE  SaMakes(x, told)
<1>1. Listed(<<>>) /\ Len(<<>>) = 0 /\ DOMAIN <<>> = {} BY ListedEmpty
<1>2. SaAnswered(<<>>) BY <1>1 DEF SaAnswered
<1>3. SaUnasked(<<>>, 1)
  <2> SUFFICES ASSUME NEW at \in Nat PROVE SaAskedOf(<<>>, at) = <<>> BY DEF SaUnasked
  <2> PICK P : P = {j \in DOMAIN <<>> : <<>>[j].at = at} OBVIOUS
  <2>1. SaAskedOf(<<>>, at) = Reverse(<<>>)
    <3>1. ElementsAt(<<>>, P) = <<>> BY ElementsNone
    <3> QED BY <3>1 DEF SaAskedOf
  <2>2. Reverse(<<>>) = <<>> BY <1>1 DEF Reverse
  <2> QED BY <2>1, <2>2
<1>4. SaAsksRight(<<>>) /\ SaMadeRight(told.phrase, <<>>, <<>>) BY <1>1 DEF SaAsksRight, SaMadeRight
<1>5. Len(<<>>) + 1 = 1 /\ Len(<<>>) = 1 - 1 BY <1>1
<1> QED BY <1>1, <1>2, <1>3, <1>4, <1>5 DEF SaMakes

\* Steps that leave what was asked and made, outside of the phrase.
SaMadeAside ==
  /\ saTold'.g2p = saTold.g2p /\ saTold'.made = saTold.made /\ saTold'.phrase = saTold.phrase
  /\ ~SaOnPhrase(sa') \/ sa' = sa

LEMMA SaMakingAside == ASSUME SaTypes, SaMaking, SaMadeAside PROVE SaMaking'
<1>1. CASE ~SaOnPhrase(sa')
  <2>1. sa'.phase \notin {"POSD", "DISAMB", "WPHO", "G2P"} BY <1>1 DEF SaOnPhrase
  <2> QED BY ONLY SaMaking, SaMadeAside, <1>1, <2>1 DEF SaMaking, SaMakes, SaMadeAside
<1>2. CASE sa' = sa
  BY ONLY SaMaking, SaMadeAside, <1>2 DEF SaMaking, SaMakes, SaMadeAside, SaOnPhrase
<1> QED BY <1>1, <1>2 DEF SaMadeAside

LEMMA SaMadeAsideCollect == ASSUME SaTypes, SaCollect PROVE SaMadeAside
<1> PICK conv : conv = SaConverted(Head(saIn)) OBVIOUS
<1> PICK lost : lost = saTold.lost \cup {Head(saIn).id} OBVIOUS
<1>1. /\ sa.phase = "COLLECT" /\ saResets' = saResets
      /\ \/ UNCHANGED sa /\ saTold' = [saTold EXCEPT !.lost = lost]
         \/ \E b1, b2 \in BOOLEAN : \E n :
              /\ sa' = [sa EXCEPT !.headx = Append(@, conv), !.needsmoreitems = b1, !.inspaceok = b2,
                             !.cbuf1 = @ + n]
              /\ UNCHANGED saTold
  BY DEF SaCollect
<1> QED BY <1>1 DEF SaMadeAside, SaTypes, SaTyped, SaFieldNames, SaToldNames, SaOnPhrase

LEMMA SaMadeAsideOther ==
  ASSUME SaTypes, SaWphoEnd \/ SaParseEnd \/ SaFstEnd \/ SaReplace \/ SaTake
  PROVE  SaMadeAside
BY DEF SaMadeAside, SaTypes, SaTyped, SaFieldNames, SaOnPhrase, SaWphoEnd, SaParseEnd, SaFstEnd,
       SaReplace, SaTake

LEMMA SaMadeAsideParse == ASSUME SaTypes, SaParse PROVE SaMadeAside
<1>1. saTold' = saTold /\ (sa'.phase = "FST" \/ sa'.phase = "FEED") BY SaParseIs
<1> QED BY <1>1 DEF SaMadeAside, SaOnPhrase

LEMMA SaMadeAsideFeed == ASSUME SaTypes, SaFeed PROVE SaMadeAside
<1>1. /\ sa' = [sa EXCEPT !.phase = "PARSE"] /\ saTold'.phrase = saTold.phrase
      /\ saTold'.g2p = saTold.g2p /\ saTold'.made = saTold.made
  BY SaFeedIs
<1> QED BY <1>1 DEF SaMadeAside, SaOnPhrase, SaTypes, SaTyped, SaFieldNames

LEMMA SaMadeAsideFst == ASSUME SaTypes, SaSyllabify \/ SaFst PROVE SaMadeAside
<1>1. CASE SaSyllabify
  <2>1. /\ sa.phase = "FST" /\ saTold' = saTold
        /\ \E new, phon : sa' = [sa EXCEPT !.phase = "FEED", !.transduced = TRUE, !.bufOut = new, !.phon = phon]
    BY <1>1, Zenon DEF SaSyllabify
  <2> QED BY <2>1 DEF SaMadeAside, SaOnPhrase, SaTypes, SaTyped, SaFieldNames
<1>2. CASE SaFst
  <2>1. /\ sa.phase = "FST" /\ saTold' = saTold
        /\ \E phon : sa' = [sa EXCEPT !.phon = phon, !.transduced = TRUE, !.passed = Append(@, sa.curFst),
                          !.curFst = @ + 1]
    BY <1>2, Zenon DEF SaFst
  <2> QED BY <2>1 DEF SaMadeAside, SaOnPhrase, SaTypes, SaTyped, SaFieldNames
<1> QED BY <1>1, <1>2

LEMMA SaMakingHeld ==
  ASSUME SaTypes, SaMaking,
         \/ SaCollect \/ SaWphoEnd \/ SaParseEnd \/ SaParse \/ SaSyllabify \/ SaFst \/ SaFstEnd
         \/ SaReplace \/ SaFeed \/ SaTake
  PROVE  SaMaking'
<1>1. SaMadeAside
  BY SaMadeAsideCollect, SaMadeAsideOther, SaMadeAsideParse, SaMadeAsideFeed, SaMadeAsideFst, Zenon
<1> QED BY <1>1, SaMakingAside

LEMMA SaMakingCollected == ASSUME SaTypes, SaTypes', SaCollected PROVE SaMaking'
<1> PICK h : h = IF sa.needsmoreitems THEN Append(sa.headx, SaForced) ELSE sa.headx OBVIOUS
<1>1. /\ sa' = [sa EXCEPT !.phase = "POSD", !.needsmoreitems = FALSE, !.headx = h]
      /\ saTold' = [saTold EXCEPT !.phrase = h, !.asked = <<>>, !.outs = <<>>,
                                  !.g2p = <<>>, !.made = <<>>]
  BY DEF SaCollected
<1>2. /\ sa'.phase = "POSD" /\ sa'.headx = h /\ saTold'.phrase = h /\ saTold'.g2p = <<>>
      /\ saTold'.made = <<>>
  BY <1>1 DEF SaTypes, SaTyped, SaFieldNames, SaToldNames
<1>3. Len(h) \in Nat BY <1>2, ListedLen DEF SaTypes, SaTyped, SaAllHeld
<1>4. SaSameTypes(h, h, 1) BY <1>3 DEF SaSameTypes
<1> PICK x, told : x = sa' /\ told = saTold' OBVIOUS
<1>5. SaMakes(x, told)
  <2>1. told.g2p = <<>> /\ told.made = <<>> /\ x.phase = "POSD" /\ SaSameTypes(x.headx, told.phrase, 1)
    BY <1>2, <1>4
  <2> QED BY ONLY <2>1, SaMakesNothing
<1> QED BY <1>5 DEF SaMaking

LEMMA SaMakingDisambBegin == ASSUME SaTypes, SaMaking, SaDisambBegin PROVE SaMaking'
<1> PICK words : words = {k \in DOMAIN sa.headx : SaIsWord(sa.headx[k])} OBVIOUS
<1>1. /\ sa.phase = "POSD" /\ saTold' = saTold
      /\ \E first, val, last :
           sa' = IF words = {} THEN [sa EXCEPT !.phase = "WPHO", !.i = 1]
                 ELSE [sa EXCEPT !.phase = "DISAMB", !.i = first, !.prevout = SaZero,
                                 !.val = val, !.last = last]
  BY Zenon DEF SaDisambBegin
<1>2. /\ sa'.headx = sa.headx /\ sa'.phase # "G2P" /\ (sa'.phase = "WPHO" => sa'.i = 1)
  BY <1>1 DEF SaTypes, SaTyped, SaFieldNames
<1>3. saTold.g2p = <<>> /\ saTold.made = <<>> /\ SaSameTypes(sa.headx, saTold.phrase, Len(saTold.made) + 1)
  BY <1>1 DEF SaMaking, SaMakes, SaOnPhrase
<1>4. Len(saTold.made) + 1 = 1 BY <1>3
<1> PICK x, told : x = sa' /\ told = saTold' OBVIOUS
<1>5. SaMakes(x, told)
  <2>1. told.g2p = <<>> /\ told.made = <<>> /\ SaSameTypes(x.headx, told.phrase, 1)
        /\ x.phase # "G2P" /\ (x.phase = "WPHO" => x.i = 1)
    BY <1>1, <1>2, <1>3, <1>4
  <2> QED BY ONLY <2>1, SaMakesNothing
<1> QED BY <1>5 DEF SaMaking

LEMMA SaMakingDisambOther == ASSUME SaTypes, SaMaking, SaDisambOther \/ SaDisambEnd PROVE SaMaking'
<1>1. /\ sa.phase = "DISAMB" /\ saTold' = saTold /\ sa'.headx = sa.headx /\ sa'.phase # "G2P"
      /\ (sa'.phase = "WPHO" => sa'.i = 1)
  BY DEF SaTypes, SaTyped, SaFieldNames, SaDisambOther, SaDisambEnd
<1>3. saTold.g2p = <<>> /\ saTold.made = <<>> /\ SaSameTypes(sa.headx, saTold.phrase, Len(saTold.made) + 1)
  BY <1>1 DEF SaMaking, SaMakes, SaOnPhrase
<1>4. Len(saTold.made) + 1 = 1 BY <1>3
<1> PICK x, told : x = sa' /\ told = saTold' OBVIOUS
<1>5. SaMakes(x, told)
  <2>1. told.g2p = <<>> /\ told.made = <<>> /\ SaSameTypes(x.headx, told.phrase, 1)
        /\ x.phase # "G2P" /\ (x.phase = "WPHO" => x.i = 1)
    BY <1>1, <1>3, <1>4
  <2> QED BY ONLY <2>1, SaMakesNothing
<1> QED BY <1>5 DEF SaMaking

LEMMA SaMakingReset == ASSUME SaTypes, SaReset PROVE SaMaking'
<1>1. sa'.phase = "COLLECT" /\ saTold'.g2p = <<>> /\ saTold'.made = <<>> BY DEF SaReset, SaFresh, SaNothing
<1> PICK x, told : x = sa' /\ told = saTold' OBVIOUS
<1>2. SaMakes(x, told)
  <2>1. told.g2p = <<>> /\ told.made = <<>> /\ ~SaOnPhrase(x) /\ x.phase # "G2P" /\ x.phase # "WPHO"
    BY <1>1 DEF SaOnPhrase
  <2> QED BY ONLY <2>1, SaMakesNothing
<1> QED BY <1>2 DEF SaMaking

LEMMA SaMakingInit == ASSUME SaInit PROVE SaMaking
<1>1. PICK c \in SaTexts : SaStart(c) BY DEF SaInit
<1>2. sa.phase = "COLLECT" BY <1>1 DEF SaStart, SaFresh
<1>3. saTold.g2p = <<>> /\ saTold.made = <<>> BY <1>1 DEF SaStart, SaNothing
<1>4. ~SaOnPhrase(sa) BY <1>2 DEF SaOnPhrase
<1> QED BY <1>2, <1>3, <1>4, SaMakesNothing DEF SaMaking

\* One item of the phrase becomes another.
LEMMA SaTypesFrom ==
  ASSUME NEW h, SaAllHeld(h), NEW phrase, NEW from \in Nat, SaSameTypes(h, phrase, from),
         NEW i \in 1 .. Len(h), NEW item, i < from \/ item.type = h[i].type
  PROVE  SaSameTypes([h EXCEPT ![i] = item], phrase, from)
<1>1. PICK n \in Nat : h = [k \in 1 .. n |-> h[k]] BY DEF SaAllHeld, Listed
<1>2. PICK g : g = [h EXCEPT ![i] = item] OBVIOUS
<1>3. Len(h) = n /\ g = [k \in 1 .. n |-> IF k = i THEN item ELSE h[k]] BY <1>1, <1>2
<1>4. Len(g) = n BY <1>1, <1>3
<1>5. \A k \in from .. n : k \in Nat /\ (i < from => k # i) BY <1>3
<1>6. \A k \in from .. n : k \in 1 .. n \/ k = 0 BY <1>5
<1>7. \A k \in from .. n : g[k].type = phrase[k].type
  <2> TAKE k \in from .. n
  <2>1. h[k].type = phrase[k].type BY <1>3 DEF SaSameTypes
  <2>2. CASE k \in 1 .. n
    <3>1. g[k] = IF k = i THEN item ELSE h[k] BY <1>3, <2>2
    <3> QED BY <1>5, <2>1, <3>1
  <2>3. CASE k = 0
    <3>1. 0 \notin 1 .. n BY <1>1
    <3> QED BY <1>1, <1>2, <1>3, <2>1, <2>3, <3>1
  <2> QED BY <1>6, <2>2, <2>3
<1> QED BY <1>2, <1>3, <1>4, <1>7 DEF SaSameTypes

LEMMA SaMakingDisambWord == ASSUME SaTypes, SaMaking, SaDisambWord PROVE SaMaking'
<1> PICK right : right = saPosDItemSeqGetPosRight(sa.last) OBVIOUS
<1> PICK item : item = sa.headx[sa.i] OBVIOUS
<1> PICK m : m = SaMoved(right, item) OBVIOUS
<1>1. /\ sa.phase = "DISAMB" /\ sa.i <= Len(sa.headx) /\ SaPassedBy(right, item)
  BY SaDisambWordIs
<1>2. sa.i \in 1 .. Len(sa.headx) /\ Len(sa.headx) \in Nat /\ SaHeld(item) /\ SaAnswerable(item)
  BY <1>1, SaHeadxLen DEF SaTypes, SaTyped, SaAllHeld
<1>3. /\ DOMAIN m = SaFieldNames /\ m.phase = sa.phase /\ m.headx = sa.headx
  BY DEF SaMoved, SaTypes, SaTyped, SaFieldNames
<1>4. saTold.g2p = <<>> /\ saTold.made = <<>> /\ SaSameTypes(sa.headx, saTold.phrase, Len(saTold.made) + 1)
  BY <1>1 DEF SaMaking, SaMakes, SaOnPhrase
<1>5. SaSameTypes(sa.headx, saTold.phrase, 1)
  <2>1. Len(<<>>) + 1 = 1 OBVIOUS
  <2> QED BY <1>4, <2>1
<1>6. sa'.phase = "DISAMB" /\ SaSameTypes(sa'.headx, saTold.phrase, 1)
      /\ saTold'.g2p = saTold.g2p /\ saTold'.made = saTold.made /\ saTold'.phrase = saTold.phrase
  <2>1. CASE /\ sa' = [SaMoved(right, item) EXCEPT !.prevout = item.info1]
             /\ saTold' = [saTold EXCEPT !.outs = Append(@, item.info1)]
    BY <1>1, <1>3, <1>5, <2>1 DEF SaTypes, SaFieldNames, SaToldNames
  <2>2. ASSUME NEW class, NEW out,
             /\ sa' = [SaMoved(right, item) EXCEPT !.prevout = out,
                         !.headx[sa.i] = [item EXCEPT !.info1 = class, !.data = SaSelected(item, class)]]
             /\ saTold' = [saTold EXCEPT !.outs = Append(@, out),
                  !.asked = Append(@, [at |-> sa.i, val |-> SaShifted(right.val)])]
        PROVE  /\ sa'.phase = "DISAMB" /\ SaSameTypes(sa'.headx, saTold.phrase, 1)
               /\ saTold'.g2p = saTold.g2p /\ saTold'.made = saTold.made /\ saTold'.phrase = saTold.phrase
    <3> PICK j : j = [item EXCEPT !.info1 = class, !.data = SaSelected(item, class)] OBVIOUS
    <3> PICK h : h = [sa.headx EXCEPT ![sa.i] = j] OBVIOUS
    <3>1. j.type = item.type BY <1>2, SaSelectedHeld
    <3>2. SaSameTypes(h, saTold.phrase, 1) BY <1>2, <1>5, <3>1, SaTypesFrom DEF SaTypes, SaTyped
    <3>3. sa' = [m EXCEPT !.prevout = out, !.headx[sa.i] = j] BY <2>2
    <3>4. sa' = [m EXCEPT !.prevout = out, !.headx = h] BY <1>3, <3>3 DEF SaFieldNames
    <3>5. saTold'.g2p = saTold.g2p /\ saTold'.made = saTold.made /\ saTold'.phrase = saTold.phrase
      BY <2>2 DEF SaTypes, SaToldNames
    <3> QED BY ONLY <1>1, <1>3, <3>2, <3>4, <3>5 DEF SaFieldNames
  <2> QED BY <1>1, <2>1, <2>2 DEF SaPassedBy
<1> PICK x, told : x = sa' /\ told = saTold' OBVIOUS
<1>7. SaMakes(x, told)
  <2>1. told.g2p = <<>> /\ told.made = <<>> /\ SaSameTypes(x.headx, told.phrase, 1)
        /\ x.phase # "G2P" /\ x.phase # "WPHO"
    BY <1>4, <1>6
  <2> QED BY ONLY <2>1, SaMakesNothing
<1> QED BY <1>7 DEF SaMaking

\* One word more is made.
LEMMA SaMadeMore ==
  ASSUME NEW phrase, NEW g2p, NEW made, Listed(made), SaMadeRight(phrase, g2p, made), NEW m,
         phrase[Len(made) + 1].type = "WORDGRAPH" => SaMadeOf(m, SaAskedOf(g2p, Len(made) + 1))
  PROVE  /\ SaMadeRight(phrase, g2p, Append(made, m))
<1>1. /\ DOMAIN Append(made, m) = 1 .. Len(made) + 1 /\ DOMAIN made = 1 .. Len(made)
      /\ Len(made) \in Nat /\ Append(made, m)[Len(made) + 1] = m
      /\ \A k \in 1 .. Len(made) : Append(made, m)[k] = made[k]
  BY ListedAppend, ListedLen
<1>2. \A k \in 1 .. Len(made) + 1 : k \in 1 .. Len(made) \/ k = Len(made) + 1 BY <1>1
<1> QED BY <1>1, <1>2 DEF SaMadeRight

LEMMA SaMakingMadeAs ==
  ASSUME SaTypes, SaMaking, sa.phase \in {"WPHO", "G2P"}, sa.i <= Len(sa.headx), NEW item,
         SaMadeAs(item),
         saTold.phrase[sa.i].type = "WORDGRAPH" =>
           SaMadeOf([data |-> item.data, room |-> SaRoom], SaAskedOf(saTold.g2p, sa.i))
  PROVE  SaMaking'
<1> PICK h : h = [sa.headx EXCEPT ![sa.i] = item] OBVIOUS
<1> PICK m : m = [data |-> item.data, room |-> SaRoom] OBVIOUS
<1> PICK i : i = sa.i OBVIOUS
<1>1. i \in 1 .. Len(sa.headx) /\ Len(sa.headx) \in Nat BY SaHeadxLen DEF SaTypes, SaTyped
<1>2. PICK n : /\ sa' = [sa EXCEPT !.headx[sa.i] = item, !.cbuf2 = n, !.i = @ + 1, !.phase = "WPHO"]
               /\ saTold' = [saTold EXCEPT !.made = Append(@, m)]
  BY DEF SaMadeAs
<1>3. sa' = [sa EXCEPT !.headx = h, !.cbuf2 = n, !.i = @ + 1, !.phase = "WPHO"]
  BY <1>2 DEF SaTypes, SaTyped, SaFieldNames
<1>4. sa'.headx = h /\ sa'.i = i + 1 /\ sa'.phase = "WPHO" /\ saTold'.made = Append(saTold.made, m)
      /\ saTold'.g2p = saTold.g2p /\ saTold'.phrase = saTold.phrase
  BY <1>2, <1>3 DEF SaTypes, SaTyped, SaFieldNames, SaToldNames
<1> PICK g2p, made, phrase : g2p = saTold.g2p /\ made = saTold.made /\ phrase = saTold.phrase OBVIOUS
<1>5. /\ SaAnswered(g2p) /\ Listed(made) /\ Len(made) = i - 1 /\ SaAsksRight(g2p)
      /\ SaMadeRight(phrase, g2p, made) /\ SaSameTypes(sa.headx, phrase, Len(made) + 1)
      /\ SaUnasked(g2p, i) \/ SaUnasked(g2p, i + 1)
  BY DEF SaMaking, SaMakes, SaOnPhrase
<1>6. Len(made) + 1 = i /\ i \in Nat /\ i + 1 \in Nat BY <1>1, <1>5
<1>7. SaUnasked(g2p, i + 1)
  <2>1. \A at \in Nat : at >= i + 1 => at >= i BY <1>6
  <2> QED BY <1>5, <2>1 DEF SaUnasked
<1>8. Listed(Append(made, m)) /\ Len(Append(made, m)) = i BY <1>5, <1>6, ListedAppend
<1>9. SaMadeRight(phrase, g2p, Append(made, m)) BY <1>5, <1>6, SaMadeMore
<1>10. SaSameTypes(h, phrase, i + 1)
  <2>1. SaSameTypes(sa.headx, phrase, i + 1)
    <3>1. \A k \in i + 1 .. Len(sa.headx) : k \in i .. Len(sa.headx) BY <1>1
    <3> QED BY <1>5, <1>6, <3>1 DEF SaSameTypes
  <2>2. i < i + 1 BY <1>6
  <2> QED BY <1>1, <1>6, <2>1, <2>2, SaTypesFrom DEF SaTypes, SaTyped
<1> PICK x, told : x = sa' /\ told = saTold' OBVIOUS
<1>11. SaMakes(x, told)
  <2>1. x.headx = h /\ x.i = i + 1 /\ x.phase = "WPHO" /\ told.made = Append(made, m)
        /\ told.g2p = g2p /\ told.phrase = phrase
    BY <1>4
  <2>2. Len(told.made) = x.i - 1 /\ Len(told.made) + 1 = i + 1 BY <1>6, <1>8, <2>1
  <2> QED BY ONLY <1>5, <1>7, <1>8, <1>9, <1>10, <2>1, <2>2 DEF SaMakes
<1> QED BY <1>11 DEF SaMaking

LEMMA SaMakingWphoCopy == ASSUME SaTypes, SaMaking, SaWphoCopy PROVE SaMaking'
<1>1. /\ sa.phase = "WPHO" /\ sa.i <= Len(sa.headx) /\ sa.headx[sa.i].type # "WORDGRAPH"
      /\ SaMadeAs(SaCopied(SaItem))
  BY DEF SaWphoCopy, SaItem
<1>2. sa.i \in 1 .. Len(sa.headx) BY <1>1, SaHeadxLen DEF SaTypes, SaTyped
<1>3. saTold.phrase[sa.i].type = sa.headx[sa.i].type
  <2>1. Len(saTold.made) = sa.i - 1 /\ SaSameTypes(sa.headx, saTold.phrase, Len(saTold.made) + 1)
    BY <1>1 DEF SaMaking, SaMakes, SaOnPhrase
  <2>2. sa.i \in Len(saTold.made) + 1 .. Len(sa.headx) BY <1>2, <2>1
  <2> QED BY <2>1, <2>2 DEF SaSameTypes
<1> QED BY <1>1, <1>3, SaMakingMadeAs

LEMMA SaMakingG2pEnd == ASSUME SaTypes, SaMaking, SaG2pEnd PROVE SaMaking'
<1> PICK data : data = SubSeq(sa.phones, 1, Min({SaMaxLen, Len(sa.phones)})) OBVIOUS
<1> PICK item : item = [SaItem EXCEPT !.type = "WORDPHON", !.data = data] OBVIOUS
<1>1. sa.phase = "G2P" /\ SaMadeAs(item) BY DEF SaG2pEnd
<1>2. SaHeld(SaItem) /\ sa.i <= Len(sa.headx)
  BY <1>1, SaHeadxLen DEF SaTypes, SaTyped, SaAllHeld, SaItem
<1>3. item.data = data BY <1>2 DEF SaHeld, SaItemNames
<1> PICK asked : asked = SaAskedOf(saTold.g2p, sa.i) OBVIOUS
<1>4. sa.phones = SaLastFit(SaPhonesOf(asked), SaRoom)
  BY <1>1 DEF SaMaking, SaMakes, SaAskedSoFar, SaRoom
<1> PICK m : m = [data |-> item.data, room |-> SaRoom] OBVIOUS
<1>5. m.data = data /\ m.room = SaRoom BY <1>3
<1>6. SaMadeOf(m, asked) BY ONLY <1>4, <1>5, data = SubSeq(sa.phones, 1, Min({SaMaxLen, Len(sa.phones)})) DEF SaMadeOf
<1> QED BY <1>1, <1>2, <1>6, SaMakingMadeAs

LEMMA SaMakingWphoGraph == ASSUME SaTypes, SaMaking, SaWphoGraph PROVE SaMaking'
<1> PICK n : n = Len(SaItem.data) OBVIOUS
<1>1. /\ sa.phase = "WPHO" /\ saTold' = saTold /\ sa.i <= Len(sa.headx)
      /\ sa' = [sa EXCEPT !.phase = "G2P", !.count = n, !.phones = <<>>, !.outs = <<>>]
  BY DEF SaWphoGraph
<1>2. /\ sa'.phase = "G2P" /\ sa'.phones = <<>> /\ sa'.outs = <<>> /\ sa'.i = sa.i
      /\ sa'.headx = sa.headx /\ sa'.cbuf2 = sa.cbuf2
  BY <1>1 DEF SaTypes, SaTyped, SaFieldNames
<1>3. sa.i \in Nat /\ SaMaxCbuf - sa.cbuf2 \in Nat
  BY <1>1, SaHeadxLen DEF SaTypes, SaTyped, SaRoom
<1> PICK room \in Nat : room = SaMaxCbuf - sa.cbuf2 BY <1>3
<1>4. SaUnasked(saTold.g2p, sa.i) BY <1>1 DEF SaMaking, SaMakes
<1>5. SaAskedOf(saTold.g2p, sa.i) = <<>> BY <1>3, <1>4 DEF SaUnasked
<1>6. SaUnasked(saTold.g2p, sa.i + 1)
  <2>1. \A at \in Nat : at >= sa.i + 1 => at >= sa.i BY <1>3
  <2> QED BY <1>4, <2>1 DEF SaUnasked
<1>7. SaLastFit(SaPhonesOf(<<>>), room) = <<>>
  <2>1. SaPhonesOf(<<>>) = <<>>
    <3>1. SaPhonesOf(<<>>) = FlattenSeq([j \in 1 .. 0 |-> SaSaidTo(<<>>[j])]) BY DEF SaPhonesOf, SaSaidTo
    <3>2. [j \in 1 .. 0 |-> SaSaidTo(<<>>[j])] = <<>> OBVIOUS
    <3>3. FlattenSeq(<<>>) = <<>>
      <4>1. [k \in 1 .. 0 |-> <<>>[k]] = <<>> OBVIOUS
      <4> QED BY <4>1, FlattenNothing
    <3> QED BY <3>1, <3>2, <3>3
  <2>2. <<>> \in Seq(STRING) /\ Len(<<>>) = 0 OBVIOUS
  <2>3. SaLastAt(SaLastFit(<<>>, room), IF Len(<<>>) <= room THEN Len(<<>>) ELSE room, <<>>)
    BY ONLY <2>2, room \in Nat, SaLastFitIs
  <2>4. Len(SaLastFit(<<>>, room)) = 0 /\ SaLastFit(<<>>, room) \in Seq(STRING)
    BY <2>2, <2>3 DEF SaLastAt
  <2>5. \A s \in Seq(STRING) : Len(s) = 0 => s = <<>> OBVIOUS
  <2> QED BY <2>1, <2>4, <2>5
<1>8. SaAskedSoFar(sa', <<>>)
  <2>1. [j \in 1 .. Len(<<>>) |-> <<>>[j].out] = <<>> OBVIOUS
  <2> QED BY <1>2, <1>7, <2>1 DEF SaAskedSoFar
<1> PICK x, told : x = sa' /\ told = saTold' OBVIOUS
<1>9. SaMakes(x, told)
  <2>1. told = saTold /\ x.phase = "G2P" /\ x.i = sa.i /\ x.headx = sa.headx /\ SaAskedSoFar(x, <<>>)
    BY <1>1, <1>2, <1>8
  <2> QED BY ONLY <1>1, <1>5, <1>6, <2>1, SaMaking DEF SaMaking, SaMakes, SaOnPhrase
<1> QED BY <1>9 DEF SaMaking

LEMMA SaAsksMore ==
  ASSUME NEW g2p, Listed(g2p), SaAsksRight(g2p), NEW e, SaAskRight(e, SaAskedOf(g2p, e.at))
  PROVE  SaAsksRight(Append(g2p, e))
<1> PICK t : t = Append(g2p, e) OBVIOUS
<1>1. /\ DOMAIN t = 1 .. Len(g2p) + 1 /\ DOMAIN g2p = 1 .. Len(g2p) /\ Len(g2p) \in Nat
      /\ t[Len(g2p) + 1] = e /\ \A k \in 1 .. Len(g2p) : t[k] = g2p[k]
  BY ListedAppend, ListedLen
<1>2. /\ \A k \in 1 .. Len(g2p) : SubSeq(t, 1, k - 1) = SubSeq(g2p, 1, k - 1)
      /\ SubSeq(t, 1, (Len(g2p) + 1) - 1) = g2p
  BY FirstOfMore
<1>3. \A k \in 1 .. Len(g2p) + 1 : k \in 1 .. Len(g2p) \/ k = Len(g2p) + 1 BY <1>1
<1>4. ASSUME NEW k \in 1 .. Len(g2p) + 1 PROVE SaAskRight(t[k], SaAskedOf(SubSeq(t, 1, k - 1), t[k].at))
  <2>1. CASE k = Len(g2p) + 1 BY <1>1, <1>2, <2>1
  <2>2. CASE k \in 1 .. Len(g2p)
    <3>1. t[k] = g2p[k] /\ SubSeq(t, 1, k - 1) = SubSeq(g2p, 1, k - 1) /\ k \in DOMAIN g2p BY <1>1, <1>2, <2>2
    <3> QED BY <3>1 DEF SaAsksRight
  <2> QED BY <1>3, <2>1, <2>2
<1> QED BY <1>1, <1>4 DEF SaAsksRight

LEMMA SaMakingG2pGraph == ASSUME SaTypes, SaMaking, SaG2pGraph PROVE SaMaking'
<1>1. sa.phase = "G2P" /\ sa.count > 0 BY SaG2pGraphIs
<1>2. PICK answer, out : answer \in SaG2pAnswers[SaItem.data[sa.count]] /\ SaHeard(answer, out)
  BY SaG2pGraphIs
<1> PICK phones : phones = IF answer = SaNone THEN sa.phones ELSE SaAdded(sa.phones, answer) OBVIOUS
<1> PICK outs : outs = <<out>> \o sa.outs OBVIOUS
<1> PICK ask : ask = SaAsk(sa.count) OBVIOUS
<1> PICK i, room : i = sa.i /\ room = SaRoom OBVIOUS
<1> PICK e : e = [at |-> i, room |-> room, ask |-> ask, answer |-> answer, out |-> out] OBVIOUS
<1>3. /\ sa' = [sa EXCEPT !.count = @ - 1, !.outs = outs, !.phones = phones]
      /\ saTold' = [saTold EXCEPT !.g2p = Append(@, e)]
  BY <1>2 DEF SaHeard
<1>4. /\ sa'.phase = "G2P" /\ sa'.i = i /\ sa'.headx = sa.headx /\ sa'.cbuf2 = sa.cbuf2
      /\ sa'.outs = outs /\ sa'.phones = phones
      /\ saTold'.g2p = Append(saTold.g2p, e) /\ saTold'.made = saTold.made /\ saTold'.phrase = saTold.phrase
  BY <1>1, <1>3 DEF SaTypes, SaTyped, SaFieldNames, SaToldNames
<1>5. /\ SaHeld(SaItem) /\ SaAnswerable(SaItem) /\ SaItem.type = "WORDGRAPH" /\ room \in Nat
      /\ sa.count \in 1 .. Len(SaItem.data) /\ i \in 1 .. Len(sa.headx) /\ Len(sa.headx) \in Nat
  BY <1>1, SaHeadxLen DEF SaTypes, SaTyped, SaAllHeld, SaItem
<1>6. answer \in Seq(STRING)
  <2>1. SaItem.data[sa.count] \in DOMAIN SaG2pAnswers BY <1>5 DEF SaAnswerable
  <2> QED BY <1>2, <2>1, SaAssumption
<1> PICK g2p, made, phrase : g2p = saTold.g2p /\ made = saTold.made /\ phrase = saTold.phrase OBVIOUS
<1> PICK asked : asked = SaAskedOf(g2p, i) OBVIOUS
<1>7. /\ SaAnswered(g2p) /\ Listed(made) /\ Len(made) = i - 1 /\ SaAsksRight(g2p)
      /\ SaMadeRight(phrase, g2p, made) /\ SaSameTypes(sa.headx, phrase, Len(made) + 1)
      /\ SaUnasked(g2p, i + 1)
      /\ sa.outs = [j \in 1 .. Len(asked) |-> asked[j].out]
      /\ sa.phones = SaLastFit(SaPhonesOf(asked), room)
  BY <1>1 DEF SaMaking, SaMakes, SaOnPhrase, SaAskedSoFar, SaRoom
<1>8. e.at = i /\ e.room = room /\ e.ask = ask /\ e.answer = answer /\ e.out = out OBVIOUS
<1>9. Listed(g2p) /\ i \in Nat BY <1>5, <1>7 DEF SaAnswered
<1>10. /\ Listed(asked) /\ SaAskedOf(Append(g2p, e), i) = Fronted(e, asked)
       /\ \A at : at # i => SaAskedOf(Append(g2p, e), at) = SaAskedOf(g2p, at)
  BY <1>8, <1>9, SaAskedMore
<1>11. \A k \in 1 .. Len(asked) : asked[k].answer \in Seq(STRING) BY <1>7, SaAskedHeld
<1> PICK n \in Nat : n = Len(asked) BY <1>10, ListedLen
<1>12. DOMAIN asked = 1 .. n BY <1>10, ListedLen

\* What is put into the history.
<1>13. SaAskRight(e, asked)
  <2>1. sa.outs = [j \in DOMAIN asked |-> asked[j].out] BY <1>7, <1>12
  <2>2. e.ask.outs = SaPadded(sa.outs, 3, <<SaZero>>)
    <3>1. ask.outs = SaLastOuts(sa.outs) BY DEF SaAsk
    <3> QED BY <1>8, <3>1 DEF SaLastOuts, SaPadded
  <2>3. e.ask.primary <=> SaStress \in ToSet(sa.phones)
    <3>1. ask.primary <=> SaStress \in ToSet(sa.phones) BY DEF SaAsk
    <3> QED BY <1>8, <3>1
  <2> QED BY <1>7, <1>8, <2>1, <2>2, <2>3 DEF SaAskRight
<1>14. SaAsksRight(Append(g2p, e)) BY <1>7, <1>8, <1>9, <1>13, SaAsksMore
<1>15. SaAnswered(Append(g2p, e))
  <2>1. /\ Listed(Append(g2p, e)) /\ Len(Append(g2p, e)) = Len(g2p) + 1
        /\ \A k \in 1 .. Len(g2p) : Append(g2p, e)[k] = g2p[k]
        /\ Append(g2p, e)[Len(g2p) + 1] = e /\ Len(g2p) \in Nat
    BY <1>9, ListedAppend, ListedLen
  <2>2. \A k \in 1 .. Len(g2p) + 1 : k \in 1 .. Len(g2p) \/ k = Len(g2p) + 1 BY <2>1
  <2> QED BY <1>6, <1>7, <1>8, <1>9, <2>1, <2>2 DEF SaAnswered

\* What is held for the next grapheme.
<1>16. outs = [j \in 1 .. n + 1 |-> Fronted(e, asked)[j].out] /\ Len(Fronted(e, asked)) = n + 1
  <2>1. PICK f : f = Fronted(e, asked) OBVIOUS
  <2>2. f = [k \in 1 .. n + 1 |-> IF k = 1 THEN e ELSE asked[k - 1]] BY <2>1 DEF Fronted
  <2>3. Len(f) = n + 1 /\ \A k \in 1 .. n + 1 : f[k] = IF k = 1 THEN e ELSE asked[k - 1] BY <2>2
  <2> PICK o : o = sa.outs OBVIOUS
  <2>4. o = [j \in 1 .. n |-> asked[j].out] BY <1>7
  <2> PICK R : R = {asked[j].out : j \in 1 .. n} \cup {out} OBVIOUS
  <2>5. o \in Seq(R) /\ Len(o) = n /\ <<out>> \in Seq(R) /\ Len(<<out>>) = 1 /\ <<out>>[1] = out
    <3>1. \A j \in 1 .. n : asked[j].out \in R OBVIOUS
    <3>2. out \in R OBVIOUS
    <3> QED BY ONLY <2>4, <3>1, <3>2, n \in Nat
  <2> PICK w : w = <<out>> \o o OBVIOUS
  <2>6. /\ w \in Seq(R) /\ Len(w) = Len(<<out>>) + Len(o)
        /\ \A j \in 1 .. Len(<<out>>) + Len(o) : w[j] = IF j <= Len(<<out>>) THEN <<out>>[j] ELSE o[j - Len(<<out>>)]
    BY ONLY <2>5, w = <<out>> \o o, ConcatProperties
  <2>7. Len(w) = n + 1 /\ \A j \in 1 .. n + 1 : w[j] = f[j].out
    <3>1. Len(w) = n + 1 BY ONLY <2>5, <2>6, n \in Nat
    <3>2. ASSUME NEW j \in 1 .. n + 1 PROVE w[j] = f[j].out
      <4>1. CASE j = 1 BY <1>8, <2>3, <2>5, <2>6, <4>1
      <4>2. CASE j # 1
        <5>1. j - 1 \in 1 .. n /\ ~(j <= 1) /\ j \in 1 .. 1 + n BY <4>2
        <5>2. w[j] = o[j - 1] BY ONLY <2>5, <2>6, <5>1
        <5>3. f[j] = asked[j - 1] BY <2>3, <4>2
        <5> QED BY <2>4, <5>1, <5>2, <5>3
      <4> QED BY <4>1, <4>2
    <3> QED BY <3>1, <3>2
  <2>8. w = [j \in 1 .. n + 1 |-> w[j]] BY <2>6, <2>7
  <2>9. [j \in 1 .. n + 1 |-> f[j].out] = [j \in 1 .. n + 1 |-> w[j]] BY <2>7
  <2>10. outs = w OBVIOUS
  <2> QED BY ONLY <2>1, <2>3, <2>8, <2>9, <2>10
<1>17. phones = SaLastFit(SaPhonesOf(Fronted(e, asked)), room)
  <2> PICK p, a : p = SaPhonesOf(asked) /\ a = SaSaidTo(e) OBVIOUS
  <2>1. p \in Seq(STRING) /\ a \in Seq(STRING) /\ SaPhonesOf(Fronted(e, asked)) = a \o p
    <3>1. SaPhonesAhead(e, asked) BY <1>6, <1>8, <1>10, <1>11, SaPhonesFront
    <3> QED BY ONLY <3>1, p = SaPhonesOf(asked), a = SaSaidTo(e) DEF SaPhonesAhead
  <2>2. CASE answer = SaNone
    <3>1. a = <<>> /\ a \o p = p BY <1>8, <2>1, <2>2 DEF SaSaidTo
    <3> QED BY <1>7, <2>1, <2>2, <3>1
  <2>3. CASE answer # SaNone
    <3>1. a = answer BY <1>8, <2>3 DEF SaSaidTo
    <3>2. SaAdded(SaLastFit(p, SaRoom), a) = SaLastFit(a \o p, SaRoom)
      <4>1. SaRoom \in Nat BY <1>5
      <4> QED BY ONLY <2>1, <4>1, SaAddedFits
    <3> QED BY <1>7, <2>1, <2>3, <3>1, <3>2
  <2> QED BY <2>2, <2>3
<1>18. SaAskedSoFar(sa', SaAskedOf(Append(g2p, e), i))
  <2>1. room = SaMaxCbuf - sa'.cbuf2 BY <1>4 DEF SaRoom
  <2> QED BY <1>4, <1>10, <1>16, <1>17, <2>1 DEF SaAskedSoFar

\* What was made, and what is not yet asked.
<1>19. SaUnasked(Append(g2p, e), i + 1)
  <2>1. \A at \in Nat : at >= i + 1 => at # i BY <1>9
  <2> QED BY <1>7, <1>10, <2>1 DEF SaUnasked
<1>20. SaMadeRight(phrase, Append(g2p, e), made)
  <2>1. DOMAIN made = 1 .. i - 1 BY <1>7, ListedLen
  <2>2. \A k \in DOMAIN made : k # i BY <1>9, <2>1
  <2>3. \A k \in DOMAIN made : SaAskedOf(Append(g2p, e), k) = SaAskedOf(g2p, k) BY <1>10, <2>2
  <2> QED BY ONLY <1>7, <2>3 DEF SaMadeRight
<1> PICK x, told : x = sa' /\ told = saTold' OBVIOUS
<1>21. SaMakes(x, told)
  <2>1. /\ x.phase = "G2P" /\ x.i = i /\ x.headx = sa.headx /\ told.g2p = Append(g2p, e)
        /\ told.made = made /\ told.phrase = phrase /\ SaAskedSoFar(x, SaAskedOf(told.g2p, x.i))
    BY <1>4, <1>18
  <2> QED BY ONLY <1>7, <1>14, <1>15, <1>19, <1>20, <2>1 DEF SaMakes
<1> QED BY <1>21 DEF SaMaking

-----------------------------------------------------------------------------
(* The part-of-speech tree: a word is decided with the three decisions before it and the
   words behind it as they came. *)

\* What was decided for the words of the phrase, and what they were given with.
SaDecided(outs, j) == IF j \in 1 .. Len(outs) THEN outs[j] ELSE SaZero
SaGiven(phrase, W, j) == IF j \in 1 .. Len(W) THEN phrase[W[j]].info1 ELSE SaEps
SaPlaced(phrase, W, j) == IF j \in 1 .. Len(W) THEN W[j] ELSE Len(phrase)
SaSeen(phrase, W, outs, n) ==
  <<SaDecided(outs, n - 3), SaDecided(outs, n - 2), SaDecided(outs, n - 1), SaGiven(phrase, W, n),
    SaGiven(phrase, W, n + 1), SaGiven(phrase, W, n + 2), SaGiven(phrase, W, n + 3)>>

\* A word has a part of speech; the phrase is as it was collected, from one place on.
SaWordsClear(items) == \A k \in 1 .. Len(items) : SaIsWord(items[k]) => items[k].info1 # SaEps
SaAsCollected(headx, phrase, i) ==
  Len(headx) = Len(phrase) /\ \A k \in i .. Len(headx) : headx[k] = phrase[k]

\* The first m words stand before the place i; the window stands in front of the next.
SaBeforeAre(W, i, m) == m <= Len(W) /\ \A k \in 1 .. Len(W) : W[k] < i <=> k <= m
SaWindow(x, phrase, W, outs, m) ==
  /\ \E a, b : x.val = <<a, SaDecided(outs, m - 2), SaDecided(outs, m - 1), b,
                         SaGiven(phrase, W, m + 1), SaGiven(phrase, W, m + 2), SaGiven(phrase, W, m + 3)>>
  /\ x.prevout = SaDecided(outs, m) /\ x.last = SaPlaced(phrase, W, m + 3)

SaSawRight(phrase, W, outs, asked) ==
  \A j \in 1 .. Len(asked) : \E n \in 1 .. Len(W) :
    n <= Len(outs) /\ asked[j] = [at |-> W[n], val |-> SaSeen(phrase, W, outs, n)]

SaLooks(x, told) ==
  /\ Listed(told.phrase) /\ Listed(told.outs) /\ Listed(told.asked)
  /\ SaWordsClear(told.phrase)
  /\ x.phase = "COLLECT" => SaWordsClear(x.headx)
  /\ x.phase = "POSD" => SaAsCollected(x.headx, told.phrase, 1) /\ told.outs = <<>> /\ told.asked = <<>>
  /\ x.phase = "DISAMB" =>
       /\ SaAsCollected(x.headx, told.phrase, x.i)
       /\ SaBeforeAre(SaWordsOf(told.phrase), x.i, Len(told.outs))
       /\ SaWindow(x, told.phrase, SaWordsOf(told.phrase), told.outs, Len(told.outs))
  /\ SaSawRight(told.phrase, SaWordsOf(told.phrase), told.outs, told.asked)

SaLooking == SaLooks(sa, saTold)

\* The places of the words.
SaWordsAre(W, phrase) ==
  /\ W \in Seq(1 .. Len(phrase)) /\ Len(W) \in Nat /\ Len(phrase) \in Nat
  /\ \A i, j \in 1 .. Len(W) : i < j => W[i] < W[j]
  /\ \A k \in 1 .. Len(phrase) : SaIsWord(phrase[k]) <=> \E j \in 1 .. Len(W) : W[j] = k

LEMMA SaWordsOfAre == ASSUME NEW phrase, Listed(phrase) PROVE SaWordsAre(SaWordsOf(phrase), phrase)
<1> PICK n \in Nat : n = Len(phrase) BY ListedLen
<1> PICK P : P = {k \in DOMAIN phrase : SaIsWord(phrase[k])} OBVIOUS
<1> PICK W : W = ElementsAt([k \in 1 .. n |-> k], P) OBVIOUS
<1>1. DOMAIN phrase = 1 .. n BY ListedLen
<1>2. SaWordsOf(phrase) = W BY <1>1 DEF SaWordsOf
<1>3. /\ W \in Seq(1 .. n)
      /\ \A i, j \in 1 .. Len(W) : i < j => W[i] < W[j]
      /\ \A x \in 1 .. n : x \in P <=> \E j \in 1 .. Len(W) : W[j] = x
  <2>1. PlacesRise(W, n, P) BY ONLY Zenon, n \in Nat, W = ElementsAt([k \in 1 .. n |-> k], P), PlacesUp
  <2> QED BY ONLY <2>1 DEF PlacesRise
<1>4. \A x \in 1 .. n : x \in P <=> SaIsWord(phrase[x]) BY <1>1
<1>5. Len(W) \in Nat BY ONLY <1>3
<1> QED BY ONLY <1>2, <1>3, <1>4, <1>5, n \in Nat, n = Len(phrase) DEF SaWordsAre

\* The next word to the right of the j-th, or of the end.
SaNextAt(phrase, W, j, next) ==
  next = [val |-> SaGiven(phrase, W, j), at |-> SaPlaced(phrase, W, j)]

LEMMA SaNextIs ==
  ASSUME NEW phrase, NEW W, SaWordsAre(W, phrase), SaWordsClear(phrase), NEW i,
         SaAsCollected(sa.headx, phrase, i), NEW j \in Nat, j > 0,
         j <= Len(W) => i \in Int /\ i <= W[j]
  PROVE  SaNextAt(phrase, W, j + 1, saPosDItemSeqGetPosRight(SaPlaced(phrase, W, j)))
<1> PICK h : h = sa.headx OBVIOUS
<1> PICK l, n \in Nat : l = Len(W) /\ n = Len(phrase) BY DEF SaWordsAre
<1> PICK at : at = SaPlaced(phrase, W, j) OBVIOUS
<1> PICK right : right = {k \in at + 1 .. Len(h) : SaIsWord(h[k]) /\ h[k].info1 # SaEps} OBVIOUS
<1>1. saPosDItemSeqGetPosRight(at) = IF right = {} THEN [val |-> SaEps, at |-> Len(h)]
                                     ELSE [val |-> h[Min(right)].info1, at |-> Min(right)]
  BY Zenon DEF saPosDItemSeqGetPosRight
<1>2. Len(h) = n BY DEF SaAsCollected
<1>3. \A k \in 1 .. l : W[k] \in 1 .. n BY DEF SaWordsAre
<1>4. CASE j > l
  <2>1. at = n BY <1>4 DEF SaPlaced
  <2>2. right = {} BY <1>2, <2>1
  <2>3. j + 1 \notin 1 .. l BY <1>4
  <2> QED BY <1>1, <1>2, <2>2, <2>3 DEF SaNextAt, SaGiven, SaPlaced
<1>5. CASE j <= l
  <2>1. at = W[j] /\ at \in 1 .. n /\ i \in Int /\ i <= at BY <1>3, <1>5 DEF SaPlaced
  <2>2. \A k \in at + 1 .. n : k \in 1 .. n /\ h[k] = phrase[k]
    <3>1. \A k \in at + 1 .. n : k \in 1 .. n /\ k \in i .. n BY <2>1
    <3> QED BY <1>2, <3>1 DEF SaAsCollected
  <2>3. \A k \in at + 1 .. n : k \in right <=> \E o \in 1 .. l : W[o] = k
    <3> TAKE k \in at + 1 .. n
    <3>1. k \in right <=> SaIsWord(phrase[k]) BY <1>2, <2>2 DEF SaWordsClear
    <3> QED BY <2>2, <3>1 DEF SaWordsAre
  <2>4. \A o \in 1 .. l : W[o] \in at + 1 .. n <=> o > j
    <3> TAKE o \in 1 .. l
    <3>1. CASE o > j
      <4>1. W[j] < W[o] BY <1>5, <3>1 DEF SaWordsAre
      <4> QED BY <1>3, <2>1, <3>1, <4>1
    <3>2. CASE o = j BY <1>3, <2>1, <3>2
    <3>3. CASE o < j
      <4>1. W[o] < W[j] BY <1>5, <3>3 DEF SaWordsAre
      <4> QED BY <1>3, <2>1, <3>3, <4>1
    <3> QED BY <3>1, <3>2, <3>3
  <2>5. CASE j = l
    <3>1. right = {}
      <4>1. \A k \in right : FALSE
        <5> TAKE k \in right
        <5>1. k \in at + 1 .. n BY <1>2
        <5>2. PICK o \in 1 .. l : W[o] = k BY <2>3, <5>1
        <5>3. o > j BY <2>4, <5>1, <5>2
        <5> QED BY <2>5, <5>3
      <4> QED BY <4>1
    <3>2. j + 1 \notin 1 .. l BY <2>5
    <3> QED BY <1>1, <1>2, <3>1, <3>2 DEF SaNextAt, SaGiven, SaPlaced
  <2>6. CASE j < l
    <3>1. j + 1 \in 1 .. l /\ W[j + 1] \in at + 1 .. n BY <2>4, <2>6
    <3>2. W[j + 1] \in right BY <2>3, <3>1
    <3>3. \A k \in right : W[j + 1] <= k
      <4> TAKE k \in right
      <4>1. k \in at + 1 .. n BY <1>2
      <4>2. PICK o \in 1 .. l : W[o] = k BY <2>3, <4>1
      <4>3. o > j BY <2>4, <4>1, <4>2
      <4>4. o = j + 1 \/ j + 1 < o BY <4>3
      <4>5. CASE o = j + 1 BY <1>3, <3>1, <4>2, <4>5
      <4>6. CASE j + 1 < o
        <5>1. W[j + 1] < W[o] BY <3>1, <4>6 DEF SaWordsAre
        <5> QED BY <1>3, <3>1, <4>2, <5>1
      <4> QED BY <4>4, <4>5, <4>6
    <3>4. Min(right) = W[j + 1]
      <4>1. right \in SUBSET Nat /\ right # {}
        <5>1. \A k \in right : k \in Nat BY <1>2, <2>1
        <5> QED BY <3>2, <5>1
      <4>2. Min(right) \in right /\ \A y \in right : Min(right) <= y BY <4>1, MinOf
      <4>3. Min(right) \in Nat /\ W[j + 1] \in Nat
        <5>1. W[j + 1] \in 1 .. n BY ONLY <1>3, <3>1
        <5>2. W[j + 1] \in Nat BY ONLY n \in Nat, <5>1
        <5>3. \A r \in right : r \in Nat BY ONLY <4>1
        <5>4. Min(right) \in Nat BY ONLY Zenon, <4>2, <5>3
        <5> QED BY <5>2, <5>4
      <4>4. Min(right) <= W[j + 1] /\ W[j + 1] <= Min(right) BY <3>2, <3>3, <4>2
      <4> QED BY ONLY <4>3, <4>4
    <3>5. h[W[j + 1]] = phrase[W[j + 1]] BY <2>2, <3>1
    <3> QED BY <1>1, <3>1, <3>2, <3>4, <3>5 DEF SaNextAt, SaGiven, SaPlaced
  <2> QED BY <1>5, <2>5, <2>6
<1> QED BY <1>4, <1>5

\* Steps that leave what was decided, and are not about the phrase or begin it anew.
SaSeenAside ==
  /\ saTold'.phrase = saTold.phrase /\ saTold'.outs = saTold.outs /\ saTold'.asked = saTold.asked
  /\ \/ sa' = sa
     \/ sa'.phase \notin {"COLLECT", "POSD", "DISAMB"}
     \/ sa'.phase = "COLLECT" /\ sa'.headx = <<>>

LEMMA SaLookingAside == ASSUME SaLooking, SaSeenAside PROVE SaLooking'
<1>1. SaWordsClear(<<>>) BY DEF SaWordsClear
<1>2. CASE sa' = sa BY ONLY SaLooking, SaSeenAside, <1>2 DEF SaLooking, SaLooks, SaSeenAside
<1>3. CASE sa'.phase \notin {"COLLECT", "POSD", "DISAMB"}
  BY ONLY SaLooking, SaSeenAside, <1>3 DEF SaLooking, SaLooks, SaSeenAside
<1>4. CASE sa'.phase = "COLLECT" /\ sa'.headx = <<>>
  BY ONLY SaLooking, SaSeenAside, <1>1, <1>4 DEF SaLooking, SaLooks, SaSeenAside
<1> QED BY <1>2, <1>3, <1>4 DEF SaSeenAside

LEMMA SaSeenAsideOther ==
  ASSUME SaTypes, \/ SaDisambEnd \/ SaWphoGraph \/ SaWphoEnd \/ SaParseEnd \/ SaFstEnd \/ SaReplace \/ SaTake
  PROVE  SaSeenAside
BY DEF SaSeenAside, SaTypes, SaTyped, SaFieldNames, SaDisambEnd, SaWphoGraph, SaWphoEnd, SaParseEnd,
       SaFstEnd, SaReplace, SaTake

LEMMA SaSeenAsideWpho == ASSUME SaTypes, SaWphoCopy \/ SaG2pEnd PROVE SaSeenAside
<1>1. PICK item : SaMadeAs(item) BY DEF SaWphoCopy, SaG2pEnd
<1>2. PICK h, n, i, made : /\ sa' = [sa EXCEPT !.headx = h, !.cbuf2 = n, !.i = i, !.phase = "WPHO"]
                        /\ saTold' = [saTold EXCEPT !.made = made]
  <2>1. PICK n, i, made : /\ sa' = [sa EXCEPT !.headx[sa.i] = item, !.cbuf2 = n, !.i = i, !.phase = "WPHO"]
                       /\ saTold' = [saTold EXCEPT !.made = made]
    BY <1>1 DEF SaMadeAs
  <2>2. sa' = [sa EXCEPT !.headx = [sa.headx EXCEPT ![sa.i] = item], !.cbuf2 = n, !.i = i, !.phase = "WPHO"]
    BY <2>1 DEF SaTypes, SaTyped, SaFieldNames
  <2> QED BY <2>1, <2>2
<1> QED BY <1>2 DEF SaSeenAside, SaTypes, SaTyped, SaFieldNames, SaToldNames

LEMMA SaSeenAsideG2pGraph == ASSUME SaTypes, SaG2pGraph PROVE SaSeenAside
<1>1. sa.phase = "G2P" BY SaG2pGraphIs
<1>2. PICK answer, out : SaHeard(answer, out) BY SaG2pGraphIs
<1>3. PICK n, outs, phones, g2p :
        /\ sa' = [sa EXCEPT !.count = n, !.outs = outs, !.phones = phones]
        /\ saTold' = [saTold EXCEPT !.g2p = g2p]
  BY <1>2 DEF SaHeard
<1> QED BY <1>1, <1>3 DEF SaSeenAside, SaTypes, SaTyped, SaFieldNames, SaToldNames

LEMMA SaSeenAsideParse == ASSUME SaTypes, SaParse \/ SaFeed PROVE SaSeenAside
<1>1. CASE SaParse
  <2>1. saTold' = saTold /\ (sa'.phase = "FST" \/ sa'.phase = "FEED") BY <1>1, SaParseIs
  <2> QED BY <2>1 DEF SaSeenAside
<1>2. CASE SaFeed
  <2>1. /\ sa' = [sa EXCEPT !.phase = "PARSE"] /\ saTold'.phrase = saTold.phrase
        /\ saTold'.outs = saTold.outs /\ saTold'.asked = saTold.asked
    BY <1>2, SaFeedIs
  <2> QED BY <2>1 DEF SaSeenAside, SaTypes, SaTyped, SaFieldNames
<1> QED BY <1>1, <1>2

LEMMA SaSeenAsideFst == ASSUME SaTypes, SaSyllabify \/ SaFst PROVE SaSeenAside
<1>1. CASE SaSyllabify
  <2>1. /\ sa.phase = "FST" /\ saTold' = saTold
        /\ \E new, phon : sa' = [sa EXCEPT !.phase = "FEED", !.transduced = TRUE, !.bufOut = new, !.phon = phon]
    BY <1>1, Zenon DEF SaSyllabify
  <2> QED BY <2>1 DEF SaSeenAside, SaTypes, SaTyped, SaFieldNames
<1>2. CASE SaFst
  <2>1. /\ sa.phase = "FST" /\ saTold' = saTold
        /\ \E phon : sa' = [sa EXCEPT !.phon = phon, !.transduced = TRUE, !.passed = Append(@, sa.curFst),
                          !.curFst = @ + 1]
    BY <1>2, Zenon DEF SaFst
  <2> QED BY <2>1 DEF SaSeenAside, SaTypes, SaTyped, SaFieldNames
<1> QED BY <1>1, <1>2

LEMMA SaLookingHeld ==
  ASSUME SaTypes, SaLooking,
         \/ SaDisambEnd \/ SaWphoCopy \/ SaWphoGraph \/ SaG2pGraph \/ SaG2pEnd \/ SaWphoEnd
         \/ SaParseEnd \/ SaParse \/ SaSyllabify \/ SaFst \/ SaFstEnd \/ SaReplace \/ SaFeed \/ SaTake
  PROVE  SaLooking'
<1>1. SaSeenAside
  BY SaSeenAsideOther, SaSeenAsideWpho, SaSeenAsideG2pGraph, SaSeenAsideParse, SaSeenAsideFst, Zenon
<1> QED BY <1>1, SaLookingAside

\* An item is collected.
LEMMA SaClearMore ==
  ASSUME NEW h, Listed(h), SaWordsClear(h), NEW e, SaIsWord(e) => e.info1 # SaEps
  PROVE  SaWordsClear(Append(h, e))
BY ListedAppend, ListedLen DEF SaWordsClear

LEMMA SaLookingCollect == ASSUME SaTypes, SaFeeding, SaLooking, SaCollect PROVE SaLooking'
<1> PICK c \in 0 .. Len(sa.case.items) : SaRest(sa, saIn, c) BY DEF SaFeeding
<1>0. sa.case \in SaTexts /\ saIn # <<>> BY DEF SaTypes, SaTyped, SaCollect
<1> PICK item, conv : item = Head(saIn) /\ conv = SaConverted(item) OBVIOUS
<1>1. SaIsWord(conv) => conv.info1 # SaEps
  <2>1. SaKnown(item) BY <1>0, SaHeadIs
  <2> QED BY <2>1, SaConvertedHeld
<1>2. PICK lost : \/ UNCHANGED sa /\ saTold' = [saTold EXCEPT !.lost = lost]
      \/ \E b1, b2 \in BOOLEAN : \E n :
           /\ sa' = [sa EXCEPT !.headx = Append(@, conv), !.needsmoreitems = b1, !.inspaceok = b2,
                               !.cbuf1 = @ + n]
           /\ UNCHANGED saTold
  <2> PICK lost : lost = saTold.lost \cup {Head(saIn).id} OBVIOUS
  <2>1. \/ UNCHANGED sa /\ saTold' = [saTold EXCEPT !.lost = lost]
        \/ \E b1, b2 \in BOOLEAN : \E n :
             /\ sa' = [sa EXCEPT !.headx = Append(@, conv), !.needsmoreitems = b1, !.inspaceok = b2,
                                 !.cbuf1 = @ + n]
             /\ UNCHANGED saTold
    BY DEF SaCollect
  <2> QED BY <2>1
<1>3. sa.phase = "COLLECT" BY DEF SaCollect
<1>4. CASE UNCHANGED sa /\ saTold' = [saTold EXCEPT !.lost = lost]
  <2>1. SaSeenAside BY <1>4 DEF SaSeenAside, SaTypes, SaToldNames
  <2> QED BY <2>1, SaLookingAside
<1>5. ASSUME NEW b1 \in BOOLEAN, NEW b2 \in BOOLEAN, NEW n, UNCHANGED saTold,
             sa' = [sa EXCEPT !.headx = Append(@, conv), !.needsmoreitems = b1, !.inspaceok = b2,
                               !.cbuf1 = @ + n]
      PROVE  SaLooking'
  <2>1. sa'.phase = "COLLECT" /\ sa'.headx = Append(sa.headx, conv)
    BY <1>3, <1>5 DEF SaTypes, SaTyped, SaFieldNames
  <2>2. SaWordsClear(sa.headx) /\ Listed(sa.headx) BY <1>3 DEF SaLooking, SaLooks, SaTypes, SaTyped, SaAllHeld
  <2>3. SaWordsClear(sa'.headx) BY <1>1, <2>1, <2>2, SaClearMore
  <2> QED BY ONLY SaLooking, <1>5, <2>1, <2>3 DEF SaLooking, SaLooks
<1> QED BY ONLY <1>2, <1>4, <1>5

\* The phrase is there.
LEMMA SaLookingCollected == ASSUME SaTypes, SaLooking, SaCollected PROVE SaLooking'
<1> PICK h : h = IF sa.needsmoreitems THEN Append(sa.headx, SaForced) ELSE sa.headx OBVIOUS
<1>1. /\ sa' = [sa EXCEPT !.phase = "POSD", !.needsmoreitems = FALSE, !.headx = h]
      /\ saTold' = [saTold EXCEPT !.phrase = h, !.asked = <<>>, !.outs = <<>>,
                                  !.g2p = <<>>, !.made = <<>>]
      /\ sa.phase = "COLLECT"
  BY DEF SaCollected
<1>2. /\ sa'.phase = "POSD" /\ sa'.headx = h /\ saTold'.phrase = h /\ saTold'.asked = <<>>
      /\ saTold'.outs = <<>>
  BY <1>1 DEF SaTypes, SaTyped, SaFieldNames, SaToldNames
<1>3. Listed(sa.headx) /\ SaWordsClear(sa.headx) BY <1>1 DEF SaTypes, SaTyped, SaAllHeld, SaLooking, SaLooks
<1>4. Listed(h) /\ SaWordsClear(h)
  <2>1. SaIsWord(SaForced) => SaForced.info1 # SaEps BY DEF SaForced, SaIsWord
  <2> QED BY <1>3, <2>1, SaClearMore, ListedAppend
<1>5. SaAsCollected(h, h, 1) BY DEF SaAsCollected
<1> PICK x, told : x = sa' /\ told = saTold' OBVIOUS
<1>6. SaLooks(x, told)
  <2>1. \A W : SaSawRight(h, W, <<>>, <<>>)
    <3>1. Len(<<>>) = 0 OBVIOUS
    <3> QED BY <3>1 DEF SaSawRight
  <2>2. x.phase = "POSD" /\ x.headx = h /\ told.phrase = h /\ told.asked = <<>> /\ told.outs = <<>>
    BY <1>2
  <2> QED BY ONLY <1>4, <1>5, <2>1, <2>2, ListedEmpty DEF SaLooks
<1> QED BY <1>6 DEF SaLooking

LEMMA SaLooksFresh ==
  ASSUME NEW x, NEW told, x.phase = "COLLECT", x.headx = <<>>, told.phrase = <<>>, told.asked = <<>>, told.outs = <<>>
  PROVE  SaLooks(x, told)
<1>1. \A W, phrase : SaSawRight(phrase, W, <<>>, <<>>) /\ SaWordsClear(<<>>)
  <2>1. Len(<<>>) = 0 OBVIOUS
  <2> QED BY <2>1 DEF SaSawRight, SaWordsClear
<1> QED BY <1>1, ListedEmpty DEF SaLooks

LEMMA SaLookingReset == ASSUME SaTypes, SaReset PROVE SaLooking'
<1>1. /\ sa'.phase = "COLLECT" /\ sa'.headx = <<>>
      /\ saTold'.phrase = <<>> /\ saTold'.asked = <<>> /\ saTold'.outs = <<>>
  BY DEF SaReset, SaFresh, SaNothing
<1> PICK x, told : x = sa' /\ told = saTold' OBVIOUS
<1>2. SaLooks(x, told) BY <1>1, SaLooksFresh
<1> QED BY <1>2 DEF SaLooking

LEMMA SaLookingInit == ASSUME SaInit PROVE SaLooking
<1>1. PICK c \in SaTexts : SaStart(c) BY DEF SaInit
<1>2. sa.phase = "COLLECT" /\ sa.headx = <<>> BY <1>1 DEF SaStart, SaFresh
<1>3. saTold.phrase = <<>> /\ saTold.asked = <<>> /\ saTold.outs = <<>> BY <1>1 DEF SaStart, SaNothing
<1> QED BY <1>2, <1>3, SaLooksFresh DEF SaLooking

\* The window in front of the first word.
LEMMA SaWindowFirst ==
  ASSUME NEW x, NEW phrase, NEW W, NEW val, NEW g1, NEW g2, NEW g3,
         val = <<SaZero, SaZero, SaZero, SaZero, g1, g2, g3>>, x.val = val, x.prevout = SaZero,
         g1 = SaGiven(phrase, W, 1), g2 = SaGiven(phrase, W, 2), g3 = SaGiven(phrase, W, 3),
         x.last = SaPlaced(phrase, W, 3)
  PROVE  SaWindow(x, phrase, W, <<>>, Len(<<>>))
<1>1. Len(<<>>) = 0 OBVIOUS
<1>2. \A j : SaDecided(<<>>, j) = SaZero
  <2> TAKE j
  <2>1. j \notin 1 .. Len(<<>>) BY <1>1
  <2> QED BY <2>1 DEF SaDecided
<1>3. 0 + 1 = 1 /\ 0 + 2 = 2 /\ 0 + 3 = 3 OBVIOUS
<1> QED BY <1>1, <1>2, <1>3 DEF SaWindow

LEMMA SaLookingBegin == ASSUME SaTypes, SaLooking, SaDisambBegin PROVE SaLooking'
<1> PICK words : words = {k \in DOMAIN sa.headx : SaIsWord(sa.headx[k])} OBVIOUS
<1> PICK first : first = Min(words) OBVIOUS
<1> PICK next : next = saPosDItemSeqGetPosRight(first) OBVIOUS
<1> PICK then : then = saPosDItemSeqGetPosRight(next.at) OBVIOUS
<1> PICK val : val = <<SaZero, SaZero, SaZero, SaZero, sa.headx[first].info1, next.val, then.val>> OBVIOUS
<1> PICK phrase : phrase = saTold.phrase OBVIOUS
<1> PICK W : W = SaWordsOf(phrase) OBVIOUS
<1>1. /\ sa.phase = "POSD" /\ saTold' = saTold
      /\ sa' = IF words = {} THEN [sa EXCEPT !.phase = "WPHO", !.i = 1]
               ELSE [sa EXCEPT !.phase = "DISAMB", !.i = first, !.prevout = SaZero,
                               !.val = val, !.last = then.at]
  <2>1. /\ sa.phase = "POSD" /\ saTold' = saTold
        /\ sa' = IF words = {} THEN [sa EXCEPT !.phase = "WPHO", !.i = 1]
                 ELSE [sa EXCEPT !.phase = "DISAMB", !.i = first, !.prevout = SaZero,
                         !.val = <<SaZero, SaZero, SaZero, SaZero, sa.headx[first].info1, next.val, then.val>>,
                         !.last = then.at]
    BY Zenon DEF SaDisambBegin
  <2> QED BY <2>1
<1>2. CASE words = {}
  <2>1. SaSeenAside BY <1>1, <1>2 DEF SaSeenAside, SaTypes, SaTyped, SaFieldNames
  <2> QED BY <2>1, SaLookingAside
<1>3. CASE words # {}
  <2>1. /\ Listed(phrase) /\ SaWordsClear(phrase) /\ SaAsCollected(sa.headx, phrase, 1)
        /\ saTold.outs = <<>> /\ saTold.asked = <<>>
    BY <1>1 DEF SaLooking, SaLooks
  <2>2. SaWordsAre(W, phrase) BY <2>1, SaWordsOfAre
  <2> PICK l, n \in Nat : l = Len(W) /\ n = Len(phrase) BY <2>2 DEF SaWordsAre
  <2>3. /\ \A j \in 1 .. l : W[j] \in 1 .. n
        /\ \A i, j \in 1 .. l : i < j => W[i] < W[j]
        /\ \A k \in 1 .. n : SaIsWord(phrase[k]) <=> \E j \in 1 .. l : W[j] = k
    BY <2>2 DEF SaWordsAre
  <2>4. DOMAIN sa.headx = 1 .. n /\ \A k \in 1 .. n : sa.headx[k] = phrase[k]
    <3>1. DOMAIN sa.headx = 1 .. Len(sa.headx) /\ Len(sa.headx) = n BY <2>1, SaHeadxLen DEF SaAsCollected
    <3> QED BY <2>1, <3>1 DEF SaAsCollected
  <2>5. \A k \in 1 .. n : k \in words <=> \E j \in 1 .. l : W[j] = k BY <2>3, <2>4
  <2>6. words \in SUBSET (1 .. n) BY <2>4
  <2>7. l >= 1
    <3>1. PICK k \in words : TRUE BY <1>3
    <3>2. PICK j \in 1 .. l : W[j] = k BY <2>5, <2>6, <3>1
    <3> QED BY <3>2
  <2>8. first = W[1]
    <3>1. 1 \in 1 .. l BY <2>7
    <3>2. W[1] \in words BY <2>3, <2>5, <3>1
    <3>3. \A k \in words : W[1] <= k
      <4> TAKE k \in words
      <4>1. PICK j \in 1 .. l : W[j] = k BY <2>5, <2>6
      <4>2. CASE j = 1 BY <2>3, <4>1, <4>2
      <4>3. CASE 1 < j
        <5>1. W[1] < W[j] BY <2>3, <3>1, <4>3
        <5> QED BY <2>3, <3>1, <4>1, <5>1
      <4> QED BY <4>2, <4>3
    <3>4. words \in SUBSET Nat /\ words # {} BY <1>3, <2>6
    <3>5. first \in words /\ \A y \in words : first <= y BY <3>4, MinOf
    <3>6. W[1] \in 1 .. n /\ first \in 1 .. n BY <2>3, <2>6, <3>1, <3>5
    <3>7. first <= W[1] /\ W[1] <= first BY <3>2, <3>3, <3>5
    <3> QED BY ONLY <3>6, <3>7, n \in Nat
  <2>9. W[1] = SaPlaced(phrase, W, 1) /\ 1 \in 1 .. l /\ W[1] \in 1 .. n BY <2>3, <2>7 DEF SaPlaced
  <2>10. \A j \in 1 .. l : 1 \in Int /\ 1 <= W[j] BY <2>3
  <2>11. next.val = SaGiven(phrase, W, 2) /\ next.at = SaPlaced(phrase, W, 2)
    <3>1. 1 <= l => 1 \in Int /\ 1 <= W[1] BY <2>9, <2>10
    <3>2. SaNextAt(phrase, W, 1 + 1, saPosDItemSeqGetPosRight(SaPlaced(phrase, W, 1)))
      BY ONLY <2>1, <2>2, <3>1, l = Len(W), SaNextIs
    <3>3. 1 + 1 = 2 OBVIOUS
    <3> QED BY <2>8, <2>9, <3>2, <3>3 DEF SaNextAt
  <2>12. then.val = SaGiven(phrase, W, 3) /\ then.at = SaPlaced(phrase, W, 3)
    <3>1. 2 <= l => 1 \in Int /\ 1 <= W[2] BY <2>10
    <3>2. SaNextAt(phrase, W, 2 + 1, saPosDItemSeqGetPosRight(SaPlaced(phrase, W, 2)))
      BY ONLY <2>1, <2>2, <3>1, l = Len(W), SaNextIs
    <3>3. 2 + 1 = 3 OBVIOUS
    <3> QED BY <2>11, <3>2, <3>3 DEF SaNextAt
  <2>13. sa.headx[first].info1 = SaGiven(phrase, W, 1) BY <2>4, <2>8, <2>9 DEF SaGiven
  <2>14. /\ sa'.phase = "DISAMB" /\ sa'.i = first /\ sa'.prevout = SaZero /\ sa'.val = val
         /\ sa'.last = then.at /\ sa'.headx = sa.headx
    BY <1>1, <1>3 DEF SaTypes, SaTyped, SaFieldNames
  <2>15. SaBeforeAre(W, first, Len(<<>>))
    <3>1. Len(<<>>) = 0 OBVIOUS
    <3>2. \A k \in 1 .. l : ~(W[k] < first) /\ ~(k <= 0)
      <4> TAKE k \in 1 .. l
      <4>1. k = 1 \/ W[1] < W[k] BY <2>3, <2>9
      <4>2. W[k] \in 1 .. n BY <2>3
      <4> QED BY <2>8, <2>9, <4>1, <4>2
    <3> QED BY <3>1, <3>2, l = Len(W), l \in Nat DEF SaBeforeAre
  <2>16. SaAsCollected(sa.headx, phrase, first)
    <3>1. \A k \in first .. n : k \in 1 .. n BY <2>8, <2>9
    <3>2. Len(sa.headx) = n BY <2>1 DEF SaAsCollected
    <3> QED BY <2>4, <3>1, <3>2 DEF SaAsCollected
  <2> PICK x, told : x = sa' /\ told = saTold' OBVIOUS
  <2>17. SaWindow(x, phrase, W, <<>>, Len(<<>>))
    <3>1. x.val = val /\ x.prevout = SaZero /\ x.last = then.at BY <2>14
    <3> PICK g1 : g1 = sa.headx[first].info1 OBVIOUS
    <3>2. val = <<SaZero, SaZero, SaZero, SaZero, g1, next.val, then.val>> /\ g1 = SaGiven(phrase, W, 1) BY <2>13
    <3> QED BY ONLY <2>11, <2>12, <3>1, <3>2, SaWindowFirst
  <2>18. SaLooks(x, told)
    <3>1. /\ x.phase = "DISAMB" /\ x.headx = sa.headx /\ x.i = first
          /\ told.phrase = phrase /\ told.outs = <<>> /\ told.asked = <<>> /\ SaWordsOf(told.phrase) = W
      BY <1>1, <2>1, <2>14
    <3>2. SaSawRight(phrase, W, <<>>, <<>>) /\ Listed(told.outs) /\ Listed(told.asked) /\ Listed(told.phrase)
      BY <1>1, <2>1 DEF SaLooking, SaLooks
    <3> QED BY ONLY <2>1, <2>15, <2>16, <2>17, <3>1, <3>2 DEF SaLooks
  <2> QED BY <2>18 DEF SaLooking
<1> QED BY <1>2, <1>3

\* What is no word goes by.
LEMMA SaLookingOther == ASSUME SaTypes, SaLooking, SaDisambOther PROVE SaLooking'
<1> PICK phrase, outs : phrase = saTold.phrase /\ outs = saTold.outs OBVIOUS
<1> PICK W : W = SaWordsOf(phrase) OBVIOUS
<1> PICK i : i = sa.i OBVIOUS
<1>1. /\ sa.phase = "DISAMB" /\ i <= Len(sa.headx) /\ ~SaIsWord(sa.headx[i]) /\ saTold' = saTold
      /\ sa' = [sa EXCEPT !.i = i + 1]
  BY DEF SaDisambOther
<1>2. /\ sa'.phase = "DISAMB" /\ sa'.i = i + 1 /\ sa'.headx = sa.headx /\ sa'.val = sa.val
      /\ sa'.prevout = sa.prevout /\ sa'.last = sa.last
  BY <1>1 DEF SaTypes, SaTyped, SaFieldNames
<1>3. /\ Listed(phrase) /\ Listed(outs) /\ Listed(saTold.asked) /\ SaWordsClear(phrase)
      /\ SaAsCollected(sa.headx, phrase, i) /\ SaBeforeAre(W, i, Len(outs))
      /\ SaWindow(sa, phrase, W, outs, Len(outs)) /\ SaSawRight(phrase, W, outs, saTold.asked)
  BY <1>1 DEF SaLooking, SaLooks
<1>4. i \in 1 .. Len(sa.headx) /\ Len(sa.headx) \in Nat BY <1>1, SaHeadxLen DEF SaTypes, SaTyped
<1>a. SaWordsAre(W, phrase) BY <1>3, SaWordsOfAre
<1> PICK l, n \in Nat : l = Len(W) /\ n = Len(phrase) BY <1>a DEF SaWordsAre
<1>5. /\ \A j \in 1 .. l : W[j] \in 1 .. n
      /\ \A k \in 1 .. n : SaIsWord(phrase[k]) <=> \E j \in 1 .. l : W[j] = k
  BY <1>a DEF SaWordsAre
<1>6. Len(sa.headx) = n /\ \A k \in i .. n : sa.headx[k] = phrase[k] BY <1>3 DEF SaAsCollected
<1>7. i \in 1 .. n /\ i \in i .. n BY <1>4, <1>6
<1>8. \A j \in 1 .. l : W[j] # i BY <1>1, <1>5, <1>6, <1>7
<1>9. SaBeforeAre(W, i + 1, Len(outs))
  <2>1. \A k \in 1 .. l : W[k] < i + 1 <=> W[k] < i BY <1>5, <1>7, <1>8
  <2> QED BY <1>3, <2>1 DEF SaBeforeAre
<1>10. SaAsCollected(sa.headx, phrase, i + 1)
  <2>1. \A k \in i + 1 .. n : k \in i .. n BY <1>7
  <2> QED BY <1>6, <2>1 DEF SaAsCollected
<1> PICK x, told : x = sa' /\ told = saTold' OBVIOUS
<1>11. SaLooks(x, told)
  <2>1. /\ x.phase = "DISAMB" /\ x.headx = sa.headx /\ x.i = i + 1 /\ x.val = sa.val
        /\ x.prevout = sa.prevout /\ x.last = sa.last
        /\ told.phrase = phrase /\ told.outs = outs /\ told.asked = saTold.asked /\ SaWordsOf(told.phrase) = W
    BY <1>1, <1>2
  <2>2. SaWindow(x, phrase, W, outs, Len(outs)) BY ONLY <1>3, <2>1 DEF SaWindow
  <2> QED BY ONLY <1>3, <1>9, <1>10, <2>1, <2>2 DEF SaLooks
<1> QED BY <1>11 DEF SaLooking

LEMMA SaShiftedIs ==
  ASSUME NEW a, NEW b, NEW c, NEW d, NEW e, NEW f, NEW g, sa.val = <<a, b, c, d, e, f, g>>, NEW r
  PROVE  SaShifted(r) = <<b, c, sa.prevout, e, f, g, r>>
<1> PICK p : p = sa.prevout OBVIOUS
<1> PICK R : R = {a, b, c, d, e, f, g, p, r} OBVIOUS
<1> PICK v : v = <<a, b, c, d, e, f, g>> OBVIOUS
<1>0. v \in Seq(R) /\ Len(v) = 7 OBVIOUS
<1>1. v[2] = b /\ v[3] = c /\ v[5] = e /\ v[6] = f /\ v[7] = g OBVIOUS
<1> PICK s, t, u : s = <<b, c, p>> /\ t = SubSeq(v, 5, 7) /\ u = <<r>> OBVIOUS
<1>2. s \in Seq(R) /\ Len(s) = 3 /\ u \in Seq(R) /\ Len(u) = 1 /\ u[1] = r OBVIOUS
<1>3. t \in Seq(R) /\ Len(t) = 3 /\ t[1] = e /\ t[2] = f /\ t[3] = g
  <2>1. 5 \in 1 .. Len(v) + 1 /\ 7 \in 5 - 1 .. Len(v) BY <1>0
  <2>2. t \in Seq(R) /\ Len(t) = 7 - 5 + 1 /\ \A k \in 1 .. 7 - 5 + 1 : t[k] = v[5 + k - 1]
    BY <1>0, <2>1, SubSeqProperties
  <2>3. t[1] = v[5] /\ t[2] = v[6] /\ t[3] = v[7] BY <2>2
  <2> QED BY <1>1, <2>2, <2>3
<1>4. SaShifted(r) = s \o t \o u BY <1>1 DEF SaShifted
<1> PICK w : w = s \o t OBVIOUS
<1>5. w \in Seq(R) /\ Len(w) = 3 + 3 /\ \A k \in 1 .. 3 + 3 : w[k] = IF k <= 3 THEN s[k] ELSE t[k - 3]
  BY <1>2, <1>3, ConcatProperties
<1> PICK z : z = w \o u OBVIOUS
<1>6. z \in Seq(R) /\ Len(z) = 6 + 1 /\ \A k \in 1 .. 6 + 1 : z[k] = IF k <= 6 THEN w[k] ELSE u[k - 6]
  BY <1>2, <1>5, ConcatProperties
<1>7. z[1] = b /\ z[2] = c /\ z[3] = p /\ z[4] = e /\ z[5] = f /\ z[6] = g /\ z[7] = r
  BY <1>2, <1>3, <1>5, <1>6
<1>8. z = <<b, c, p, e, f, g, r>>
  <2> PICK y : y = <<b, c, p, e, f, g, r>> OBVIOUS
  <2>1. y \in Seq(R) /\ Len(y) = 7 OBVIOUS
  <2>2. y[1] = b /\ y[2] = c /\ y[3] = p /\ y[4] = e /\ y[5] = f /\ y[6] = g /\ y[7] = r OBVIOUS
  <2>3. \A k \in 1 .. 7 : z[k] = y[k]
    <3>1. \A k \in 1 .. 7 : k \in {1, 2, 3, 4, 5, 6, 7} OBVIOUS
    <3> QED BY <1>7, <2>2, <3>1
  <2>4. Len(z) = 7 BY <1>6
  <2> QED BY <1>6, <2>1, <2>3, <2>4, SeqEqual
<1> QED BY <1>4, <1>8

\* One decision more.
LEMMA SaDecidedMore ==
  ASSUME NEW outs, Listed(outs), NEW out
  PROVE  /\ \A j \in Int : j <= Len(outs) => SaDecided(Append(outs, out), j) = SaDecided(outs, j)
         /\ SaDecided(Append(outs, out), Len(outs) + 1) = out
<1>1. /\ Len(outs) \in Nat /\ Len(Append(outs, out)) = Len(outs) + 1
      /\ \A i \in 1 .. Len(outs) : Append(outs, out)[i] = outs[i]
      /\ Append(outs, out)[Len(outs) + 1] = out
  BY ListedLen, ListedAppend
<1>2. ASSUME NEW j \in Int, j <= Len(outs) PROVE SaDecided(Append(outs, out), j) = SaDecided(outs, j)
  <2>1. j \in 1 .. Len(outs) + 1 <=> j \in 1 .. Len(outs) BY <1>1, <1>2
  <2>2. j \in 1 .. Len(outs) => Append(outs, out)[j] = outs[j] BY <1>1
  <2> QED BY <1>1, <2>1, <2>2 DEF SaDecided
<1>3. Len(outs) + 1 \in 1 .. Len(outs) + 1 BY <1>1
<1> QED BY <1>1, <1>2, <1>3 DEF SaDecided

LEMMA SaSawRightMore ==
  ASSUME NEW phrase, NEW W, NEW outs, Listed(outs), NEW out, NEW asked, SaSawRight(phrase, W, outs, asked)
  PROVE  SaSawRight(phrase, W, Append(outs, out), asked)
<1>1. Len(outs) \in Nat /\ Len(Append(outs, out)) = Len(outs) + 1 BY ListedLen, ListedAppend
<1>2. ASSUME NEW j \in 1 .. Len(asked)
      PROVE  \E n \in 1 .. Len(W) : /\ n <= Len(Append(outs, out))
               /\ asked[j] = [at |-> W[n], val |-> SaSeen(phrase, W, Append(outs, out), n)]
  <2>1. PICK n \in 1 .. Len(W) : n <= Len(outs) /\ asked[j] = [at |-> W[n], val |-> SaSeen(phrase, W, outs, n)]
    BY DEF SaSawRight
  <2>2. n - 3 \in Int /\ n - 2 \in Int /\ n - 1 \in Int
        /\ n - 3 <= Len(outs) /\ n - 2 <= Len(outs) /\ n - 1 <= Len(outs)
    BY <1>1, <2>1
  <2>3. SaSeen(phrase, W, Append(outs, out), n) = SaSeen(phrase, W, outs, n)
    BY <2>2, SaDecidedMore DEF SaSeen
  <2> QED BY <1>1, <2>1, <2>3
<1> QED BY <1>2 DEF SaSawRight

LEMMA SaSawRightAsked ==
  ASSUME NEW phrase, NEW W, NEW outs, NEW asked, Listed(asked), SaSawRight(phrase, W, outs, asked),
         NEW a, NEW n \in 1 .. Len(W), n <= Len(outs), a = [at |-> W[n], val |-> SaSeen(phrase, W, outs, n)]
  PROVE  SaSawRight(phrase, W, outs, Append(asked, a))
<1>1. /\ Len(asked) \in Nat /\ Len(Append(asked, a)) = Len(asked) + 1
      /\ \A i \in 1 .. Len(asked) : Append(asked, a)[i] = asked[i]
      /\ Append(asked, a)[Len(asked) + 1] = a
  BY ListedLen, ListedAppend
<1>2. \A j \in 1 .. Len(asked) + 1 : j \in 1 .. Len(asked) \/ j = Len(asked) + 1 BY <1>1
<1> QED BY <1>1, <1>2 DEF SaSawRight

\* The word that is looked at is the next one.
LEMMA SaWordIsNext ==
  ASSUME NEW phrase, NEW W, SaWordsAre(W, phrase), NEW i \in 1 .. Len(phrase), SaIsWord(phrase[i]),
         NEW m \in Nat, SaBeforeAre(W, i, m)
  PROVE  /\ m + 1 \in 1 .. Len(W) /\ W[m + 1] = i /\ SaBeforeAre(W, i + 1, m + 1)
         /\ \A j \in 1 .. Len(W) : j > m => i <= W[j]
<1> PICK l, n \in Nat : l = Len(W) /\ n = Len(phrase) BY DEF SaWordsAre
<1>1. /\ \A j \in 1 .. l : W[j] \in 1 .. n
      /\ \A k, j \in 1 .. l : k < j => W[k] < W[j]
      /\ \A k \in 1 .. n : SaIsWord(phrase[k]) <=> \E j \in 1 .. l : W[j] = k
  BY DEF SaWordsAre
<1>2. m <= l /\ \A k \in 1 .. l : W[k] < i <=> k <= m BY DEF SaBeforeAre
<1>3. i \in Nat OBVIOUS
<1>4. PICK j \in 1 .. l : W[j] = i BY <1>1
<1>5. j > m BY <1>2, <1>3, <1>4
<1>6. m + 1 \in 1 .. l BY <1>5
<1>7. W[m + 1] \in 1 .. n /\ ~(W[m + 1] < i) BY <1>1, <1>2, <1>6
<1>8. j = m + 1
  <2>1. CASE m + 1 < j
    <3>1. W[m + 1] < W[j] BY <1>1, <1>6, <2>1
    <3> QED BY <1>4, <1>7, <3>1
  <2> QED BY <1>5, <2>1
<1>9. W[m + 1] = i BY <1>4, <1>8
<1>10. \A k \in 1 .. l : k > m => i <= W[k]
  <2> TAKE k \in 1 .. l
  <2>1. W[k] \in 1 .. n BY <1>1
  <2> QED BY <1>2, <1>3, <2>1
<1>11. \A k \in 1 .. l : W[k] < i + 1 <=> k <= m + 1
  <2> TAKE k \in 1 .. l
  <2>1. CASE k <= m
    <3>1. W[k] < i /\ W[k] \in 1 .. n BY <1>1, <1>2, <2>1
    <3> QED BY <1>3, <2>1, <3>1
  <2>2. CASE k = m + 1 BY <1>3, <1>9, <2>2
  <2>3. CASE k > m + 1
    <3>1. W[m + 1] < W[k] /\ W[k] \in 1 .. n BY <1>1, <1>6, <2>3
    <3> QED BY <1>3, <1>9, <2>3, <3>1
  <2> QED BY <2>1, <2>2, <2>3
<1> QED BY <1>6, <1>9, <1>10, <1>11 DEF SaBeforeAre

\* The window moves on by a word.
SaShiftsTo(x, phrase, W, outs, out, m, right, info) ==
  /\ x.val = [SaShifted(right.val) EXCEPT ![4] = info] /\ x.prevout = out /\ x.last = right.at

SaMovesTo(x, phrase, W, outs, out, m, right) ==
  /\ SaShifted(right.val) = SaSeen(phrase, W, outs, m + 1)
  /\ SaWindow(x, phrase, W, Append(outs, out), m + 1)

LEMMA SaWindowMoves ==
  ASSUME NEW phrase, NEW W, NEW outs, Listed(outs), NEW m \in Nat, m = Len(outs),
         SaWindow(sa, phrase, W, outs, m),
         NEW right, SaNextAt(phrase, W, m + 4, right), NEW out, NEW x, NEW info,
         SaShiftsTo(x, phrase, W, outs, out, m, right, info)
  PROVE  SaMovesTo(x, phrase, W, outs, out, m, right)
<1> PICK D, G : /\ D = [j \in m - 3 .. m |-> SaDecided(outs, j)]
                /\ G = [j \in m .. m + 4 |-> SaGiven(phrase, W, j)]
  OBVIOUS
<1>1. PICK a, b : sa.val = <<a, SaDecided(outs, m - 2), SaDecided(outs, m - 1), b,
                       SaGiven(phrase, W, m + 1), SaGiven(phrase, W, m + 2), SaGiven(phrase, W, m + 3)>>
  BY DEF SaWindow
<1>2. sa.prevout = SaDecided(outs, m) BY DEF SaWindow
<1>3. right.val = SaGiven(phrase, W, m + 4) /\ right.at = SaPlaced(phrase, W, m + 4) BY DEF SaNextAt
<1> PICK d2, d1, d0, g1, g2, g3, g4 :
      /\ d2 = SaDecided(outs, m - 2) /\ d1 = SaDecided(outs, m - 1) /\ d0 = SaDecided(outs, m)
      /\ g1 = SaGiven(phrase, W, m + 1) /\ g2 = SaGiven(phrase, W, m + 2)
      /\ g3 = SaGiven(phrase, W, m + 3) /\ g4 = SaGiven(phrase, W, m + 4)
  OBVIOUS
<1>4. SaShifted(right.val) = <<d2, d1, d0, g1, g2, g3, g4>>
  <2>1. sa.val = <<a, d2, d1, b, g1, g2, g3>> /\ sa.prevout = d0 /\ right.val = g4 BY <1>1, <1>2, <1>3
  <2> QED BY <2>1, SaShiftedIs
<1>5. /\ m + 1 - 3 = m - 2 /\ m + 1 - 2 = m - 1 /\ m + 1 - 1 = m
      /\ m + 1 + 1 = m + 2 /\ m + 1 + 2 = m + 3 /\ m + 1 + 3 = m + 4
  OBVIOUS
<1>6. SaSeen(phrase, W, outs, m + 1) = <<d2, d1, d0, g1, g2, g3, g4>> BY <1>5 DEF SaSeen
<1> PICK more : more = Append(outs, out) OBVIOUS
<1>7. SaDecided(more, m - 1) = d1 /\ SaDecided(more, m) = d0 /\ SaDecided(more, m + 1) = out
  <2>1. m - 1 \in Int /\ m \in Int /\ m - 1 <= m /\ m <= m OBVIOUS
  <2> QED BY <2>1, SaDecidedMore
<1>8. x.val = <<d2, d1, d0, info, g2, g3, g4>>
  <2>1. x.val = [<<d2, d1, d0, g1, g2, g3, g4>> EXCEPT ![4] = info] BY <1>4 DEF SaShiftsTo
  <2> QED BY <2>1
<1>9. SaWindow(x, phrase, W, more, m + 1)
  <2>1. x.val = <<d2, SaDecided(more, m + 1 - 2), SaDecided(more, m + 1 - 1), info,
                  SaGiven(phrase, W, m + 1 + 1), SaGiven(phrase, W, m + 1 + 2), SaGiven(phrase, W, m + 1 + 3)>>
    BY <1>5, <1>7, <1>8
  <2>2. x.prevout = SaDecided(more, m + 1) /\ x.last = SaPlaced(phrase, W, m + 1 + 3)
    BY <1>3, <1>5, <1>7 DEF SaShiftsTo
  <2> QED BY ONLY <2>1, <2>2 DEF SaWindow
<1> QED BY <1>4, <1>6, <1>9 DEF SaMovesTo

LEMMA SaLookingWord == ASSUME SaTypes, SaLooking, SaDisambWord PROVE SaLooking'
<1> PICK right : right = saPosDItemSeqGetPosRight(sa.last) OBVIOUS
<1> PICK item : item = sa.headx[sa.i] OBVIOUS
<1> PICK mv : mv = SaMoved(right, item) OBVIOUS
<1> PICK phrase, outs, asked : phrase = saTold.phrase /\ outs = saTold.outs /\ asked = saTold.asked OBVIOUS
<1> PICK W : W = SaWordsOf(phrase) OBVIOUS
<1> PICK i, h : i = sa.i /\ h = sa.headx OBVIOUS
<1>1. /\ sa.phase = "DISAMB" /\ i <= Len(h) /\ SaIsWord(h[i]) /\ SaPassedBy(right, item)
  BY SaDisambWordIs
<1>2. i \in 1 .. Len(h) /\ Len(h) \in Nat /\ DOMAIN h = 1 .. Len(h)
  BY <1>1, SaHeadxLen DEF SaTypes, SaTyped
<1>3. /\ Listed(phrase) /\ Listed(outs) /\ Listed(asked) /\ SaWordsClear(phrase)
      /\ SaAsCollected(h, phrase, i) /\ SaBeforeAre(W, i, Len(outs))
      /\ SaWindow(sa, phrase, W, outs, Len(outs)) /\ SaSawRight(phrase, W, outs, asked)
  BY <1>1 DEF SaLooking, SaLooks
<1> PICK m \in Nat : m = Len(outs) BY <1>3, ListedLen
<1>4. SaWordsAre(W, phrase) BY <1>3, SaWordsOfAre
<1>5. Len(h) = Len(phrase) /\ h[i] = phrase[i]
  <2>1. i \in i .. Len(h) BY <1>2
  <2> QED BY <1>3, <2>1 DEF SaAsCollected
<1>6. /\ m + 1 \in 1 .. Len(W) /\ W[m + 1] = i /\ SaBeforeAre(W, i + 1, m + 1)
      /\ \A j \in 1 .. Len(W) : j > m => i <= W[j]
  <2>1. i \in 1 .. Len(phrase) /\ SaIsWord(phrase[i]) /\ SaBeforeAre(W, i, m) BY <1>1, <1>2, <1>3, <1>5
  <2> QED BY ONLY m \in Nat, <1>4, <2>1, SaWordIsNext
<1>7. SaNextAt(phrase, W, m + 4, right)
  <2>1. m + 3 \in Nat /\ m + 3 > 0 /\ m + 3 > m /\ m + 3 + 1 = m + 4 OBVIOUS
  <2>2. m + 3 <= Len(W) => i \in Int /\ i <= W[m + 3]
    <3> HAVE m + 3 <= Len(W)
    <3>1. m + 3 \in 1 .. Len(W) BY <1>4, <2>1 DEF SaWordsAre
    <3> QED BY <1>2, <1>6, <2>1, <3>1
  <2>3. SaAsCollected(sa.headx, phrase, i) BY <1>3
  <2>4. SaNextAt(phrase, W, m + 3 + 1, saPosDItemSeqGetPosRight(SaPlaced(phrase, W, m + 3)))
    BY ONLY <1>3, <1>4, <2>1, <2>2, <2>3, SaNextIs
  <2>5. sa.last = SaPlaced(phrase, W, m + 3) BY <1>3 DEF SaWindow
  <2> QED BY ONLY <2>1, <2>4, <2>5, right = saPosDItemSeqGetPosRight(sa.last)
<1>8. /\ DOMAIN mv = SaFieldNames /\ mv.phase = sa.phase /\ mv.headx = h /\ mv.i = i + 1
      /\ mv.val = [SaShifted(right.val) EXCEPT ![4] = item.info1] /\ mv.last = right.at
  BY DEF SaMoved, SaTypes, SaTyped, SaFieldNames

\* What the step does.
<1>9. \E out, j, g : /\ sa' = [mv EXCEPT !.prevout = out, !.headx = g] /\ g \in {h, [h EXCEPT ![i] = j]}
                     /\ saTold'.phrase = phrase /\ saTold'.outs = Append(outs, out)
                     /\ saTold'.asked \in {asked, Append(asked, [at |-> i, val |-> SaShifted(right.val)])}
  <2>1. CASE /\ sa' = [SaMoved(right, item) EXCEPT !.prevout = item.info1]
             /\ saTold' = [saTold EXCEPT !.outs = Append(@, item.info1)]
    <3>1. sa' = [mv EXCEPT !.prevout = item.info1] BY <2>1
    <3>2. sa' = [mv EXCEPT !.prevout = item.info1, !.headx = h] BY <1>8, <3>1 DEF SaFieldNames
    <3>3. saTold'.phrase = phrase /\ saTold'.outs = Append(outs, item.info1) /\ saTold'.asked = asked
      BY <2>1 DEF SaTypes, SaToldNames
    <3> QED BY <3>2, <3>3
  <2>2. ASSUME NEW class, NEW out,
             /\ sa' = [SaMoved(right, item) EXCEPT !.prevout = out,
                         !.headx[sa.i] = [item EXCEPT !.info1 = class, !.data = SaSelected(item, class)]]
             /\ saTold' = [saTold EXCEPT !.outs = Append(@, out),
                  !.asked = Append(@, [at |-> sa.i, val |-> SaShifted(right.val)])]
        PROVE  \E o, j, g :
                 /\ sa' = [mv EXCEPT !.prevout = o, !.headx = g] /\ g \in {h, [h EXCEPT ![i] = j]}
                 /\ saTold'.phrase = phrase /\ saTold'.outs = Append(outs, o)
                 /\ saTold'.asked \in {asked, Append(asked, [at |-> i, val |-> SaShifted(right.val)])}
    <3> PICK j : j = [item EXCEPT !.info1 = class, !.data = SaSelected(item, class)] OBVIOUS
    <3> PICK g : g = [h EXCEPT ![i] = j] OBVIOUS
    <3>1. sa' = [mv EXCEPT !.prevout = out, !.headx[sa.i] = j] BY <2>2
    <3>2. sa' = [mv EXCEPT !.prevout = out, !.headx = g] BY <1>8, <3>1 DEF SaFieldNames
    <3>3. saTold'.phrase = phrase /\ saTold'.outs = Append(outs, out)
          /\ saTold'.asked = Append(asked, [at |-> i, val |-> SaShifted(right.val)])
      BY <2>2 DEF SaTypes, SaToldNames
    <3> QED BY <3>2, <3>3
  <2> QED BY <1>1, <2>1, <2>2 DEF SaPassedBy
<1>10. PICK out, j, g :
         /\ sa' = [mv EXCEPT !.prevout = out, !.headx = g] /\ g \in {h, [h EXCEPT ![i] = j]}
         /\ saTold'.phrase = phrase /\ saTold'.outs = Append(outs, out)
         /\ saTold'.asked \in {asked, Append(asked, [at |-> i, val |-> SaShifted(right.val)])}
  BY <1>9
<1>11. /\ sa'.phase = "DISAMB" /\ sa'.headx = g /\ sa'.i = i + 1 /\ sa'.prevout = out
       /\ sa'.val = [SaShifted(right.val) EXCEPT ![4] = item.info1] /\ sa'.last = right.at
  BY ONLY <1>1, <1>8, <1>10 DEF SaFieldNames
<1>12. SaAsCollected(g, phrase, i + 1)
  <2>1. Len(g) = Len(h) /\ \A k \in 1 .. Len(h) : k # i => g[k] = h[k]
    <3>1. DOMAIN [h EXCEPT ![i] = j] = DOMAIN h OBVIOUS
    <3>2. CASE g = h BY <3>2
    <3>3. CASE g = [h EXCEPT ![i] = j]
      <4>1. Len(g) = Len(h)
        <5>1. Listed(h) BY DEF SaTypes, SaTyped, SaAllHeld
        <5>2. PICK n \in Nat : h = [k \in 1 .. n |-> h[k]] BY <5>1 DEF Listed
        <5>3. g = [k \in 1 .. n |-> IF k = i THEN j ELSE h[k]] BY <1>2, <3>3, <5>2
        <5>4. Len(g) = n BY <5>3
        <5>5. Len(h) = n BY <5>2
        <5> QED BY <5>4, <5>5
      <4> QED BY <1>2, <3>3, <4>1
    <3> QED BY <1>10, <3>2, <3>3
  <2>2. \A k \in i + 1 .. Len(h) : k \in i .. Len(h) /\ k \in 1 .. Len(h) /\ k # i BY <1>2
  <2>3. \A k \in i .. Len(h) : h[k] = phrase[k] BY <1>3 DEF SaAsCollected
  <2> QED BY <1>5, <2>1, <2>2, <2>3 DEF SaAsCollected
<1> PICK x, told : x = sa' /\ told = saTold' OBVIOUS
<1>13. /\ SaShifted(right.val) = SaSeen(phrase, W, outs, m + 1)
       /\ SaWindow(x, phrase, W, Append(outs, out), m + 1)
  <2>1. SaWindow(sa, phrase, W, outs, m) BY <1>3
  <2>2. x.val = [SaShifted(right.val) EXCEPT ![4] = item.info1] /\ x.prevout = out /\ x.last = right.at
    BY <1>11
  <2> PICK info : info = item.info1 OBVIOUS
  <2>3. SaShiftsTo(x, phrase, W, outs, out, m, right, info) BY <2>2 DEF SaShiftsTo
  <2>4. SaMovesTo(x, phrase, W, outs, out, m, right)
    BY ONLY m \in Nat, m = Len(outs), <1>3, <1>7, <2>1, <2>3, SaWindowMoves
  <2> QED BY ONLY <2>4 DEF SaMovesTo
<1>14. Listed(Append(outs, out)) /\ Len(Append(outs, out)) = m + 1 BY <1>3, ListedAppend
<1>15. SaSawRight(phrase, W, Append(outs, out), told.asked) /\ Listed(told.asked)
  <2>1. SaSawRight(phrase, W, Append(outs, out), asked) BY <1>3, SaSawRightMore
  <2>2. CASE told.asked = asked BY <1>3, <2>1, <2>2
  <2>3. CASE told.asked = Append(asked, [at |-> i, val |-> SaShifted(right.val)])
    <3> PICK more : more = Append(outs, out) OBVIOUS
    <3>1. SaShifted(right.val) = SaSeen(phrase, W, more, m + 1)
      <4>1. m + 1 - 3 <= m /\ m + 1 - 2 <= m /\ m + 1 - 1 <= m
            /\ m + 1 - 3 \in Int /\ m + 1 - 2 \in Int /\ m + 1 - 1 \in Int
        OBVIOUS
      <4>2. SaSeen(phrase, W, more, m + 1) = SaSeen(phrase, W, outs, m + 1)
        BY <1>3, <4>1, SaDecidedMore DEF SaSeen
      <4> QED BY <1>13, <4>2
    <3> PICK a : a = [at |-> W[m + 1], val |-> SaSeen(phrase, W, more, m + 1)] OBVIOUS
    <3>2. told.asked = Append(asked, a) BY <1>6, <2>3, <3>1
    <3>3. m + 1 <= Len(more) /\ m + 1 \in 1 .. Len(W) BY <1>6, <1>14
    <3>4. SaSawRight(phrase, W, more, Append(asked, a))
      BY ONLY <1>3, <2>1, <3>3, more = Append(outs, out), SaSawRightAsked,
              a = [at |-> W[m + 1], val |-> SaSeen(phrase, W, more, m + 1)]
    <3> QED BY <1>3, <3>2, <3>4, ListedAppend
  <2> QED BY <1>10, <2>2, <2>3
<1>16. SaLooks(x, told)
  <2>1. /\ x.phase = "DISAMB" /\ x.headx = g /\ x.i = i + 1
        /\ told.phrase = phrase /\ told.outs = Append(outs, out) /\ SaWordsOf(told.phrase) = W
        /\ Len(told.outs) = m + 1
    BY <1>10, <1>11, <1>14
  <2> QED BY ONLY <1>3, <1>6, <1>12, <1>13, <1>14, <1>15, <2>1 DEF SaLooks
<1> QED BY <1>16 DEF SaLooking

\* What stands to the left of the n-th word, and to its right.
LEMMA SaLeftIs ==
  ASSUME NEW outs, Listed(outs), NEW n \in Nat, n > 0, n <= Len(outs)
  PROVE  Reverse(SaPadded(Reverse(SubSeq(outs, 1, n - 1)), 3, SaZero))
           = <<SaDecided(outs, n - 3), SaDecided(outs, n - 2), SaDecided(outs, n - 1)>>
<1> PICK l \in Nat : l = Len(outs) BY ListedLen
<1> PICK R : R = {outs[i] : i \in DOMAIN outs} OBVIOUS
<1>1. outs \in Seq(R) BY ListedIn
<1> PICK o : o = SubSeq(outs, 1, n - 1) OBVIOUS
<1>2. o \in Seq(R) /\ Len(o) = n - 1 /\ \A k \in 1 .. n - 1 : o[k] = outs[k]
  <2>1. n - 1 \in Nat /\ n - 1 <= Len(outs) OBVIOUS
  <2> QED BY ONLY <1>1, <2>1, o = SubSeq(outs, 1, n - 1), FirstOf
<1> PICK b : b = Reverse(o) OBVIOUS
<1>3. b = [k \in 1 .. n - 1 |-> o[n - 1 - k + 1]] BY <1>2 DEF Reverse
<1>4. Len(b) = n - 1 /\ \A k \in 1 .. n - 1 : b[k] = outs[n - k]
  <2>1. n - 1 \in Nat OBVIOUS
  <2>2. Len(b) = n - 1 BY <1>3, <2>1
  <2>3. \A k \in 1 .. n - 1 : n - 1 - k + 1 = n - k /\ n - k \in 1 .. n - 1 OBVIOUS
  <2> QED BY <1>2, <1>3, <2>2, <2>3
<1> PICK p : p = SaPadded(b, 3, SaZero) OBVIOUS
<1>5. p = [k \in 1 .. 3 |-> IF k <= n - 1 THEN b[k] ELSE SaZero] BY <1>4 DEF SaPadded
<1>6. \A k \in 1 .. 3 : p[k] = SaDecided(outs, n - k)
  <2> TAKE k \in 1 .. 3
  <2>1. n - k \in 1 .. l <=> k <= n - 1 OBVIOUS
  <2>2. k <= n - 1 => k \in 1 .. n - 1 OBVIOUS
  <2> QED BY <1>4, <1>5, <2>1, <2>2 DEF SaDecided
<1>7. Len(p) = 3 BY <1>5
<1>8. Reverse(p) = [k \in 1 .. 3 |-> p[3 - k + 1]] BY <1>7 DEF Reverse
<1>9. Reverse(p) = <<p[3], p[2], p[1]>> BY <1>8
<1> QED BY <1>6, <1>9

LEMMA SaRightIs ==
  ASSUME NEW phrase, NEW W, SaWordsAre(W, phrase), NEW n \in 1 .. Len(W)
  PROVE  SaPadded([k \in 1 .. Len(W) - n |-> phrase[W[n + k]].info1], 3, SaEps)
           = <<SaGiven(phrase, W, n + 1), SaGiven(phrase, W, n + 2), SaGiven(phrase, W, n + 3)>>
<1> PICK l \in Nat : l = Len(W) BY DEF SaWordsAre
<1> PICK a : a = [k \in 1 .. l - n |-> phrase[W[n + k]].info1] OBVIOUS
<1>1. Len(a) = l - n
  <2>1. l - n \in Nat OBVIOUS
  <2> QED BY <2>1
<1>2. SaPadded(a, 3, SaEps) = [k \in 1 .. 3 |-> IF k <= l - n THEN a[k] ELSE SaEps] BY <1>1 DEF SaPadded
<1>3. \A k \in 1 .. 3 : (IF k <= l - n THEN a[k] ELSE SaEps) = SaGiven(phrase, W, n + k)
  <2> TAKE k \in 1 .. 3
  <2>1. n + k \in 1 .. l <=> k <= l - n OBVIOUS
  <2>2. k <= l - n => k \in 1 .. l - n OBVIOUS
  <2> QED BY <2>1, <2>2 DEF SaGiven
<1>4. SaPadded(a, 3, SaEps) = [k \in 1 .. 3 |-> SaGiven(phrase, W, n + k)] BY <1>2, <1>3
<1>5. [k \in 1 .. 3 |-> SaGiven(phrase, W, n + k)]
        = <<SaGiven(phrase, W, n + 1), SaGiven(phrase, W, n + 2), SaGiven(phrase, W, n + 3)>>
  OBVIOUS
<1> QED BY <1>4, <1>5

SevenAre(a, b, c, d, e, f, g) == <<a, b, c>> \o <<d>> \o <<e, f, g>> = <<a, b, c, d, e, f, g>>
LEMMA SaSevenAre ==
  ASSUME NEW a, NEW b, NEW c, NEW d, NEW e, NEW f, NEW g PROVE SevenAre(a, b, c, d, e, f, g)
<1> PICK R : R = {a, b, c, d, e, f, g} OBVIOUS
<1> PICK s, t, u : s = <<a, b, c>> /\ t = <<d>> /\ u = <<e, f, g>> OBVIOUS
<1>1. /\ s \in Seq(R) /\ Len(s) = 3 /\ s[1] = a /\ s[2] = b /\ s[3] = c
      /\ t \in Seq(R) /\ Len(t) = 1 /\ t[1] = d
      /\ u \in Seq(R) /\ Len(u) = 3 /\ u[1] = e /\ u[2] = f /\ u[3] = g
  OBVIOUS
<1> PICK w : w = s \o t OBVIOUS
<1>2. w \in Seq(R) /\ Len(w) = 3 + 1 /\ \A k \in 1 .. 3 + 1 : w[k] = IF k <= 3 THEN s[k] ELSE t[k - 3]
  BY <1>1, ConcatProperties
<1> PICK z : z = w \o u OBVIOUS
<1>3. z \in Seq(R) /\ Len(z) = 4 + 3 /\ \A k \in 1 .. 4 + 3 : z[k] = IF k <= 4 THEN w[k] ELSE u[k - 4]
  BY <1>1, <1>2, ConcatProperties
<1>4. z[1] = a /\ z[2] = b /\ z[3] = c /\ z[4] = d /\ z[5] = e /\ z[6] = f /\ z[7] = g
  BY <1>1, <1>2, <1>3
<1> PICK y : y = <<a, b, c, d, e, f, g>> OBVIOUS
<1>5. y \in Seq(R) /\ Len(y) = 7 OBVIOUS
<1>6. y[1] = a /\ y[2] = b /\ y[3] = c /\ y[4] = d /\ y[5] = e /\ y[6] = f /\ y[7] = g OBVIOUS
<1>7. \A k \in 1 .. 7 : z[k] = y[k]
  <2>1. \A k \in 1 .. 7 : k \in {1, 2, 3, 4, 5, 6, 7} OBVIOUS
  <2> QED BY <1>4, <1>6, <2>1
<1>8. Len(z) = 7 BY <1>3
<1>9. z = y BY <1>3, <1>5, <1>7, <1>8, SeqEqual
<1> QED BY <1>9 DEF SevenAre

SaOwed(a, phrase, outs, W, n) ==
  a.val = Reverse(SaPadded(Reverse(SubSeq(outs, 1, n - 1)), 3, SaZero)) \o <<phrase[a.at].info1>>
          \o SaPadded([k \in 1 .. Len(W) - n |-> phrase[W[n + k]].info1], 3, SaEps)

SaAllOwed(phrase, outs, asked, W) ==
  \A a \in ToSet(asked) : SaOwed(a, phrase, outs, W, CHOOSE k \in DOMAIN W : W[k] = a.at)

\* What the tree was asked is what the property says.
LEMMA SaLookingAsked == ASSUME SaLooking PROVE SaPosAsked
<1> PICK phrase, outs, asked : phrase = saTold.phrase /\ outs = saTold.outs /\ asked = saTold.asked OBVIOUS
<1> PICK W : W = SaWordsOf(phrase) OBVIOUS
<1>1. /\ Listed(phrase) /\ Listed(outs) /\ Listed(asked) /\ SaSawRight(phrase, W, outs, asked)
  BY DEF SaLooking, SaLooks
<1>2. SaWordsAre(W, phrase) BY <1>1, SaWordsOfAre
<1>3. DOMAIN W = 1 .. Len(W) /\ Len(W) \in Nat BY <1>2 DEF SaWordsAre
<1>4. ASSUME NEW a \in ToSet(asked) PROVE SaOwed(a, phrase, outs, W, CHOOSE k \in DOMAIN W : W[k] = a.at)
  <2>1. PICK j \in 1 .. Len(asked) : a = asked[j]
    <3>1. DOMAIN asked = 1 .. Len(asked) BY <1>1, ListedLen
    <3> QED BY <3>1 DEF ToSet
  <2>2. PICK n \in 1 .. Len(W) : n <= Len(outs) /\ a = [at |-> W[n], val |-> SaSeen(phrase, W, outs, n)]
    BY <1>1, <2>1 DEF SaSawRight
  <2>3. (CHOOSE k \in DOMAIN W : W[k] = a.at) = n
    <3>1. \A k \in DOMAIN W : W[k] = a.at <=> k = n
      <4> TAKE k \in DOMAIN W
      <4>1. k \in 1 .. Len(W) /\ W[k] \in Int /\ W[n] \in Int BY <1>2, <1>3 DEF SaWordsAre
      <4>2. k < n => W[k] < W[n] BY <1>2, <4>1 DEF SaWordsAre
      <4>3. n < k => W[n] < W[k] BY <1>2, <4>1 DEF SaWordsAre
      <4>4. k < n \/ k = n \/ n < k BY <4>1
      <4> QED BY <2>2, <4>1, <4>2, <4>3, <4>4
    <3>2. n \in DOMAIN W BY <1>3
    <3> QED BY ONLY Zenon, <3>1, <3>2
  <2>4. phrase[a.at].info1 = SaGiven(phrase, W, n) BY <2>2 DEF SaGiven
  <2>5. Reverse(SaPadded(Reverse(SubSeq(outs, 1, n - 1)), 3, SaZero))
          = <<SaDecided(outs, n - 3), SaDecided(outs, n - 2), SaDecided(outs, n - 1)>>
    <3>1. n \in Nat /\ n > 0 OBVIOUS
    <3> QED BY <1>1, <2>2, <3>1, SaLeftIs, Zenon
  <2>6. SaPadded([k \in 1 .. Len(W) - n |-> phrase[W[n + k]].info1], 3, SaEps)
          = <<SaGiven(phrase, W, n + 1), SaGiven(phrase, W, n + 2), SaGiven(phrase, W, n + 3)>>
    BY <1>2, SaRightIs, Zenon
  <2>7. SaOwed(a, phrase, outs, W, n)
    <3> PICK l, r, g : /\ l = <<SaDecided(outs, n - 3), SaDecided(outs, n - 2), SaDecided(outs, n - 1)>>
                       /\ r = <<SaGiven(phrase, W, n + 1), SaGiven(phrase, W, n + 2), SaGiven(phrase, W, n + 3)>>
                       /\ g = SaGiven(phrase, W, n)
      OBVIOUS
    <3>1. a.val = SaSeen(phrase, W, outs, n) BY <2>2
    <3>2. SevenAre(SaDecided(outs, n - 3), SaDecided(outs, n - 2), SaDecided(outs, n - 1), g,
                   SaGiven(phrase, W, n + 1), SaGiven(phrase, W, n + 2), SaGiven(phrase, W, n + 3))
      BY ONLY Zenon, SaSevenAre
    <3>3. a.val = l \o <<g>> \o r BY ONLY <3>1, <3>2,
        l = <<SaDecided(outs, n - 3), SaDecided(outs, n - 2), SaDecided(outs, n - 1)>>,
        r = <<SaGiven(phrase, W, n + 1), SaGiven(phrase, W, n + 2), SaGiven(phrase, W, n + 3)>>,
        g = SaGiven(phrase, W, n), Zenon DEF SaSeen, SevenAre
    <3>4. Reverse(SaPadded(Reverse(SubSeq(outs, 1, n - 1)), 3, SaZero)) = l BY ONLY <2>5,
        l = <<SaDecided(outs, n - 3), SaDecided(outs, n - 2), SaDecided(outs, n - 1)>>
    <3>5. SaPadded([k \in 1 .. Len(W) - n |-> phrase[W[n + k]].info1], 3, SaEps) = r BY ONLY <2>6,
        r = <<SaGiven(phrase, W, n + 1), SaGiven(phrase, W, n + 2), SaGiven(phrase, W, n + 3)>>
    <3>6. phrase[a.at].info1 = g BY <2>4
    <3> QED BY ONLY Zenon, <3>3, <3>4, <3>5, <3>6 DEF SaOwed
  <2> QED BY ONLY <2>3, <2>7
<1>5. SaAllOwed(phrase, outs, asked, W) BY ONLY Zenon, <1>4 DEF SaAllOwed
<1>6. SaAllOwed(saTold.phrase, saTold.outs, saTold.asked, SaWordsOf(saTold.phrase)) BY <1>5
<1> QED BY ONLY Zenon, <1>6 DEF SaPosAsked, SaOwed, SaAllOwed

-----------------------------------------------------------------------------
(* The division into syllables: phones neither go nor come. *)

\* The phones of a word, as they are read, without boundaries and stresses.
SaSymbols(R, C) == \A e \in R : e.sym \in C
SaMarks == {SaStress, SaBound}
SaPlainRead(phon) == SaPlain(SaRead(phon))
SaCounts(e) == e.pos # "ignore" /\ e.sym \notin SaMarks

\* A symbol more is read, or left out.
SaPlainOn(C, u, c) ==
  /\ SaPlain(u) \in Seq(C)
  /\ SaPlain(Append(u, c)) = IF c \notin SaMarks THEN Append(SaPlain(u), c) ELSE SaPlain(u)

LEMMA SaPlainMore == ASSUME NEW C, NEW u \in Seq(C), NEW c \in C PROVE SaPlainOn(C, u, c)
<1> PICK n \in Nat : n = Len(u) OBVIOUS
<1> PICK t : t = Append(u, c) OBVIOUS
<1>1. t \in Seq(C) /\ Len(t) = n + 1 /\ t[n + 1] = c /\ (\A k \in 1 .. n : t[k] = u[k])
      /\ DOMAIN t = 1 .. n + 1 /\ DOMAIN u = 1 .. n
  OBVIOUS
<1> PICK P, Q : P = {k \in DOMAIN t : t[k] \notin SaMarks} /\ Q = {k \in DOMAIN u : u[k] \notin SaMarks} OBVIOUS
<1>2. \A k \in 1 .. n : k \in Q <=> k \in P BY <1>1
<1>3. SaPlain(u) = ElementsAt(u, Q) /\ SaPlain(t) = ElementsAt(t, P) BY DEF SaPlain, SaMarks
<1>4. ElementsAt(u, Q) = ElementsAt(u, P)
  <2>1. \A k \in 1 .. Len(u) : u[k] = u[k] /\ (k \in Q <=> k \in P) BY <1>2
  <2>2. Len(u) = Len(u) OBVIOUS
  <2> QED BY ONLY <2>1, <2>2, ElementsSame
<1>5. /\ ElementsAt(u, P) \in Seq(C)
      /\ ElementsAt(Append(u, c), P) = IF Len(u) + 1 \in P THEN Append(ElementsAt(u, P), c) ELSE ElementsAt(u, P)
  BY ONLY u \in Seq(C), c \in C, ElementsNext
<1>6. Len(u) + 1 \in P <=> c \notin SaMarks BY <1>1
<1> QED BY <1>3, <1>4, <1>5, <1>6 DEF SaPlainOn

SaReadOn(C, s, e) ==
  /\ SaRead(s) \in Seq(C)
  /\ SaRead(Append(s, e)) = IF e.pos # "ignore" THEN Append(SaRead(s), e.sym) ELSE SaRead(s)

SaSyms(r) == [k \in DOMAIN r |-> r[k].sym]
SaSymsOn(C, r, e) == SaSyms(r) \in Seq(C) /\ SaSyms(Append(r, e)) = Append(SaSyms(r), e.sym)
LEMMA SaSymsAre ==
  ASSUME NEW C, NEW R, SaSymbols(R, C), NEW r \in Seq(R), NEW e \in R PROVE SaSymsOn(C, r, e)
<1> PICK m \in Nat : m = Len(r) OBVIOUS
<1>1. \A d \in R : d.sym \in C BY DEF SaSymbols
<1>2. \A k \in 1 .. m : r[k] \in R OBVIOUS
<1>3. \A k \in 1 .. m : r[k].sym \in C BY ONLY <1>1, <1>2
<1> PICK u : u = SaSyms(r) OBVIOUS
<1>4. u = [k \in 1 .. m |-> r[k].sym]
  <2>1. DOMAIN r = 1 .. m OBVIOUS
  <2> QED BY <2>1 DEF SaSyms
<1>5. u \in Seq(C) /\ Len(u) = m /\ \A k \in 1 .. m : u[k] = r[k].sym BY ONLY <1>3, <1>4, m \in Nat
<1> PICK x : x = Append(r, e) OBVIOUS
<1>6. x[m + 1] = e /\ (\A k \in 1 .. m : x[k] = r[k]) /\ DOMAIN x = 1 .. m + 1 OBVIOUS
<1> PICK y, c : y = SaSyms(x) /\ c = e.sym OBVIOUS
<1>7. y = [k \in 1 .. m + 1 |-> x[k].sym] BY <1>6 DEF SaSyms
<1>8. c \in C BY <1>1
<1> PICK z : z = Append(u, c) OBVIOUS
<1>9. z \in Seq(C) /\ Len(z) = m + 1 /\ z[m + 1] = c /\ \A k \in 1 .. m : z[k] = u[k]
  BY ONLY <1>5, <1>8, z = Append(u, c), m \in Nat
<1>10. z = [k \in 1 .. m + 1 |-> z[k]] BY ONLY <1>9, m \in Nat
<1>11. \A k \in 1 .. m + 1 : z[k] = x[k].sym
  <2> TAKE k \in 1 .. m + 1
  <2>1. CASE k = m + 1 BY ONLY <1>6, <1>9, <2>1, c = e.sym
  <2>2. CASE k # m + 1
    <3>1. k \in 1 .. m BY <2>2
    <3> QED BY ONLY <1>5, <1>6, <1>9, <3>1
  <2> QED BY <2>1, <2>2
<1>12. y = z BY ONLY <1>7, <1>10, <1>11
<1> QED BY ONLY <1>5, <1>12, x = Append(r, e), u = SaSyms(r), y = SaSyms(x), z = Append(u, c), c = e.sym
        DEF SaSymsOn

LEMMA SaReadMore == ASSUME NEW C, NEW R, SaSymbols(R, C), NEW s \in Seq(R), NEW e \in R PROVE SaReadOn(C, s, e)
<1> PICK n \in Nat : n = Len(s) OBVIOUS
<1> PICK t : t = Append(s, e) OBVIOUS
<1>1. t \in Seq(R) /\ Len(t) = n + 1 /\ t[n + 1] = e /\ (\A k \in 1 .. n : t[k] = s[k])
      /\ DOMAIN t = 1 .. n + 1 /\ DOMAIN s = 1 .. n
  OBVIOUS
<1> PICK P, Q : P = {k \in DOMAIN t : t[k].pos # "ignore"} /\ Q = {k \in DOMAIN s : s[k].pos # "ignore"} OBVIOUS
<1>2. \A k \in 1 .. n : k \in Q <=> k \in P BY <1>1
<1>4. ElementsAt(s, Q) = ElementsAt(s, P)
  <2>1. \A k \in 1 .. Len(s) : s[k] = s[k] /\ (k \in Q <=> k \in P) BY <1>2
  <2>2. Len(s) = Len(s) OBVIOUS
  <2> QED BY ONLY <2>1, <2>2, ElementsSame
<1> PICK r, q : r = ElementsAt(s, P) /\ q = ElementsAt(Append(s, e), P) OBVIOUS
<1>3. SaRead(s) = SaSyms(r) /\ SaRead(t) = SaSyms(q)
  <2>1. SaRead(s) = SaSyms(ElementsAt(s, Q)) BY Zenon DEF SaRead, SaSyms
  <2>2. SaRead(t) = SaSyms(ElementsAt(t, P)) BY Zenon DEF SaRead, SaSyms
  <2> QED BY <1>4, <2>1, <2>2
<1>5. /\ ElementsAt(s, P) \in Seq(R)
      /\ ElementsAt(Append(s, e), P) = IF Len(s) + 1 \in P THEN Append(ElementsAt(s, P), e) ELSE ElementsAt(s, P)
  BY ONLY s \in Seq(R), e \in R, ElementsNext
<1>6. Len(s) + 1 \in P <=> e.pos # "ignore" BY <1>1
<1>7. r \in Seq(R) /\ q = IF e.pos # "ignore" THEN Append(r, e) ELSE r BY <1>5, <1>6
<1>10. r \in Seq(R) BY <1>7
<1>8. SaSyms(r) \in Seq(C) BY ONLY <1>10, SaSymbols(R, C), SaSymsAre DEF SaSymsOn
<1>9. SaSyms(Append(r, e)) = Append(SaSyms(r), e.sym)
  BY ONLY <1>10, e \in R, SaSymbols(R, C), SaSymsAre DEF SaSymsOn
<1> QED BY <1>3, <1>7, <1>8, <1>9 DEF SaReadOn

SaPlainReadOn(C, s, e) ==
  /\ SaPlainRead(s) \in Seq(C)
  /\ SaPlainRead(Append(s, e)) = IF SaCounts(e) THEN Append(SaPlainRead(s), e.sym) ELSE SaPlainRead(s)

LEMMA SaPlainReadMore ==
  ASSUME NEW C, NEW R, SaSymbols(R, C), NEW s \in Seq(R), NEW e \in R PROVE SaPlainReadOn(C, s, e)
<1> PICK u, c : u = SaRead(s) /\ c = e.sym OBVIOUS
<1>1. u \in Seq(C) /\ SaRead(Append(s, e)) = IF e.pos # "ignore" THEN Append(u, c) ELSE u
  <2>1. SaReadOn(C, s, e) BY SaReadMore
  <2> QED BY ONLY <2>1, u = SaRead(s), c = e.sym DEF SaReadOn
<1>2. c \in C BY DEF SaSymbols
<1>3. /\ SaPlain(u) \in Seq(C)
      /\ SaPlain(Append(u, c)) = IF c \notin SaMarks THEN Append(SaPlain(u), c) ELSE SaPlain(u)
  <2>1. SaPlainOn(C, u, c) BY <1>1, <1>2, SaPlainMore
  <2> QED BY ONLY <2>1 DEF SaPlainOn
<1> QED BY <1>1, <1>3 DEF SaPlainReadOn, SaPlainRead, SaCounts

LEMMA SaPlainReadNone == SaPlainRead(<<>>) = <<>>
<1>1. DOMAIN <<>> = 1 .. 0 OBVIOUS
<1> PICK P : P = {k \in DOMAIN <<>> : <<>>[k].pos # "ignore"} OBVIOUS
<1>2. SaRead(<<>>) = SaSyms(ElementsAt(<<>>, P)) BY Zenon DEF SaRead, SaSyms
<1>3. ElementsAt(<<>>, P) = <<>> BY ElementsNone
<1>4. SaSyms(<<>>) = <<>> BY <1>1 DEF SaSyms
<1>5. SaRead(<<>>) = <<>> BY <1>2, <1>3, <1>4
<1>6. SaPlain(<<>>) = <<>> BY ElementsNone DEF SaPlain
<1> QED BY <1>5, <1>6 DEF SaPlainRead

LEMMA SaPlainReadType ==
  ASSUME NEW C, NEW R, SaSymbols(R, C), NEW s \in Seq(R) PROVE SaPlainRead(s) \in Seq(C)
<1>1. CASE Len(s) = 0
  <2>1. s = <<>> BY <1>1
  <2>2. <<>> \in Seq(C) OBVIOUS
  <2> QED BY <2>1, <2>2, SaPlainReadNone
<1>2. CASE Len(s) # 0
  <2>1. 1 \in 1 .. Len(s) BY <1>2
  <2>2. s[1] \in R BY <2>1
  <2>3. SaPlainReadOn(C, s, s[1]) BY <2>2, SaPlainReadMore
  <2> QED BY <2>3 DEF SaPlainReadOn
<1> QED BY <1>1, <1>2

\* Two parts of a word, one behind the other.
SaPlainJoins(C, s, t) ==
  /\ SaPlainRead(s) \in Seq(C) /\ SaPlainRead(t) \in Seq(C)
  /\ SaPlainRead(s \o t) = SaPlainRead(s) \o SaPlainRead(t)

LEMMA SaPlainJoin ==
  ASSUME NEW C, NEW R, SaSymbols(R, C), NEW s \in Seq(R), NEW t \in Seq(R) PROVE SaPlainJoins(C, s, t)
<1> DEFINE Of(m) == SubSeq(t, 1, m)
           Fits(m) == SaPlainJoins(C, s, Of(m))
           Fails == {m \in Nat : m <= Len(t) /\ ~Fits(m)}
<1>1. Fails = {}
  <2> SUFFICES ASSUME Fails # {} PROVE FALSE OBVIOUS
  <2>1. PICK m \in Fails : \A y \in Fails : m <= y
    <3>1. Fails \subseteq Nat OBVIOUS
    <3> HIDE DEF Fails
    <3> QED BY <3>1, LeastNumber
  <2>2. m # 0
    <3>1. Of(0) = <<>> /\ s \o <<>> = s OBVIOUS
    <3> PICK a \in Seq(C) : a = SaPlainRead(s) BY SaPlainReadType
    <3>2. a \o <<>> = a /\ <<>> \in Seq(C) OBVIOUS
    <3>3. Fits(0) BY <3>1, <3>2, SaPlainReadNone DEF SaPlainJoins
    <3> HIDE DEF Fits
    <3> QED BY <3>3
  <2>3. PICK n \in Nat : n = m - 1 BY <2>2
  <2>4. m = n + 1 /\ n + 1 <= Len(t) /\ n < m BY <2>3
  <2>5. Fits(n)
    <3> HIDE DEF Fits
    <3> QED BY <2>1, <2>4
  <2>6. PICK u, e : u = Of(n) /\ e = t[n + 1] OBVIOUS
  <2>7. u \in Seq(R) /\ Len(u) = n /\ e \in R /\ Of(m) = Append(u, e) BY <2>4, <2>6, FirstNext
  <2>8. PICK v : v = s \o u OBVIOUS
  <2>9. v \in Seq(R) /\ s \o Append(u, e) = Append(v, e) BY <2>7, <2>8
  <2> PICK a, b, c : a = SaPlainRead(s) /\ b = SaPlainRead(u) /\ c = SaPlainRead(v) OBVIOUS
  <2>10. a \in Seq(C) /\ b \in Seq(C) /\ c = a \o b BY <2>5, <2>6, <2>8 DEF SaPlainJoins
  <2>11. /\ SaPlainRead(Append(u, e)) = IF SaCounts(e) THEN Append(b, e.sym) ELSE b
    <3>1. SaPlainReadOn(C, u, e) BY <2>7, SaPlainReadMore
    <3> QED BY <3>1 DEF SaPlainReadOn
  <2>12. /\ SaPlainRead(Append(v, e)) = IF SaCounts(e) THEN Append(c, e.sym) ELSE c
    <3>1. SaPlainReadOn(C, v, e) BY <2>7, <2>9, SaPlainReadMore
    <3> QED BY <3>1 DEF SaPlainReadOn
  <2>13. CASE SaCounts(e)
    <3> PICK d : d = e.sym OBVIOUS
    <3>1. d \in C BY <2>7 DEF SaSymbols
    <3> PICK f : f = <<d>> OBVIOUS
    <3>2. f \in Seq(C) BY <3>1
    <3>3. Append(b, d) = b \o f BY ONLY <2>10, <3>1, f = <<d>>, AppendIsConcat
    <3>4. a \o b \in Seq(C) BY ONLY <2>10
    <3>5. Append(a \o b, d) = (a \o b) \o f BY ONLY <3>1, <3>4, f = <<d>>, AppendIsConcat
    <3>6. (a \o b) \o f = a \o (b \o f)
      <4>1. \A x, y, z \in Seq(C) : (x \o y) \o z = x \o (y \o z) BY ONLY Regroup
      <4> QED BY ONLY <2>10, <3>2, <4>1
    <3>7. Append(b, d) \in Seq(C) BY ONLY <2>10, <3>1
    <3>8. Append(c, d) = a \o Append(b, d) BY ONLY <2>10, <3>3, <3>5, <3>6
    <3>9. Fits(m) BY <2>7, <2>9, <2>10, <2>11, <2>12, <2>13, <3>7, <3>8 DEF SaPlainJoins
    <3> HIDE DEF Fits
    <3> QED BY <3>9
  <2>14. CASE ~SaCounts(e)
    <3>1. Fits(m) BY <2>7, <2>9, <2>10, <2>11, <2>12, <2>14 DEF SaPlainJoins
    <3> HIDE DEF Fits
    <3> QED BY <3>1
  <2> QED BY <2>13, <2>14
<1>2. Fits(Len(t)) /\ Of(Len(t)) = t
  <2>1. Len(t) \in Nat /\ Of(Len(t)) = t OBVIOUS
  <2> HIDE DEF Fits
  <2> QED BY <1>1, <2>1
<1> QED BY <1>2

\* What is taken out does not count.
LEMMA SaPlainTaken ==
  ASSUME NEW C, NEW R, SaSymbols(R, C), NEW s \in Seq(R), NEW P,
         \A k \in 1 .. Len(s) : k \notin P => ~SaCounts(s[k])
  PROVE  SaPlainRead(ElementsAt(s, P)) = SaPlainRead(s)
<1> DEFINE Of(m) == SubSeq(s, 1, m)
           Fits(m) == SaPlainRead(ElementsAt(Of(m), P)) = SaPlainRead(Of(m))
           Fails == {m \in Nat : m <= Len(s) /\ ~Fits(m)}
<1>1. Fails = {}
  <2> SUFFICES ASSUME Fails # {} PROVE FALSE OBVIOUS
  <2>1. PICK m \in Fails : \A y \in Fails : m <= y
    <3>1. Fails \subseteq Nat OBVIOUS
    <3> HIDE DEF Fails
    <3> QED BY <3>1, LeastNumber
  <2>2. m # 0
    <3>1. Of(0) = <<>> OBVIOUS
    <3>2. Fits(0) BY <3>1, ElementsNone
    <3> HIDE DEF Fits
    <3> QED BY <3>2
  <2>3. PICK n \in Nat : n = m - 1 BY <2>2
  <2>4. m = n + 1 /\ n + 1 <= Len(s) /\ n < m BY <2>3
  <2>5. Fits(n)
    <3> HIDE DEF Fits
    <3> QED BY <2>1, <2>4
  <2>6. PICK u, e : u = Of(n) /\ e = s[n + 1] OBVIOUS
  <2>7. u \in Seq(R) /\ Len(u) = n /\ e \in R /\ Of(m) = Append(u, e) BY <2>4, <2>6, FirstNext
  <2> PICK w : w = ElementsAt(u, P) OBVIOUS
  <2>8. w \in Seq(R) /\ ElementsAt(Append(u, e), P) = IF n + 1 \in P THEN Append(w, e) ELSE w
    <3>1. /\ ElementsAt(u, P) \in Seq(R)
          /\ ElementsAt(Append(u, e), P) = IF Len(u) + 1 \in P THEN Append(ElementsAt(u, P), e) ELSE ElementsAt(u, P)
      BY ONLY <2>7, ElementsNext
    <3> QED BY <2>7, <3>1
  <2>9. SaPlainRead(w) = SaPlainRead(u) BY <2>5, <2>6
  <2>10. SaPlainRead(Append(u, e)) = IF SaCounts(e) THEN Append(SaPlainRead(u), e.sym) ELSE SaPlainRead(u)
    <3>1. SaPlainReadOn(C, u, e) BY <2>7, SaPlainReadMore
    <3> QED BY <3>1 DEF SaPlainReadOn
  <2>11. SaPlainRead(Append(w, e)) = IF SaCounts(e) THEN Append(SaPlainRead(w), e.sym) ELSE SaPlainRead(w)
    <3>1. SaPlainReadOn(C, w, e) BY <2>7, <2>8, SaPlainReadMore
    <3> QED BY <3>1 DEF SaPlainReadOn
  <2>12. n + 1 \notin P => ~SaCounts(e) BY <2>4, <2>6
  <2>13. SaPlainRead(ElementsAt(Append(u, e), P)) = SaPlainRead(Append(u, e))
    BY ONLY <2>8, <2>9, <2>10, <2>11, <2>12
  <2>14. Fits(m) BY <2>7, <2>13
  <2> HIDE DEF Fits
  <2> QED BY <2>14
<1>2. Fits(Len(s)) /\ Of(Len(s)) = s
  <2>1. Len(s) \in Nat /\ Of(Len(s)) = s OBVIOUS
  <2> HIDE DEF Fits
  <2> QED BY <1>1, <2>1
<1> QED BY <1>2

\* One symbol or two that do not count.
LEMMA SaPlainOne ==
  ASSUME NEW a, ~SaCounts(a), NEW b, ~SaCounts(b)
  PROVE  SaPlainRead(<<a>>) = <<>> /\ SaPlainRead(<<a, b>>) = <<>>
<1> PICK R, C : R = {a, b} /\ C = {a.sym, b.sym} OBVIOUS
<1>1. SaSymbols(R, C) BY DEF SaSymbols
<1>2. <<>> \in Seq(R) /\ a \in R /\ b \in R /\ <<a>> \in Seq(R) /\ Append(<<>>, a) = <<a>>
      /\ Append(<<a>>, b) = <<a, b>>
  <2>1. <<>> \in Seq(R) /\ a \in R /\ b \in R OBVIOUS
  <2>2. <<a>> \in Seq(R) BY <2>1
  <2>3. Append(<<>>, a) = <<a>> OBVIOUS
  <2>4. Append(<<a>>, b) = <<a, b>>
    <3> PICK t, u, v : t = <<a>> /\ u = Append(t, b) /\ v = <<a, b>> OBVIOUS
    <3>1. t \in Seq(R) /\ Len(t) = 1 /\ t[1] = a BY <2>1
    <3>2. u \in Seq(R) /\ Len(u) = 2 /\ u[1] = a /\ u[2] = b BY <2>1, <3>1
    <3>3. v \in Seq(R) /\ Len(v) = 2 /\ v[1] = a /\ v[2] = b BY <2>1
    <3>4. \A k \in 1 .. 2 : u[k] = v[k]
      <4>1. \A k \in 1 .. 2 : k = 1 \/ k = 2 OBVIOUS
      <4> QED BY <3>2, <3>3, <4>1
    <3> QED BY <3>2, <3>3, <3>4, SeqEqual
  <2> QED BY <2>1, <2>2, <2>3, <2>4
<1>3. SaPlainReadOn(C, <<>>, a) BY <1>1, <1>2, SaPlainReadMore
<1>4. SaPlainReadOn(C, <<a>>, b) BY <1>1, <1>2, SaPlainReadMore
<1> QED BY <1>2, <1>3, <1>4, SaPlainReadNone DEF SaPlainReadOn

\* The parts of one syllable.
SaKeptOf(phon, accents, a, b) ==
  ElementsAt(SubSeq(phon, a, b), {k \in 1 .. b - a + 1 : accents = {} \/ a + k - 1 # Max(accents)})

SaBoundOf(done, accents) ==
  IF ~done.vowelFound THEN <<>>
  ELSE IF accents = {} THEN <<SaInserted(SaBound)>>
  ELSE <<SaInserted(SaBound), SaInserted(SaStress)>>

SaFirstOf(phon, done) == Min({k \in done.to .. Len(phon) : SaCarrier(phon[k])})
SaEndsOf(phon, first) == {k \in first .. Len(phon) : ~SaCarrier(phon[k])}
SaLastOf(phon, first) == IF SaEndsOf(phon, first) = {} THEN Len(phon) ELSE Min(SaEndsOf(phon, first)) - 1
SaAccentsOf(phon, from, first) == {k \in from .. first - 1 : phon[k].sym = SaStress}
SaDividedAs(phon, done, first, last, onset, accents) ==
  SaSyllable(phon, done) =
    [done EXCEPT !.out = @ \o SaKeptOf(phon, accents, done.to, onset - 1) \o SaBoundOf(done, accents)
                           \o SaKeptOf(phon, accents, onset, last),
                 !.to = last + 1, !.inserted = @ + (IF done.vowelFound THEN 1 ELSE 0),
                 !.vowelFound = TRUE]

LEMMA SaSyllableIs ==
  ASSUME NEW phon, NEW done, NEW first, first = SaFirstOf(phon, done), NEW last, last = SaLastOf(phon, first),
         NEW onset, onset = Max({done.to, first - 1}), NEW accents, accents = SaAccentsOf(phon, done.to, first)
  PROVE  SaDividedAs(phon, done, first, last, onset, accents)
<1>1. SaDividedAs(phon, done, SaFirstOf(phon, done), SaLastOf(phon, SaFirstOf(phon, done)),
                  Max({done.to, SaFirstOf(phon, done) - 1}), SaAccentsOf(phon, done.to, SaFirstOf(phon, done)))
  BY Zenon DEF SaDividedAs, SaSyllable, SaKeptOf, SaBoundOf, SaFirstOf, SaEndsOf, SaLastOf, SaAccentsOf
<1> QED BY <1>1

\* Where they begin and end.
LEMMA SaSyllableAt ==
  ASSUME NEW phon, NEW n \in Nat, n = Len(phon), NEW from \in 1 .. n, ~SaCarrier(phon[1]),
         NEW done, done.to = from, \E k \in from .. n : SaCarrier(phon[k]),
         NEW first, first = SaFirstOf(phon, done), NEW last, last = SaLastOf(phon, first),
         NEW onset, onset = Max({done.to, first - 1})
  PROVE  /\ first \in from .. n /\ SaCarrier(phon[first])
         /\ last \in first .. n /\ onset \in from .. first
<1> PICK S : S = {k \in from .. n : SaCarrier(phon[k])} OBVIOUS
<1>1. first = Min(S) BY DEF SaFirstOf
<1>2. S \in SUBSET Nat /\ S # {} OBVIOUS
<1>3. first \in S BY <1>1, <1>2, MinOf
<1>4. first \in from .. n /\ SaCarrier(phon[first]) BY <1>3
<1> PICK E : E = SaEndsOf(phon, first) OBVIOUS
<1>5. last = IF E = {} THEN n ELSE Min(E) - 1 BY DEF SaLastOf
<1>6. last \in first .. n
  <2>1. CASE E = {} BY <1>4, <1>5, <2>1
  <2>2. CASE E # {}
    <3>1. E \in SUBSET Nat /\ \A k \in E : k \in first .. n /\ k # first BY <1>4 DEF SaEndsOf
    <3>2. Min(E) \in E BY <2>2, <3>1, MinOf
    <3>3. Min(E) \in first .. n /\ Min(E) # first BY <3>1, <3>2
    <3> QED BY <1>4, <1>5, <2>2, <3>3
  <2> QED BY <2>1, <2>2
<1>7. first >= 2 BY <1>4
<1> PICK T : T = {from, first - 1} OBVIOUS
<1>8. T \in SUBSET (1 .. n) /\ T # {} BY <1>4, <1>7
<1>9. Max(T) \in T /\ \A y \in T : y <= Max(T) BY ONLY <1>8, n \in Nat, MaxOf
<1>10. onset = Max(T) OBVIOUS
<1>11. onset = from \/ onset = first - 1 BY <1>9, <1>10
<1>12. from <= onset BY <1>9, <1>10
<1>13. onset \in from .. first BY ONLY <1>4, <1>11, <1>12, n \in Nat, from \in 1 .. n
<1> QED BY <1>4, <1>6, <1>13

\* What is kept of a part counts as the part does.
SaKeptWell(R, phon, accents, a, b) ==
  /\ SaKeptOf(phon, accents, a, b) \in Seq(R)
  /\ SaPlainRead(SaKeptOf(phon, accents, a, b)) = SaPlainRead(SubSeq(phon, a, b))

LEMMA SaKeptPlain ==
  ASSUME NEW C, NEW R, SaSymbols(R, C), NEW phon \in Seq(R), NEW n \in Nat, n = Len(phon),
         NEW accents, accents \in SUBSET (1 .. n), \A k \in accents : phon[k].sym = SaStress,
         NEW a \in Nat \ {0}, NEW b \in Nat, b <= n
  PROVE  SaKeptWell(R, phon, accents, a, b)
<1> PICK s : s = SubSeq(phon, a, b) OBVIOUS
<1>1. /\ s \in Seq(R) /\ Len(s) = IF a <= b THEN b - a + 1 ELSE 0
      /\ \A i \in 1 .. b - a + 1 : s[i] = phon[a + i - 1]
  BY ONLY phon \in Seq(R), a \in Nat \ {0}, b \in Nat, b <= n, n = Len(phon), s = SubSeq(phon, a, b), PartOf
<1> PICK P : P = {k \in 1 .. b - a + 1 : accents = {} \/ a + k - 1 # Max(accents)} OBVIOUS
<1>2. \A k \in 1 .. Len(s) : k \in 1 .. b - a + 1 BY <1>1
<1>3. \A k \in 1 .. Len(s) : k \notin P => ~SaCounts(s[k])
  <2> SUFFICES ASSUME NEW k \in 1 .. Len(s), k \notin P PROVE ~SaCounts(s[k]) OBVIOUS
  <2>1. accents # {} /\ a + k - 1 = Max(accents) BY <1>2
  <2>2. Max(accents) \in accents BY ONLY <2>1, n \in Nat, accents \in SUBSET (1 .. n), MaxOf
  <2>3. s[k].sym = SaStress BY <1>1, <1>2, <2>1, <2>2
  <2> QED BY <2>3 DEF SaCounts, SaMarks
<1>4. ElementsAt(s, P) \in Seq(R) BY <1>1, ElementsType
<1>5. SaPlainRead(ElementsAt(s, P)) = SaPlainRead(s) BY ONLY <1>1, <1>3, SaSymbols(R, C), SaPlainTaken
<1> QED BY <1>4, <1>5 DEF SaKeptOf, SaKeptWell

\* The vowels up to a place.
SaVowelsTo(phon, m) == {k \in 1 .. m : SaCarrier(phon[k])}
LEMMA SaVowelsMore ==
  ASSUME NEW phon, NEW m \in Nat, NEW l \in Nat, NEW first \in m + 1 .. l, SaCarrier(phon[first])
  PROVE  /\ Cardinality(SaVowelsTo(phon, m)) \in Nat /\ Cardinality(SaVowelsTo(phon, l)) \in Nat
         /\ Cardinality(SaVowelsTo(phon, m)) + 1 <= Cardinality(SaVowelsTo(phon, l))
<1> PICK S, T : S = SaVowelsTo(phon, m) /\ T = SaVowelsTo(phon, l) OBVIOUS
<1>1. IsFiniteSet(1 .. m) /\ IsFiniteSet(1 .. l) BY FS_Interval
<1>2. S \in SUBSET (1 .. m) /\ T \in SUBSET (1 .. l) BY DEF SaVowelsTo
<1>3. IsFiniteSet(S) /\ IsFiniteSet(T) BY <1>1, <1>2, FS_Subset
<1>4. Cardinality(S) \in Nat /\ Cardinality(T) \in Nat BY <1>3, FS_CardinalityType
<1>5. first \notin S BY <1>2
<1>6. Cardinality(S \cup {first}) = Cardinality(S) + 1 BY <1>3, <1>5, FS_AddElement
<1>7. S \cup {first} \in SUBSET T
  <2>1. \A k \in S : k \in 1 .. l /\ SaCarrier(phon[k]) BY DEF SaVowelsTo
  <2>2. first \in 1 .. l OBVIOUS
  <2> QED BY <2>1, <2>2 DEF SaVowelsTo
<1>8. Cardinality(S \cup {first}) <= Cardinality(T) BY <1>3, <1>7, FS_Subset
<1> QED BY <1>4, <1>6, <1>8

LEMMA SaVowelsUpTo ==
  ASSUME NEW phon, NEW m \in Nat, NEW l \in Nat, m <= l
  PROVE  Cardinality(SaVowelsTo(phon, m)) \in Nat /\ Cardinality(SaVowelsTo(phon, l)) \in Nat
         /\ Cardinality(SaVowelsTo(phon, m)) <= Cardinality(SaVowelsTo(phon, l))
<1> PICK S, T : S = SaVowelsTo(phon, m) /\ T = SaVowelsTo(phon, l) OBVIOUS
<1>1. IsFiniteSet(1 .. l) BY FS_Interval
<1>2. T \in SUBSET (1 .. l) BY DEF SaVowelsTo
<1>3. IsFiniteSet(T) BY <1>1, <1>2, FS_Subset
<1>4. S \in SUBSET T
  <2>1. \A k \in 1 .. m : k \in 1 .. l OBVIOUS
  <2> QED BY <2>1 DEF SaVowelsTo
<1>5. IsFiniteSet(S) /\ Cardinality(S) <= Cardinality(T) BY <1>3, <1>4, FS_Subset
<1> QED BY <1>3, <1>5, FS_CardinalityType

\* What the loop has done so far: the phones are those up to a place, and there is no
\* boundary without a vowel.
SaDones(R) == [out : Seq(R), to : Nat, inserted : Nat, vowelFound : BOOLEAN, over : BOOLEAN]
SaSoFar(phon, R, d) ==
  /\ d \in SaDones(R)
  /\ d.to \in 1 .. Len(phon) + 1 /\ d.out \in Seq(R)
  /\ SaPlainRead(d.out) = SaPlainRead(SubSeq(phon, 1, d.to - 1))
  /\ d.over = FALSE /\ d.inserted \in Nat /\ d.vowelFound \in BOOLEAN
  /\ d.vowelFound => d.inserted + 1 <= Cardinality(SaVowelsTo(phon, d.to - 1))
  /\ ~d.vowelFound => d.inserted = 0

SaGoesOn(phon, R, d, e) == SaSoFar(phon, R, e) /\ (e.to > d.to \/ e.to = Len(phon) + 1)

\* More of the phones is put out.
SaPutAs(phon, out, m) == SaPlainRead(out) = SaPlainRead(SubSeq(phon, 1, m))
SaPartAs(phon, more, m, u) == SaPlainRead(more) = SaPlainRead(SubSeq(phon, m + 1, u))
SaPutsOn(R, phon, out, u) == out \in Seq(R) /\ SaPutAs(phon, out, u)
LEMMA SaPlainPut ==
  ASSUME NEW C, NEW R, SaSymbols(R, C), NEW phon \in Seq(R), NEW n \in Nat, n = Len(phon),
         NEW m \in 0 .. n, NEW u \in m .. n, NEW out, SaPutsOn(R, phon, out, m),
         NEW more \in Seq(R), SaPartAs(phon, more, m, u)
  PROVE  SaPutsOn(R, phon, out \o more, u)
<1> PICK a, b : a = SubSeq(phon, 1, m) /\ b = SubSeq(phon, m + 1, u) OBVIOUS
<1>0. out \in Seq(R) BY DEF SaPutsOn
<1>1. a \in Seq(R) /\ b \in Seq(R)
  <2>1. m \in Nat /\ m <= Len(phon) /\ u \in Nat /\ u <= Len(phon) /\ 1 \in Nat \ {0} /\ m + 1 \in Nat \ {0}
    OBVIOUS
  <2> QED BY <2>1, PartOf
<1>2. a \o b = SubSeq(phon, 1, u)
  <2>1. 1 \in 1 .. Len(phon) + 1 /\ m \in 1 - 1 .. Len(phon) /\ u \in m .. Len(phon) OBVIOUS
  <2> QED BY <2>1, ConcatAdjacentSubSeq
<1>3. out \o more \in Seq(R) /\ SaPlainRead(out \o more) = SaPlainRead(out) \o SaPlainRead(more)
  <2>1. SaPlainJoins(C, out, more) BY <1>0, SaPlainJoin
  <2>2. out \o more \in Seq(R) BY <1>0
  <2> QED BY ONLY <2>1, <2>2 DEF SaPlainJoins
<1>4. SaPlainRead(a \o b) = SaPlainRead(a) \o SaPlainRead(b)
  <2>1. SaPlainJoins(C, a, b) BY <1>1, SaPlainJoin
  <2> QED BY ONLY <2>1 DEF SaPlainJoins
<1>5. SaPlainRead(out) = SaPlainRead(a) /\ SaPlainRead(more) = SaPlainRead(b)
  BY DEF SaPutsOn, SaPutAs, SaPartAs
<1>6. SaPlainRead(out \o more) = SaPlainRead(a \o b) BY <1>3, <1>4, <1>5
<1> QED BY <1>2, <1>3, <1>6 DEF SaPutsOn, SaPutAs

\* What does not count may be put in between.
LEMMA SaPlainMark ==
  ASSUME NEW C, NEW R, SaSymbols(R, C), NEW out \in Seq(R), NEW bound \in Seq(R), SaPlainRead(bound) = <<>>
  PROVE  out \o bound \in Seq(R) /\ SaPlainRead(out \o bound) = SaPlainRead(out)
<1> PICK p : p = SaPlainRead(out) OBVIOUS
<1>1. p \in Seq(C) /\ SaPlainRead(out \o bound) = p \o <<>>
  <2>1. SaPlainJoins(C, out, bound) BY SaPlainJoin
  <2> QED BY <2>1 DEF SaPlainJoins
<1>2. p \o <<>> = p BY <1>1
<1> QED BY <1>1, <1>2

LEMMA SaBoundPlain ==
  ASSUME NEW R, SaInserted(SaBound) \in R, SaInserted(SaStress) \in R, NEW done, NEW accents
  PROVE  SaBoundOf(done, accents) \in Seq(R) /\ SaPlainRead(SaBoundOf(done, accents)) = <<>>
<1> PICK a, b : a = SaInserted(SaBound) /\ b = SaInserted(SaStress) OBVIOUS
<1>1. ~SaCounts(a) /\ ~SaCounts(b) BY DEF SaCounts, SaMarks, SaInserted
<1>2. SaPlainRead(<<a>>) = <<>> /\ SaPlainRead(<<a, b>>) = <<>> BY <1>1, SaPlainOne
<1>3. a \in R /\ b \in R OBVIOUS
<1>4. <<>> \in Seq(R) /\ <<a>> \in Seq(R) /\ <<a, b>> \in Seq(R) BY ONLY <1>3
<1>5. SaBoundOf(done, accents) = <<>> \/ SaBoundOf(done, accents) = <<a>> \/ SaBoundOf(done, accents) = <<a, b>>
  BY DEF SaBoundOf
<1> QED BY ONLY <1>2, <1>4, <1>5, SaPlainReadNone

\* A word and the symbols it is made of; room for its boundaries.
SaDividable(phon, C, R) ==
  /\ SaSymbols(R, C) /\ phon \in Seq(R) /\ phon # <<>> /\ ~SaCarrier(phon[1])
  /\ SaInserted(SaBound) \in R /\ SaInserted(SaStress) \in R

SaRoomFor(phon) ==
  /\ Len(phon) + 1 < SaMaxPhon
  /\ Len(phon) + Cardinality(SaVowelsTo(phon, Len(phon))) < SaMaxPhon

\* One syllable.
LEMMA SaSyllableGoesOn ==
  ASSUME NEW C, NEW R, NEW phon, SaDividable(phon, C, R), NEW d, SaSoFar(phon, R, d),
         d.to <= Len(phon), \E k \in d.to .. Len(phon) : SaCarrier(phon[k])
  PROVE  SaGoesOn(phon, R, d, SaSyllable(phon, d))
<1>0. phon \in Seq(R) /\ SaSymbols(R, C) /\ SaInserted(SaBound) \in R /\ SaInserted(SaStress) \in R
      /\ ~SaCarrier(phon[1])
  BY DEF SaDividable
<1> PICK n \in Nat : n = Len(phon) BY <1>0
<1> PICK from \in 1 .. n : from = d.to
  <2>1. d.to \in 1 .. n + 1 /\ d.to <= n BY DEF SaSoFar
  <2> QED BY <2>1
<1> PICK first : first = SaFirstOf(phon, d) OBVIOUS
<1> PICK last : last = SaLastOf(phon, first) OBVIOUS
<1> PICK onset : onset = Max({d.to, first - 1}) OBVIOUS
<1> PICK accents : accents = SaAccentsOf(phon, d.to, first) OBVIOUS
<1>1. /\ first \in from .. n /\ SaCarrier(phon[first]) /\ last \in first .. n /\ onset \in from .. first
  BY <1>0, SaSyllableAt
<1>2. accents \in SUBSET (1 .. n) /\ \A k \in accents : phon[k].sym = SaStress
  BY <1>1 DEF SaAccentsOf
<1> PICK k1, k2, bound : /\ k1 = SaKeptOf(phon, accents, from, onset - 1)
                         /\ k2 = SaKeptOf(phon, accents, onset, last) /\ bound = SaBoundOf(d, accents)
  OBVIOUS
<1>3. k1 \in Seq(R) /\ SaPlainRead(k1) = SaPlainRead(SubSeq(phon, from, onset - 1))
  <2>1. from \in Nat \ {0} /\ onset - 1 \in Nat /\ onset - 1 <= n BY <1>1
  <2>2. SaKeptWell(R, phon, accents, from, onset - 1)
    BY ONLY <1>0, <1>2, <2>1, n \in Nat, n = Len(phon), SaKeptPlain
  <2> QED BY ONLY <2>2, k1 = SaKeptOf(phon, accents, from, onset - 1) DEF SaKeptWell
<1>4. k2 \in Seq(R) /\ SaPlainRead(k2) = SaPlainRead(SubSeq(phon, onset, last))
  <2>1. onset \in Nat \ {0} /\ last \in Nat /\ last <= n BY <1>1
  <2>2. SaKeptWell(R, phon, accents, onset, last)
    BY ONLY <1>0, <1>2, <2>1, n \in Nat, n = Len(phon), SaKeptPlain
  <2> QED BY ONLY <2>2, k2 = SaKeptOf(phon, accents, onset, last) DEF SaKeptWell
<1>5. bound \in Seq(R) /\ SaPlainRead(bound) = <<>> BY <1>0, SaBoundPlain
<1> PICK e : e = SaSyllable(phon, d) OBVIOUS
<1> PICK out : out = d.out OBVIOUS
<1>6. d \in SaDones(R) /\ out \in Seq(R) /\ SaPlainRead(out) = SaPlainRead(SubSeq(phon, 1, from - 1))
  BY DEF SaSoFar
<1>7. /\ e \in SaDones(R) /\ e.out = out \o k1 \o bound \o k2 /\ e.to = last + 1
      /\ e.inserted = d.inserted + (IF d.vowelFound THEN 1 ELSE 0) /\ e.vowelFound = TRUE
      /\ e.over = d.over
  <2>1. SaDividedAs(phon, d, first, last, onset, accents) BY SaSyllableIs
  <2>2. e = [d EXCEPT !.out = @ \o SaKeptOf(phon, accents, d.to, onset - 1) \o SaBoundOf(d, accents)
                           \o SaKeptOf(phon, accents, onset, last),
                 !.to = last + 1, !.inserted = @ + (IF d.vowelFound THEN 1 ELSE 0),
                 !.vowelFound = TRUE]
    BY <2>1 DEF SaDividedAs
  <2> PICK o, i : o = out \o k1 \o bound \o k2 /\ i = d.inserted + (IF d.vowelFound THEN 1 ELSE 0) OBVIOUS
  <2>3. e = [d EXCEPT !.out = o, !.to = last + 1, !.inserted = i, !.vowelFound = TRUE] BY <2>2
  <2>4. i \in Nat /\ last + 1 \in Nat
    <3>1. d.inserted \in Nat BY <1>6 DEF SaDones
    <3> QED BY ONLY <1>1, <3>1, i = d.inserted + (IF d.vowelFound THEN 1 ELSE 0), from \in 1 .. n, n \in Nat
  <2>5. o \in Seq(R)
    <3>1. out \o k1 \in Seq(R) BY <1>3, <1>6, ConcatProperties
    <3>2. (out \o k1) \o bound \in Seq(R) BY <1>5, <3>1, ConcatProperties
    <3> QED BY <1>4, <3>2, ConcatProperties
  <2>6. /\ e \in SaDones(R) /\ e.out = o /\ e.to = last + 1 /\ e.inserted = i /\ e.vowelFound = TRUE
        /\ e.over = d.over
    <3> PICK to : to = last + 1 OBVIOUS
    <3> QED BY ONLY <1>6, <2>3, <2>4, <2>5, to = last + 1 DEF SaDones
  <2> QED BY ONLY <2>6, o = out \o k1 \o bound \o k2, i = d.inserted + (IF d.vowelFound THEN 1 ELSE 0)
<1> PICK o1, o2, o3 : o1 = out \o k1 /\ o2 = o1 \o bound /\ o3 = o2 \o k2 OBVIOUS
<1> PICK f0, f1 : f0 = from - 1 /\ f1 = onset - 1 OBVIOUS
<1>16. f0 \in 0 .. n /\ f1 \in f0 .. n /\ f1 \in 0 .. n /\ last \in f1 .. n /\ f0 + 1 = from /\ f1 + 1 = onset
  BY <1>1
<1>8. SaPutsOn(R, phon, o1, f1)
  <2>1. SaPutsOn(R, phon, out, f0) BY <1>6 DEF SaPutsOn, SaPutAs
  <2>2. SaPartAs(phon, k1, f0, f1) BY <1>3, <1>16 DEF SaPartAs
  <2> QED BY ONLY <1>0, <1>3, <1>16, <2>1, <2>2, n \in Nat, n = Len(phon), o1 = out \o k1, SaPlainPut
<1>9. SaPutsOn(R, phon, o2, f1)
  <2>1. o1 \in Seq(R) BY ONLY <1>8 DEF SaPutsOn
  <2>2. o2 \in Seq(R) /\ SaPlainRead(o2) = SaPlainRead(o1)
    BY ONLY <1>0, <1>5, <2>1, o2 = o1 \o bound, SaPlainMark
  <2> QED BY ONLY <1>8, <2>2 DEF SaPutsOn, SaPutAs
<1>10. SaPutsOn(R, phon, o3, last)
  <2>1. SaPartAs(phon, k2, f1, last) BY <1>4, <1>16 DEF SaPartAs
  <2> QED BY ONLY <1>0, <1>4, <1>9, <1>16, <2>1, n \in Nat, n = Len(phon), o3 = o2 \o k2, SaPlainPut
<1>11. /\ e.to \in 1 .. n + 1 /\ e.to > d.to BY <1>1, <1>7
<1>12. e.inserted \in Nat /\ e.inserted + 1 <= Cardinality(SaVowelsTo(phon, e.to - 1))
  <2>1. /\ Cardinality(SaVowelsTo(phon, from - 1)) \in Nat /\ Cardinality(SaVowelsTo(phon, last)) \in Nat
        /\ Cardinality(SaVowelsTo(phon, from - 1)) + 1 <= Cardinality(SaVowelsTo(phon, last))
    <3>1. from - 1 \in Nat /\ last \in Nat /\ first \in from - 1 + 1 .. last BY <1>1
    <3> QED BY ONLY <1>1, <3>1, SaVowelsMore
  <2>2. e.to - 1 = last BY <1>1, <1>7
  <2>3. /\ d.inserted \in Nat /\ d.vowelFound \in BOOLEAN
        /\ d.vowelFound => d.inserted + 1 <= Cardinality(SaVowelsTo(phon, from - 1))
        /\ ~d.vowelFound => d.inserted = 0
    BY DEF SaSoFar
  <2>4. CASE d.vowelFound
    <3>1. e.inserted = d.inserted + 1 BY <1>7, <2>4
    <3> QED BY ONLY <2>1, <2>2, <2>3, <2>4, <3>1
  <2>5. CASE ~d.vowelFound
    <3>1. e.inserted = 0 BY <1>7, <2>3, <2>5
    <3> QED BY ONLY <2>1, <2>2, <3>1
  <2> QED BY <2>4, <2>5
<1>13. d.over = FALSE BY DEF SaSoFar
<1>14. e.out = o3 BY <1>7
<1>15. SaSoFar(phon, R, e)
  <2>1. e.to - 1 = last BY <1>1, <1>7
  <2>2. o3 \in Seq(R) /\ SaPlainRead(o3) = SaPlainRead(SubSeq(phon, 1, e.to - 1))
    BY <1>10, <2>1 DEF SaPutsOn, SaPutAs
  <2>3. e \in SaDones(R) /\ e.vowelFound = TRUE /\ e.over = FALSE BY <1>7, <1>13
  <2>4. e.to \in 1 .. Len(phon) + 1 BY <1>11
  <2> QED BY ONLY <1>12, <1>14, <2>2, <2>3, <2>4 DEF SaSoFar
<1> QED BY <1>11, <1>15 DEF SaGoesOn

\* One turn.
LEMMA SaTurnGoesOn ==
  ASSUME NEW C, NEW R, NEW phon, SaDividable(phon, C, R), SaRoomFor(phon), NEW d, SaSoFar(phon, R, d)
  PROVE  SaGoesOn(phon, R, d, SaTurn(phon, d))
<1>0. phon \in Seq(R) /\ SaSymbols(R, C) BY DEF SaDividable
<1> PICK n \in Nat : n = Len(phon) BY <1>0
<1>1. /\ d \in SaDones(R) /\ d.over = FALSE /\ d.to \in 1 .. n + 1 /\ d.out \in Seq(R)
      /\ SaPlainRead(d.out) = SaPlainRead(SubSeq(phon, 1, d.to - 1))
      /\ d.inserted \in Nat /\ d.vowelFound \in BOOLEAN
      /\ d.vowelFound => d.inserted + 1 <= Cardinality(SaVowelsTo(phon, d.to - 1))
      /\ ~d.vowelFound => d.inserted = 0
  BY DEF SaSoFar
<1>2. CASE d.to > n
  <2>1. SaTurn(phon, d) = d
    <3>1. (d.to > Len(phon) \/ d.over) /\ ~(d.to <= Len(phon)) BY <1>1, <1>2
    <3> QED BY ONLY <3>1, Zenon DEF SaTurn
  <2>2. d.to = n + 1 BY <1>1, <1>2
  <2> QED BY <2>1, <2>2 DEF SaGoesOn
<1>3. CASE d.to <= n
  <2>1. Cardinality(SaVowelsTo(phon, d.to - 1)) \in Nat /\ Cardinality(SaVowelsTo(phon, n)) \in Nat
        /\ Cardinality(SaVowelsTo(phon, d.to - 1)) <= Cardinality(SaVowelsTo(phon, n))
    <3>1. d.to - 1 \in Nat /\ d.to - 1 <= n BY <1>1, <1>3
    <3> QED BY ONLY <3>1, n \in Nat, SaVowelsUpTo
  <2>2. n + d.inserted + 1 < SaMaxPhon
    <3>1. n + 1 < SaMaxPhon /\ n + Cardinality(SaVowelsTo(phon, n)) < SaMaxPhon BY DEF SaRoomFor
    <3>2. SaMaxPhon \in Nat BY SaAssumption
    <3>3. CASE d.vowelFound BY ONLY <1>1, <2>1, <3>1, <3>2, <3>3, n \in Nat
    <3>4. CASE ~d.vowelFound BY ONLY <1>1, <3>1, <3>2, <3>4, n \in Nat
    <3> QED BY <1>1, <3>3, <3>4
  <2>3. ~(d.to > Len(phon) \/ d.over) /\ ~(Len(phon) + d.inserted + 1 >= SaMaxPhon)
    <3>1. SaMaxPhon \in Nat BY SaAssumption
    <3> QED BY <1>1, <1>3, <2>2, <3>1
  <2>4. SaTurn(phon, d) = IF \E k \in d.to .. Len(phon) : SaCarrier(phon[k]) THEN SaSyllable(phon, d)
                         ELSE [d EXCEPT !.out = @ \o SubSeq(phon, d.to, Len(phon)), !.to = Len(phon) + 1]
    BY ONLY <2>3, Zenon DEF SaTurn
  <2>5. CASE \E k \in d.to .. Len(phon) : SaCarrier(phon[k])
    <3>1. SaGoesOn(phon, R, d, SaSyllable(phon, d)) BY <1>3, <2>5, SaSyllableGoesOn
    <3> QED BY <2>4, <2>5, <3>1
  <2>6. CASE ~\E k \in d.to .. Len(phon) : SaCarrier(phon[k])
    <3> PICK from \in 1 .. n : from = d.to BY <1>1, <1>3
    <3> PICK out, more : out = d.out /\ more = SubSeq(phon, from, n) OBVIOUS
    <3> PICK e : e = SaTurn(phon, d) OBVIOUS
    <3>1. e = [d EXCEPT !.out = out \o more, !.to = n + 1] BY <2>4, <2>6
    <3>3. more \in Seq(R)
      <4>1. from \in Nat \ {0} /\ n <= Len(phon) OBVIOUS
      <4> QED BY ONLY <1>0, <4>1, n \in Nat, more = SubSeq(phon, from, n), PartOf
    <3>2. /\ e \in SaDones(R) /\ e.out = out \o more /\ e.to = n + 1 /\ e.over = FALSE
          /\ e.inserted = d.inserted /\ e.vowelFound = d.vowelFound
      <4>1. out \o more \in Seq(R) BY <1>1, <3>3, ConcatProperties
      <4> PICK o, to : o = out \o more /\ to = n + 1 OBVIOUS
      <4>2. e = [d EXCEPT !.out = o, !.to = to] BY <3>1
      <4>3. to \in Nat BY to = n + 1
      <4>4. e \in SaDones(R) /\ e.out = o /\ e.to = to /\ e.over = FALSE
            /\ e.inserted = d.inserted /\ e.vowelFound = d.vowelFound
        BY ONLY <1>1, <4>1, <4>2, <4>3, o = out \o more DEF SaDones
      <4> QED BY ONLY <4>4, o = out \o more, to = n + 1
    <3>4. e.out \in Seq(R) /\ SaPlainRead(e.out) = SaPlainRead(SubSeq(phon, 1, e.to - 1))
      <4> PICK f0 : f0 = from - 1 OBVIOUS
      <4>1. f0 \in 0 .. n /\ n \in f0 .. n /\ f0 + 1 = from OBVIOUS
      <4>2. SaPutsOn(R, phon, out, f0) BY <1>1 DEF SaPutsOn, SaPutAs
      <4>3. SaPartAs(phon, more, f0, n) BY <4>1 DEF SaPartAs
      <4>4. SaPutsOn(R, phon, out \o more, n)
        BY ONLY <1>0, <3>3, <4>1, <4>2, <4>3, n \in Nat, n = Len(phon), SaPlainPut
      <4>5. e.to - 1 = n BY <3>2
      <4> QED BY ONLY <3>2, <4>4, <4>5 DEF SaPutsOn, SaPutAs
    <3>5. e.vowelFound => e.inserted + 1 <= Cardinality(SaVowelsTo(phon, e.to - 1))
      <4>1. e.to - 1 = n BY <3>2
      <4> QED BY ONLY <1>1, <2>1, <3>2, <4>1
    <3>6. e.to \in 1 .. n + 1 BY <3>2
    <3>7. SaSoFar(phon, R, e) BY ONLY <1>1, <3>2, <3>4, <3>5, <3>6, n = Len(phon) DEF SaSoFar
    <3> QED BY <3>2, <3>7 DEF SaGoesOn
  <2> QED BY <2>5, <2>6
<1> QED BY <1>1, <1>2, <1>3

\* What is put out are symbols, whether there is room for all or not.
SaPutOut(phon, R, d) == d \in SaDones(R) /\ d.to \in 1 .. Len(phon) + 1
LEMMA SaSyllablePut ==
  ASSUME NEW C, NEW R, NEW phon, SaDividable(phon, C, R), NEW d, SaPutOut(phon, R, d),
         d.to <= Len(phon), \E k \in d.to .. Len(phon) : SaCarrier(phon[k])
  PROVE  SaPutOut(phon, R, SaSyllable(phon, d))
<1>0. phon \in Seq(R) /\ SaSymbols(R, C) /\ SaInserted(SaBound) \in R /\ SaInserted(SaStress) \in R
      /\ ~SaCarrier(phon[1])
  BY DEF SaDividable
<1> PICK n \in Nat : n = Len(phon) BY <1>0
<1> PICK from \in 1 .. n : from = d.to
  <2>1. d.to \in 1 .. n + 1 /\ d.to <= n BY DEF SaPutOut
  <2> QED BY <2>1
<1> PICK first : first = SaFirstOf(phon, d) OBVIOUS
<1> PICK last : last = SaLastOf(phon, first) OBVIOUS
<1> PICK onset : onset = Max({d.to, first - 1}) OBVIOUS
<1> PICK accents : accents = SaAccentsOf(phon, d.to, first) OBVIOUS
<1>1. first \in from .. n /\ last \in first .. n /\ onset \in from .. first BY <1>0, SaSyllableAt
<1>2. accents \in SUBSET (1 .. n) /\ \A k \in accents : phon[k].sym = SaStress
  BY <1>1 DEF SaAccentsOf
<1> PICK k1, k2, bound : /\ k1 = SaKeptOf(phon, accents, from, onset - 1)
                         /\ k2 = SaKeptOf(phon, accents, onset, last) /\ bound = SaBoundOf(d, accents)
  OBVIOUS
<1>3. k1 \in Seq(R)
  <2>1. from \in Nat \ {0} /\ onset - 1 \in Nat /\ onset - 1 <= n BY <1>1
  <2>2. SaKeptWell(R, phon, accents, from, onset - 1)
    BY ONLY <1>0, <1>2, <2>1, n \in Nat, n = Len(phon), SaKeptPlain
  <2> QED BY ONLY <2>2, k1 = SaKeptOf(phon, accents, from, onset - 1) DEF SaKeptWell
<1>4. k2 \in Seq(R)
  <2>1. onset \in Nat \ {0} /\ last \in Nat /\ last <= n BY <1>1
  <2>2. SaKeptWell(R, phon, accents, onset, last)
    BY ONLY <1>0, <1>2, <2>1, n \in Nat, n = Len(phon), SaKeptPlain
  <2> QED BY ONLY <2>2, k2 = SaKeptOf(phon, accents, onset, last) DEF SaKeptWell
<1>5. bound \in Seq(R) BY <1>0, SaBoundPlain
<1> PICK e : e = SaSyllable(phon, d) OBVIOUS
<1>6. d \in SaDones(R) /\ d.out \in Seq(R) /\ d.inserted \in Nat BY DEF SaPutOut, SaDones
<1> PICK o, i : /\ o = d.out \o k1 \o bound \o k2
                /\ i = d.inserted + (IF d.vowelFound THEN 1 ELSE 0)
  OBVIOUS
<1>7. e = [d EXCEPT !.out = o, !.to = last + 1, !.inserted = i, !.vowelFound = TRUE]
  <2>1. SaDividedAs(phon, d, first, last, onset, accents) BY SaSyllableIs
  <2>2. e = [d EXCEPT !.out = @ \o SaKeptOf(phon, accents, d.to, onset - 1) \o SaBoundOf(d, accents)
                           \o SaKeptOf(phon, accents, onset, last),
                 !.to = last + 1, !.inserted = @ + (IF d.vowelFound THEN 1 ELSE 0),
                 !.vowelFound = TRUE]
    BY <2>1 DEF SaDividedAs
  <2> QED BY <2>2
<1>8. i \in Nat /\ last + 1 \in Nat /\ last + 1 \in 1 .. n + 1
  BY ONLY <1>1, <1>6, i = d.inserted + (IF d.vowelFound THEN 1 ELSE 0), from \in 1 .. n, n \in Nat
<1>9. o \in Seq(R)
  <2> PICK out : out = d.out OBVIOUS
  <2>1. out \o k1 \in Seq(R) BY <1>3, <1>6, ConcatProperties
  <2>2. (out \o k1) \o bound \in Seq(R) BY <1>5, <2>1, ConcatProperties
  <2> QED BY <1>4, <2>2, ConcatProperties
<1> PICK to : to = last + 1 OBVIOUS
<1>10. e \in SaDones(R) /\ e.to = to BY ONLY <1>6, <1>7, <1>8, <1>9, to = last + 1 DEF SaDones
<1> QED BY ONLY <1>8, <1>10, to = last + 1, e = SaSyllable(phon, d), n = Len(phon) DEF SaPutOut

LEMMA SaTurnPut ==
  ASSUME NEW C, NEW R, NEW phon, SaDividable(phon, C, R), NEW d, SaPutOut(phon, R, d)
  PROVE  SaPutOut(phon, R, SaTurn(phon, d))
<1>0. phon \in Seq(R) BY DEF SaDividable
<1> PICK n \in Nat : n = Len(phon) BY <1>0
<1>1. d \in SaDones(R) /\ d.to \in 1 .. n + 1 /\ d.out \in Seq(R) /\ d.over \in BOOLEAN BY DEF SaPutOut, SaDones
<1>2. CASE d.to > n \/ d.over
  <2>1. (d.to > Len(phon) \/ d.over) /\ ~(d.to <= Len(phon) /\ ~d.over) BY <1>1, <1>2
  <2>2. SaTurn(phon, d) = d BY ONLY <2>1, Zenon DEF SaTurn
  <2> QED BY <2>2
<1>3. CASE d.to <= n /\ ~d.over /\ Len(phon) + d.inserted + 1 >= SaMaxPhon
  <2>1. ~(d.to > Len(phon) \/ d.over) /\ d.to <= Len(phon) /\ ~d.over BY <1>1, <1>3
  <2>2. SaTurn(phon, d) = [d EXCEPT !.over = TRUE] BY ONLY <1>3, <2>1, Zenon DEF SaTurn
  <2> PICK e : e = SaTurn(phon, d) OBVIOUS
  <2>3. e \in SaDones(R) /\ e.to = d.to BY ONLY <1>1, <2>2, e = SaTurn(phon, d) DEF SaDones
  <2> QED BY <1>1, <2>3 DEF SaPutOut
<1>4. CASE d.to <= n /\ ~d.over /\ ~(Len(phon) + d.inserted + 1 >= SaMaxPhon)
  <2>1. ~(d.to > Len(phon) \/ d.over) BY <1>1, <1>4
  <2>2. SaTurn(phon, d) = IF \E k \in d.to .. Len(phon) : SaCarrier(phon[k]) THEN SaSyllable(phon, d)
                         ELSE [d EXCEPT !.out = @ \o SubSeq(phon, d.to, Len(phon)), !.to = Len(phon) + 1]
    BY ONLY <1>4, <2>1, Zenon DEF SaTurn
  <2>3. CASE \E k \in d.to .. Len(phon) : SaCarrier(phon[k])
    <3>1. SaPutOut(phon, R, SaSyllable(phon, d)) BY <1>4, <2>3, SaSyllablePut
    <3> QED BY <2>2, <2>3, <3>1
  <2>4. CASE ~\E k \in d.to .. Len(phon) : SaCarrier(phon[k])
    <3> PICK from \in 1 .. n : from = d.to BY <1>1, <1>4
    <3> PICK o, more, out, to : out = d.out /\ more = SubSeq(phon, from, n) /\ o = out \o more /\ to = n + 1
      OBVIOUS
    <3> PICK e : e = SaTurn(phon, d) OBVIOUS
    <3>1. e = [d EXCEPT !.out = o, !.to = to] BY <2>2, <2>4
    <3>2. more \in Seq(R)
      <4>1. from \in Nat \ {0} /\ n <= Len(phon) OBVIOUS
      <4> QED BY ONLY <1>0, <4>1, n \in Nat, more = SubSeq(phon, from, n), PartOf
    <3>3. o \in Seq(R) BY <1>1, <3>2, ConcatProperties
    <3>4. to \in Nat /\ to \in 1 .. n + 1 OBVIOUS
    <3>5. e \in SaDones(R) /\ e.to = to BY ONLY <1>1, <3>1, <3>3, <3>4 DEF SaDones
    <3> QED BY <3>4, <3>5 DEF SaPutOut
  <2> QED BY <2>3, <2>4
<1>5. d.to > n \/ d.to <= n BY <1>1
<1> QED BY ONLY <1>2, <1>3, <1>4, <1>5, Zenon

\* Before the loop.
SaUndone == [out |-> <<>>, to |-> 1, inserted |-> 0, vowelFound |-> FALSE, over |-> FALSE]
LEMMA SaUndoneSoFar ==
  ASSUME NEW C, NEW R, NEW phon, SaDividable(phon, C, R)
  PROVE  SaSoFar(phon, R, SaUndone)
<1>1. phon \in Seq(R) /\ <<>> \in Seq(R) BY EmptySeq DEF SaDividable
<1> PICK d : d = SaUndone OBVIOUS
<1>2. d \in SaDones(R) BY ONLY <1>1, d = SaUndone DEF SaUndone, SaDones
<1>3. d.out = <<>> /\ d.to = 1 /\ d.inserted = 0 /\ d.vowelFound = FALSE /\ d.over = FALSE
  BY DEF SaUndone
<1>4. d.to \in 1 .. Len(phon) + 1
  <2>1. Len(phon) \in Nat BY <1>1
  <2> QED BY ONLY <2>1, <1>3
<1>5. SubSeq(phon, 1, d.to - 1) = <<>>
  <2>1. SubSeq(phon, 1, 0) = <<>> BY <1>1, SubSeqEmpty
  <2>2. d.to - 1 = 0 BY <1>3
  <2> QED BY <2>1, <2>2
<1>6. SaPlainRead(d.out) = SaPlainRead(SubSeq(phon, 1, d.to - 1)) BY <1>3, <1>5
<1>7. SaSoFar(phon, R, d)
  <2>1. d.out \in Seq(R) /\ d.over = FALSE /\ d.inserted \in Nat /\ d.vowelFound \in BOOLEAN
        /\ ~d.vowelFound /\ d.inserted = 0
    <3>1. d.out \in Seq(R) /\ d.inserted \in Nat BY ONLY <1>2 DEF SaDones
    <3> QED BY ONLY <1>3, <3>1, Zenon
  <2> QED BY ONLY <1>2, <1>4, <1>6, <2>1, Zenon DEF SaSoFar
<1> QED BY <1>7

\* The turns: as many as the word is long.
SaTurnsAre(phon, t) ==
  t = [n \in 0 .. Len(phon) |-> IF n = 0 THEN SaUndone ELSE SaTurn(phon, t[n - 1])]

LEMMA SaTurnsExist ==
  ASSUME NEW C, NEW R, NEW phon, SaDividable(phon, C, R)
  PROVE  \E t : SaTurnsAre(phon, t)
<1>0. phon \in Seq(R) BY DEF SaDividable
<1> PICK n \in Nat : n = Len(phon) BY <1>0
<1> PICK V : V = {d \in SaDones(R) : SaPutOut(phon, R, d)} OBVIOUS
<1>1. SaUndone \in V
  <2>1. SaSoFar(phon, R, SaUndone) BY SaUndoneSoFar
  <2> QED BY <2>1 DEF SaSoFar, SaPutOut
<1> PICK F : F = [d \in V |-> SaTurn(phon, d)] OBVIOUS
<1>2. F \in [V -> V]
  <2>1. ASSUME NEW d \in V PROVE SaTurn(phon, d) \in V
    <3>1. SaPutOut(phon, R, d) OBVIOUS
    <3>3. SaPutOut(phon, R, SaTurn(phon, d)) BY <3>1, SaTurnPut
    <3>4. SaTurn(phon, d) \in SaDones(R) BY ONLY <3>3 DEF SaPutOut
    <3> QED BY <3>3, <3>4
  <2> QED BY ONLY <2>1, F = [d \in V |-> SaTurn(phon, d)]
<1>3. PICK W \in [Nat -> V] : W[0] = SaUndone /\ \A k \in Nat : W[k + 1] = F[W[k]]
  BY ONLY <1>1, <1>2, IteratesExist
<1> PICK t : t = [k \in 0 .. n |-> W[k]] OBVIOUS
<1>4. ASSUME NEW k \in 0 .. n PROVE t[k] = IF k = 0 THEN SaUndone ELSE SaTurn(phon, t[k - 1])
  <2>1. CASE k = 0 BY <1>3, <2>1
  <2>2. CASE k # 0
    <3>1. k - 1 \in Nat /\ (k - 1) + 1 = k /\ k - 1 \in 0 .. n BY <2>2
    <3>2. W[k] = F[W[k - 1]] /\ W[k - 1] \in V BY <1>3, <3>1
    <3>3. F[W[k - 1]] = SaTurn(phon, W[k - 1]) BY <3>2
    <3>4. t[k - 1] = W[k - 1] /\ t[k] = W[k] BY ONLY <3>1, t = [j \in 0 .. n |-> W[j]], k \in 0 .. n
    <3> QED BY ONLY <2>2, <3>2, <3>3, <3>4
  <2> QED BY <2>1, <2>2
<1>5. t = [k \in 0 .. n |-> t[k]] BY ONLY t = [k \in 0 .. n |-> W[k]]
<1>6. t = [k \in 0 .. n |-> IF k = 0 THEN SaUndone ELSE SaTurn(phon, t[k - 1])]
  BY ONLY <1>4, <1>5, Zenon
<1> QED BY <1>6 DEF SaTurnsAre

\* The turns chosen, and where they end.
LEMMA SaTurnsChosen ==
  ASSUME NEW C, NEW R, NEW phon, SaDividable(phon, C, R)
  PROVE  \E t : SaTurnsAre(phon, t) /\ picotrns_trivial_syllabify(phon) = t[Len(phon)]
<1> DEFINE c == CHOOSE t : SaTurnsAre(phon, t)
<1>1. SaTurnsAre(phon, c)
  <2>1. \E t : SaTurnsAre(phon, t) BY SaTurnsExist
  <2> QED BY ONLY <2>1, Zenon
<1>2. picotrns_trivial_syllabify(phon) = c[Len(phon)]
  BY ONLY Zenon DEF picotrns_trivial_syllabify, SaTurnsAre, SaUndone
<1> HIDE DEF c
<1> QED BY <1>1, <1>2

LEMMA SaDividedPut ==
  ASSUME NEW C, NEW R, NEW phon, SaDividable(phon, C, R)
  PROVE  picotrns_trivial_syllabify(phon).out \in Seq(R)
<1>0. phon \in Seq(R) BY DEF SaDividable
<1> PICK n \in Nat : n = Len(phon) BY <1>0
<1>1. PICK t : SaTurnsAre(phon, t) /\ picotrns_trivial_syllabify(phon) = t[n] BY SaTurnsChosen
<1>2. t = [k \in 0 .. n |-> IF k = 0 THEN SaUndone ELSE SaTurn(phon, t[k - 1])]
  BY <1>1 DEF SaTurnsAre
<1> DEFINE Fits(k) == SaPutOut(phon, R, t[k])
           Fails == {k \in 0 .. n : ~Fits(k)}
<1>3. Fails = {}
  <2> SUFFICES ASSUME Fails # {} PROVE FALSE OBVIOUS
  <2>1. PICK m \in Fails : \A y \in Fails : m <= y
    <3>1. Fails \subseteq Nat OBVIOUS
    <3> HIDE DEF Fails
    <3> QED BY <3>1, LeastNumber
  <2>2. m # 0
    <3> SUFFICES ASSUME m = 0 PROVE FALSE OBVIOUS
    <3>1. t[0] = SaUndone BY <1>2
    <3>2. SaSoFar(phon, R, t[0]) BY <3>1, SaUndoneSoFar
    <3>3. SaPutOut(phon, R, t[0]) BY ONLY <3>2 DEF SaSoFar, SaPutOut
    <3> QED BY <2>1, <3>3
  <2>3. m - 1 \in 0 .. n /\ m - 1 \notin Fails /\ m \in 1 .. n BY <2>1, <2>2
  <2>4. Fits(m - 1) BY <2>3
  <2> PICK l \in 0 .. n : l = m - 1 BY <2>3
  <2> PICK d : d = t[l] OBVIOUS
  <2>5. SaPutOut(phon, R, d) BY <2>3, <2>4
  <2>6. t[m] = SaTurn(phon, d)
    <3>1. t[m] = IF m = 0 THEN SaUndone ELSE SaTurn(phon, t[m - 1]) BY <1>2, <2>3
    <3> QED BY <2>2, <3>1
  <2>7. SaPutOut(phon, R, t[m]) BY <2>5, <2>6, SaTurnPut
  <2> QED BY <2>1, <2>7
<1>4. Fits(n)
  <2>1. n \in 0 .. n OBVIOUS
  <2> QED BY <1>3, <2>1
<1> QED BY <1>1, <1>4 DEF SaPutOut, SaDones

\* The whole word is divided, and nothing but boundaries and stresses goes or comes.
LEMMA SaDividedWhole ==
  ASSUME NEW C, NEW R, NEW phon, SaDividable(phon, C, R), SaRoomFor(phon)
  PROVE  /\ SaSoFar(phon, R, picotrns_trivial_syllabify(phon))
         /\ picotrns_trivial_syllabify(phon).to = Len(phon) + 1
<1>0. phon \in Seq(R) BY DEF SaDividable
<1> PICK n \in Nat : n = Len(phon) BY <1>0
<1>1. PICK t : SaTurnsAre(phon, t) /\ picotrns_trivial_syllabify(phon) = t[n] BY SaTurnsChosen
<1>3. t = [k \in 0 .. n |-> IF k = 0 THEN SaUndone ELSE SaTurn(phon, t[k - 1])]
  BY <1>1 DEF SaTurnsAre
<1> DEFINE Fits(k) == SaSoFar(phon, R, t[k]) /\ t[k].to >= k + 1
           Fails == {k \in 0 .. n : ~Fits(k)}
<1>4. Fails = {}
  <2> SUFFICES ASSUME Fails # {} PROVE FALSE OBVIOUS
  <2>1. PICK m \in Fails : \A y \in Fails : m <= y
    <3>1. Fails \subseteq Nat OBVIOUS
    <3> HIDE DEF Fails
    <3> QED BY <3>1, LeastNumber
  <2>2. m # 0
    <3> SUFFICES ASSUME m = 0 PROVE FALSE OBVIOUS
    <3>1. t[0] = SaUndone BY <1>3
    <3>2. SaSoFar(phon, R, t[0]) BY <3>1, SaUndoneSoFar
    <3>3. t[0].to = 1 BY <3>1 DEF SaUndone
    <3> QED BY <2>1, <3>2, <3>3
  <2>3. m - 1 \in 0 .. n /\ m - 1 \notin Fails /\ m \in 1 .. n BY <2>1, <2>2
  <2>4. Fits(m - 1) BY <2>3
  <2> PICK l \in 0 .. n : l = m - 1 BY <2>3
  <2> PICK d : d = t[l] OBVIOUS
  <2>5. SaSoFar(phon, R, d) /\ d.to >= m BY <2>3, <2>4
  <2>6. t[m] = SaTurn(phon, d)
    <3>1. t[m] = IF m = 0 THEN SaUndone ELSE SaTurn(phon, t[m - 1]) BY <1>3, <2>3
    <3> QED BY <2>2, <3>1
  <2>7. SaGoesOn(phon, R, d, t[m]) BY <2>5, <2>6, SaTurnGoesOn
  <2>8. SaSoFar(phon, R, t[m]) /\ (t[m].to > d.to \/ t[m].to = n + 1) BY <2>7 DEF SaGoesOn
  <2>9. t[m].to \in 1 .. n + 1 /\ d.to \in 1 .. n + 1 BY <2>5, <2>8 DEF SaSoFar
  <2>10. t[m].to >= m + 1 BY ONLY <2>3, <2>5, <2>8, <2>9, n \in Nat
  <2> QED BY <2>1, <2>8, <2>10
<1>5. Fits(n)
  <2>1. n \in 0 .. n OBVIOUS
  <2> QED BY <1>4, <2>1
<1>6. t[n].to \in 1 .. n + 1 BY <1>5 DEF SaSoFar
<1> QED BY <1>1, <1>5, <1>6

\* The symbols that phones stand in a buffer as.
SaSymbolsOf(C) == [pos : {"item", "insert", "ignore"}, sym : C]
SaOfItem(c) == [pos |-> "item", sym |-> c]
SaItems(data) == [k \in DOMAIN data |-> SaOfItem(data[k])]
LEMMA SaSymbolsAre ==
  ASSUME NEW C PROVE SaSymbols(SaSymbolsOf(C), C)
BY DEF SaSymbols, SaSymbolsOf

LEMMA SaOfItemIn ==
  ASSUME NEW C, NEW c \in C
  PROVE  /\ SaOfItem(c) \in SaSymbolsOf(C) /\ SaIntern(c) \in SaSymbolsOf(C) /\ SaInserted(c) \in SaSymbolsOf(C)
         /\ SaOfItem(c).sym = c /\ SaOfItem(c).pos = "item"
         /\ SaIntern(c).sym = c /\ SaIntern(c).pos = "ignore"
BY DEF SaOfItem, SaIntern, SaInserted, SaSymbolsOf

\* One phone more.
SaItemsOn(C, u, c) ==
  SaItems(u) \in Seq(SaSymbolsOf(C)) /\ SaItems(Append(u, c)) = Append(SaItems(u), SaOfItem(c))

LEMMA SaItemsMore == ASSUME NEW C, NEW u \in Seq(C), NEW c \in C PROVE SaItemsOn(C, u, c)
<1> PICK m \in Nat : m = Len(u) OBVIOUS
<1> PICK R : R = SaSymbolsOf(C) OBVIOUS
<1>1. \A k \in 1 .. m : u[k] \in C OBVIOUS
<1>2. \A k \in 1 .. m : SaOfItem(u[k]) \in R BY <1>1, SaOfItemIn
<1> PICK v : v = SaItems(u) OBVIOUS
<1>3. v = [k \in 1 .. m |-> SaOfItem(u[k])]
  <2>1. DOMAIN u = 1 .. m OBVIOUS
  <2> QED BY <2>1 DEF SaItems
<1>4. v \in Seq(R) /\ Len(v) = m /\ \A k \in 1 .. m : v[k] = SaOfItem(u[k]) BY ONLY <1>2, <1>3, m \in Nat
<1> PICK x : x = Append(u, c) OBVIOUS
<1>5. x[m + 1] = c /\ (\A k \in 1 .. m : x[k] = u[k]) /\ DOMAIN x = 1 .. m + 1 OBVIOUS
<1> PICK y, e : y = SaItems(x) /\ e = SaOfItem(c) OBVIOUS
<1>6. y = [k \in 1 .. m + 1 |-> SaOfItem(x[k])] BY <1>5 DEF SaItems
<1>7. e \in R BY SaOfItemIn
<1> PICK z : z = Append(v, e) OBVIOUS
<1>8. z \in Seq(R) /\ Len(z) = m + 1 /\ z[m + 1] = e /\ \A k \in 1 .. m : z[k] = v[k]
  BY ONLY <1>4, <1>7, z = Append(v, e), m \in Nat
<1>9. z = [k \in 1 .. m + 1 |-> z[k]] BY ONLY <1>8, m \in Nat
<1>10. \A k \in 1 .. m + 1 : z[k] = SaOfItem(x[k])
  <2> TAKE k \in 1 .. m + 1
  <2>1. CASE k = m + 1 BY ONLY <1>5, <1>8, <2>1, e = SaOfItem(c)
  <2>2. CASE k # m + 1
    <3>1. k \in 1 .. m BY <2>2
    <3> QED BY ONLY <1>4, <1>5, <1>8, <3>1
  <2> QED BY <2>1, <2>2
<1>11. y = z BY ONLY <1>6, <1>9, <1>10
<1> QED BY ONLY <1>4, <1>11, R = SaSymbolsOf(C), x = Append(u, c), y = SaItems(x), v = SaItems(u),
        z = Append(v, e), e = SaOfItem(c) DEF SaItemsOn

\* Phones are read as they were put there.
SaItemsRead(C, u) == SaItems(u) \in Seq(SaSymbolsOf(C)) /\ SaPlainRead(SaItems(u)) = SaPlain(u)
LEMMA SaItemsPlain == ASSUME NEW C, NEW data \in Seq(C) PROVE SaItemsRead(C, data)
<1> DEFINE Of(m) == SubSeq(data, 1, m)
           Fits(m) == SaItemsRead(C, Of(m))
           Fails == {m \in Nat : m <= Len(data) /\ ~Fits(m)}
<1>1. Fails = {}
  <2> SUFFICES ASSUME Fails # {} PROVE FALSE OBVIOUS
  <2>1. PICK m \in Fails : \A y \in Fails : m <= y
    <3>1. Fails \subseteq Nat OBVIOUS
    <3> HIDE DEF Fails
    <3> QED BY <3>1, LeastNumber
  <2>2. m # 0
    <3>1. Of(0) = <<>> OBVIOUS
    <3>2. SaItems(<<>>) = <<>>
      <4>1. DOMAIN <<>> = 1 .. 0 OBVIOUS
      <4> QED BY <4>1 DEF SaItems
    <3>3. SaPlain(<<>>) = <<>> BY ElementsNone DEF SaPlain
    <3>4. <<>> \in Seq(SaSymbolsOf(C)) BY EmptySeq
    <3>5. SaItemsRead(C, <<>>) BY ONLY <3>2, <3>3, <3>4, SaPlainReadNone DEF SaItemsRead
    <3>6. Fits(0) BY ONLY <3>1, <3>5
    <3> HIDE DEF Fits
    <3> QED BY <3>6
  <2>3. PICK n \in Nat : n = m - 1 BY <2>2
  <2>4. m = n + 1 /\ n + 1 <= Len(data) /\ n < m BY <2>3
  <2>5. Fits(n)
    <3> HIDE DEF Fits
    <3> QED BY <2>1, <2>4
  <2>6. PICK u, c : u = Of(n) /\ c = data[n + 1] OBVIOUS
  <2>7. u \in Seq(C) /\ Len(u) = n /\ c \in C /\ Of(m) = Append(u, c) BY <2>4, <2>6, FirstNext
  <2> PICK v, e, R : v = SaItems(u) /\ e = SaOfItem(c) /\ R = SaSymbolsOf(C) OBVIOUS
  <2>8. v \in Seq(R) /\ SaPlainRead(v) = SaPlain(u) BY <2>5, <2>6 DEF SaItemsRead
  <2>9. SaItems(Append(u, c)) = Append(v, e)
    <3>1. SaItemsOn(C, u, c) BY <2>7, SaItemsMore
    <3> QED BY <3>1 DEF SaItemsOn
  <2>10. e \in R /\ e.sym = c /\ e.pos = "item" BY <2>7, SaOfItemIn
  <2>11. SaSymbols(R, C) BY SaSymbolsAre
  <2>12. SaPlainRead(Append(v, e)) = IF SaCounts(e) THEN Append(SaPlainRead(v), e.sym) ELSE SaPlainRead(v)
    <3>1. SaPlainReadOn(C, v, e) BY ONLY <2>8, <2>10, <2>11, SaPlainReadMore
    <3> QED BY <3>1 DEF SaPlainReadOn
  <2>13. SaPlain(Append(u, c)) = IF c \notin SaMarks THEN Append(SaPlain(u), c) ELSE SaPlain(u)
    <3>1. SaPlainOn(C, u, c) BY <2>7, SaPlainMore
    <3> QED BY <3>1 DEF SaPlainOn
  <2>14. SaCounts(e) <=> c \notin SaMarks BY <2>10 DEF SaCounts
  <2>15. SaPlainRead(Append(v, e)) = SaPlain(Append(u, c)) BY ONLY <2>8, <2>10, <2>12, <2>13, <2>14
  <2>16. Append(v, e) \in Seq(R) BY <2>8, <2>10
  <2>17. Fits(m) BY <2>7, <2>9, <2>15, <2>16 DEF SaItemsRead
  <2> HIDE DEF Fits
  <2> QED BY <2>17
<1>2. Fits(Len(data)) /\ Of(Len(data)) = data
  <2>1. Len(data) \in Nat /\ Of(Len(data)) = data OBVIOUS
  <2> HIDE DEF Fits
  <2> QED BY <1>1, <2>1
<1> QED BY <1>2

LEMMA SaMaxOne ==
  ASSUME NEW v \in Nat
  PROVE  Max({1, v}) \in Nat /\ Max({1, v}) >= 1 /\ Max({1, v}) >= v
<1>1. \E x \in {1, v} : \A y \in {1, v} : x >= y OBVIOUS
<1> PICK m : m = Max({1, v}) OBVIOUS
<1>2. m \in {1, v} /\ \A y \in {1, v} : m >= y BY <1>1, Zenon DEF Max
<1> QED BY <1>2

\* The vowels of a word are those of its contents.
SaVowelled(data) == {k \in DOMAIN data : data[k] \in SaVowels}
SaVowelsWithin(phon, n, data) ==
  /\ Cardinality(SaVowelsTo(phon, n)) \in Nat /\ Cardinality(SaVowelled(data)) \in Nat
  /\ Cardinality(SaVowelsTo(phon, n)) <= Cardinality(SaVowelled(data))

LEMMA SaVowelsOfItem ==
  ASSUME NEW C, NEW data \in Seq(C), NEW n \in Nat, n = Len(data), NEW phon,
         ~SaCarrier(phon[1]), ~SaCarrier(phon[n + 2]), \A k \in 1 .. n : phon[k + 1].sym = data[k]
  PROVE  SaVowelsWithin(phon, n + 2, data)
<1> PICK S, T : S = SaVowelsTo(phon, n + 2) /\ T = SaVowelled(data) OBVIOUS
<1>1. S = {k \in 1 .. n + 2 : SaCarrier(phon[k])} BY DEF SaVowelsTo
<1>2. T \in SUBSET (1 .. n) /\ \A k \in 1 .. n : k \in T <=> data[k] \in SaVowels BY DEF SaVowelled
<1>3. IsFiniteSet(1 .. n) BY FS_Interval
<1>4. IsFiniteSet(T) BY <1>2, <1>3, FS_Subset
<1>5. \A k \in S : k - 1 \in T
  <2> TAKE k \in S
  <2>1. k \in 1 .. n + 2 /\ SaCarrier(phon[k]) BY <1>1
  <2>2. k # 1 /\ k # n + 2 BY <2>1
  <2>3. k - 1 \in 1 .. n /\ (k - 1) + 1 = k BY <2>1, <2>2
  <2>4. phon[k].sym = data[k - 1] BY <2>3
  <2>5. phon[k].sym \in SaVowels BY <2>1 DEF SaCarrier
  <2> QED BY <1>2, <2>3, <2>4, <2>5
<1> PICK f : f = [k \in S |-> k - 1] OBVIOUS
<1>6. f \in [S -> T] BY <1>5
<1>7. \A j, k \in S : f[j] = f[k] => j = k
  <2>1. S \in SUBSET Int BY <1>1
  <2> QED BY ONLY <2>1, f = [k \in S |-> k - 1]
<1>8. f \in Injection(S, T) BY ONLY <1>6, <1>7, Zenon DEF Injection, IsInjective
<1>9. IsFiniteSet(S) /\ Cardinality(S) <= Cardinality(T) BY ONLY <1>4, <1>8, FS_Injection
<1> QED BY <1>4, <1>9, FS_CardinalityType DEF SaVowelsWithin

SaAlphabet(D) == D \cup {"start", "term", SaBound, SaStress}
SaRoomy(data) == Len(data) + 2 + Max({1, Cardinality(SaVowelled(data))}) < SaMaxPhon
SaExtractedWell(D, item) ==
  /\ SaDividable(SaExtracted(item), SaAlphabet(D), SaSymbolsOf(SaAlphabet(D)))
  /\ SaRoomy(item.data) => SaRoomFor(SaExtracted(item))
  /\ Len(SaExtracted(item)) \in Nat /\ Len(SaExtracted(item)) > 0
  /\ SaPlainRead(SaExtracted(item)) = SaPlain(item.data)

LEMMA SaExtractedIs ==
  ASSUME NEW D, NEW item, item.data \in Seq(D) PROVE SaExtractedWell(D, item)
<1> PICK C, R, data : C = SaAlphabet(D) /\ R = SaSymbolsOf(C) /\ data = item.data OBVIOUS
<1>1. data \in Seq(D) /\ D \in SUBSET C /\ "start" \in C /\ "term" \in C /\ SaBound \in C /\ SaStress \in C
  BY DEF SaAlphabet
<1>2. data \in Seq(C) BY <1>1
<1> PICK n \in Nat : n = Len(data) BY <1>2
<1> PICK a, b, f : a = SaIntern("start") /\ b = SaIntern("term") /\ f = SaItems(data) OBVIOUS
<1>3. f \in Seq(R) /\ SaPlainRead(f) = SaPlain(data)
  <2>1. SaItemsRead(C, data) BY <1>2, SaItemsPlain
  <2> QED BY <2>1 DEF SaItemsRead
<1>4. Len(f) = n /\ \A k \in 1 .. n : f[k].sym = data[k]
  <2>1. DOMAIN data = 1 .. n BY <1>2
  <2>2. f = [k \in 1 .. n |-> SaOfItem(data[k])] BY <2>1 DEF SaItems
  <2>3. \A k \in 1 .. n : data[k] \in C BY <1>2
  <2> QED BY <2>2, <2>3, SaOfItemIn
<1>5. a \in R /\ b \in R /\ a.sym = "start" /\ a.pos = "ignore" /\ b.sym = "term" /\ b.pos = "ignore"
  BY <1>1, SaOfItemIn
<1>6. SaInserted(SaBound) \in R /\ SaInserted(SaStress) \in R BY <1>1, SaOfItemIn
<1> PICK sa1, sb1 : sa1 = <<a>> /\ sb1 = <<b>> OBVIOUS
<1>7. sa1 \in Seq(R) /\ sb1 \in Seq(R) /\ Len(sa1) = 1 /\ Len(sb1) = 1 /\ sa1[1] = a /\ sb1[1] = b BY <1>5
<1> PICK p, phon : p = sa1 \o f /\ phon = p \o sb1 OBVIOUS
<1>8. phon = SaExtracted(item) BY DEF SaExtracted, SaItems, SaOfItem
<1>9. p \in Seq(R) /\ Len(p) = n + 1 /\ p[1] = a /\ \A k \in 1 .. n : p[k + 1] = f[k]
  <2>1. f \in Seq(R) /\ sa1 \in Seq(R) BY <1>3, <1>7
  <2>2. p \in Seq(R) /\ Len(p) = Len(sa1) + Len(f)
        /\ \A i \in 1 .. Len(sa1) + Len(f) : p[i] = IF i <= Len(sa1) THEN sa1[i] ELSE f[i - Len(sa1)]
    BY ONLY <2>1, p = sa1 \o f, ConcatProperties
  <2> QED BY ONLY <1>4, <1>7, <2>2, n \in Nat
<1>10. phon \in Seq(R) /\ Len(phon) = n + 2 /\ phon[n + 2] = b /\ \A k \in 1 .. n + 1 : phon[k] = p[k]
  <2>1. p \in Seq(R) /\ sb1 \in Seq(R) BY <1>7, <1>9
  <2>2. phon \in Seq(R) /\ Len(phon) = Len(p) + Len(sb1)
        /\ \A i \in 1 .. Len(p) + Len(sb1) : phon[i] = IF i <= Len(p) THEN p[i] ELSE sb1[i - Len(p)]
    BY ONLY <2>1, phon = p \o sb1, ConcatProperties
  <2> QED BY ONLY <1>7, <1>9, <2>2, n \in Nat
<1>11. phon[1] = a /\ \A k \in 1 .. n : phon[k + 1].sym = data[k]
  <2>1. 1 \in 1 .. n + 1 /\ \A k \in 1 .. n : k + 1 \in 1 .. n + 1 OBVIOUS
  <2> QED BY ONLY <1>4, <1>9, <1>10, <2>1
<1>12. ~SaCarrier(phon[1]) /\ ~SaCarrier(phon[n + 2]) BY <1>5, <1>10, <1>11, SaAssumption DEF SaCarrier
<1>13. SaSymbols(R, C) BY SaSymbolsAre
<1>14. SaDividable(phon, C, R)
  <2>1. phon # <<>> BY <1>10
  <2> QED BY ONLY <1>6, <1>10, <1>12, <1>13, <2>1 DEF SaDividable
<1>15. SaPlainRead(phon) = SaPlain(data)
  <2>1. ~SaCounts(a) /\ ~SaCounts(b) BY <1>5 DEF SaCounts
  <2>2. SaPlainRead(sa1) = <<>> /\ SaPlainRead(sb1) = <<>> BY <2>1, SaPlainOne
  <2>3. SaPlainRead(p) = SaPlainRead(sa1) \o SaPlainRead(f)
    <3>1. SaPlainJoins(C, sa1, f) BY ONLY <1>3, <1>7, <1>13, SaPlainJoin
    <3> QED BY <3>1 DEF SaPlainJoins
  <2>4. SaPlainRead(f) \in Seq(C) BY ONLY <1>3, <1>13, SaPlainReadType
  <2>5. SaPlainRead(p) = SaPlainRead(f) BY ONLY <2>2, <2>3, <2>4, ConcatEmptySeq
  <2>6. SaPlainRead(phon) = SaPlainRead(p) BY ONLY <1>7, <1>9, <1>13, <2>2, phon = p \o sb1, SaPlainMark
  <2> QED BY <1>3, <2>5, <2>6
<1>16. ASSUME SaRoomy(data) PROVE SaRoomFor(phon)
  <2> PICK v, w : v = Cardinality(SaVowelsTo(phon, n + 2)) /\ w = Cardinality(SaVowelled(data)) OBVIOUS
  <2>1. v \in Nat /\ w \in Nat /\ v <= w
    <3>1. SaVowelsWithin(phon, n + 2, data) BY ONLY <1>2, <1>11, <1>12, n \in Nat, n = Len(data), SaVowelsOfItem
    <3> QED BY <3>1 DEF SaVowelsWithin
  <2>2. Max({1, w}) \in Nat /\ Max({1, w}) >= 1 /\ Max({1, w}) >= w BY <2>1, SaMaxOne
  <2>3. n + 2 + Max({1, w}) < SaMaxPhon BY <1>16 DEF SaRoomy
  <2>4. SaMaxPhon \in Nat BY SaAssumption
  <2> PICK m : m = Max({1, w}) OBVIOUS
  <2>5. n + 2 + 1 < SaMaxPhon /\ n + 2 + v < SaMaxPhon
    BY ONLY <2>1, <2>2, <2>3, <2>4, n \in Nat, m = Max({1, w})
  <2> QED BY ONLY <1>10, <2>5, v = Cardinality(SaVowelsTo(phon, n + 2)) DEF SaRoomFor
<1>17. Len(phon) \in Nat /\ Len(phon) > 0 BY <1>10
<1>18. phon = SaExtracted(item) /\ SaDividable(phon, SaAlphabet(D), SaSymbolsOf(SaAlphabet(D)))
       /\ (SaRoomy(item.data) => SaRoomFor(phon)) /\ SaPlainRead(phon) = SaPlain(item.data)
  BY <1>8, <1>14, <1>15, <1>16
<1> QED BY <1>17, <1>18 DEF SaExtractedWell

\* A word keeps its phones when it is divided into syllables.
SaLetters == SaAlphabet(STRING)
SaRows == SaSymbolsOf(SaLetters)
SaFeeds(x) == IF x.transduced THEN SaRead(x.phon) ELSE x.said
SaDivides(x) ==
  /\ x.bufOut \in Seq(SaRows)
  /\ x.case.fsts = 0 =>
       /\ x.phase = "FST" => x.phon = SaExtracted(x.tmp)
       /\ (x.phase = "FEED" /\ x.tmp.type = "WORDPHON" /\ SaRoomy(x.tmp.data)) =>
            SaPlain(SaFeeds(x)) = SaPlain(x.tmp.data)

SaKeptPhones(said) ==
  \A x \in ToSet(said) :
    (x.type = "WORDPHON" /\ SaRoomy(x.made)) => SaPlain(x.data) = SaPlain(x.made)

SaDividing == SaDivides(sa) /\ (sa.case.fsts = 0 => SaKeptPhones(saTold.said))

LEMMA SaDividingIs == SaPhonesKept <=> (sa.case.fsts = 0 => SaKeptPhones(saTold.said))
BY Zenon DEF SaPhonesKept, SaKeptPhones, SaRoomy, SaVowelled

LEMMA SaDividingAside == ASSUME SaTypes, SaDividing, SaAside PROVE SaDividing'
<1>1. SaDivides(sa)' BY DEF SaDividing, SaDivides, SaAside, SaInWord, SaFeeds
<1> QED BY <1>1 DEF SaDividing, SaAside

LEMMA SaDividingParse == ASSUME SaTypes, SaPassing, SaDividing, SaParse PROVE SaDividing'
<1> PICK item : item = Head(sa.headx) OBVIOUS
<1>1. /\ sa.phase = "PARSE" /\ saTold' = saTold /\ sa'.case = sa.case /\ sa'.tmp = item
      /\ sa'.said = item.data /\ sa'.transduced = sa.transduced /\ sa'.bufOut = sa.bufOut
      /\ IF item.type = "WORDPHON" /\ Len(SaExtracted(item)) <= SaMaxPhon
         THEN sa'.phase = "FST" ELSE sa'.phase = "FEED"
  BY SaParseIs
<1>2. sa'.phase = "FST" => sa'.phon = SaExtracted(item) BY SaParseIs
<1>3. sa.transduced = FALSE BY <1>1 DEF SaPassing, SaPasses, SaInWord
<1> PICK x, y : x = sa /\ y = sa' OBVIOUS
<1>4. SaDivides(y)
  <2>1. SaDivides(x) BY DEF SaDividing
  <2>2. y.phase = "FEED" => SaFeeds(y) = item.data BY <1>1, <1>3 DEF SaFeeds
  <2>3. /\ y.case = x.case /\ y.tmp = item /\ y.bufOut = x.bufOut
        /\ y.phase = "FST" => y.phon = SaExtracted(item)
    BY <1>1, <1>2
  <2> QED BY ONLY <2>1, <2>2, <2>3, Zenon DEF SaDivides
<1> QED BY <1>1, <1>4 DEF SaDividing

\* What a word that is divided leaves in the two buffers.
SaPutBack(out, buf) == out \o SubSeq(buf, Len(out) + 1, Len(buf))
SaDividedInto(x, y, done, junk) ==
  y = [x EXCEPT !.phase = "FEED", !.transduced = TRUE, !.bufOut = SaPutBack(done.out, x.bufOut),
         !.phon = [k \in 1 .. (IF done.to = 1 THEN Len(x.phon) ELSE Len(done.out)) |->
                     IF k <= Len(SaPutBack(done.out, x.bufOut)) THEN SaPutBack(done.out, x.bufOut)[k]
                     ELSE junk]]

LEMMA SaDividingSyllabify == ASSUME SaTypes, SaPassing, SaDividing, SaSyllabify PROVE SaDividing'
<1> PICK item, phon, C, R : item = sa.tmp /\ phon = SaExtracted(item) /\ C = SaLetters /\ R = SaRows OBVIOUS
<1>1. sa.phase = "FST" /\ sa.case.fsts = 0 /\ saTold' = saTold BY DEF SaSyllabify
<1>2. sa.phon = phon /\ sa.bufOut \in Seq(R) BY <1>1 DEF SaDividing, SaDivides
<1>3. item.type = "WORDPHON" /\ SaHeld(item) BY <1>1 DEF SaPassing, SaPasses, SaFits, SaTypes, SaTyped, SaInWord
<1>4. item.data \in Seq(STRING) BY <1>3 DEF SaHeld
<1>5. SaExtractedWell(STRING, item) BY <1>4, SaExtractedIs
<1>6. /\ SaDividable(phon, C, R) /\ (SaRoomy(item.data) => SaRoomFor(phon))
      /\ Len(phon) \in Nat /\ Len(phon) > 0 /\ SaPlainRead(phon) = SaPlain(item.data)
  BY <1>5 DEF SaExtractedWell, SaLetters, SaRows
<1> PICK done : done = picotrns_trivial_syllabify(phon) OBVIOUS
<1> PICK out, buf, kept, new : /\ out = done.out /\ buf = sa.bufOut
                            /\ kept = SubSeq(buf, Len(out) + 1, Len(buf)) /\ new = out \o kept
  OBVIOUS
<1>7. out \in Seq(R) BY <1>6, SaDividedPut
<1>8. kept \in Seq(R)
  <2>1. Len(out) + 1 \in Nat \ {0} /\ Len(buf) \in Nat /\ Len(buf) <= Len(buf) /\ buf \in Seq(R) BY <1>2, <1>7
  <2> PICK f, l : f = Len(out) + 1 /\ l = Len(buf) OBVIOUS
  <2>2. f \in Nat \ {0} /\ l \in Nat /\ l <= Len(buf) BY <2>1
  <2>3. SubSeq(buf, f, l) \in Seq(R) BY ONLY <2>1, <2>2, PartOf
  <2> QED BY <2>3
<1>9. new \in Seq(R) /\ Len(new) >= Len(out) /\ \A k \in 1 .. Len(out) : new[k] = out[k]
  <2>1. new \in Seq(R) /\ Len(new) = Len(out) + Len(kept)
        /\ \A i \in 1 .. Len(out) + Len(kept) : new[i] = IF i <= Len(out) THEN out[i] ELSE kept[i - Len(out)]
    BY ONLY <1>7, <1>8, new = out \o kept, ConcatProperties
  <2>2. Len(out) \in Nat /\ Len(kept) \in Nat BY <1>7, <1>8
  <2> QED BY ONLY <2>1, <2>2
<1>10. PICK junk : SaDividedInto(sa, sa', done, junk)
  <2>1. \E junk \in {SaIntern("?"), SaInserted("?")} :
          SaDividedInto(sa, sa', picotrns_trivial_syllabify(sa.phon), junk)
    BY Zenon DEF SaSyllabify, SaDividedInto, SaPutBack
  <2>2. done = picotrns_trivial_syllabify(sa.phon) BY <1>2
  <2> QED BY ONLY <2>1, <2>2
<1> PICK size : size = (IF done.to = 1 THEN Len(sa.phon) ELSE Len(done.out)) OBVIOUS
<1> PICK made : made = [k \in 1 .. size |-> IF k <= Len(new) THEN new[k] ELSE junk] OBVIOUS
<1>15. sa' = [sa EXCEPT !.phase = "FEED", !.transduced = TRUE, !.bufOut = new, !.phon = made]
  <2> PICK back : back = SaPutBack(done.out, sa.bufOut) OBVIOUS
  <2>1. new = back BY DEF SaPutBack
  <2>2. sa' = [sa EXCEPT !.phase = "FEED", !.transduced = TRUE, !.bufOut = back,
                 !.phon = [k \in 1 .. size |-> IF k <= Len(back) THEN back[k] ELSE junk]]
    BY ONLY <1>10, size = (IF done.to = 1 THEN Len(sa.phon) ELSE Len(done.out)),
       back = SaPutBack(done.out, sa.bufOut) DEF SaDividedInto
  <2> QED BY ONLY <2>1, <2>2, made = [k \in 1 .. size |-> IF k <= Len(new) THEN new[k] ELSE junk]
<1> PICK y : y = sa' OBVIOUS
<1>11. /\ y.phase = "FEED" /\ y.transduced = TRUE /\ y.bufOut = new /\ y.phon = made
       /\ y.case = sa.case /\ y.tmp = item
  <2>1. y = [sa EXCEPT !.phase = "FEED", !.transduced = TRUE, !.bufOut = new, !.phon = made] BY <1>15
  <2>2. DOMAIN sa = SaFieldNames BY DEF SaTypes, SaTyped
  <2> QED BY ONLY <2>1, <2>2, item = sa.tmp DEF SaFieldNames
<1>12. ASSUME SaRoomy(item.data) PROVE SaPlain(SaRead(made)) = SaPlain(item.data)
  <2>1. SaRoomFor(phon) BY <1>6, <1>12
  <2>2. SaSoFar(phon, R, done) /\ done.to = Len(phon) + 1 BY <1>6, <2>1, SaDividedWhole
  <2>3. size = Len(out)
    <3>1. done.to # 1 BY <1>6, <2>2
    <3> QED BY <3>1
  <2>4. made = out
    <3> PICK n \in Nat : n = Len(out) BY <1>7
    <3>1. \A k \in 1 .. n : k <= Len(new) /\ new[k] = out[k]
      <4>2. new \in Seq(R) BY <1>9
      <4>1. Len(new) \in Nat BY ONLY <4>2
      <4> QED BY ONLY <1>9, <4>1, n \in Nat, n = Len(out)
    <3>2. made = [k \in 1 .. n |-> out[k]]
      BY ONLY <2>3, <3>1, n = Len(out), made = [k \in 1 .. size |-> IF k <= Len(new) THEN new[k] ELSE junk]
    <3>3. out = [k \in 1 .. n |-> out[k]] BY ONLY <1>7, n \in Nat, n = Len(out)
    <3> QED BY ONLY <3>2, <3>3
  <2>5. SaPlainRead(out) = SaPlainRead(phon)
    <3>1. SaPlainRead(out) = SaPlainRead(SubSeq(phon, 1, done.to - 1)) BY <2>2 DEF SaSoFar
    <3>2. done.to - 1 = Len(phon) BY <1>6, <2>2
    <3>3. phon \in Seq(R) BY <1>6 DEF SaDividable
    <3>4. SubSeq(phon, 1, Len(phon)) = phon BY ONLY <3>3
    <3> QED BY <3>1, <3>2, <3>4
  <2> QED BY <1>6, <2>4, <2>5 DEF SaPlainRead
<1>13. SaDivides(y)
  <2>1. SaFeeds(y) = SaRead(made) BY <1>11 DEF SaFeeds
  <2>2. y.phase # "FST" BY <1>11
  <2>3. new \in Seq(SaRows) BY <1>9
  <2> QED BY ONLY <1>11, <1>12, <2>1, <2>2, <2>3, Zenon DEF SaDivides
<1>14. sa'.case = sa.case BY <1>11
<1> QED BY <1>1, <1>13, <1>14 DEF SaDividing

LEMMA SaDividingFst == ASSUME SaTypes, SaPassing, SaDividing, SaFst \/ SaFstEnd PROVE SaDividing'
<1>1. CASE SaFst
  <2>1. /\ sa.curFst <= sa.case.fsts /\ saTold' = saTold
        /\ \E phon, passed, c : sa' = [sa EXCEPT !.phon = phon, !.transduced = TRUE, !.passed = passed,
                                         !.curFst = c]
    BY <1>1, Zenon DEF SaFst
  <2>2. sa'.case = sa.case /\ sa'.bufOut = sa.bufOut BY <2>1 DEF SaTypes, SaTyped, SaFieldNames
  <2>3. sa.case.fsts # 0
    <3>1. sa.case.fsts \in Nat BY SaAssumption DEF SaTypes, SaTyped
    <3> QED BY <2>1, <3>1 DEF SaPassing, SaPasses
  <2> QED BY ONLY <2>2, <2>3, SaDividing DEF SaDividing, SaDivides
<1>2. CASE SaFstEnd
  <2>1. sa.case.fsts > 0 /\ sa' = [sa EXCEPT !.phase = "FEED", !.transduced = TRUE, !.curFst = 1]
    BY <1>2 DEF SaFstEnd
  <2>2. sa'.case = sa.case /\ sa'.bufOut = sa.bufOut BY <2>1 DEF SaTypes, SaTyped, SaFieldNames
  <2>3. sa.case.fsts # 0 BY <2>1
  <2> QED BY ONLY <2>2, <2>3, SaDividing DEF SaDividing, SaDivides
<1> QED BY <1>1, <1>2

LEMMA SaDividingReplace == ASSUME SaTypes, SaDividing, SaReplace PROVE SaDividing'
<1> PICK data : data = SaRead(sa.phon) OBVIOUS
<1>1. /\ sa.phase = "FEED" /\ sa.transduced /\ saTold' = saTold
      /\ sa' = [sa EXCEPT !.transduced = FALSE, !.said = data]
  BY DEF SaReplace
<1> PICK x, y : x = sa /\ y = sa' OBVIOUS
<1>2. /\ y.phase = "FEED" /\ y.transduced = FALSE /\ y.said = data /\ y.case = x.case /\ y.tmp = x.tmp
      /\ y.bufOut = x.bufOut
  BY <1>1 DEF SaTypes, SaTyped, SaFieldNames
<1>3. SaFeeds(y) = SaFeeds(x) BY <1>1, <1>2 DEF SaFeeds
<1>4. SaDivides(x) BY DEF SaDividing
<1>5. x.phase = "FEED" BY <1>1
<1>6. SaDivides(y) BY ONLY <1>2, <1>3, <1>4, <1>5 DEF SaDivides
<1> QED BY <1>1, <1>2, <1>6 DEF SaDividing

LEMMA SaDividingFeed == ASSUME SaTypes, SaLine, SaDividing, SaFeed PROVE SaDividing'
<1> PICK e : e = SaSaying OBVIOUS
<1> PICK said : said = saTold.said OBVIOUS
<1>1. /\ sa.phase = "FEED" /\ ~sa.transduced /\ sa' = [sa EXCEPT !.phase = "PARSE"]
      /\ saTold'.said = Append(said, e)
  BY SaFeedIs
<1> PICK x, y : x = sa /\ y = sa' OBVIOUS
<1>2. y.phase = "PARSE" /\ y.case = x.case /\ y.bufOut = x.bufOut BY <1>1 DEF SaTypes, SaTyped, SaFieldNames
<1>3. SaDivides(x) BY DEF SaDividing
<1>4. SaDivides(y) BY ONLY <1>2, <1>3 DEF SaDivides
<1>5. ASSUME x.case.fsts = 0 PROVE SaKeptPhones(Append(said, e))
  <2>1. SaKeptPhones(said) BY <1>5 DEF SaDividing
  <2>2. e.type = x.tmp.type /\ e.made = x.tmp.data /\ e.data = x.said BY DEF SaSaying
  <2>3. SaFeeds(x) = x.said BY <1>1 DEF SaFeeds
  <2>4. x.phase = "FEED" BY <1>1
  <2>5. (e.type = "WORDPHON" /\ SaRoomy(e.made)) => SaPlain(e.data) = SaPlain(e.made)
    BY ONLY <1>3, <1>5, <2>2, <2>3, <2>4 DEF SaDivides
  <2>6. Listed(said) BY DEF SaLine, SaLined
  <2>7. \A z \in ToSet(Append(said, e)) : z \in ToSet(said) \/ z = e
    <3>1. /\ DOMAIN Append(said, e) = 1 .. Len(said) + 1 /\ DOMAIN said = 1 .. Len(said)
          /\ Len(said) \in Nat /\ Append(said, e)[Len(said) + 1] = e
          /\ \A k \in 1 .. Len(said) : Append(said, e)[k] = said[k]
      BY <2>6, ListedAppend, ListedLen
    <3>2. \A k \in 1 .. Len(said) + 1 : k \in 1 .. Len(said) \/ k = Len(said) + 1 BY <3>1
    <3> QED BY ONLY <3>1, <3>2 DEF ToSet
  <2> QED BY ONLY <2>1, <2>5, <2>7 DEF SaKeptPhones
<1> QED BY <1>1, <1>2, <1>4, <1>5 DEF SaDividing

LEMMA SaDividingFresh ==
  ASSUME NEW x, x.phase = "COLLECT", x.bufOut \in Seq(SaRows)
  PROVE  SaDivides(x) /\ SaKeptPhones(<<>>)
<1>1. SaDivides(x) BY DEF SaDivides
<1>2. DOMAIN <<>> = {} OBVIOUS
<1> QED BY <1>1, <1>2 DEF SaKeptPhones, ToSet

LEMMA SaDividingReset == ASSUME SaTypes, SaDividing, SaReset PROVE SaDividing'
<1>1. PICK curFst : sa' = SaFresh(sa.case, curFst, sa.bufOut) /\ saTold' = SaNothing BY DEF SaReset
<1>2. sa'.case = sa.case /\ sa'.phase = "COLLECT" /\ sa'.bufOut = sa.bufOut /\ saTold'.said = <<>>
  BY <1>1 DEF SaFresh, SaNothing
<1> PICK x : x = sa' OBVIOUS
<1>3. x.bufOut \in Seq(SaRows) BY <1>2 DEF SaDividing, SaDivides
<1>4. SaDivides(x) /\ SaKeptPhones(<<>>) BY <1>2, <1>3, SaDividingFresh
<1> QED BY <1>2, <1>4 DEF SaDividing

LEMMA SaDividingInit == ASSUME SaInit PROVE SaDividing
<1>1. PICK c \in SaTexts : SaStart(c) BY DEF SaInit
<1>2. sa = SaFresh(c, 1, <<>>) /\ saTold = SaNothing BY <1>1 DEF SaStart
<1>3. sa.phase = "COLLECT" /\ sa.bufOut = <<>> /\ saTold.said = <<>> BY <1>2 DEF SaFresh, SaNothing
<1>4. sa.bufOut \in Seq(SaRows) BY <1>3, EmptySeq
<1>5. SaDivides(sa) /\ SaKeptPhones(<<>>) BY <1>3, <1>4, SaDividingFresh
<1> QED BY <1>3, <1>5 DEF SaDividing

-----------------------------------------------------------------------------
(* The invariant, and the theorem. *)

\* The parts of the invariant, each of a section above.
SaInv == SaTypes /\ SaLine /\ SaPassing /\ SaDividing /\ SaLooking /\ SaMaking

LEMMA SaTypesStep == ASSUME SaInv, SaNext PROVE SaTypes'
<1>1. SaTypes /\ SaFeeding BY SaLineFeeds DEF SaInv
<1> QED BY ONLY SaNext, <1>1, SaTypesCollect, SaTypesCollected, SaTypesDisambBegin, SaTypesDisambOther,
           SaTypesDisambWord, SaTypesDisambEnd, SaTypesWphoCopy, SaTypesWphoGraph, SaTypesG2pGraph,
           SaTypesG2pEnd, SaTypesWphoEnd, SaTypesParseEnd, SaTypesParse, SaTypesSyllabify, SaTypesFst,
           SaTypesFstEnd, SaTypesReplace, SaTypesFeed, SaTypesTake, SaTypesReset, Zenon
    DEF SaNext

LEMMA SaLineStep == ASSUME SaInv, SaNext PROVE SaLine'
<1>1. SaTypes /\ SaLine /\ SaTypes' BY SaTypesStep DEF SaInv
<1> QED BY ONLY SaNext, <1>1, SaLineCollect, SaLineCollected, SaLineHeld, SaLineWpho, SaLineDisambWord,
           SaLineParse, SaLineFeed, SaLineReset, Zenon
    DEF SaNext

LEMMA SaPassingStep == ASSUME SaInv, SaNext PROVE SaPassing'
<1>1. SaTypes /\ SaLine /\ SaPassing BY DEF SaInv
<1> QED BY ONLY SaNext, <1>1, SaAsideAll, SaPassingAside, SaPassingParse, SaPassingSyllabify, SaPassingFst,
           SaPassingFstEnd, SaPassingReplace, SaPassingFeed, SaPassingReset, Zenon
    DEF SaNext

LEMMA SaDividingStep == ASSUME SaInv, SaNext PROVE SaDividing'
<1>1. SaTypes /\ SaLine /\ SaPassing /\ SaDividing BY DEF SaInv
<1> QED BY ONLY SaNext, <1>1, SaAsideAll, SaDividingAside, SaDividingParse, SaDividingSyllabify, SaDividingFst,
           SaDividingReplace, SaDividingFeed, SaDividingReset, Zenon
    DEF SaNext

LEMMA SaLookingStep == ASSUME SaInv, SaNext PROVE SaLooking'
<1>1. SaTypes /\ SaFeeding /\ SaLooking BY SaLineFeeds DEF SaInv
<1> QED BY ONLY SaNext, <1>1, SaLookingHeld, SaLookingCollect, SaLookingCollected, SaLookingBegin,
           SaLookingOther, SaLookingWord, SaLookingReset, Zenon
    DEF SaNext

LEMMA SaMakingStep == ASSUME SaInv, SaNext PROVE SaMaking'
<1>1. SaTypes /\ SaTypes' /\ SaMaking BY SaTypesStep DEF SaInv
<1> QED BY ONLY SaNext, <1>1, SaMakingHeld, SaMakingCollected, SaMakingDisambBegin, SaMakingDisambOther,
           SaMakingDisambWord, SaMakingWphoCopy, SaMakingWphoGraph, SaMakingG2pGraph, SaMakingG2pEnd,
           SaMakingReset, Zenon
    DEF SaNext

LEMMA SaInvStays == ASSUME SaInv, UNCHANGED saVars PROVE SaInv'
<1>1. sa' = sa /\ saIn' = saIn /\ saTold' = saTold /\ saResets' = saResets BY DEF saVars
<1>2. SaTypes' BY <1>1 DEF SaInv, SaTypes
<1>3. SaLine' BY <1>1 DEF SaInv, SaLine
<1>4. SaPassing' BY <1>1 DEF SaInv, SaPassing
<1>5. SaDividing' BY <1>1 DEF SaInv, SaDividing
<1>6. SaLooking' BY <1>1 DEF SaInv, SaLooking
<1>7. SaMaking' BY <1>1 DEF SaInv, SaMaking
<1> QED BY <1>2, <1>3, <1>4, <1>5, <1>6, <1>7 DEF SaInv

LEMMA SaInvSound == ASSUME SaInv PROVE SaSound
<1>1. SaPosAsked BY SaLookingAsked DEF SaInv
<1>2. SaG2pAsked /\ SaG2pMade BY SaAsksIs DEF SaInv, SaMaking, SaMakes
<1>3. SaSaidOnce BY SaLineOnce DEF SaInv
<1>4. SaOthersKept /\ SaPassed BY SaPassedIs DEF SaInv, SaPassing
<1>5. SaPhonesKept BY SaDividingIs DEF SaInv, SaDividing
<1> QED BY <1>1, <1>2, <1>3, <1>4, <1>5 DEF SaSound

\* Sentence analysis keeps its state in order (saStep): in each state, what is held is of the
\* kind that the state needs, the line of items is whole, the word in work has passed the
\* transducers up to curFst with all its phones, and the phrase is as it was collected from
\* the place on that the trees have still to look at.
THEOREM SaInvariant == SaSpec => []SaInv
<1>1. SaInit => SaInv
  BY SaTypesInit, SaLineInit, SaPassingInit, SaDividingInit, SaLookingInit, SaMakingInit DEF SaInv
<1>2. SaInv /\ [SaNext]_saVars => SaInv'
  <2> SUFFICES ASSUME SaInv, [SaNext]_saVars PROVE SaInv' OBVIOUS
  <2>1. CASE SaNext
    BY <2>1, SaTypesStep, SaLineStep, SaPassingStep, SaDividingStep, SaLookingStep, SaMakingStep DEF SaInv
  <2>2. CASE UNCHANGED saVars BY <2>2, SaInvStays
  <2> QED BY <2>1, <2>2
<1> QED BY <1>1, <1>2, PTL DEF SaSpec

\* Whatever the texts, the answers of the trees and of the transducers, the sizes of the
\* buffers and the resets: the trees are asked about the words and graphemes that there are,
\* phones are those that were answered, and every item is put out once, in its order, after
\* all transducers, with its phones (saDisambPos, saDoG2P, picotrns_trivial_syllabify,
\* saStep).
THEOREM SaSpeaksAsTold == SaSpec => []SaSound
<1>1. SaInv => SaSound BY SaInvSound
<1> QED BY <1>1, SaInvariant, PTL
=============================================================================
