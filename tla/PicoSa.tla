--------------------------------- MODULE PicoSa --------------------------------
(***************************************************************************)
(* Sentence analysis (picosa.c): a phrase is collected, a tree decides     *)
(* from left to right on the parts of speech that are ambiguous, each word *)
(* becomes phones, by its index into the lexicon or by another tree that   *)
(* is asked grapheme by grapheme from right to left, and word by word the  *)
(* phones pass the transducers and are fed.                                *)
(*                                                                         *)
(* The answers of trees and transducers are free.  A grapheme and a phone  *)
(* are one character, an index is [pos, phon], the entry it leads to       *)
(* (PicoLex), of four bytes.  What a tree answers is named by the part of  *)
(* speech, or the phones, that it is mapped to.                            *)
(***************************************************************************)
EXTENDS PicoSeq, FiniteSets, FiniteSetsExt

CONSTANTS
  SaTexts,        \* what is fed: [items, fsts (numFsts)]
  SaPos, SaPosGroups,  \* the parts of speech, and the combined ones with their parts
  SaPosAnswers,   \* the answers of dtposd
  SaG2pAnswers,   \* the answers of dtg2p: for each grapheme a set of strings of phones
  SaVowels,       \* the graphemes that are vowels, and the phones
  SaMaxHeadx, SaMaxCbuf, SaMaxItem,  \* PICOSA_MAXNR_HEADX, _MAXSIZE_CBUF, _MAXITEMSIZE
  SaMaxPhon,      \* PICOTRNS_MAX_NUM_POSSYM
  SaMaxLen,       \* 255, the longest contents of an item
  SaMaxResets     \* bound: resets

VARIABLES
  sa,      \* the sub object
  saIn,    \* cbIn
  saOut,   \* cbOut: at most one item
  saTold,  \* history of the text since the last reset: what the trees were asked and the
           \* phrase they were asked about, the words made, the items put out and those lost
  saResets \* history: the number of resets

saVars == <<sa, saIn, saOut, saTold, saResets>>

SaZero == "zero"  \* PICOKDT_HISTORY_ZERO
SaEps == "eps"    \* PICOKDT_EPSILON
SaErr == "ERR"    \* PICODATA_ITEMINFO1_ERR
SaNone == <<"none">>  \* a tree that gives no answer
SaStress == "'"
SaBound == "."
SaWordsep == "#"

\* What a soft reset sets; it leaves curFst and phonBufOut.
SaFresh(case, curFst, bufOut) ==
  [case |-> case, phase |-> "COLLECT", inspaceok |-> TRUE, needsmoreitems |-> TRUE,
   headx |-> <<>>, cbuf1 |-> 0, cbuf2 |-> 0,  \* cbuf1Len, cbuf2Len
   i |-> 1, prevout |-> SaZero, val |-> <<>>, last |-> 0,  \* of saDisambPos
   count |-> 0, phones |-> <<>>, outs |-> <<>>,  \* of saDoG2P, backwards
   phon |-> <<>>, passed |-> <<>>,  \* phonBuf, the transducers it passed
   transduced |-> FALSE, curFst |-> curFst, bufOut |-> bufOut,
   tmp |-> <<>>, said |-> <<>>]  \* tmpbuf: the item, its contents when it is fed
SaNothing == [phrase |-> <<>>, asked |-> <<>>, outs |-> <<>>, g2p |-> <<>>, made |-> <<>>, said |-> <<>>,
              lost |-> {}]

SaStart(c) ==
  sa = SaFresh(c, 1, <<>>) /\ saIn = c.items /\ saOut = <<>> /\ saTold = SaNothing /\ saResets = 0
SaInit == \E c \in SaTexts : SaStart(c)
-----------------------------------------------------------------------------
(***************************************************************************)
(* COLLECT                                                                 *)
(***************************************************************************)
SaIsWord(item) == item.type \in {"WORDGRAPH", "WORDINDEX", "WORDPHON"}
SaLen(item) == IF item.type = "WORDINDEX" THEN 4 * Len(item.data) ELSE Len(item.data)

\* An item has a number and contents: the entries of a word that the lexicon knows, of which
\* there is one at least, or graphemes, phones, a name.  A word has a part of speech.  A
\* grapheme is one that the tree can be asked about.
SaEntry == [pos : STRING, phon : Seq(STRING)]
SaKnown(item) ==
  /\ DOMAIN item = {"id", "type", "info1", "info2", "data"} /\ item.id \in Nat \ {0}
  /\ IF item.type = "WORDINDEX" THEN item.data \in Seq(SaEntry) /\ item.data # <<>>
     ELSE item.data \in Seq(STRING)
  /\ SaIsWord(item) => item.info1 # SaEps
  /\ item.type = "WORDGRAPH" => \A k \in DOMAIN item.data : item.data[k] \in DOMAIN SaG2pAnswers
ASSUME SaAssumption ==
  /\ \A c \in SaTexts :
       /\ c.fsts \in Nat /\ c.items \in Seq({c.items[k] : k \in DOMAIN c.items})
       /\ \A k \in DOMAIN c.items : SaKnown(c.items[k])
       /\ \A k, l \in DOMAIN c.items : c.items[k].id = c.items[l].id => k = l
  /\ \A graph \in DOMAIN SaG2pAnswers : SaG2pAnswers[graph] \subseteq Seq(STRING)
  /\ SaMaxCbuf \in Nat /\ SaMaxPhon \in Nat /\ SaMaxLen \in Nat
  /\ {"start", "term"} \cap SaVowels = {}

\* A flush is a punctuation, and phones given by the text are a word, up to its end.
SaConverted(item) ==
  CASE item.type = "CMD" /\ item.info1 = "FLUSH" ->
         [item EXCEPT !.type = "PUNC", !.data = <<>>]
    [] item.type = "CMD" /\ item.info1 = "PHONEME" /\ item.info2 = "START" ->
         LET ends == {k \in DOMAIN item.data : item.data[k] = SaWordsep}
         IN  [item EXCEPT !.type = "WORDPHON", !.info1 = "XX", !.info2 = "NA",
                          !.data = IF ends = {} THEN @ ELSE SubSeq(@, 1, Min(ends) - 1)]
    [] OTHER -> item

\* The room is looked at in front of an item and not behind it: if the next one has no
\* place the step ends with an error, and that item is gone.
SaCollect ==
  /\ sa.phase = "COLLECT" /\ sa.inspaceok /\ sa.needsmoreitems /\ saIn # <<>>
  /\ saIn' = Tail(saIn)
  /\ LET item == Head(saIn)
         converted == SaConverted(item)
     IN  \/ /\ SaLen(item) <= SaMaxCbuf - sa.cbuf1
            /\ sa' = [sa EXCEPT !.headx = Append(@, converted),
                                !.needsmoreitems = converted.type # "PUNC",
                                !.inspaceok = ~(\/ Len(sa.headx) >= SaMaxHeadx - 2
                                                \/ SaMaxCbuf - sa.cbuf1 < SaMaxItem),
                                !.cbuf1 = @ + SaLen(item)]
            /\ UNCHANGED saTold
         \/ /\ SaLen(item) > SaMaxCbuf - sa.cbuf1
            /\ saTold' = [saTold EXCEPT !.lost = @ \cup {item.id}]
            /\ UNCHANGED sa
  /\ UNCHANGED <<saOut, saResets>>

SaForced == [id |-> 0, type |-> "PUNC", info1 |-> "PHRASEEND", info2 |-> "FORCED", data |-> <<>>]
SaCollected ==
  /\ sa.phase = "COLLECT" /\ (~sa.needsmoreitems \/ ~sa.inspaceok)
  /\ LET headx == IF sa.needsmoreitems THEN Append(sa.headx, SaForced) ELSE sa.headx
     IN  /\ sa' = [sa EXCEPT !.phase = "POSD", !.needsmoreitems = FALSE, !.headx = headx]
         /\ saTold' = [saTold EXCEPT !.phrase = headx, !.asked = <<>>, !.outs = <<>>,
                                     !.g2p = <<>>, !.made = <<>>]
  /\ UNCHANGED <<saIn, saOut, saResets>>
-----------------------------------------------------------------------------
(***************************************************************************)
(* PROCESS_POSD: three decisions to the left, the word, and three words to *)
(* the right.                                                              *)
(***************************************************************************)
\* The next word, or the end.
saPosDItemSeqGetPosRight(ind) ==
  LET right == {k \in ind + 1 .. Len(sa.headx) : SaIsWord(sa.headx[k]) /\ sa.headx[k].info1 # SaEps}
  IN  IF right = {} THEN [val |-> SaEps, at |-> Len(sa.headx)]
      ELSE [val |-> sa.headx[Min(right)].info1, at |-> Min(right)]

\* Before the first word the window stands one place to its left.
SaDisambBegin ==
  /\ sa.phase = "POSD"
  /\ LET words == {k \in DOMAIN sa.headx : SaIsWord(sa.headx[k])}
         first == Min(words)
         next  == saPosDItemSeqGetPosRight(first)
         then  == saPosDItemSeqGetPosRight(next.at)
     IN  sa' = IF words = {} THEN [sa EXCEPT !.phase = "WPHO", !.i = 1]
               ELSE [sa EXCEPT !.phase = "DISAMB", !.i = first, !.prevout = SaZero,
                               !.val = <<SaZero, SaZero, SaZero, SaZero, sa.headx[first].info1,
                                         next.val, then.val>>,
                               !.last = then.at]
  /\ UNCHANGED <<saIn, saOut, saTold, saResets>>

picoktab_isUniquePos(pos) == pos \in SaPos
picoktab_isPartOfPosGroup(pos, posgroup) ==
  pos = posgroup \/ (posgroup \in DOMAIN SaPosGroups /\ pos \in SaPosGroups[posgroup])

\* The entry of the part of speech decided for, or the first.
SaSelected(item, class) ==
  LET fits == {k \in DOMAIN item.data : picoktab_isPartOfPosGroup(class, item.data[k].pos)}
  IN  IF item.type # "WORDINDEX" THEN item.data
      ELSE <<item.data[IF fits = {} THEN 1 ELSE Min(fits)]>>

\* Mutation of SaShifted: what is to the left of the word are the words, not the decisions.
SaShiftedWords(right) ==
  <<sa.val[2], sa.val[3], sa.val[4]>> \o SubSeq(sa.val, 5, 7) \o <<right>>
SaShifted(right) ==
  <<sa.val[2], sa.val[3], sa.prevout>> \o SubSeq(sa.val, 5, 7) \o <<right>>

SaDisambOther ==
  /\ sa.phase = "DISAMB" /\ sa.i <= Len(sa.headx) /\ ~SaIsWord(sa.headx[sa.i])
  /\ sa' = [sa EXCEPT !.i = @ + 1]
  /\ UNCHANGED <<saIn, saOut, saTold, saResets>>

\* A tree that fails may have decided before it did.
SaDisambWord ==
  /\ sa.phase = "DISAMB" /\ sa.i <= Len(sa.headx) /\ SaIsWord(sa.headx[sa.i])
  /\ LET right == saPosDItemSeqGetPosRight(sa.last)
         item  == sa.headx[sa.i]
         moved == [sa EXCEPT !.val = [SaShifted(right.val) EXCEPT ![4] = item.info1],
                             !.last = right.at, !.i = @ + 1]
     IN  \/ /\ picoktab_isUniquePos(item.info1)
            /\ sa' = [moved EXCEPT !.prevout = item.info1]
            /\ saTold' = [saTold EXCEPT !.outs = Append(@, item.info1)]
         \/ /\ ~picoktab_isUniquePos(item.info1)
            /\ \E class \in SaPosAnswers \cup {SaErr} :
               \E out \in IF class # SaErr THEN {class} ELSE SaPosAnswers \cup {sa.prevout} :
                 /\ sa' = [moved EXCEPT !.prevout = out,
                             !.headx[sa.i] = [item EXCEPT !.info1 = class,
                                                          !.data = SaSelected(item, class)]]
                 /\ saTold' = [saTold EXCEPT
                      !.outs = Append(@, out),
                      !.asked = Append(@, [at |-> sa.i, val |-> SaShifted(right.val)])]
  /\ UNCHANGED <<saIn, saOut, saResets>>

SaDisambEnd ==
  /\ sa.phase = "DISAMB" /\ sa.i > Len(sa.headx)
  /\ sa' = [sa EXCEPT !.phase = "WPHO", !.i = 1]
  /\ UNCHANGED <<saIn, saOut, saTold, saResets>>
-----------------------------------------------------------------------------
(***************************************************************************)
(* PROCESS_WPHO: the contents of the items are made anew in cbuf2.         *)
(***************************************************************************)
SaRoom == SaMaxCbuf - sa.cbuf2
SaItem == sa.headx[sa.i]

\* saCopyItemContent1to2 and saLexIndLookup, as far as there is room.
SaCopied(item) ==
  LET data == IF item.type = "WORDINDEX" THEN item.data[1].phon ELSE item.data
  IN  [item EXCEPT !.type = IF @ = "WORDINDEX" THEN "WORDPHON" ELSE @,
                   !.data = SubSeq(data, 1, Min({Len(data), SaRoom}))]

SaMadeAs(item) ==
  /\ sa' = [sa EXCEPT !.headx[sa.i] = item, !.cbuf2 = @ + Len(item.data), !.i = @ + 1,
                      !.phase = "WPHO"]
  /\ saTold' = [saTold EXCEPT !.made = Append(@, [data |-> item.data, room |-> SaRoom])]

SaWphoCopy ==
  /\ sa.phase = "WPHO" /\ sa.i <= Len(sa.headx) /\ SaItem.type # "WORDGRAPH"
  /\ SaMadeAs(SaCopied(SaItem))
  /\ UNCHANGED <<saIn, saOut, saResets>>

SaWphoGraph ==
  /\ sa.phase = "WPHO" /\ sa.i <= Len(sa.headx) /\ SaItem.type = "WORDGRAPH"
  /\ sa' = [sa EXCEPT !.phase = "G2P", !.count = Len(SaItem.data), !.phones = <<>>, !.outs = <<>>]
  /\ UNCHANGED <<saIn, saOut, saTold, saResets>>

\* How many vowels the word has, and which of them this grapheme is; 0 for another.
saGetNrVowel(graph, at) ==
  IF graph[at] \notin SaVowels THEN [nr |-> 0, ord |-> 0]
  ELSE [nr |-> Cardinality({k \in DOMAIN graph : graph[k] \in SaVowels}),
        ord |-> Cardinality({k \in 1 .. at : graph[k] \in SaVowels})]

\* The last output and the two before it.
SaLastOuts(outs) == [k \in 1 .. 3 |-> IF k <= Len(outs) THEN outs[k] ELSE <<SaZero>>]

\* Mutation of SaAdded: what does not fit is cut at the end.
SaAddedFront(phones, more) ==
  LET room == SaRoom - Len(phones)
  IN  SubSeq(more, 1, Min({Len(more), room})) \o phones
\* The phones of a grapheme in front of those behind it, the last ones if there is no
\* room for more.
SaAdded(phones, more) ==
  LET room == Min({Len(more), SaRoom - Len(phones)})
  IN  SubSeq(more, Len(more) - room + 1, Len(more)) \o phones

\* One grapheme, from right to left.  A tree that fails leaves the output of the
\* grapheme before, or none that was ever set.
SaG2pGraph ==
  /\ sa.phase = "G2P" /\ sa.count > 0
  /\ LET graph == SaItem.data
         ask   == [vowels |-> saGetNrVowel(graph, sa.count), outs |-> SaLastOuts(sa.outs),
                   primary |-> SaStress \in ToSet(sa.phones)]
         Heard(answer, out) ==
           /\ sa' = [sa EXCEPT !.count = @ - 1, !.outs = <<out>> \o @,
                               !.phones = IF answer = SaNone THEN @ ELSE SaAdded(@, answer)]
           /\ saTold' = [saTold EXCEPT !.g2p = Append(@, [at |-> sa.i, room |-> SaRoom,
                                         ask |-> ask, answer |-> answer, out |-> out])]
     IN  \/ \E answer \in SaG2pAnswers[graph[sa.count]] : answer # SaNone /\ Heard(answer, answer)
         \/ /\ SaNone \in SaG2pAnswers[graph[sa.count]]
            /\ \E out \in IF sa.outs = <<>> THEN {<<SaZero>>, SaNone} ELSE {Head(sa.outs)} :
                 Heard(SaNone, out)
  /\ UNCHANGED <<saIn, saOut, saResets>>

\* saGraphemeToPhoneme
SaG2pEnd ==
  /\ sa.phase = "G2P" /\ sa.count = 0
  /\ SaMadeAs([SaItem EXCEPT !.type = "WORDPHON",
                             !.data = SubSeq(sa.phones, 1, Min({SaMaxLen, Len(sa.phones)}))])
  /\ UNCHANGED <<saIn, saOut, saResets>>

SaWphoEnd ==
  /\ sa.phase = "WPHO" /\ sa.i > Len(sa.headx)
  /\ sa' = [sa EXCEPT !.phase = "PARSE", !.cbuf1 = 0]
  /\ UNCHANGED <<saIn, saOut, saTold, saResets>>
-----------------------------------------------------------------------------
(***************************************************************************)
(* PROCESS_TRNS: phones with their positions in the item, and symbols that *)
(* have none.                                                              *)
(***************************************************************************)
SaIntern(sym) == [pos |-> "ignore", sym |-> sym]
SaInserted(sym) == [pos |-> "insert", sym |-> sym]

\* saExtractPhonemes: the phones between a start and an end.
SaExtracted(item) ==
  <<SaIntern("start")>> \o [k \in DOMAIN item.data |-> [pos |-> "item", sym |-> item.data[k]]]
  \o <<SaIntern("term")>>

SaParseEnd ==
  /\ sa.phase = "PARSE" /\ sa.headx = <<>>
  /\ sa' = [sa EXCEPT !.cbuf2 = 0, !.inspaceok = TRUE, !.needsmoreitems = TRUE, !.phase = "COLLECT"]
  /\ UNCHANGED <<saIn, saOut, saTold, saResets>>

\* A word that has no room in phonBuf goes on as it is.
SaParse ==
  /\ sa.phase = "PARSE" /\ sa.headx # <<>>
  /\ LET item == Head(sa.headx)
         next == [sa EXCEPT !.headx = Tail(@), !.tmp = item, !.said = item.data, !.passed = <<>>]
     IN  sa' = IF item.type = "WORDPHON" /\ Len(SaExtracted(item)) <= SaMaxPhon
               THEN [next EXCEPT !.phase = "FST", !.phon = SaExtracted(item)]
               ELSE [next EXCEPT !.phase = "FEED"]
  /\ UNCHANGED <<saIn, saOut, saTold, saResets>>

\* A voice without transducers: picotrns_trivial_syllabify.  One turn of its loop puts
\* out a syllable: the consonants, the last of them with the vowels if there were vowels
\* before, and in front of it the boundary and the stress that was among the consonants.
\* A stress in front of the first vowels is lost.
SaCarrier(symbol) == symbol.sym \in SaVowels
SaSyllable(phon, done) ==
  LET from    == done.to
      first   == Min({k \in from .. Len(phon) : SaCarrier(phon[k])})
      ends    == {k \in first .. Len(phon) : ~SaCarrier(phon[k])}
      last    == IF ends = {} THEN Len(phon) ELSE Min(ends) - 1
      onset   == Max({from, first - 1})
      accents == {k \in from .. first - 1 : phon[k].sym = SaStress}
      Kept(a, b) == ElementsAt(SubSeq(phon, a, b),
                               {k \in 1 .. b - a + 1 : accents = {} \/ a + k - 1 # Max(accents)})
      bound   == IF ~done.vowelFound THEN <<>>
                 ELSE IF accents = {} THEN <<SaInserted(SaBound)>>
                 ELSE <<SaInserted(SaBound), SaInserted(SaStress)>>
  IN  [done EXCEPT !.out = @ \o Kept(from, onset - 1) \o bound \o Kept(onset, last),
                   !.to = last + 1, !.inserted = @ + (IF done.vowelFound THEN 1 ELSE 0),
                   !.vowelFound = TRUE]
SaTurn(phon, done) ==
  CASE done.to > Len(phon) \/ done.over -> done
    [] done.to <= Len(phon) /\ ~done.over /\ Len(phon) + done.inserted + 1 >= SaMaxPhon ->
         [done EXCEPT !.over = TRUE]
    [] OTHER -> IF \E k \in done.to .. Len(phon) : SaCarrier(phon[k]) THEN SaSyllable(phon, done)
                ELSE [done EXCEPT !.out = @ \o SubSeq(phon, done.to, Len(phon)), !.to = Len(phon) + 1]
picotrns_trivial_syllabify(phon) ==
  LET turn[n \in 0 .. Len(phon)] ==
        IF n = 0 THEN [out |-> <<>>, to |-> 1, inserted |-> 0, vowelFound |-> FALSE, over |-> FALSE]
        ELSE SaTurn(phon, turn[n - 1])
  IN  turn[Len(phon)]

\* What stands in phonBufOut.  If there was no room for one turn, the length is that of
\* the word, and what is read is what an earlier word left, or nothing ever left.
SaSyllabify ==
  /\ sa.phase = "FST" /\ sa.case.fsts = 0
  /\ LET done == picotrns_trivial_syllabify(sa.phon)
         kept == SubSeq(sa.bufOut, Len(done.out) + 1, Len(sa.bufOut))
         new  == done.out \o kept
         size == IF done.to = 1 THEN Len(sa.phon) ELSE Len(done.out)
     IN  \E junk \in {SaIntern("?"), SaInserted("?")} :
           sa' = [sa EXCEPT !.phase = "FEED", !.transduced = TRUE, !.bufOut = new,
                            !.phon = [k \in 1 .. size |-> IF k <= Len(new) THEN new[k] ELSE junk]]
  /\ UNCHANGED <<saIn, saOut, saTold, saResets>>

\* What a transducer makes of the phones: the same, one of them less, or one more.
SaTransduced(phon) ==
  {phon, SubSeq(phon, 1, Len(phon) - 2) \o <<Last(phon)>>}
  \cup (IF Len(phon) >= SaMaxPhon THEN {} ELSE {<<phon[1], SaInserted(SaBound)>> \o Tail(phon)})

\* One transducer in a step.
SaFst ==
  /\ sa.phase = "FST" /\ sa.curFst <= sa.case.fsts
  /\ \E phon \in SaTransduced(sa.phon) :
       sa' = [sa EXCEPT !.phon = phon, !.transduced = TRUE, !.passed = Append(@, sa.curFst),
                        !.curFst = @ + 1]
  /\ UNCHANGED <<saIn, saOut, saTold, saResets>>
SaFstEnd ==
  /\ sa.phase = "FST" /\ sa.case.fsts > 0 /\ sa.curFst > sa.case.fsts
  /\ sa' = [sa EXCEPT !.phase = "FEED", !.transduced = TRUE, !.curFst = 1]
  /\ UNCHANGED <<saIn, saOut, saTold, saResets>>
-----------------------------------------------------------------------------
(***************************************************************************)
(* FEED                                                                    *)
(***************************************************************************)
\* getNextPosSym to the end: what is neither of the item nor inserted is left out.
SaRead(phon) ==
  LET read == ElementsAt(phon, {k \in DOMAIN phon : phon[k].pos # "ignore"})
  IN  [k \in DOMAIN read |-> read[k].sym]

SaReplace ==
  /\ sa.phase = "FEED" /\ sa.transduced
  /\ sa' = [sa EXCEPT !.transduced = FALSE, !.said = SaRead(sa.phon)]
  /\ UNCHANGED <<saIn, saOut, saTold, saResets>>

\* As long as cbOut is full it is tried again.
SaFeed ==
  /\ sa.phase = "FEED" /\ ~sa.transduced /\ saOut = <<>>
  /\ sa' = [sa EXCEPT !.phase = "PARSE"]
  /\ saOut' = <<[id |-> sa.tmp.id, data |-> sa.said]>>
  /\ saTold' = [saTold EXCEPT !.said = Append(@,
       [id |-> sa.tmp.id, type |-> sa.tmp.type, made |-> sa.tmp.data, data |-> sa.said,
        passed |-> sa.passed])]
  /\ UNCHANGED <<saIn, saResets>>

SaTake == saOut # <<>> /\ saOut' = <<>> /\ UNCHANGED <<sa, saIn, saTold, saResets>>

\* A reset comes between two steps of the unit; phonBufOut stays as it is.
SaBetweenSteps ==
  \/ sa.phase \in {"COLLECT", "POSD"}
  \/ sa.phase = "FST" /\ sa.passed # <<>>
  \/ sa.phase = "FEED" /\ ~sa.transduced /\ saOut # <<>>
SaReset ==
  /\ SaBetweenSteps /\ saResets < SaMaxResets
  /\ \E mode \in {"SOFT", "FULL"} :
       sa' = SaFresh(sa.case, IF mode = "SOFT" THEN sa.curFst ELSE 1, sa.bufOut)
  /\ saIn' = sa.case.items /\ saOut' = <<>> /\ saTold' = SaNothing /\ saResets' = saResets + 1

SaNext ==
  \/ SaCollect \/ SaCollected \/ SaDisambBegin \/ SaDisambOther \/ SaDisambWord \/ SaDisambEnd
  \/ SaWphoCopy \/ SaWphoGraph \/ SaG2pGraph \/ SaG2pEnd \/ SaWphoEnd
  \/ SaParseEnd \/ SaParse \/ SaSyllabify \/ SaFst \/ SaFstEnd
  \/ SaReplace \/ SaFeed \/ SaTake \/ SaReset
SaSpec == SaInit /\ [][SaNext]_saVars
-----------------------------------------------------------------------------
(***************************************************************************)
(* Properties                                                              *)
(***************************************************************************)
SaWordsOf(phrase) ==
  ElementsAt([k \in DOMAIN phrase |-> k], {k \in DOMAIN phrase : SaIsWord(phrase[k])})
SaPadded(seq, n, by) == [k \in 1 .. n |-> IF k <= Len(seq) THEN seq[k] ELSE by]

\* The tree for a word's part of speech sees the decisions for the three words before
\* it, the parts of speech it was given with, and those of the next three words, though
\* items that are no words stand between them (saDisambPos).
SaPosAsked ==
  \A a \in ToSet(saTold.asked) :
    LET words  == SaWordsOf(saTold.phrase)
        n      == CHOOSE k \in DOMAIN words : words[k] = a.at
        before == Reverse(SubSeq(saTold.outs, 1, n - 1))
        after  == [k \in 1 .. Len(words) - n |-> saTold.phrase[words[n + k]].info1]
    IN  a.val = Reverse(SaPadded(before, 3, SaZero)) \o <<saTold.phrase[a.at].info1>>
                \o SaPadded(after, 3, SaEps)

\* What was asked about the graphemes of a word, from left to right; the phones that were
\* answered, and the last of them that fit.
SaAskedOf(g2p, at) == Reverse(ElementsAt(g2p, {j \in DOMAIN g2p : g2p[j].at = at}))
SaPhonesOf(asked) ==
  FlattenSeq([j \in 1 .. Len(asked) |-> IF asked[j].answer = SaNone THEN <<>> ELSE asked[j].answer])
SaLastFit(phones, room) == SubSeq(phones, Max({1, Len(phones) - room + 1}), Len(phones))

\* The tree for a grapheme sees what it answered for the three to the right of it, zero
\* beyond the end of the word and never what was said of another word; and whether these
\* have a stress that had room (saDoG2P).
SaG2pAsked ==
  \A k \in DOMAIN saTold.g2p :
    LET g      == saTold.g2p[k]
        before == SaAskedOf(SubSeq(saTold.g2p, 1, k - 1), g.at)
        outs   == [j \in DOMAIN before |-> before[j].out]
        kept   == SaLastFit(SaPhonesOf(before), g.room)
    IN  g.ask.outs = SaPadded(outs, 3, <<SaZero>>) /\ (g.ask.primary <=> SaStress \in ToSet(kept))

\* The phones of a word are those of its graphemes from left to right, of which the last
\* ones are kept if there is no room for all.
SaG2pMade ==
  \A k \in DOMAIN saTold.made :
    (saTold.phrase[k].type = "WORDGRAPH") =>
      LET fit == SaLastFit(SaPhonesOf(SaAskedOf(saTold.g2p, k)), saTold.made[k].room)
      IN  saTold.made[k].data = SubSeq(fit, 1, Min({SaMaxLen, Len(fit)}))

\* Every item is put out once, in its order, whatever the phrases it fell into and
\* however often the output was full; but for those that the buffer had no place for.
SaSaidOnce ==
  LET said  == [k \in DOMAIN saTold.said |-> saTold.said[k].id]
      items == [k \in DOMAIN sa.case.items |-> sa.case.items[k].id]
  IN  IsPrefix(ElementsAt(said, {k \in DOMAIN said : said[k] # 0}),
               ElementsAt(items, {k \in DOMAIN items : items[k] \notin saTold.lost}))

\* What is no word passes no transducer and comes as it was made.
SaOthersKept ==
  \A x \in ToSet(saTold.said) : x.type # "WORDPHON" => x.data = x.made /\ x.passed = <<>>

\* Phones without boundaries and stresses.
SaPlain(phones) == ElementsAt(phones, {k \in DOMAIN phones : phones[k] \notin {SaStress, SaBound}})

\* A word for whose boundaries there is room keeps its phones when it is divided into
\* syllables; only stresses go or move.
SaPhonesKept ==
  sa.case.fsts = 0 =>
    \A x \in ToSet(saTold.said) :
      LET vowels == Cardinality({k \in DOMAIN x.made : x.made[k] \in SaVowels})
      IN  (x.type = "WORDPHON" /\ Len(x.made) + 2 + Max({1, vowels}) < SaMaxPhon)
            => SaPlain(x.data) = SaPlain(x.made)

\* A word that has room passes the transducers in their order up to the last one; only
\* the first word after a soft reset may lack some of them.
SaPassed ==
  LET words == ElementsAt(saTold.said, {k \in DOMAIN saTold.said :
                 saTold.said[k].type = "WORDPHON" /\ Len(saTold.said[k].made) + 2 <= SaMaxPhon})
      n     == sa.case.fsts
  IN  \A k \in DOMAIN words :
        LET passed == words[k].passed
            lack   == n - Len(passed)
        IN  /\ passed = [j \in 1 .. n - lack |-> lack + j]
            /\ lack > 0 => k = 1 /\ saResets > 0

\* What saStep owes to every phrase: all of them.
SaSound ==
  /\ SaPosAsked /\ SaG2pAsked /\ SaG2pMade /\ SaSaidOnce /\ SaOthersKept /\ SaPhonesKept /\ SaPassed

\* What saInitialize says of a soft reset: what is initialised beyond it is needed only at
\* the start and after a full reset (picosa.c:298).  Then every word that has room passes
\* all transducers.  The transducer to be applied next is not among what it sets: the first
\* word after a soft reset in the middle of a word lacks those that one had passed.
SaResetClean ==
  \A x \in ToSet(saTold.said) :
    (x.type = "WORDPHON" /\ Len(x.made) + 2 <= SaMaxPhon) =>
      x.passed = [j \in 1 .. sa.case.fsts |-> j]
=============================================================================
