-------------------------------- MODULE PicoAcph -------------------------------
(***************************************************************************)
(* Phrasing and accentuation (picoacph.c): what happens to the items of a  *)
(* phrase between the collecting and the feeding that PicoCtrl models.     *)
(* Right to left a tree decides the boundary before each word, then right  *)
(* to left another tree decides its accent; then the items are fed with    *)
(* the boundaries between them.                                            *)
(*                                                                         *)
(* The trees are free: AcphInit takes every table of answers.  Words hold  *)
(* phones "p", syllable bounds "." and stresses "'" and ",".               *)
(***************************************************************************)
EXTENDS Integers, Sequences, FiniteSets, SequencesExt, FiniteSetsExt

CONSTANTS
  AcphPhrases,     \* the phrases: items [type, info1, info2, phones], the last a PUNC
  AcphStrengths,   \* the answers of dtphr: "PHR0", "PHR2", "PHR3", "ERR" for none
  AcphAccents,     \* the answers of dtacc: "ACC0" to "ACC4", "none"
  AcphMaxPhrases,  \* bound: phrases in a run
  AcphMaxFull      \* bound: how often the output buffer is full

VARIABLE
  acph   \* [phase, headx, bound (boundStrengthState), bottom (headxBottom), put, fulls,
         \*  phrases (so far), phr, acc (what the trees are asked, by item), out (of the
         \*  phrase), plan (the phrase as phrasing left it), before (the PUNC before it)]

\* What sentence analysis sends: items that are neither PUNC nor BOUND, only a word among
\* them with an accent in info2; and the PUNC that ends the phrase (picodata.h).
AcphInside(item) == item.type \notin {"PUNC", "BOUND"} /\ (item.type = "WORDPHON" \/ item.info2 # "ACC1")
AcphPunc(item) ==
  /\ item.type = "PUNC" /\ item.info1 \in {"SENTEND", "PHRASEEND", "FLUSH"}
  /\ item.info2 \in {"T", "Q", "E", "PHRASE", "FORCED"}
ASSUME AcphAssumption ==
  \A phrase \in AcphPhrases :
    /\ phrase \in Seq([type : STRING, info1 : STRING, info2 : STRING, phones : Seq(STRING)])
    /\ phrase # <<>> /\ AcphPunc(Last(phrase))
    /\ \A i \in 1 .. Len(phrase) - 1 : AcphInside(phrase[i])

AcphEps == "eps"   \* PICOKDT_EPSILON
-----------------------------------------------------------------------------
acphGetNrSylls(item) == 1 + Cardinality({i \in DOMAIN item.phones : item.phones[i] = "."})
AcphIsWord(headx, i) == headx[i].type = "WORDPHON"
AcphWords(headx) == {i \in DOMAIN headx : AcphIsWord(headx, i)}
\* The word to the left of an item, or the first item if there is none.
acphPhrItemSeqGetPosLeft(headx, ind) ==
  LET left == {i \in AcphWords(headx) : i < ind /\ headx[i].info1 # AcphEps}
  IN  IF left = {} THEN [pos |-> AcphEps, at |-> 1] ELSE [pos |-> headx[Max(left)].info1, at |-> Max(left)]
acphAccItemSeqGetPosLeft(headx, ind) == acphPhrItemSeqGetPosLeft(headx, ind)

AcphFirstWindow(headx, ind) ==
  LET left == acphPhrItemSeqGetPosLeft(headx, ind)
  IN  [vals |-> <<left.pos, headx[ind].info1, AcphEps, AcphEps, AcphEps>>, at |-> left.at]
\* Two words before, the word, two words after: one place on, for the word at i.
AcphSlide(headx, w, i) ==
  LET left == acphPhrItemSeqGetPosLeft(headx, w.at)
  IN  [vals |-> <<left.pos, w.vals[1], headx[i].info1, w.vals[3], w.vals[4]>>, at |-> left.at]
AcphDownFrom(n, to) == [k \in 1 .. (n + 1 - to) |-> n + 1 - k]
-----------------------------------------------------------------------------
(***************************************************************************)
(* Phrasing.                                                               *)
(***************************************************************************)
AcphBoundType(punc, old) ==
  CASE punc.info2 \in {"T", "Q", "E"} -> punc.info2
    [] punc.info2 \in {"PHRASE", "FORCED"} -> "P"
    [] OTHER -> old

\* Mutation of AcphPhrWord: the counts run on over a boundary.
AcphPhrWordOn(answers, a, i) ==
  LET ask == [vals |-> <<>>, pre |-> a.pre - 1, fol |-> a.fol + 1,
              sylls |-> a.sylls + acphGetNrSylls(a.headx[i])]
  IN  IF ~AcphIsWord(a.headx, i) \/ a.pre <= 1 THEN a
      ELSE [a EXCEPT !.headx[i].bstrength = answers[i], !.pre = ask.pre, !.fol = ask.fol,
                     !.sylls = ask.sylls, !.asked[i] = ask]
AcphPhrWord(answers, a, i) ==
  LET headx == a.headx
      w == AcphSlide(headx, a.w, i)
      ask == [vals |-> w.vals, pre |-> a.pre - 1, fol |-> a.fol + 1,
              sylls |-> a.sylls + acphGetNrSylls(headx[i])]
      cut == answers[i] \in {"PHR2", "PHR3"}
      type == IF a.nosub THEN AcphBoundType(Last(headx), headx[i].btype) ELSE "P"
  IN  IF ~AcphIsWord(headx, i) \/ a.pre <= 1 THEN a
      ELSE [headx |-> [headx EXCEPT ![i].bstrength = answers[i],
                                    ![i].btype = IF cut THEN type ELSE @],
            w |-> w, nosub |-> a.nosub /\ ~cut, pre |-> ask.pre,
            fol |-> IF cut THEN 0 ELSE ask.fol, sylls |-> IF cut THEN 0 ELSE ask.sylls,
            asked |-> [a.asked EXCEPT ![i] = ask]]

\* The boundary before the phrase, and what the phrase leaves open.
AcphPhrOpened(items, bound, a) ==
  [headx |-> [a.headx EXCEPT
     ![1].bstrength = IF bound = "SSEP" THEN "SBEG" ELSE "PHR1",
     ![1].btype = IF a.nosub THEN AcphBoundType(Last(items), items[1].btype) ELSE "P"],
   bound |-> CASE Last(items).info1 \in {"SENTEND", "FLUSH"} -> "SSEP"
               [] Last(items).info1 = "PHRASEEND" -> "PPHR"
               [] OTHER -> bound,
   asked |-> a.asked]
acphSubPhrasing(items, bound, answers) ==
  LET upbound == Max({1} \cup AcphWords(items))
      start == [headx |-> items, w |-> AcphFirstWindow(items, upbound), nosub |-> TRUE,
                pre |-> 1 + Cardinality({i \in AcphWords(items) : i < upbound}), fol |-> 0, sylls |-> 0,
                asked |-> [i \in DOMAIN items |-> [vals |-> <<>>, pre |-> 0, fol |-> 0, sylls |-> 0]]]
  IN  AcphPhrOpened(items, bound,
        FoldLeft(LAMBDA x, i : AcphPhrWord(answers, x, i), start, AcphDownFrom(upbound, 2)))
-----------------------------------------------------------------------------
(***************************************************************************)
(* Accentuation.                                                           *)
(***************************************************************************)
\* The syllables before the first stressed one, and those after it; without a primary
\* stress the whole word both times.
acphAccNrSyllParts(item) ==
  LET prim == SelectInSeq(item.phones, LAMBDA ph : ph = "'")
      Bounds(s) == Len(SelectSeq(s, LAMBDA ph : ph = "."))
  IN  IF prim = 0 THEN [s1 |-> acphGetNrSylls(item), s2 |-> acphGetNrSylls(item)]
      ELSE [s1 |-> Bounds(SubSeq(item.phones, 1, prim)),
            s2 |-> Bounds(SubSeq(item.phones, prim, Len(item.phones)))]
AcphSyllsOf(headx, S) == FoldSet(LAMBDA i, n : n + acphGetNrSylls(headx[i]), 0, S)

\* A count ends at the first item whose strength is not PHR0: a word that starts a phrase,
\* and any item that is not a word, for its strength was never set.
acphAccGetNrsRight(headx, ind) ==
  LET n == Len(headx)
      stop == Min({n + 1} \cup {i \in ind + 1 .. n : headx[i].bstrength # "PHR0"})
      foot == Min({n + 1} \cup {i \in ind + 1 .. n : headx[i].info2 = "ACC1"})
      right == {i \in AcphWords(headx) : i > ind /\ i < stop}
      feet == {i \in AcphWords(headx) : i > ind /\ i < foot}
      parts == acphAccNrSyllParts(headx[ind])
  IN  [wordsfol |-> Cardinality(right), syllsfol |-> parts.s2 + AcphSyllsOf(headx, right),
       footwords |-> Cardinality(feet),
       footsylls |-> parts.s2 + AcphSyllsOf(headx, feet)
                     + (IF foot <= n THEN acphAccNrSyllParts(headx[foot]).s1 ELSE 0)]
\* With nothing to the left the code looks at the bytes before headx: stray says whether
\* they happen to look like a word there.
acphAccGetNrsLeft(headx, ind, stray) ==
  LET stop == Max({0} \cup {i \in 1 .. ind - 1 : headx[i].bstrength # "PHR0"})
      left == {i \in AcphWords(headx) : i < ind /\ i >= Max({stop, 1})}
      beyond == IF stop = 0 /\ stray THEN 1 ELSE 0
  IN  [wordspre |-> Cardinality(left) + beyond,
       syllspre |-> acphAccNrSyllParts(headx[ind]).s1 + AcphSyllsOf(headx, left) + beyond]
acphIsWordWithoutStress(item) == ToSet(item.phones) \cap {"'", ","} = {}

AcphAccWord(answers, stray, a, i) ==
  LET headx == a.headx
      w == AcphSlide(headx, a.w, i)
      ask == [vals |-> w.vals, hist |-> <<a.prev, a.hist[1]>>,
              right |-> acphAccGetNrsRight(headx, i), left |-> acphAccGetNrsLeft(headx, i, stray)]
      answer == answers[i]
      accent == IF answer = "none" THEN headx[i].info2
                ELSE IF acphIsWordWithoutStress(headx[i]) /\ answer # "ACC0" THEN "ACC3"
                ELSE answer
  IN  IF ~AcphIsWord(headx, i) THEN a
      ELSE [headx |-> [headx EXCEPT ![i].info2 = accent], w |-> w, hist |-> ask.hist,
            prev |-> IF answer = "none" THEN a.prev ELSE answer,
            asked |-> [a.asked EXCEPT ![i] = ask]]
acphAccentuation(headx, answers, stray) ==
  LET none == [vals |-> <<>>]
      start == [headx |-> headx, w |-> AcphFirstWindow(headx, Max(AcphWords(headx))),
                hist |-> <<"ZERO", "ZERO">>, prev |-> "ZERO", asked |-> [i \in DOMAIN headx |-> none]]
  IN  IF AcphWords(headx) = {} THEN [headx |-> headx, asked |-> [i \in DOMAIN headx |-> none]]
      ELSE FoldLeft(LAMBDA x, i : AcphAccWord(answers, stray, x, i), start,
                    AcphDownFrom(Max(AcphWords(headx)), 1))
-----------------------------------------------------------------------------
(***************************************************************************)
(* The unit.  A phrase is fed into a buffer that was empty when the feed   *)
(* began (PicoCtrl!BelowDrained), so its first item always fits.           *)
(***************************************************************************)
AcphItem(item) == [type |-> item.type, info1 |-> item.info1, info2 |-> item.info2]
AcphBound(strength, type) == [type |-> "BOUND", info1 |-> strength, info2 |-> type]

AcphInit ==
  acph = [phase |-> "collect", headx |-> <<>>, bound |-> "SSEP", bottom |-> 0, put |-> FALSE,
          fulls |-> 0, phrases |-> 0, phr |-> <<>>, acc |-> <<>>, out |-> <<>>,
          plan |-> <<>>, before |-> "SENTEND"]

AcphCollect ==
  /\ acph.phase = "collect" /\ acph.phrases < AcphMaxPhrases
  /\ \E phrase \in AcphPhrases :
       acph' = [acph EXCEPT !.phase = "phr", !.phrases = @ + 1, !.out = <<>>,
                            !.before = IF acph.headx = <<>> THEN @ ELSE Last(acph.headx).info1,
                            !.headx = [i \in DOMAIN phrase |->
                              [type |-> phrase[i].type, info1 |-> phrase[i].info1,
                               info2 |-> phrase[i].info2, phones |-> phrase[i].phones,
                               bstrength |-> "ERR", btype |-> "NONE"]]]
AcphPhrased(a) ==
  [acph EXCEPT !.phase = "acc", !.headx = a.headx, !.bound = a.bound, !.phr = a.asked, !.plan = a.headx]
AcphProcessPhr ==
  /\ acph.phase = "phr"
  /\ \E answers \in [DOMAIN acph.headx -> AcphStrengths] :
       acph' = AcphPhrased(acphSubPhrasing(acph.headx, acph.bound, answers))
AcphAccented(a) == [acph EXCEPT !.phase = "feed", !.headx = a.headx, !.acc = a.asked]
AcphProcessAcc ==
  /\ acph.phase = "acc"
  /\ \E answers \in [DOMAIN acph.headx -> AcphAccents], stray \in BOOLEAN :
       acph' = AcphAccented(acphAccentuation(acph.headx, answers, stray))

\* A feed starts with the boundary before the phrase, unless a flush is all there is.
AcphFeed ==
  /\ acph.phase = "feed"
  /\ acph' = [acph EXCEPT !.phase = "items", !.put = FALSE, !.phr = <<>>, !.acc = <<>>,
                          !.out = IF acph.bottom = 0 /\ acph.headx[1].info1 # "FLUSH"
                                  THEN Append(@, AcphBound(acph.headx[1].bstrength, acph.headx[1].btype))
                                  ELSE @]
AcphNextItem == acph.headx[acph.bottom + 1]
AcphBoundDue == AcphNextItem.bstrength \in {"PHR2", "PHR3"} /\ ~acph.put
acphPutBoundItem ==
  /\ acph.phase = "items" /\ AcphNextItem.type # "PUNC" /\ AcphBoundDue
  /\ acph' = [acph EXCEPT !.put = TRUE,
                          !.out = Append(@, AcphBound(AcphNextItem.bstrength, AcphNextItem.btype))]
AcphPutItem ==
  /\ acph.phase = "items" /\ AcphNextItem.type # "PUNC" /\ ~AcphBoundDue
  /\ acph' = [acph EXCEPT !.put = FALSE, !.bottom = @ + 1, !.out = Append(@, AcphItem(AcphNextItem))]
\* Full: the feed starts again, without the boundary if that is out already.
\* Mutation of AcphOutFull: the boundary is put again.
AcphOutFullAgain ==
  /\ acph.phase = "items" /\ acph.bottom > 0 /\ acph.fulls < AcphMaxFull
  /\ acph' = [acph EXCEPT !.phase = "feed", !.fulls = @ + 1]
AcphOutFull ==
  /\ acph.phase = "items" /\ acph.bottom > 0 /\ acph.fulls < AcphMaxFull
  /\ acph' = [acph EXCEPT !.phase = "feed", !.fulls = @ + 1,
                          !.headx = IF AcphNextItem.type # "PUNC" /\ ~AcphBoundDue
                                    THEN [@ EXCEPT ![acph.bottom + 1].bstrength = "ERR"] ELSE @]
\* The closing PUNC becomes the boundary that ends a sentence, or nothing.
AcphPutPunc ==
  LET end == CASE AcphNextItem.info1 = "SENTEND" -> <<AcphBound("SEND", "NA")>>
               [] AcphNextItem.info1 = "FLUSH" -> <<AcphBound("TERM", "NA")>>
               [] OTHER -> <<>>
  IN  /\ acph.phase = "items" /\ AcphNextItem.type = "PUNC"
      /\ acph' = [acph EXCEPT !.phase = "collect", !.bottom = 0, !.out = @ \o end]

AcphNext == AcphCollect \/ AcphProcessPhr \/ AcphProcessAcc \/ AcphFeed \/ acphPutBoundItem
            \/ AcphPutItem \/ AcphOutFull \/ AcphPutPunc
AcphSpec == AcphInit /\ [][AcphNext]_acph
-----------------------------------------------------------------------------
(***************************************************************************)
(* The properties.                                                         *)
(***************************************************************************)
\* What phrasing asks about is what picokdt.h promises: the words before, and the words
\* and syllables from this one to the boundary decided last; and the foot of an accent
\* reaches to the accent '1' decided last, its syllables included (acphSubPhrasing,
\* acphAccGetNrsRight).
AcphCounts ==
  LET h == acph.headx
      words == AcphWords(h)
      AsPhrased(i) ==
        LET stop == Min({Len(h) + 1} \cup {j \in words : j > i /\ h[j].bstrength \in {"PHR2", "PHR3"}})
            right == {j \in words : j >= i /\ j < stop}
        IN  /\ acph.phr[i].pre = Cardinality({j \in words : j < i})
            /\ acph.phr[i].fol = Cardinality(right)
            /\ acph.phr[i].sylls = AcphSyllsOf(h, right)
      Foot(i) ==
        LET next == Min({Len(h) + 1} \cup {j \in words : j > i /\ h[j].info2 = "ACC1"})
        IN  acph.acc[i].right.footwords = Cardinality({j \in words : i < j /\ j < next})
  IN  /\ acph.phase = "acc" /\ acph.phr # <<>> => \A i \in {k \in words : \E j \in words : j < k} : AsPhrased(i)
      /\ acph.phase = "feed" /\ acph.acc # <<>> => \A i \in words : Foot(i)

\* Whatever interrupts the feeding, a phrase comes out as it was decided: its items in
\* order, each boundary once and in its place, opened by what the phrase before left
\* open, and the sentence's type on the last boundary inside the phrase only (acphStep).
AcphAsDecided ==
  LET h == acph.plan
      cuts == {i \in 2 .. Len(h) : h[i].bstrength \in {"PHR2", "PHR3"}}
      type == IF Last(h).info2 \in {"T", "Q", "E"} THEN Last(h).info2 ELSE "P"
      open == AcphBound(IF acph.before = "PHRASEEND" THEN "PHR1" ELSE "SBEG", IF cuts = {} THEN type ELSE "P")
      Of(i) == (IF i \in cuts THEN <<AcphBound(h[i].bstrength, IF i = Max(cuts) THEN type ELSE "P")>>
                ELSE <<>>)
               \o <<[type |-> h[i].type, info1 |-> h[i].info1]>>
      end == CASE Last(h).info1 = "SENTEND" -> <<AcphBound("SEND", "NA")>>
               [] Last(h).info1 = "FLUSH" -> <<AcphBound("TERM", "NA")>>
               [] OTHER -> <<>>
      expected == (IF h[1].info1 = "FLUSH" THEN <<>> ELSE <<open>>)
                  \o FlattenSeq([i \in 1 .. Len(h) - 1 |-> Of(i)]) \o end
      Told(i) == IF acph.out[i].type = "BOUND" THEN acph.out[i]
                 ELSE [type |-> acph.out[i].type, info1 |-> acph.out[i].info1]
  IN  acph.phase = "collect" /\ acph.phrases > 0 => [i \in DOMAIN acph.out |-> Told(i)] = expected

\* Phrases and accents are decided on true counts, and spoken as they were decided.
AcphSound == AcphCounts /\ AcphAsDecided
=============================================================================
