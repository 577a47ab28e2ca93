------------------------------ MODULE PicoSpho ------------------------------
(***************************************************************************)
(* Sentence phonology (picospho.c): words become syllables and phrase      *)
(* bounds get their final strength.  sphoStep collects items in a window   *)
(* (headx), extracts their symbols into a phoneme buffer, transduces that, *)
(* and aligns the result with the items again, twice: BOUNDS notes a bound *)
(* beside an item, RECOMB and SYL put bounds, syllables and other items    *)
(* out.  A sentence that does not fit the window, or the phoneme buffer,   *)
(* is done in parts: SHIFT keeps a left context, PARSE leaves a right one. *)
(*                                                                         *)
(* An action is one case of the switch over procState.  The transducers    *)
(* are lingware: they may change the strength of a bound and keep the      *)
(* positions of the symbols.                                               *)
(***************************************************************************)
EXTENDS Integers, Sequences, SequencesExt

CONSTANTS
  SphoHeadxCap,   \* SPHO_MAXNR_HEADX
  SphoCbufCap,    \* SPHO_MAXSIZE_CBUF
  SphoPhonCap,    \* 2 * PICOTRNS_MAX_NUM_POSSYM
  SphoNumFsts,    \* spho->numFsts
  SphoInCap, SphoOutCap,  \* items the char buffers hold
  SphoMenu,   \* the items fed, without their number
  SphoMaxFed, SphoMaxResets, \* bounds: items fed, resets
  SphoMaxResetFed, \* bound: items fed when a reset comes
  SphoGap     \* bound: commands and bounds between two words

SphoInvalid == -2   \* SPHO_POS_INVALID
SphoIgnore == -3    \* PICOTRNS_POS_IGNORE
SphoPhraseBounds == {"PHR0", "PHR1", "PHR2", "PHR3"}
SphoSentenceBounds == {"SBEG", "SEND", "TERM"}

\* What is fed are items; the strengths of bounds are these.
ASSUME SphoAssumption ==
  \A m \in SphoMenu :
    /\ {"type", "info1", "info2", "len"} \subseteq DOMAIN m
    /\ m.type = "BOUND" => m.info1 \in SphoPhraseBounds \cup SphoSentenceBounds

VARIABLES
  spho,      \* the sub object
  sphoIn,    \* cbIn
  sphoOut,   \* cbOut
  sphoFed,   \* history: the items put into cbIn
  sphoSaid,  \* history: the items put into cbOut
  sphoResets \* history: the number of resets

sphoVars == <<spho, sphoIn, sphoOut, sphoFed, sphoSaid, sphoResets>>

SphoHeadx(item) == [item |-> item, strength |-> "NONE", type |-> "NA", sildur |-> -1]

\* What sphoReset leaves alone is kept from s.
SphoCleared(s) ==
  [s EXCEPT !.procState = "INIT", !.needMore = TRUE, !.curFst = 0,
            !.suppressParse = FALSE, !.suppressRecomb = FALSE,
            !.breakPending = FALSE, !.force = FALSE, !.sentenceStarted = FALSE,
            !.headx = <<>>, !.readPos = 0, !.phonReadPos = 0,
            !.activeStart = 0, !.penultima = SphoInvalid, !.activeEnd = SphoInvalid,
            !.failed = FALSE]

SphoFresh ==
  SphoCleared(
    [procState |-> "INIT", follow |-> "RECOMB", needMore |-> TRUE, curFst |-> 0,
     suppressParse |-> FALSE, suppressRecomb |-> FALSE, force |-> FALSE,
     breakPending |-> FALSE, breakTime |-> 0, wordStarted |-> FALSE,
     sentenceStarted |-> FALSE, headx |-> <<>>, readPos |-> 0, outReadPos |-> 0,
     phon |-> <<>>, phonReadPos |-> 0, activeStart |-> 0, penultima |-> SphoInvalid,
     activeEnd |-> SphoInvalid, lastBound |-> -1, lastType |-> "NA",
     outBuf |-> <<>>, failed |-> FALSE])

SphoInit ==
  /\ spho = SphoFresh
  /\ sphoIn = <<>> /\ sphoOut = <<>>
  /\ sphoFed = <<>> /\ sphoSaid = <<>> /\ sphoResets = 0

SphoAt(pos) == spho.headx[pos + 1]
SphoIsBound(item) == item.type = "BOUND"
SphoIsWord(item) == item.type = "WORDPHON"
SphoIsCmd(item, info1) == item.type = "CMD" /\ item.info1 = info1

(***************************************************************************)
(* The char buffers: what PicoCharBuffer promises, an item at a time.      *)
(***************************************************************************)
SphoSentence(item) == SphoIsBound(item) /\ item.info1 \in SphoSentenceBounds
SphoNumbered(m, id) == [f \in DOMAIN m \cup {"id"} |-> IF f = "id" THEN id ELSE m[f]]

\* What PicoAcph may put behind the items of fed: SBEG before the first item of
\* a sentence, SEND or TERM behind the last; TERM may stand alone; no two bounds
\* side by side within a sentence.  SphoGap bounds the commands in a row.
SphoMayFollow(fed, item) ==
  LET last == SelectLastInSeq(fed, SphoSentence)
      inside == last # 0 /\ fed[last].info1 = "SBEG"
      afterBound == fed # <<>> /\ SphoIsBound(Last(fed))
      gap == Len(fed) - SelectLastInSeq(fed, LAMBDA x : SphoIsWord(x) \/ SphoSentence(x))
  IN  IF SphoIsBound(item) /\ item.info1 = "SBEG" THEN ~inside
      ELSE IF ~inside THEN SphoIsBound(item) /\ item.info1 = "TERM"
      ELSE IF SphoIsBound(item) THEN ~afterBound /\ (SphoSentence(item) \/ gap < SphoGap)
      ELSE SphoIsWord(item) \/ gap < SphoGap

\* cbIn is read in COLLECT only and cbOut written in FEED only: it is enough to
\* fill the one and to empty the other then.
SphoFeed ==
  /\ spho.procState = "COLLECT"
  /\ Len(sphoIn) < SphoInCap /\ Len(sphoFed) < SphoMaxFed
  /\ \E m \in SphoMenu :
       /\ SphoMayFollow(sphoFed, m)
       /\ LET item == SphoNumbered(m, Len(sphoFed) + 1)
          IN  sphoIn' = Append(sphoIn, item) /\ sphoFed' = Append(sphoFed, item)
  /\ UNCHANGED <<spho, sphoOut, sphoSaid, sphoResets>>

SphoTake ==
  /\ spho.procState = "FEED"
  /\ sphoOut # <<>> /\ sphoOut' = Tail(sphoOut)
  /\ UNCHANGED <<spho, sphoIn, sphoFed, sphoSaid, sphoResets>>

SphoReset ==
  /\ sphoResets < SphoMaxResets /\ Len(sphoFed) <= SphoMaxResetFed
  /\ sphoResets' = sphoResets + 1
  /\ spho' = SphoCleared(spho)
  /\ sphoIn' = <<>> /\ sphoOut' = <<>> /\ sphoFed' = <<>> /\ sphoSaid' = <<>>

(***************************************************************************)
(* INIT and COLLECT                                                        *)
(***************************************************************************)
SphoInside == UNCHANGED <<sphoIn, sphoOut, sphoFed, sphoSaid, sphoResets>>

SphoStepInit ==
  /\ spho.procState = "INIT"
  /\ spho' = [spho EXCEPT !.procState = "COLLECT", !.penultima = SphoInvalid,
                !.activeEnd = SphoInvalid, !.readPos = 0, !.phonReadPos = 0,
                !.phon = <<>>, !.lastType = "NA", !.lastBound = -1]
  /\ SphoInside

SphoCbufUsed(headx) == FoldLeft(LAMBDA n, h : n + h.item.len, 0, headx)

\* One turn of the loop of COLLECT: an item whose contents do not fit in cbuf
\* was already taken out of cbIn.
SphoCollectItem(c, item) ==
  IF Len(c.headx) = SphoHeadxCap \/ SphoCbufUsed(c.headx) >= SphoCbufCap \/ c.full THEN c
  ELSE IF item.len > SphoCbufCap - SphoCbufUsed(c.headx)
       THEN [c EXCEPT !.taken = @ + 1, !.full = TRUE]
       ELSE [c EXCEPT !.taken = @ + 1, !.headx = Append(@, SphoHeadx(item))]

SphoCollect ==
  /\ spho.procState = "COLLECT"
  /\ LET c == FoldLeft(SphoCollectItem,
                       [headx |-> spho.headx, taken |-> 0, full |-> FALSE], sphoIn)
         full == c.full \/ Len(c.headx) = SphoHeadxCap \/ SphoCbufUsed(c.headx) >= SphoCbufCap
         fresh == Len(c.headx) > Len(spho.headx)
     IN  /\ sphoIn' = SubSeq(sphoIn, c.taken + 1, Len(sphoIn))
         /\ IF full
            THEN spho' = [spho EXCEPT !.headx = c.headx, !.procState = "PARSE",
                            !.force = @ \/ spho.needMore, !.needMore = FALSE]
            ELSE /\ spho.needMore => fresh   \* else PICODATA_PU_IDLE
                 /\ spho' = [spho EXCEPT !.headx = c.headx, !.procState = "PARSE",
                               !.needMore = FALSE]
  /\ UNCHANGED <<sphoOut, sphoFed, sphoSaid, sphoResets>>

(***************************************************************************)
(* PARSE: items to symbols                                                 *)
(***************************************************************************)
SphoSym(pos, plane, val) == [pos |-> pos, plane |-> plane, val |-> val]

\* sphoAddPhoneme: a symbol is refused when the buffer is full.
SphoAdded(phon, sym) == IF Len(phon) >= SphoPhonCap THEN phon ELSE Append(phon, sym)

\* The two calls of sphoAddTermPhonemes are joined by &&, and the first one
\* returns PICO_OK, which is 0, unless the buffer is full.
SphoAddTermPhonemes(phon, pos) == SphoAdded(phon, SphoSym(pos, "PB", "SEND"))

\* The symbols of a word: each syllable has an accent, a POS and its phonemes;
\* a separator follows all but the last.
SphoWordSymbols(item, pos) ==
  LET Syllable(k) ==
        <<SphoSym(pos, "ACC", "acc"), SphoSym(pos, "POS", "pos")>>
        \o [i \in 1 .. item.syls[k] |-> SphoSym(pos, "PH", "ph")]
        \o (IF k < Len(item.syls) THEN <<SphoSym(pos, "PH", "SEP")>> ELSE <<>>)
  IN  FlattenSeq([k \in 1 .. Len(item.syls) |-> Syllable(k)])

\* sphoExtractPhonemes: all symbols of the item at pos, or none of them.
SphoExtracted(s, phon, pos) ==
  LET item == s.headx[pos + 1].item
      bound == IF item.info1 \in {"SBEG", "TERM"} THEN "SEND" ELSE item.info1
      syms == IF SphoIsBound(item) THEN <<SphoSym(pos, "PB", bound)>>
              ELSE (IF s.suppressParse THEN <<>> ELSE <<SphoSym(pos, "PB", "PHR0")>>)
                   \o SphoWordSymbols(item, pos)
  IN  [ok |-> Len(phon) + Len(syms) <= SphoPhonCap, phon |-> phon \o syms]

SphoParseEnd ==
  /\ spho.procState = "PARSE" /\ spho.readPos >= Len(spho.headx)
  /\ spho' = IF spho.force
             THEN [spho EXCEPT !.force = FALSE, !.procState = "TRANSDUCE",
                     !.activeEnd = IF @ = SphoInvalid THEN spho.readPos ELSE @]
             ELSE [spho EXCEPT !.needMore = TRUE, !.procState = "COLLECT"]
  /\ SphoInside

SphoParsing == spho.procState = "PARSE" /\ spho.readPos < Len(spho.headx)
SphoHere == SphoAt(spho.readPos).item
SphoClosing(item) == SphoIsBound(item) /\ item.info1 \in {"SEND", "TERM"}

SphoParseSentenceEnd ==
  /\ SphoParsing /\ SphoClosing(SphoHere) /\ spho.sentenceStarted
  /\ LET next == spho.readPos + 1
     IN  spho' = [spho EXCEPT !.sentenceStarted = FALSE, !.readPos = next,
                    !.phon = SphoAddTermPhonemes(@, spho.readPos),
                    !.activeEnd = next, !.penultima = next,
                    !.procState = "TRANSDUCE"]
  /\ SphoInside

\* A TERM outside a sentence is forwarded.  (A SEND outside a sentence, which
\* the code calls impossible, is never fed.)
SphoParseTerm ==
  /\ SphoParsing /\ SphoClosing(SphoHere) /\ ~spho.sentenceStarted
  /\ LET next == spho.readPos + 1
     IN  spho' = [spho EXCEPT !.readPos = next, !.activeEnd = next,
                    !.penultima = SphoInvalid, !.follow = "SHIFT",
                    !.outBuf = <<[kind |-> "item", id |-> SphoHere.id]>>,
                    !.procState = "FEED"]
  /\ SphoInside

SphoParseItem ==
  /\ SphoParsing /\ ~SphoClosing(SphoHere)
  /\ LET sbeg == SphoIsBound(SphoHere) /\ SphoHere.info1 = "SBEG"
         phon == IF sbeg THEN SphoAdded(spho.phon, SphoSym(SphoIgnore, "START", "start"))
                 ELSE spho.phon
         s == [spho EXCEPT !.phon = phon, !.sentenceStarted = @ \/ sbeg]
         x == SphoExtracted(s, phon, s.readPos)
         \* suppressParse is written even when the buffer overflows
         t == [s EXCEPT !.suppressParse = SphoIsBound(SphoHere)]
         moves == /\ s.activeStart <= s.readPos
                  /\ \/ SphoIsWord(SphoHere) \/ s.activeEnd = SphoInvalid
                     \/ SphoIsBound(SphoAt(s.activeEnd).item)
     IN  spho' = IF ~SphoIsWord(SphoHere) /\ ~SphoIsBound(SphoHere)
                 THEN [s EXCEPT !.readPos = @ + 1]
                 ELSE IF x.ok
                 THEN [t EXCEPT !.phon = x.phon, !.readPos = @ + 1,
                         !.penultima = IF moves THEN s.activeEnd ELSE @,
                         !.activeEnd = IF moves THEN s.readPos ELSE @]
                 ELSE [t EXCEPT !.procState = "TRANSDUCE",
                         !.activeEnd = IF @ \in {SphoInvalid, s.activeStart}
                                       THEN s.readPos ELSE @]
  /\ SphoInside

(***************************************************************************)
(* TRANSDUCE: one transducer after the other                               *)
(***************************************************************************)
\* What a transducer may make of the symbols: the strength of a bound between
\* phrases or words may change.
SphoTransductions(phon) ==
  LET changeable == {k \in 1 .. Len(phon) : phon[k].plane = "PB"
                                            /\ phon[k].val \in SphoPhraseBounds}
  IN  {phon} \cup {[phon EXCEPT ![k].val = v] : k \in changeable, v \in SphoPhraseBounds}

\* getNextPosSym: the next symbol is read if it lies before end.
SphoNextAt(s) ==
  SelectInSubSeq(s.phon, s.phonReadPos + 1, Len(s.phon), LAMBDA x : x.pos # SphoIgnore)
SphoReady(s, end) == SphoNextAt(s) # 0 /\ s.phon[SphoNextAt(s)].pos < end
SphoConsumed(s) == [s EXCEPT !.phonReadPos = SphoNextAt(s)]
SphoSkippedTo(s, end) ==
  LET k == SelectInSubSeq(s.phon, s.phonReadPos + 1, Len(s.phon),
                          LAMBDA x : x.pos # SphoIgnore /\ x.pos >= end)
  IN  [s EXCEPT !.phonReadPos = IF k = 0 THEN Len(s.phon) ELSE k - 1]

\* Is a word at the start of the active region behind a bound?
SphoLeftContextBound(s, upto) ==
  LET k == SelectLastInSubSeq(s.headx, 1, upto,
                              LAMBDA h : SphoIsBound(h.item) \/ SphoIsWord(h.item))
  IN  k # 0 /\ SphoIsBound(s.headx[k].item)

SphoTransduce ==
  /\ spho.procState = "TRANSDUCE" /\ spho.curFst < SphoNumFsts
  /\ \E phon \in SphoTransductions(spho.phon) :
       spho' = [spho EXCEPT !.phon = phon, !.curFst = @ + 1]
  /\ SphoInside

\* The end of TRANSDUCE, and the beginning of BOUNDS: items and symbols of the
\* left context are skipped.
SphoTransduced ==
  /\ spho.procState = "TRANSDUCE" /\ spho.curFst >= SphoNumFsts
  /\ LET s == [spho EXCEPT !.curFst = 0, !.procState = "BOUNDS", !.phonReadPos = 0,
                 !.outReadPos = spho.activeStart,
                 !.suppressRecomb = SphoLeftContextBound(spho, spho.activeStart)]
     IN  spho' = SphoSkippedTo(s, s.activeStart)
  /\ SphoInside

(***************************************************************************)
(* BOUNDS: the bounds beside the items                                     *)
(***************************************************************************)
\* Mutation of fstModifiedBoundStrength: the transducer's word is taken for all bounds.
fstStrength(orig, target) == IF orig \in SphoPhraseBounds THEN target ELSE orig

fstModifiedBoundStrength(orig, target) ==
  IF orig \in {"PHR1", "PHR2"} /\ target = "PHR0" THEN "PHR3"
  ELSE IF orig \in SphoPhraseBounds THEN target ELSE orig

breakModifiedBoundStrength(orig, time, wasPrimary) ==
  IF orig \notin SphoPhraseBounds THEN orig
  ELSE IF time = 0 /\ (orig = "PHR0" \/ (orig = "PHR3" /\ ~wasPrimary)) THEN "PHR0"
  ELSE IF time = 0 THEN "PHR3" ELSE IF time > 50 THEN "PHR1" ELSE "PHR2"

\* setSideBound: note the bound left of the item at outReadPos.  orig = "NA"
\* when the item had no bound.
SphoSetSideBound(s, orig, origType, fst) ==
  LET k == s.outReadPos + 1
      was == IF orig = "NA" THEN "PHR0" ELSE orig
      byFst == IF orig = "NA" THEN "PHR0" ELSE fstModifiedBoundStrength(orig, fst)
      strength == IF s.breakPending
                  THEN breakModifiedBoundStrength(byFst, s.breakTime, was = "PHR1")
                  ELSE byFst
      noted == [s EXCEPT !.breakPending = FALSE,
                  !.headx[k].strength =
                    IF orig # "NA" \/ s.breakPending THEN strength ELSE @,
                  !.headx[k].sildur = IF s.breakPending THEN s.breakTime
                                      ELSE IF orig # "NA" THEN -1 ELSE @]
      \* can the previous phrase bound still be changed?
      reachable == s.activeStart <= s.lastBound
      last == s.lastBound + 1
      newType == IF was # "PHR0" THEN origType ELSE s.lastType
  IN  IF noted.headx[k].strength = "NONE" THEN noted
      ELSE IF strength # "PHR0"
      THEN [noted EXCEPT !.lastType = newType, !.lastBound = s.outReadPos,
              !.headx = [j \in DOMAIN @ |->
                           IF j = k THEN [@[j] EXCEPT !.type = newType]
                           ELSE IF j = last /\ was = "PHR0" /\ reachable
                           THEN [@[j] EXCEPT !.type = "P"] ELSE @[j]]]
      ELSE [noted EXCEPT !.lastType = newType,
              !.headx = [j \in DOMAIN @ |->
                           IF j = k THEN [@[j] EXCEPT !.type = "NA"]
                           ELSE IF j = last /\ was # "PHR0" /\ reachable
                           THEN [@[j] EXCEPT !.type = origType] ELSE @[j]]]

\* breakStateInterrupting, and the case of PLAY before it
SphoBreakBefore(item) == \/ item.info1 \in {"PLAY", "SAVE", "UNSAVE"}
                     \/ SphoIsCmd(item, "IGNSIG_START")
SphoBreakAfter(item) == \/ item.info1 \in {"PLAY", "SAVE", "UNSAVE"}
                    \/ SphoIsCmd(item, "IGNSIG_END")
SphoSmallestBreak(s) == [s EXCEPT !.breakTime = 1, !.breakPending = TRUE]

\* One item of the active region.
SphoBoundAt(s, pos) ==
  LET item == s.headx[pos + 1].item
      bounded == SphoIsBound(item) \/ (SphoIsWord(item) /\ ~s.suppressRecomb)
      before == IF item.type = "CMD" /\ SphoBreakBefore(item)
                   /\ (~s.breakPending \/ s.breakTime <= 0)
                THEN SphoSmallestBreak(s) ELSE s
      sideless == SphoSetSideBound(before, "NA", "NA", "NA")
      t == IF bounded
           THEN LET u == [SphoConsumed(s) EXCEPT !.suppressRecomb = @ \/ SphoIsBound(item)]
                    sym == s.phon[SphoNextAt(s)].val
                IN  IF SphoIsBound(item) THEN SphoSetSideBound(u, item.info1, item.info2, sym)
                    ELSE SphoSetSideBound(u, "PHR0", "NA", sym)
           ELSE IF SphoIsCmd(item, "SIL")
           THEN [s EXCEPT !.breakPending = TRUE,
                   !.breakTime = IF s.breakPending THEN @ + item.time ELSE item.time]
           ELSE IF item.type = "CMD"
           THEN IF SphoBreakAfter(item) THEN SphoSmallestBreak(sideless) ELSE sideless
           ELSE IF SphoIsWord(item) THEN [sideless EXCEPT !.suppressRecomb = FALSE]
           ELSE s
  IN  IF bounded /\ ~SphoReady(s, pos + 1)
      THEN [s EXCEPT !.failed = TRUE, !.suppressRecomb = @ \/ SphoIsBound(item)]
      ELSE [SphoSkippedTo(t, pos + 1) EXCEPT !.outReadPos = pos + 1]

SphoBoundsItem ==
  /\ spho.procState = "BOUNDS" /\ ~spho.failed
  /\ spho.outReadPos < spho.activeEnd
  /\ spho' = SphoBoundAt(spho, spho.outReadPos)
  /\ SphoInside

SphoBoundsEnd ==
  /\ spho.procState = "BOUNDS" /\ ~spho.failed
  /\ spho.outReadPos >= spho.activeEnd
  /\ spho' = [spho EXCEPT !.outReadPos = 0, !.phonReadPos = 0,
                !.suppressRecomb = FALSE, !.procState = "RECOMB"]
  /\ SphoInside

(***************************************************************************)
(* RECOMB and SYL: items and symbols to the items put out                  *)
(***************************************************************************)
SphoRecombHere == SphoAt(spho.outReadPos).item
SphoPassive == spho.outReadPos + 1 <= spho.activeStart
SphoRecombining == spho.procState = "RECOMB" /\ ~spho.failed
               /\ spho.outReadPos < spho.activeEnd

SphoRecombEnd ==
  /\ spho.procState = "RECOMB" /\ ~spho.failed /\ spho.outReadPos >= spho.activeEnd
  /\ spho' = [spho EXCEPT !.procState = "SHIFT", !.follow = "RECOMB"]
  /\ SphoInside

\* An item of the left context was put out before.
SphoRecombContext ==
  /\ SphoRecombining /\ SphoPassive
  /\ LET s == [spho EXCEPT !.follow = "RECOMB",
                 !.suppressRecomb = IF SphoIsBound(SphoRecombHere) THEN TRUE
                                    ELSE IF SphoIsWord(SphoRecombHere) THEN FALSE ELSE @]
     IN  spho' = [SphoSkippedTo(s, s.outReadPos + 1) EXCEPT !.outReadPos = @ + 1]
  /\ SphoInside

SphoSideBound(h) == [kind |-> "bound", id |-> h.item.id, strength |-> h.strength,
                 type |-> h.type,
                 sildur |-> IF h.strength \in {"PHR0", "PHR3"} THEN -1 ELSE h.sildur]

SphoRecombSideBound ==
  /\ SphoRecombining /\ ~SphoPassive /\ SphoAt(spho.outReadPos).strength # "NONE"
  /\ spho' = [spho EXCEPT !.follow = "RECOMB", !.procState = "FEED",
                !.outBuf = <<SphoSideBound(SphoAt(spho.outReadPos))>>,
                !.headx[spho.outReadPos + 1].strength = "NONE"]
  /\ SphoInside

SphoRecombItem ==
  /\ SphoRecombining /\ ~SphoPassive /\ SphoAt(spho.outReadPos).strength = "NONE"
  /\ LET s == [spho EXCEPT !.follow = "RECOMB"]
         pos == s.outReadPos
         failure == [s EXCEPT !.failed = TRUE, !.wordStarted = @ \/ SphoIsWord(SphoRecombHere),
                       !.suppressRecomb = @ /\ ~SphoIsWord(SphoRecombHere)]
     IN  spho' =
           IF SphoIsBound(SphoRecombHere)
           THEN IF ~SphoReady(s, pos + 1) THEN failure
                ELSE [SphoConsumed(s) EXCEPT !.suppressRecomb = TRUE, !.outReadPos = @ + 1]
           ELSE IF SphoIsWord(SphoRecombHere)
           THEN IF s.suppressRecomb
                THEN [s EXCEPT !.wordStarted = TRUE, !.suppressRecomb = FALSE,
                        !.procState = "SYL"]
                ELSE IF ~SphoReady(s, pos + 1) THEN failure
                ELSE [SphoConsumed(s) EXCEPT !.wordStarted = TRUE, !.procState = "SYL"]
           ELSE IF SphoIsCmd(SphoRecombHere, "SIL") THEN [s EXCEPT !.outReadPos = @ + 1]
           ELSE [s EXCEPT !.outBuf = <<[kind |-> "item", id |-> SphoRecombHere.id]>>,
                   !.outReadPos = @ + 1, !.procState = "FEED"]
  /\ SphoInside

\* One syllable: accent, POS, and phonemes up to a separator or the word's end.
SphoSyl ==
  /\ spho.procState = "SYL" /\ ~spho.failed
  /\ LET pos == spho.outReadPos
         sep == SelectInSubSeq(spho.phon, spho.phonReadPos + 3, Len(spho.phon),
                               LAMBDA x : x.pos # SphoIgnore /\ (x.pos > pos \/ x.val = "SEP"))
         more == sep # 0 /\ spho.phon[sep].pos <= pos
         end == IF sep = 0 THEN Len(spho.phon) ELSE IF more THEN sep ELSE sep - 1
         next == IF more THEN "SYL" ELSE "RECOMB"
         phones == SelectSeq(SubSeq(spho.phon, spho.phonReadPos + 3, end),
                             LAMBDA x : x.pos = pos /\ x.val = "ph")
     IN  spho' =
           IF ~SphoReady(spho, pos + 1) \/ ~SphoReady(SphoConsumed(spho), pos + 1)
           THEN [spho EXCEPT !.failed = TRUE, !.follow = "SYL"]
           ELSE [spho EXCEPT !.phonReadPos = end, !.wordStarted = FALSE,
                   !.follow = next, !.outReadPos = IF more THEN @ ELSE @ + 1,
                   !.procState = IF phones = <<>> THEN next ELSE "FEED",
                   !.outBuf = IF phones = <<>> THEN @
                              ELSE <<[kind |-> "syl", id |-> SphoRecombHere.id,
                                      first |-> spho.wordStarted,
                                      phones |-> Len(phones)]>>]
  /\ SphoInside

(***************************************************************************)
(* FEED and SHIFT                                                          *)
(***************************************************************************)
\* While cbOut is full the step answers OUT_FULL and changes nothing.
SphoFeedOut ==
  /\ spho.procState = "FEED" /\ Len(sphoOut) < SphoOutCap
  /\ sphoOut' = sphoOut \o spho.outBuf /\ sphoSaid' = sphoSaid \o spho.outBuf
  /\ spho' = [spho EXCEPT !.procState = spho.follow]
  /\ UNCHANGED <<sphoIn, sphoFed, sphoResets>>

\* Mutation of SphoShifted: one item too many is dropped.
SphoShiftedFar(headx, from, to) == SubSeq(headx, 1, to) \o SubSeq(headx, from + 2, Len(headx))

\* shift_range_left_1: the items from `from' on move down to `to'.
SphoShifted(headx, from, to) == SubSeq(headx, 1, to) \o SubSeq(headx, from + 1, Len(headx))

SphoShift ==
  /\ spho.procState = "SHIFT"
  /\ LET s == spho
         start == IF s.activeStart = s.activeEnd THEN 0 ELSE s.activeStart
     IN  spho' =
           IF s.penultima # SphoInvalid
           THEN [s EXCEPT !.headx = SphoShifted(@, s.penultima, 0), !.penultima = 0,
                   !.activeStart = s.activeEnd - s.penultima,
                   !.lastBound = @ - s.penultima,
                   !.suppressParse = FALSE, !.suppressRecomb = FALSE,
                   !.procState = "INIT"]
           ELSE [s EXCEPT !.headx = SphoShifted(@, s.activeEnd, start),
                   !.activeStart = start, !.activeEnd = start,
                   !.lastBound = IF @ >= start THEN @ - (s.activeEnd - start) ELSE @,
                   !.procState = "INIT"]
  /\ SphoInside

SphoStep ==
  \/ SphoStepInit \/ SphoCollect \/ SphoParseEnd \/ SphoParseSentenceEnd
  \/ SphoParseTerm \/ SphoParseItem \/ SphoTransduce \/ SphoTransduced
  \/ SphoBoundsItem \/ SphoBoundsEnd
  \/ SphoRecombEnd \/ SphoRecombContext \/ SphoRecombSideBound \/ SphoRecombItem
  \/ SphoSyl \/ SphoFeedOut \/ SphoShift

SphoNext == SphoFeed \/ SphoTake \/ SphoReset \/ SphoStep

SphoSpec == SphoInit /\ [][SphoNext]_sphoVars
            /\ WF_sphoVars(SphoStep) /\ WF_sphoVars(SphoTake)

-----------------------------------------------------------------------------
\* The window and the positions in it.
SphoTypeOK ==
  /\ spho.procState \in {"INIT", "COLLECT", "PARSE", "TRANSDUCE", "BOUNDS",
                         "RECOMB", "SYL", "FEED", "SHIFT"}
  /\ spho.follow \in {"RECOMB", "SYL", "SHIFT"}
  /\ Len(spho.headx) <= SphoHeadxCap /\ spho.readPos \in 0 .. SphoHeadxCap
  /\ Len(spho.phon) <= SphoPhonCap /\ spho.phonReadPos \in 0 .. Len(spho.phon)
  /\ spho.activeStart \in 0 .. Len(spho.headx)
  /\ {spho.penultima, spho.activeEnd} \subseteq {SphoInvalid} \cup 0 .. SphoHeadxCap
  /\ spho.procState \in {"BOUNDS", "RECOMB", "SYL"} =>
       spho.activeStart <= spho.activeEnd /\ spho.activeEnd <= Len(spho.headx)
  /\ Len(sphoIn) <= SphoInCap /\ Len(sphoOut) <= SphoOutCap

\* A TERM outside a sentence.
SphoLoneTerm(fed, k) ==
  LET prev == SelectLastInSubSeq(fed, 1, k - 1,
                LAMBDA x : SphoIsBound(x) /\ x.info1 \in {"SBEG", "SEND", "TERM"})
  IN  SphoIsBound(fed[k]) /\ fed[k].info1 = "TERM" /\ (prev = 0 \/ fed[prev].info1 # "SBEG")

\* What has to come out for fed, word bounds and the bounds that breaks add left
\* out.
SphoExpected(fed) ==
  LET Of(k) ==
        (IF SphoIsBound(fed[k]) /\ ~SphoLoneTerm(fed, k) THEN <<[kind |-> "bound", id |-> k]>>
         ELSE <<>>)
        \o (IF SphoIsWord(fed[k])
            THEN LET full == SelectSeq([j \in 1 .. Len(fed[k].syls) |-> j],
                                       LAMBDA j : fed[k].syls[j] > 0)
                 IN  [j \in 1 .. Len(full) |->
                        [kind |-> "syl", id |-> k, phones |-> fed[k].syls[full[j]]]]
            ELSE IF SphoLoneTerm(fed, k) \/ (fed[k].type = "CMD" /\ fed[k].info1 # "SIL")
            THEN <<[kind |-> "item", id |-> k]>> ELSE <<>>)
  IN  FlattenSeq([k \in 1 .. Len(fed) |-> Of(k)])

SphoSpoken ==
  LET kept == SelectSeq(sphoSaid, LAMBDA x : x.kind # "bound" \/ SphoIsBound(sphoFed[x.id]))
  IN  [j \in 1 .. Len(kept) |->
         IF kept[j].kind = "bound" THEN [kind |-> "bound", id |-> kept[j].id]
         ELSE IF kept[j].kind = "syl"
         THEN [kind |-> "syl", id |-> kept[j].id, phones |-> kept[j].phones]
         ELSE kept[j]]

\* However the sentence is cut into windows, every syllable, phrase bound and
\* command comes out once and in the order it came in.
SphoInOrder == IsPrefix(SphoSpoken, SphoExpected(sphoFed))

\* A primary bound is never made a word bound, by a transducer or a break, and
\* the bounds of a sentence are not changed.
SphoBoundsKept ==
  \A k \in 1 .. Len(sphoSaid) :
    LET x == sphoSaid[k]
        item == sphoFed[x.id]
    IN  x.kind = "bound" /\ SphoIsBound(item) =>
          /\ item.info1 = "PHR1" => x.strength # "PHR0"
          /\ item.info1 \notin SphoPhraseBounds => x.strength = item.info1

\* A break that precedes a bound or a word gives its whole time, that of several
\* breaks in a row added up, to the bound put out before that item, and to no
\* other one.
SphoSilencesBefore(k) ==
  LET start == SelectLastInSubSeq(sphoFed, 1, k - 1, LAMBDA x : ~SphoIsCmd(x, "SIL"))
  IN  SubSeq(sphoFed, start + 1, k - 1)
SphoBreaksKept ==
  \A j \in 1 .. Len(sphoSaid) :
    LET x == sphoSaid[j]
        sils == SphoSilencesBefore(x.id)
        time == FoldLeft(LAMBDA n, item : n + item.time, 0, sils)
    IN  x.kind = "bound" /\ x.strength \notin {"PHR0", "PHR3"}
        /\ sphoFed[x.id].type # "CMD"
        /\ (x.id > Len(sils) + 1 => sphoFed[x.id - Len(sils) - 1].type # "CMD")
        => x.sildur = IF sils = <<>> THEN -1 ELSE time

\* No step fails: where a word or a bound is expected, its symbol is there.
SphoNoFailure == ~spho.failed

\* The only way to fail is a phoneme buffer that is full when the sentence ends.
SphoFailsOnlyFull == spho.failed => Len(spho.phon) = SphoPhonCap

\* What ends a sentence or flushes the engine gets out: no window makes the unit
\* wait for ever or go round for ever.
SphoAllOut ==
  \A k \in 1 .. Len(sphoFed) :
    SphoClosing(sphoFed[k]) => \E j \in 1 .. Len(sphoSaid) : sphoSaid[j].id = k
=============================================================================
