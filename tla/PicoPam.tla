------------------------------- MODULE PicoPam -------------------------------
(***************************************************************************)
(* Phonetic-acoustic mapping, the control (picopam.c).  pam_step gathers a *)
(* sentence: syllables and pauses in an array, items of other kinds tied   *)
(* to the syllable they follow.  At SEND or TERM, or when the room ends    *)
(* (FORWARD_FORCE_TERM), the sentence is walked again: PROCESS puts the    *)
(* phones of a syllable and then its items out, one per round trip through *)
(* FEED.  An item that comes while no sentence is open goes straight out   *)
(* (IMMEDIATE).                                                            *)
(*                                                                         *)
(* An action is one case of the switch over procState, or one branch of    *)
(* it.  The contents of an item are abstracted to its length and a number  *)
(* that tells it from the others; the phones' features are in PicoPamFeat. *)
(***************************************************************************)
EXTENDS Integers, Sequences, SequencesExt

CONSTANTS
  PamMaxSyll,     \* PICOPAM_MAX_SYLL_PER_SENT
  PamMaxPh,       \* PICOPAM_MAX_PH_PER_SENT
  PamMaxItemSize, \* PICOPAM_MAX_ITEM_SIZE_PER_SENT
  PamOutBufSize,  \* PICODATA_BUFSIZE_PAM
  PamFrameSize,   \* PICOPAM_FRAME_ITEM_SIZE
  PamMenu,        \* the items fed, without their number
  PamMaxFed, PamMaxResets, \* bounds: items fed, resets
  PamGap          \* bound: items between two syllables

PamHead == 4      \* sizeof(picodata_itemhead_t)
PamIds == 256     \* item ids are picoos_uint8

VARIABLES
  pam,      \* the sub object
  pamIn,    \* cbIn: at most one item
  pamOut,   \* cbOut: at most one item
  pamFed,   \* history: the items put into cbIn
  pamSaid,  \* history: what was put into cbOut, and the commands done
  pamResets \* history: the number of resets

pamVars == <<pam, pamIn, pamOut, pamFed, pamSaid, pamResets>>

Untied == [first |-> 0, last |-> 0]   \* ITM and itm

\* pam_reset_processors
PamResetProcessors(p) ==
  [p EXCEPT !.curr = -1, !.sylls = <<>>, !.tied = <<p.tied[1]>>, !.phones = 0,
            !.syllPhoneme = 0, !.sType = "DECLARATIVE", !.pType = "T"]

\* ... and the items tied to syllables, which every caller but SBEG forgets too.
\* What stays is the mark of syllable 0, and the bytes of the items.
PamForget(p) == [PamResetProcessors(p) EXCEPT !.lastId = 0, !.currItem = 0,
                                              !.size = 0, !.own = 0]

\* pam_initialize
PamFresh ==
  [procState |-> "COLLECT", inBuf |-> <<>>, outBuf |-> <<>>,
   curr |-> -1, sylls |-> <<>>, tied |-> <<Untied>>, phones |-> 0, syllPhoneme |-> 0,
   sType |-> "DECLARATIVE", pType |-> "T",
   area |-> {}, offs |-> <<>>, size |-> 0, lastId |-> 0, currItem |-> 0,
   own |-> 0,       \* history: how many items of this sentence syllable 0 has
   refused |-> {},  \* history: the items pam_queue refused
   cuts |-> {}]     \* history: the items that ended a sentence by force

PamInit ==
  /\ pam = PamFresh
  /\ pamIn = <<>> /\ pamOut = <<>>
  /\ pamFed = <<>> /\ pamSaid = <<>> /\ pamResets = 0

(***************************************************************************)
(* Kinds of items                                                          *)
(***************************************************************************)
PamIsBound(item, infos) == item.type = "BOUND" /\ item.info1 \in infos
PamAnyBound == {"SBEG", "SEND", "TERM", "PHR0", "PHR1", "PHR2", "PHR3"}
PamPauseBound == {"SBEG", "SEND", "TERM", "PHR1", "PHR2"}  \* PAM_PHR2_WITH_PR1
is_pam_command(item) == item.type = "CMD" /\ item.info1 \in {"FLUSH", "PITCH", "SPEED"}
is_pam_play_command(item) ==
  item.type = "CMD" /\ item.info1 = "PLAY" /\ item.info2 = "TO_PAM"
isItemToPut(item) ==
  /\ ~(item.type = "CMD" /\ item.info1 = "SPEED")
  /\ ~PamIsBound(item, {"SBEG", "PHR0", "PHR1", "PHR2", "PHR3"})
pam_deal_with(item) == item.type \in {"SYLLPHON", "BOUND"}
pam_hastobe_queued(item) ==
  item.type # "SYLLPHON" /\ ~PamIsBound(item, {"PHR3", "PHR0"})

pam_check_immediate(p, item) ==
  /\ p.curr <= -1
  /\ item.type # "SYLLPHON" /\ ~PamIsBound(item, {"SBEG"}) /\ ~is_pam_command(item)

\* TRUE when the limits are reached.
pamCheckResourceLimits(p, item) ==
  CASE item.type = "SYLLPHON" ->
         p.curr >= PamMaxSyll - 2 \/ p.phones + item.len >= PamMaxPh - 2
    [] PamIsBound(item, PamPauseBound) ->
         p.curr >= PamMaxSyll - 2 \/ p.phones + 1 >= PamMaxPh - 2
    [] item.type = "BOUND" -> FALSE
    [] OTHER -> p.size + item.len >= PamMaxItemSize - 1

(***************************************************************************)
(* Items tied to syllables: sSyllItems, addressed by the offset of an id   *)
(***************************************************************************)
PamItemSize(item) == PamHead + item.len

\* Bytes that are no longer the start of an item.
PamJunk == [type |-> "JUNK", info1 |-> "x", info2 |-> "x", len |-> 0, id |-> 0]
PamItemAt(p, id) ==
  LET at == {x \in p.area : id < Len(p.offs) /\ x.at = p.offs[id + 1]}
  IN  IF at = {} THEN PamJunk ELSE (CHOOSE x \in at : TRUE).item

\* The offset of an id is written over an old one or appended.
PamOffsets(offs, id, at) ==
  IF id < Len(offs) THEN [offs EXCEPT ![id + 1] = at] ELSE Append(offs, at)

\* Mutation of pam_queue: the room is checked before the item is added up.
pam_queueLate(p, item) ==
  LET k == IF p.curr > -1 THEN p.curr + 1 ELSE 1
      id == (p.lastId + 1) % PamIds
  IN  IF p.size >= PamMaxItemSize - 1 THEN [p EXCEPT !.refused = @ \cup {item.id}]
      ELSE [p EXCEPT !.offs = PamOffsets(@, p.lastId, p.size),
                     !.area = @ \cup {[at |-> p.size, item |-> item]},
                     !.size = @ + PamItemSize(item), !.lastId = id,
                     !.own = IF p.curr <= 0 THEN id ELSE @,
                     !.tied[k] = [first |-> IF @.first = 0 THEN id ELSE @.first, last |-> id]]

pam_queue(p, item) ==
  LET end == p.size + PamItemSize(item)
      id == (p.lastId + 1) % PamIds
      k == IF p.curr > -1 THEN p.curr + 1 ELSE 1
  IN  IF end >= PamMaxItemSize - 1
      THEN [p EXCEPT !.refused = @ \cup {item.id}]
      ELSE [p EXCEPT
              !.offs = PamOffsets(@, p.lastId, p.size),
              !.area = {x \in @ : x.at < p.size \/ x.at >= end}
                       \cup {[at |-> p.size, item |-> item]},
              !.size = end, !.lastId = id,
              !.own = IF p.curr <= 0 THEN id ELSE @,
              !.tied[k] = [first |-> IF @.first = 0 THEN id ELSE @.first, last |-> id]]

(***************************************************************************)
(* FORWARD: syllables                                                      *)
(***************************************************************************)
pam_map_sentence_type(item) ==
  IF item.info2 = "Q" THEN "INTERROGATIVE" ELSE "DECLARATIVE"
pam_map_phrase_type(item) ==
  CASE item.info2 = "P" -> IF item.info1 = "PHR3" THEN "p" ELSE "P"
    [] item.info2 = "Q" -> "Y"
    [] OTHER -> "T"

\* pam_create_syllable.  The mark of syllable 0 is not cleaned up.
PamHasRoom(p, phones) ==
  p.curr + 1 <= PamMaxSyll - 1 /\ p.phones + phones <= PamMaxPh - 1
PamCreate(p, syll) ==
  [p EXCEPT !.curr = @ + 1, !.sylls = Append(@, syll), !.phones = @ + syll.phones,
            !.tied = IF p.curr = -1 THEN @ ELSE Append(@, Untied)]
PamPause(p, bnd) ==
  [id |-> 0, phones |-> 1, bnd |-> bnd, sType |-> p.sType, pType |-> p.pType]
PamSyllable(p, item) ==
  [id |-> item.id, phones |-> item.len, bnd |-> "NA", sType |-> p.sType,
   pType |-> p.pType]
PamTyped(p, item) == [p EXCEPT !.sType = pam_map_sentence_type(item),
                               !.pType = pam_map_phrase_type(item)]

\* pam_adapter_forward_step, without the features: how the sub object is left,
\* and what it answers.
PamForward(p, item) ==
  LET Paused(q, res) ==
        IF PamHasRoom(q, 1)
        THEN [res |-> res, p |-> PamCreate(q, PamPause(q, item.info1))]
        ELSE [res |-> "ERR", p |-> q]
      begun == IF p.curr # -1 THEN [res |-> "MORE", p |-> p]
               ELSE LET q == PamResetProcessors(p)
                    IN  [res |-> "MORE", p |-> PamCreate(q, PamPause(q, "SBEG"))]
  IN  CASE PamIsBound(item, {"SBEG"}) ->
             Paused(PamTyped(PamResetProcessors(p), item), "MORE")
        [] PamIsBound(item, {"PHR1", "PHR2"}) -> Paused(PamTyped(p, item), "MORE")
        [] PamIsBound(item, {"PHR3"}) -> [res |-> "MORE", p |-> PamTyped(p, item)]
        [] PamIsBound(item, {"PHR0"}) -> [res |-> "MORE", p |-> p]
        [] PamIsBound(item, {"SEND"}) -> Paused(p, "READY")
        [] PamIsBound(item, {"TERM"}) ->
             IF p.curr = -1 THEN [res |-> "NA", p |-> p] ELSE Paused(p, "READY")
        [] item.type = "SYLLPHON" ->
             IF PamHasRoom(begun.p, item.len)
             THEN [res |-> "MORE", p |-> PamCreate(begun.p, PamSyllable(begun.p, item))]
             ELSE [res |-> "ERR", p |-> begun.p]
        [] OTHER -> [res |-> "NA", p |-> p]

\* pam_adapter_backward_step ends at the first syllable.
PamBackward(p) == [p EXCEPT !.curr = 0, !.syllPhoneme = 0, !.procState = "PROCESS"]

(***************************************************************************)
(* PROCESS: the walk through the syllables                                 *)
(***************************************************************************)
PamHere(p) == p.tied[p.curr + 1]
PamWithin(p) == p.curr > -1 /\ p.curr < Len(p.sylls)
pamHasToProcess(p) == PamWithin(p) /\ p.syllPhoneme < p.sylls[p.curr + 1].phones
pamHasToPop(p) ==
  PamWithin(p) /\ PamHere(p).first > 0 /\ PamHere(p).last > 0
  /\ p.currItem <= PamHere(p).last

pamUpdateProcess(p) ==
  IF p.curr = -1 THEN p
  ELSE LET phones == p.sylls[p.curr + 1].phones
           q == IF p.syllPhoneme = phones - 1 THEN [p EXCEPT !.syllPhoneme = @ + 1]
                ELSE p
       IN  IF p.syllPhoneme < phones - 1 THEN [p EXCEPT !.syllPhoneme = @ + 1]
           ELSE IF PamHere(p).first > 0 /\ p.currItem = 0
           THEN [q EXCEPT !.currItem = PamHere(p).first]
           ELSE IF PamHere(p).first > 0 /\ p.currItem < PamHere(p).last
           THEN [q EXCEPT !.currItem = @ + 1]
           ELSE [q EXCEPT !.curr = @ + 1, !.syllPhoneme = 0,
                          !.currItem = IF p.curr < Len(p.sylls) - 1 THEN 0 ELSE @]

\* pamPopAttachedSy0: is there an item before the first syllable?
PamHasPre(p) ==
  /\ p.curr = 0 /\ PamHere(p).first > 0 /\ PamHere(p).last > 0
  /\ p.currItem > 0 => p.currItem <= PamHere(p).last - 1

\* What goes out, told from what goes out because the mark of syllable 0 is that
\* of an earlier sentence.
PamPut(p, item) ==
  [p EXCEPT !.outBuf = Append(@, [kind |-> "item", id |-> item.id, len |-> item.len,
                                  stale |-> p.curr = 0 /\ p.currItem >= p.own])]
PamDid(p, item) ==
  IF is_pam_command(item)
  THEN <<[kind |-> "done", id |-> item.id, len |-> 0,
          stale |-> p.curr = 0 /\ p.currItem >= p.own]>>
  ELSE <<>>
pamDoCommand(p, item) ==
  IF is_pam_command(item) /\ item.info1 = "FLUSH" THEN PamForget(p) ELSE p
PamFlushes(item) == is_pam_command(item) /\ item.info1 = "FLUSH"

\* pamDoPreSyll
PamPre(p) ==
  LET item == PamItemAt(p, p.currItem)
      sbeg == PamIsBound(item, {"SBEG"})
      put == IF isItemToPut(item) \/ sbeg THEN PamPut(p, item) ELSE p
      res == IF PamFlushes(item) THEN "FLUSH"
             ELSE IF is_pam_command(item) THEN "CONTINUE"
             ELSE IF isItemToPut(item) \/ sbeg THEN "FEED" ELSE "ENDED"
  IN  IF ~PamHasPre(p) THEN [res |-> "ENDED", p |-> p, did |-> <<>>]
      ELSE [res |-> res, did |-> PamDid(p, item),
            p |-> IF res = "FLUSH" THEN pamDoCommand(put, item)
                  ELSE [put EXCEPT !.currItem = @ + 1]]

\* PROCESS waits for room in the output buffer.
PamUsed(outBuf) == FoldLeft(LAMBDA n, x : n + PamHead + x.len, 0, outBuf)
PamProcessing ==
  /\ pam.procState = "PROCESS"
  /\ PamFrameSize + 4 <= PamOutBufSize - PamUsed(pam.outBuf)
PamPreDone == IF pam.curr = 0 THEN PamPre(pam)
              ELSE [res |-> "ENDED", p |-> pam, did |-> <<>>]

PamInside == UNCHANGED <<pamIn, pamOut, pamFed, pamResets>>

PamPreItem ==
  /\ PamProcessing /\ PamPreDone.res # "ENDED"
  /\ pam' = [PamPreDone.p EXCEPT
               !.procState = CASE PamPreDone.res = "FEED" -> "FEED"
                               [] PamPreDone.res = "FLUSH" -> "SCHEDULE"
                               [] OTHER -> "PROCESS"]
  /\ pamSaid' = pamSaid \o PamPreDone.did
  /\ PamInside

\* pamPhoneProcess: the next phone of the syllable.
PamPhone ==
  /\ PamProcessing /\ PamPreDone.res = "ENDED" /\ pamHasToProcess(PamPreDone.p)
  /\ LET p == PamPreDone.p
         phone == [kind |-> "phone", id |-> p.sylls[p.curr + 1].id,
                   nr |-> p.syllPhoneme, len |-> PamFrameSize - PamHead,
                   stale |-> FALSE]
     IN  pam' = pamUpdateProcess([p EXCEPT !.outBuf = Append(@, phone),
                                           !.procState = "FEED"])
  /\ PamInside /\ UNCHANGED pamSaid

\* An item behind the phones of a syllable.
PamPop ==
  /\ PamProcessing /\ PamPreDone.res = "ENDED"
  /\ ~pamHasToProcess(PamPreDone.p) /\ pamHasToPop(PamPreDone.p)
  /\ LET p == PamPreDone.p
         item == PamItemAt(p, p.currItem - 1)
         put == IF isItemToPut(item) THEN [PamPut(p, item) EXCEPT !.procState = "FEED"]
                ELSE p
     IN  /\ pam' = IF PamFlushes(item)
                   THEN [pamDoCommand(put, item) EXCEPT !.procState = "SCHEDULE"]
                   ELSE pamUpdateProcess(put)
         /\ pamSaid' = pamSaid \o PamDid(p, item)
  /\ PamInside

PamProcessed ==
  /\ PamProcessing /\ PamPreDone.res = "ENDED"
  /\ ~pamHasToProcess(PamPreDone.p) /\ ~pamHasToPop(PamPreDone.p)
  /\ pam' = [PamPreDone.p EXCEPT !.procState = "SCHEDULE"]
  /\ PamInside /\ UNCHANGED pamSaid

(***************************************************************************)
(* COLLECT, SCHEDULE, FORWARD, FORWARD_FORCE_TERM, IMMEDIATE and FEED      *)
(***************************************************************************)
PamCollect ==
  /\ pam.procState = "COLLECT" /\ pamIn # <<>>
  /\ pam' = [pam EXCEPT !.inBuf = <<Head(pamIn)>>, !.procState = "SCHEDULE"]
  /\ pamIn' = Tail(pamIn)
  /\ UNCHANGED <<pamOut, pamFed, pamSaid, pamResets>>

PamItem == Head(pam.inBuf)
PamSchedule ==
  /\ pam.procState = "SCHEDULE"
  /\ pam' =
       IF pam.inBuf = <<>> THEN [pam EXCEPT !.procState = "COLLECT"]
       ELSE IF is_pam_play_command(PamItem) THEN [pam EXCEPT !.inBuf = <<>>]
       ELSE IF pam_check_immediate(pam, PamItem)
       THEN [pam EXCEPT !.procState = "IMMEDIATE"]
       ELSE IF pamCheckResourceLimits(pam, PamItem)
       THEN [pam EXCEPT !.procState = "FORWARD_FORCE_TERM"]
       ELSE IF pam_deal_with(PamItem) THEN [pam EXCEPT !.procState = "FORWARD"]
       ELSE [pam_queue(pam, PamItem) EXCEPT !.inBuf = <<>>]
  /\ PamInside /\ UNCHANGED pamSaid

PamStepForward ==
  /\ pam.procState = "FORWARD"
  /\ LET f == PamForward(pam, PamItem)
         p == IF pam_hastobe_queued(PamItem) THEN pam_queue(f.p, PamItem) ELSE f.p
     IN  pam' = CASE f.res = "READY" -> PamBackward([p EXCEPT !.inBuf = <<>>])
                  [] f.res = "MORE" ->
                       [p EXCEPT !.inBuf = <<>>, !.procState = "SCHEDULE"]
                  [] OTHER -> [p EXCEPT !.procState = "IMMEDIATE"]
  /\ PamInside /\ UNCHANGED pamSaid

\* The item at hand is kept.
PamForceTerm ==
  /\ pam.procState = "FORWARD_FORCE_TERM"
  /\ LET term == [type |-> "BOUND", info1 |-> "TERM", info2 |-> "T", len |-> 0, id |-> 0]
         f == PamForward(pam, term)
         p == IF f.res = "READY" THEN PamBackward(pam_queue(f.p, term))
              ELSE [PamForget(f.p) EXCEPT !.procState = "SCHEDULE"]
     IN  pam' = [p EXCEPT !.cuts = @ \cup {PamItem.id}]
  /\ PamInside /\ UNCHANGED pamSaid

PamImmediate ==
  /\ pam.procState = "IMMEDIATE"
  /\ pam' = [pam EXCEPT !.inBuf = <<>>, !.procState = "FEED",
               !.outBuf = Append(@, [kind |-> "item", id |-> PamItem.id,
                                     len |-> PamItem.len, stale |-> FALSE])]
  /\ PamInside /\ UNCHANGED pamSaid

\* One item; behind the last one, back to the sentence or to a new one.
PamFeedOut ==
  /\ pam.procState = "FEED" /\ pamOut = <<>>
  /\ pamOut' = <<Head(pam.outBuf)>> /\ pamSaid' = Append(pamSaid, Head(pam.outBuf))
  /\ LET p == [pam EXCEPT !.outBuf = Tail(@)]
     IN  pam' = IF p.outBuf # <<>> THEN p
                ELSE IF pamHasToProcess(p) \/ pamHasToPop(p)
                THEN [p EXCEPT !.procState = "PROCESS"]
                ELSE [PamForget(p) EXCEPT !.procState = "SCHEDULE"]
  /\ UNCHANGED <<pamIn, pamFed, pamResets>>

PamStep ==
  \/ PamCollect \/ PamSchedule \/ PamStepForward \/ PamForceTerm
  \/ PamPreItem \/ PamPhone \/ PamPop \/ PamProcessed \/ PamImmediate \/ PamFeedOut

(***************************************************************************)
(* The units around it                                                     *)
(***************************************************************************)
\* What PicoSpho may put behind the items of fed: a sentence is an SBEG, then
\* syllables, bounds and other items, then SEND or TERM; TERM may stand alone.
PamMayFollow(fed, item) ==
  LET last == SelectLastInSeq(fed, LAMBDA x : PamIsBound(x, {"SBEG", "SEND", "TERM"}))
      inside == last # 0 /\ fed[last].info1 = "SBEG"
      gap == Len(fed) - SelectLastInSeq(fed, LAMBDA x : x.type = "SYLLPHON"
                                             \/ PamIsBound(x, {"SBEG", "SEND", "TERM"}))
  IN  IF PamIsBound(item, {"SBEG"}) THEN ~inside
      ELSE IF PamIsBound(item, {"TERM"}) THEN TRUE
      ELSE inside /\ (item.type = "SYLLPHON" \/ PamIsBound(item, {"SEND"})
                      \/ gap < PamGap)

\* cbIn is read in COLLECT only and cbOut written in FEED only.
PamFeed ==
  /\ pam.procState = "COLLECT" /\ pamIn = <<>> /\ Len(pamFed) < PamMaxFed
  /\ \E m \in PamMenu :
       /\ PamMayFollow(pamFed, m)
       /\ LET item == m @@ ("id" :> Len(pamFed) + 1)
          IN  pamIn' = <<item>> /\ pamFed' = Append(pamFed, item)
  /\ UNCHANGED <<pam, pamOut, pamSaid, pamResets>>

PamTake ==
  /\ pam.procState = "FEED" /\ pamOut # <<>> /\ pamOut' = <<>>
  /\ UNCHANGED <<pam, pamIn, pamFed, pamSaid, pamResets>>

PamReset ==
  /\ pamResets < PamMaxResets /\ pamResets' = pamResets + 1
  /\ pam' = PamFresh
  /\ pamIn' = <<>> /\ pamOut' = <<>> /\ pamFed' = <<>> /\ pamSaid' = <<>>

PamNext == PamFeed \/ PamTake \/ PamReset \/ PamStep
PamSpec == PamInit /\ [][PamNext]_pamVars /\ WF_pamVars(PamStep) /\ WF_pamVars(PamTake)

-----------------------------------------------------------------------------
\* The room of the arrays: no limit check lets a syllable, a phone or an item
\* in that does not fit, and the walk stays within the sentence.
PamTypeOK ==
  /\ pam.procState \in {"COLLECT", "SCHEDULE", "FORWARD", "FORWARD_FORCE_TERM",
                        "PROCESS", "IMMEDIATE", "FEED"}
  /\ pam.procState \in {"FORWARD", "FORWARD_FORCE_TERM", "IMMEDIATE"} => pam.inBuf # <<>>
  /\ pam.procState = "FEED" => pam.outBuf # <<>>
  /\ Len(pam.sylls) <= PamMaxSyll /\ pam.phones < PamMaxPh
  /\ pam.size < PamMaxItemSize /\ pam.curr \in -1 .. Len(pam.sylls)
  /\ PamUsed(pam.outBuf) <= PamOutBufSize

\* What has to come out for what was fed: a syllable's phones, the items to put
\* and the commands to do.
PamExpected(k) ==
  LET item == pamFed[k]
  IN  IF item.type = "SYLLPHON"
      THEN [n \in 1 .. item.len |-> [kind |-> "phone", id |-> k, nr |-> n - 1]]
      ELSE (IF (isItemToPut(item) \/ PamIsBound(item, {"SBEG"}))
               /\ ~is_pam_play_command(item)
            THEN <<[kind |-> "item", id |-> k]>> ELSE <<>>)
           \o (IF is_pam_command(item) THEN <<[kind |-> "done", id |-> k]>> ELSE <<>>)

\* Is item k in what is left of a sentence that was ended by force?
PamBehindCut(k) ==
  \E c \in pam.cuts : /\ c <= k
    /\ \A i \in c .. k - 1 : ~PamIsBound(pamFed[i], {"SBEG", "SEND", "TERM"})

PamBefore(x, y) == x.id < y.id \/ (x.id = y.id /\ x.kind = "phone" /\ x.nr < y.nr)

\* What goes round by the arrays of the sentence comes out again in the order it
\* came in: phones and items, and commands done between the right phones.
\* Nothing is lost but what pam_queue refused, and commands behind the forced end
\* of a sentence; and only there is anything put out a second time.
PamInOrder ==
  /\ \A last \in {"item", "done"} :
       LET Own(x) == ~x.stale /\ x.id # 0 /\ x.kind \in {"phone", last}
           Due(x) == /\ x.kind \in {"phone", last} /\ x.id \notin pam.refused
                     /\ ~(PamBehindCut(x.id) /\ is_pam_command(pamFed[x.id]))
                     /\ x.kind = "item" => isItemToPut(pamFed[x.id])
           said == SelectSeq(pamSaid, Own)
           due == SelectSeq(FlattenSeq([k \in 1 .. Len(pamFed) |-> PamExpected(k)]), Due)
           done == SelectSeq(said, Due)
       IN  /\ \A i \in 1 .. Len(said) - 1 : PamBefore(said[i], said[i + 1])
           /\ Len(done) <= Len(due)
           /\ \A i \in 1 .. Len(done) :
                /\ done[i].kind = due[i].kind /\ done[i].id = due[i].id
                /\ done[i].kind = "phone" => done[i].nr = due[i].nr
  /\ (\E j \in 1 .. Len(pamSaid) : pamSaid[j].stale) => pam.cuts # {}

\* Every SEND and every TERM gets through, but these: the end of a sentence is never
\* waited for for ever.
PamAllOut(but) ==
  \A k \in 1 .. Len(pamFed) :
    PamIsBound(pamFed[k], {"SEND", "TERM"}) /\ k \notin but
      => \E j \in 1 .. Len(pamSaid) : pamSaid[j].id = k
=============================================================================
