------------------------------- MODULE PicoCep -------------------------------
(***************************************************************************)
(* Cepstral smoothing, the control (picocep.c).  cepStep turns phones into *)
(* frames: the frames of a sentence are gathered as indices into the       *)
(* densities, other items are kept with the frame they belong to, and at   *)
(* SEND or TERM all of it is smoothed and put out, frame by frame.         *)
(*                                                                         *)
(* An action is one case of the switch over procState, or one branch of    *)
(* it.  What smoothing computes is in PicoSmooth.                          *)
(***************************************************************************)
EXTENDS Integers, Sequences, SequencesExt

CONSTANTS
  CepMaxWin,   \* PICOCEP_MAXWINLEN
  CepHeadxCap, \* PICOCEP_MAXNR_HEADX
  CepCbufCap,  \* PICOCEP_MAXSIZE_CBUF
  CepMenu,     \* the items fed, without their number
  CepMaxFed, CepMaxResets, \* bounds: items fed, resets
  CepMaxSaid   \* bound: items put out (only a sentence that is jammed reaches it)

\* An item has a type, and a phone names how many frames each of its states lasts.
ASSUME CepAssumption ==
  /\ CepMaxWin \in Nat /\ CepHeadxCap \in Nat
  /\ \A m \in CepMenu :
       "type" \in DOMAIN m /\ (m.type = "PHONE" => "states" \in DOMAIN m /\ m.states \in Seq(Nat))

VARIABLES
  cep,      \* the sub object
  cepIn,    \* cbIn: at most one item
  cepOut,   \* cbOut: at most one item
  cepFed,   \* history: the items put into cbIn
  cepSaid,  \* history: what was put into cbOut
  cepResets \* history: the number of resets

cepVars == <<cep, cepIn, cepOut, cepFed, cepSaid, cepResets>>

\* cepInitialize
CepFresh ==
  [procState |-> "COLLECT", follow |-> "PARSE", ignore |-> FALSE, sentenceEnd |-> FALSE,
   inBuf |-> <<>>, headx |-> <<>>, bottom |-> 0, cbuf |-> 0,
   index |-> <<>>,            \* indicesLFZ, indicesMGC and phoneId
   readPos |-> 0, activeEnd |-> CepMaxWin, outBuf |-> <<>>,
   jammed |-> FALSE]          \* history: was there no room for an item?

CepInit ==
  /\ cep = CepFresh
  /\ cepIn = <<>> /\ cepOut = <<>> /\ cepFed = <<>> /\ cepSaid = <<>> /\ cepResets = 0

CepIgnsig(item, info2) == item.type = "CMD" /\ item.info1 = "IGNSIG" /\ item.info2 = info2
CepCloses(item) == item.type = "BOUND" /\ item.info1 \in {"SEND", "TERM"}
forwardingItem(item) == ~(item.type = "CMD" /\ item.info1 = "IGNSIG")

\* treat_phone: as many frames as fit, up to the end of the phone.
CepFramesOf(item) ==
  FlattenSeq([s \in 1 .. Len(item.states) |->
                [f \in 1 .. item.states[s] |->
                   [kind |-> "frame", id |-> item.id, state |-> s, nr |-> f]]])
treat_phone(c, item) ==
  LET room == CepMaxWin - Len(c.index)
      frames == CepFramesOf(item)
  IN  [c EXCEPT !.index = @ \o SubSeq(frames, 1, IF room < Len(frames) THEN room
                                                 ELSE Len(frames))]

CepInside == UNCHANGED <<cepIn, cepOut, cepFed, cepSaid, cepResets>>
CepItem == Head(cep.inBuf)
CepConsumed == [cep EXCEPT !.inBuf = <<>>]
CepPut(c, what, follow) ==
  [c EXCEPT !.outBuf = <<what>>, !.follow = follow, !.procState = "FEED"]

CepCollect ==
  /\ cep.procState = "COLLECT" /\ cepIn # <<>>   \* else PICODATA_PU_IDLE
  /\ cep' = [cep EXCEPT !.inBuf = cepIn, !.procState = "PARSE"]
  /\ cepIn' = <<>>
  /\ UNCHANGED <<cepOut, cepFed, cepSaid, cepResets>>

(***************************************************************************)
(* PARSE                                                                   *)
(***************************************************************************)
CepParsing == cep.procState = "PARSE" /\ cep.inBuf # <<>>

CepParseEnd ==
  /\ cep.procState = "PARSE" /\ cep.inBuf = <<>>
  /\ cep' = [cep EXCEPT !.procState = "COLLECT"]
  /\ CepInside

CepParseIgnored ==
  /\ CepParsing /\ cep.ignore
  /\ cep' = [CepConsumed EXCEPT !.ignore = ~CepIgnsig(CepItem, "END")]
  /\ CepInside

\* The item is looked at again when the sentence is out.
CepParseClose ==
  /\ CepParsing /\ ~cep.ignore /\ CepCloses(CepItem) /\ cep.index # <<>>
  /\ cep' = [cep EXCEPT !.activeEnd = Len(cep.index), !.sentenceEnd = TRUE,
                        !.procState = "SMOOTH"]
  /\ CepInside

CepParsePhone ==
  /\ CepParsing /\ ~cep.ignore /\ CepItem.type = "PHONE"
  /\ cep' = [treat_phone(cep, CepItem) EXCEPT !.inBuf = <<>>]
  /\ CepInside

CepHasRoom ==
  Len(cep.headx) < CepHeadxCap /\ cep.cbuf + CepItem.len < CepCbufCap

\* Any other item: at once if there are no frames; kept with the frame it comes
\* behind; or, without room for it, the frames so far go out first.
CepParseOther ==
  /\ CepParsing /\ ~cep.ignore /\ CepItem.type # "PHONE"
  /\ ~(CepCloses(CepItem) /\ cep.index # <<>>)
  /\ LET this == [kind |-> "item", id |-> CepItem.id]
     IN  cep' = IF ~forwardingItem(CepItem)
                THEN [CepConsumed EXCEPT !.ignore = CepIgnsig(CepItem, "START")]
                ELSE IF cep.index = <<>> THEN CepPut(CepConsumed, this, "PARSE")
                ELSE IF CepHasRoom
                THEN [CepConsumed EXCEPT
                        !.headx = Append(@, [what |-> this, frame |-> Len(cep.index)]),
                        !.cbuf = @ + CepItem.len]
                ELSE [cep EXCEPT !.procState = "SMOOTH", !.jammed = TRUE]
  /\ CepInside

(***************************************************************************)
(* SMOOTH, FRAME and FEED                                                  *)
(***************************************************************************)
CepSmooth ==
  /\ cep.procState = "SMOOTH"
  /\ cep' = [cep EXCEPT !.readPos = 0, !.procState = "FRAME"]
  /\ CepInside

\* Mutation of CepHeadDue: an item is due one frame later.
CepHeadDueLate ==
  cep.bottom < Len(cep.headx) /\ cep.headx[cep.bottom + 1].frame < cep.readPos

CepHeadDue ==
  cep.bottom < Len(cep.headx) /\ cep.headx[cep.bottom + 1].frame <= cep.readPos

CepFrameItem ==
  /\ cep.procState = "FRAME" /\ CepHeadDue
  /\ cep' = CepPut([cep EXCEPT !.bottom = @ + 1], cep.headx[cep.bottom + 1].what, "FRAME")
  /\ CepInside

\* Behind the frames gathered the index arrays hold what an earlier sentence, or
\* nobody, left there.
CepFrameAt(k) == IF k <= Len(cep.index) THEN cep.index[k] ELSE [kind |-> "junk", id |-> 0]
CepFrame ==
  /\ cep.procState = "FRAME" /\ ~CepHeadDue /\ cep.readPos < cep.activeEnd
  /\ cep' = CepPut([cep EXCEPT !.readPos = @ + 1], CepFrameAt(cep.readPos + 1), "FRAME")
  /\ CepInside

\* Mutation of CepCleared: the frames of the sentence stay.
CepClearedHalf(c) == [c EXCEPT !.sentenceEnd = FALSE, !.readPos = 0, !.activeEnd = CepMaxWin,
                               !.headx = <<>>, !.bottom = 0, !.cbuf = 0]

CepCleared(c) == [c EXCEPT !.sentenceEnd = FALSE, !.index = <<>>, !.readPos = 0,
                           !.activeEnd = CepMaxWin, !.headx = <<>>, !.bottom = 0,
                           !.cbuf = 0]
CepFramesEnd ==
  /\ cep.procState = "FRAME" /\ ~CepHeadDue /\ cep.readPos >= cep.activeEnd
  /\ cep' = [IF cep.sentenceEnd THEN CepCleared(cep) ELSE cep EXCEPT !.procState = "PARSE"]
  /\ CepInside

CepFeedOut ==
  /\ cep.procState = "FEED" /\ Len(cepSaid) < CepMaxSaid
  /\ cepOut = <<>>   \* else PICODATA_PU_OUT_FULL
  /\ cepOut' = cep.outBuf /\ cepSaid' = cepSaid \o cep.outBuf
  /\ cep' = [cep EXCEPT !.procState = cep.follow]
  /\ UNCHANGED <<cepIn, cepFed, cepResets>>

CepStep ==
  \/ CepCollect \/ CepParseEnd \/ CepParseIgnored \/ CepParseClose \/ CepParsePhone
  \/ CepParseOther \/ CepSmooth \/ CepFrameItem \/ CepFrame \/ CepFramesEnd \/ CepFeedOut

(***************************************************************************)
(* The units around it                                                     *)
(***************************************************************************)
CepNumbered(m, id) == [f \in DOMAIN m \cup {"id"} |-> IF f = "id" THEN id ELSE m[f]]

\* cbIn is read in COLLECT only and cbOut written in FEED only.
CepFeed ==
  /\ cep.procState = "COLLECT" /\ cepIn = <<>> /\ Len(cepFed) < CepMaxFed
  /\ \E m \in CepMenu :
       LET item == CepNumbered(m, Len(cepFed) + 1)
       IN  cepIn' = <<item>> /\ cepFed' = Append(cepFed, item)
  /\ UNCHANGED <<cep, cepOut, cepSaid, cepResets>>

CepTake ==
  /\ cep.procState = "FEED" /\ cepOut # <<>> /\ cepOut' = <<>>
  /\ UNCHANGED <<cep, cepIn, cepFed, cepSaid, cepResets>>

CepReset ==
  /\ cepResets < CepMaxResets /\ cepResets' = cepResets + 1
  /\ cep' = CepFresh
  /\ cepIn' = <<>> /\ cepOut' = <<>> /\ cepFed' = <<>> /\ cepSaid' = <<>>

CepNext == CepFeed \/ CepTake \/ CepReset \/ CepStep
CepSpec == CepInit /\ [][CepNext]_cepVars /\ WF_cepVars(CepStep) /\ WF_cepVars(CepTake)

-----------------------------------------------------------------------------
\* What has to come out for the first n items of fed: between IGNSIG commands nothing,
\* else the frames of a phone as far as the window of its sentence reaches, and the item
\* itself.
CepAddition(a, item) ==
  LET room == CepMaxWin - a.frames
      all == CepFramesOf(item)
  IN  IF a.ignored \/ ~forwardingItem(item) THEN <<>>
      ELSE IF item.type = "PHONE"
      THEN SubSeq(all, 1, IF room < Len(all) THEN room ELSE Len(all))
      ELSE <<[kind |-> "item", id |-> item.id]>>
CepAdd(a, item) ==
  LET more == CepAddition(a, item)
  IN  [out |-> a.out \o more,
       frames |-> IF CepCloses(item) /\ ~a.ignored THEN 0
                  ELSE IF item.type = "PHONE" THEN a.frames + Len(more) ELSE a.frames,
       ignored |-> IF a.ignored THEN ~CepIgnsig(item, "END") ELSE CepIgnsig(item, "START")]
CepNothing == [out |-> <<>>, frames |-> 0, ignored |-> FALSE]
CepTold(fed) ==
  LET a[n \in 0 .. Len(fed)] == IF n = 0 THEN CepNothing ELSE CepAdd(a[n - 1], fed[n])
  IN  a
CepIgnored(fed, k) == CepTold(fed)[k - 1].ignored
CepExpected(fed) == CepTold(fed)[Len(fed)].out

\* An item that finds no room in the middle of a sentence is never taken: the unit
\* smooths, puts all the frames of its window out and looks at the item again, for ever.
CepGoesRound ==
  /\ cep.inBuf # <<>> /\ cep.procState # "COLLECT"
  /\ ~cep.ignore /\ CepItem.type # "PHONE" /\ ~CepCloses(CepItem) /\ forwardingItem(CepItem)
  /\ cep.index # <<>> /\ ~CepHasRoom /\ ~cep.sentenceEnd

\* Frames and items come out once, in the order they came in, each item between
\* the frames of the phones around it, until there is no room for an item.  Then, and
\* only then, the unit goes round.
CepInOrder ==
  /\ cep.jammed \/ IsPrefix(cepSaid, CepExpected(cepFed))
  /\ cep.jammed => CepGoesRound
  /\ Len(cep.index) <= CepMaxWin /\ Len(cep.headx) <= CepHeadxCap

\* When it does, all it had gathered comes out first, in order, and then frames only.
CepGatheredOut ==
  cep.jammed =>
    LET gathered == CepExpected(Front(cepFed))
    IN  /\ IsPrefix(cepSaid, gathered) \/ IsPrefix(gathered, cepSaid)
        /\ \A j \in Len(gathered) + 1 .. Len(cepSaid) : cepSaid[j].kind # "item"

\* Each end of a sentence gets out.
CepAllOut ==
  \A k \in 1 .. Len(cepFed) :
    CepCloses(cepFed[k]) /\ ~CepIgnored(cepFed, k)
      => \E j \in 1 .. Len(cepSaid) : cepSaid[j].id = k /\ cepSaid[j].kind = "item"
=============================================================================
