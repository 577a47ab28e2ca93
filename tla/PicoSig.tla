------------------------------- MODULE PicoSig -------------------------------
(***************************************************************************)
(* Signal generation, the control (picosig.c).  sigStep turns each frame   *)
(* of parameters into two frames of samples, obeys the commands that play  *)
(* or save a sound file or modify the voice, and hands everything else on. *)
(*                                                                         *)
(* A frame is spoken two frames late: its parameters go through a ring of  *)
(* three spectra and one of five phases, and the samples are made of the   *)
(* oldest spectrum and the middle phase.  An action is one case of the     *)
(* switch over procState, or one branch of it; the vocoder is the frames   *)
(* it was given, and the modifiers that were set.                          *)
(***************************************************************************)
EXTENDS Integers, Sequences, SequencesExt, FiniteSetsExt

CONSTANTS
  SigCepRing, SigPhsRing, \* CEPST_BUFF_SIZE and PHASE_BUFF_SIZE
  SigSounds,   \* the sound files there are: a function from their names to their frames
  SigMenu,     \* the items fed, without their number
  SigMaxFed, SigMaxResets  \* bounds: items fed, resets

\* The middle phase belongs to the oldest spectrum.  Items are what picodata.h says they
\* are: the names of files are strings, and those of the files there are and of those
\* that end in .wav are not empty.
ASSUME SigAssumption ==
  /\ SigCepRing \in Nat \ {0} /\ SigPhsRing = SigCepRing + 2
  /\ SigSounds \in [DOMAIN SigSounds -> Nat] /\ <<>> \notin DOMAIN SigSounds
  /\ \A m \in SigMenu :
       /\ {"type", "info1", "info2"} \subseteq DOMAIN m
       /\ m.type = "FRAME_PAR" => "phase" \in DOMAIN m
       /\ m.type = "CMD" /\ m.info1 \in {"PLAY", "SAVE"} => "name" \in DOMAIN m /\ m.name \in Seq(Nat)
       /\ m.type = "CMD" /\ m.info1 = "SAVE" =>
            "wav" \in DOMAIN m /\ m.wav \in BOOLEAN /\ (m.wav => m.name # <<>>)
       /\ m.type = "CMD" /\ m.info1 \in {"PITCH", "VOLUME", "SPEAKER"} =>
            "value" \in DOMAIN m /\ m.value \in Int

VARIABLES
  sig,      \* the sub object
  sigIn,    \* cbIn: at most one item
  sigOut,   \* cbOut: at most one item
  sigFile,  \* the frames written to sound files since the last reset, each with the
            \* name of the file and its place in what is put out
  sigFed,   \* history: the items put into cbIn since the last reset
  sigSaid,  \* history: what was put into cbOut since then, and the file it was saved to
  sigPast,  \* history: the rings and modifiers at the last reset, the items fed before
  sigFailed,\* history: was there an error on a file since the last reset?
  sigResets \* history: the number of resets

sigVars == <<sig, sigIn, sigOut, sigFile, sigFed, sigSaid, sigPast, sigFailed, sigResets>>

\* A spectrum, by the frame it is of and whether that frame names a phase.
SigSpectrum(item) == [id |-> item.id, phase |-> item.phase]
SigSilent == [id |-> 0, phase |-> FALSE]

\* The rings, oldest first.  n_available counts up to three.
SigRings ==
  [cep |-> [i \in 1 .. SigCepRing |-> SigSilent], phs |-> [i \in 1 .. SigPhsRing |-> 0],
   n_available |-> 0]

\* What the two resets both do: the files are forgotten, not closed.
SigFresh(rings, modifiers) ==
  [procState |-> "COLLECT", retState |-> "COLLECT", inner |-> "load",
   inBuf |-> <<>>, outBuf |-> <<>>,
   inFile |-> <<>>, inPos |-> 0,         \* sInSDFile, by its name, and sInSDFilePos
   outFile |-> <<>>,                     \* sOutSDFile; outSwitch is 1 if it is there
   rings |-> rings, mods |-> modifiers]

\* pMod, vMod and sMod, in thousandths.
SigModifiers == [PITCH |-> 1000, VOLUME |-> 500, SPEAKER |-> 1000]

SigInit ==
  /\ sig = SigFresh(SigRings, SigModifiers)
  /\ sigIn = <<>> /\ sigOut = <<>> /\ sigFile = <<>> /\ sigFed = <<>> /\ sigSaid = <<>>
  /\ sigPast = [rings |-> SigRings, mods |-> SigModifiers, fed |-> 0]
  /\ sigFailed = FALSE /\ sigResets = 0

-----------------------------------------------------------------------------
\* A record with one more field.
SigWith(what, field, value) ==
  [f \in DOMAIN what \cup {field} |-> IF f = field THEN value ELSE what[f]]

SigModifies(item) == item.type = "CMD" /\ item.info1 \in DOMAIN SigModifiers
sig_is_command(item) ==
  \/ /\ item.type = "CMD" /\ item.info1 \in {"PLAY", "SAVE", "UNSAVE"}
     /\ item.info2 = "TO_SIG"
  \/ SigModifies(item)
sig_deal_with(item) == item.type = "FRAME_PAR" \/ sig_is_command(item)

SigInside == UNCHANGED <<sigIn, sigOut, sigFile, sigFed, sigSaid, sigPast, sigResets>>
SigItem == Head(sig.inBuf)
SigConsumed == [sig EXCEPT !.inBuf = <<>>, !.procState = "COLLECT", !.retState = "COLLECT"]

SigCollect ==
  /\ sig.procState = "COLLECT" /\ sigIn # <<>>   \* else PICODATA_PU_IDLE
  /\ sig' = [sig EXCEPT !.inBuf = sigIn, !.procState = "SCHEDULE"]
  /\ sigIn' = <<>>
  /\ UNCHANGED <<sigOut, sigFile, sigFed, sigSaid, sigPast, sigFailed, sigResets>>

(***************************************************************************)
(* SCHEDULE                                                                *)
(***************************************************************************)
SigScheduled(command) ==
  sig.procState = "SCHEDULE" /\ SigItem.type = "CMD" /\ sig_is_command(SigItem)
  /\ SigItem.info1 = command

SigScheduleFrame ==
  /\ sig.procState = "SCHEDULE" /\ SigItem.type = "FRAME_PAR"
  /\ sig' = [sig EXCEPT !.procState = "PROCESS", !.retState = "COLLECT"]
  /\ SigInside /\ UNCHANGED sigFailed

SigScheduleOther ==
  /\ sig.procState = "SCHEDULE" /\ ~sig_deal_with(SigItem)
  /\ sig' = [SigConsumed EXCEPT !.outBuf = <<[kind |-> "item", id |-> SigItem.id]>>,
                                !.procState = "FEED"]
  /\ SigInside /\ UNCHANGED sigFailed

\* picoos_strncmp of the two names over the length of the first: is it where the
\* second begins?
SigSameName(name, other) == IsPrefix(name, other)

SigSchedulePlay ==
  /\ SigScheduled("PLAY")
  /\ sig' = IF sig.inFile # <<>>
               \/ (sig.outFile # <<>> /\ SigSameName(SigItem.name, sig.outFile))
               \/ SigItem.name \notin DOMAIN SigSounds
            THEN SigConsumed
            ELSE [SigConsumed EXCEPT !.inFile = SigItem.name, !.inPos = 0,
                                     !.procState = "PLAY", !.retState = "PLAY"]
  /\ SigInside /\ UNCHANGED sigFailed

\* picoos_sdfOpenOut may fail; a name without the extension .wav is not taken.
SigScheduleSave ==
  /\ SigScheduled("SAVE")
  /\ \/ /\ sig.outFile = <<>> /\ SigItem.wav
        /\ ~(sig.inFile # <<>> /\ SigSameName(sig.inFile, SigItem.name))
        /\ sig' = [SigConsumed EXCEPT !.outFile = SigItem.name]
        /\ UNCHANGED sigFailed
     \/ /\ sig.outFile # <<>> \/ ~SigItem.wav
        /\ sig' = SigConsumed /\ UNCHANGED sigFailed
     \/ /\ sig.outFile = <<>> /\ SigItem.wav
        /\ sig' = SigConsumed /\ sigFailed' = TRUE
  /\ SigInside

SigScheduleUnsave ==
  /\ SigScheduled("UNSAVE")
  /\ sig' = [SigConsumed EXCEPT !.outFile = <<>>]
  /\ SigInside /\ UNCHANGED sigFailed

\* Mutation of SigModified: the modifier multiplies the one there was.
SigModifiedOnTop(mods, item) ==
  [mods EXCEPT ![item.info1] = IF item.info2 = "a" THEN 10 * item.value
                               ELSE IF item.info2 = "r" THEN (@ * item.value) \div 1000
                               ELSE @]

\* 'a' gives hundredths and 'r' thousandths, both of the voice's own value.
SigModified(mods, item) ==
  [mods EXCEPT ![item.info1] = IF item.info2 = "a" THEN 10 * item.value
                               ELSE IF item.info2 = "r" THEN item.value
                               ELSE @]
SigScheduleModify ==
  /\ sig.procState = "SCHEDULE" /\ SigModifies(SigItem)
  /\ sig' = [SigConsumed EXCEPT !.mods = SigModified(@, SigItem)]
  /\ SigInside /\ UNCHANGED sigFailed

(***************************************************************************)
(* PROCESS                                                                 *)
(***************************************************************************)
SigShift(ring, new) == Append(Tail(ring), new)

\* Mutation of SigLoaded: the first frame is loaded only once.
SigLoadedOnce(rings, item) ==
  [cep |-> SigShift(rings.cep, SigSpectrum(item)),
   phs |-> SigShift(rings.phs, IF item.phase THEN item.id ELSE 0),
   n_available |-> 3]

\* The frame's spectrum and, if it names one, its phase.
SigLoaded(rings, item) ==
  [cep |-> SigShift(rings.cep, SigSpectrum(item)),
   phs |-> SigShift(rings.phs, IF item.phase THEN item.id ELSE 0),
   n_available |-> IF rings.n_available < 3 THEN rings.n_available + 1 ELSE 3]

\* The same item is loaded again until three frames are there.
SigProcessLoad ==
  /\ sig.procState = "PROCESS" /\ sig.inner = "load"
  /\ LET new == SigLoaded(sig.rings, SigItem)
     IN  sig' = [sig EXCEPT !.rings = new, !.inner = IF new.n_available < 3 THEN "load" ELSE "make"]
  /\ SigInside /\ UNCHANGED sigFailed

\* Mutation of SigMade: the phase in front of the middle is taken.
SigMadeSkewed(half) ==
  [kind |-> "frame", cep |-> sig.rings.cep[1], phs |-> sig.rings.phs[4], half |-> half,
   mods |-> sig.mods]

\* save_transition_frame ... overlap_add, and the two items of case 9.
SigMade(half) ==
  [kind |-> "frame", cep |-> sig.rings.cep[1], phs |-> sig.rings.phs[3], half |-> half,
   mods |-> sig.mods]
SigProcessMake ==
  /\ sig.procState = "PROCESS" /\ sig.inner = "make"
  /\ sig' = [SigConsumed EXCEPT !.inner = "load", !.outBuf = <<SigMade(1), SigMade(2)>>,
                                !.procState = "FEED"]
  /\ SigInside /\ UNCHANGED sigFailed

(***************************************************************************)
(* PLAY                                                                    *)
(***************************************************************************)
SigPlayFrame ==
  /\ sig.procState = "PLAY" /\ sig.inPos < SigSounds[sig.inFile]
  /\ sig' = [sig EXCEPT
       !.inPos = @ + 1, !.procState = "FEED", !.retState = "PLAY",
       !.outBuf = <<[kind |-> "sound", name |-> sig.inFile, nr |-> sig.inPos + 1,
                     mods |-> sig.mods]>>]
  /\ SigInside /\ UNCHANGED sigFailed

SigPlayEnd ==
  /\ sig.procState = "PLAY" /\ sig.inPos >= SigSounds[sig.inFile]
  /\ sig' = [sig EXCEPT !.inFile = <<>>, !.procState = "COLLECT", !.retState = "COLLECT"]
  /\ SigInside /\ UNCHANGED sigFailed

(***************************************************************************)
(* FEED                                                                    *)
(***************************************************************************)
SigWrites == sig.outFile # <<>> /\ Head(sig.outBuf).kind # "item"
SigWritten ==
  Append(sigFile, [name |-> sig.outFile, at |-> Len(sigSaid) + 1, frame |-> Head(sig.outBuf)])

\* Mutation of SigFeedPut: a frame that is saved is not put out.
SigFeedPutElsewhere ==
  /\ sig.procState = "FEED" /\ sigOut = <<>>
  /\ sigFile' = IF SigWrites THEN SigWritten ELSE sigFile
  /\ sigOut' = IF SigWrites THEN <<>> ELSE <<Head(sig.outBuf)>>
  /\ sigSaid' = IF SigWrites THEN sigSaid
                ELSE Append(sigSaid, SigWith(Head(sig.outBuf), "saved", sig.outFile))
  /\ sig' = [sig EXCEPT !.outBuf = Tail(@),
                        !.procState = IF Len(sig.outBuf) > 1 THEN @ ELSE sig.retState]
  /\ UNCHANGED <<sigIn, sigFed, sigPast, sigFailed, sigResets>>

\* The first item of outBuf; a frame goes to the file as well.
SigFeedPut ==
  /\ sig.procState = "FEED" /\ sigOut = <<>>
  /\ sigFile' = IF SigWrites THEN SigWritten ELSE sigFile
  /\ sigOut' = <<Head(sig.outBuf)>>
  /\ sigSaid' = Append(sigSaid, SigWith(Head(sig.outBuf), "saved", sig.outFile))
  /\ sig' = [sig EXCEPT !.outBuf = Tail(@),
                        !.procState = IF Len(sig.outBuf) > 1 THEN @ ELSE sig.retState]
  /\ UNCHANGED <<sigIn, sigFed, sigPast, sigFailed, sigResets>>

\* PICODATA_PU_OUT_FULL: the frame stays in outBuf, and has been written to the file.
SigFeedFull ==
  /\ sig.procState = "FEED" /\ sigOut # <<>> /\ SigWrites
  /\ ~\E i \in DOMAIN sigFile : sigFile[i].at = Len(sigSaid) + 1  \* bound: once
  /\ sigFile' = SigWritten
  /\ UNCHANGED <<sig, sigIn, sigOut, sigFed, sigSaid, sigPast, sigFailed, sigResets>>

\* picoos_sdfPutSamples fails: the file is closed and all of outBuf dropped.
SigFeedError ==
  /\ sig.procState = "FEED" /\ SigWrites
  /\ sig' = [sig EXCEPT !.outFile = <<>>, !.outBuf = <<>>, !.procState = sig.retState]
  /\ sigFailed' = TRUE
  /\ SigInside

SigStep ==
  \/ SigCollect \/ SigScheduleFrame \/ SigScheduleOther \/ SigSchedulePlay \/ SigScheduleSave
  \/ SigScheduleUnsave \/ SigScheduleModify \/ SigProcessLoad \/ SigProcessMake
  \/ SigPlayFrame \/ SigPlayEnd \/ SigFeedPut \/ SigFeedFull \/ SigFeedError

(***************************************************************************)
(* The units around it                                                     *)
(***************************************************************************)
SigFeed ==
  /\ sig.procState = "COLLECT" /\ sigIn = <<>> /\ sigPast.fed + Len(sigFed) < SigMaxFed
  /\ \E m \in SigMenu :
       LET item == SigWith(m, "id", sigPast.fed + Len(sigFed) + 1)
       IN  sigIn' = <<item>> /\ sigFed' = Append(sigFed, item)
  /\ UNCHANGED <<sig, sigOut, sigFile, sigSaid, sigPast, sigFailed, sigResets>>

SigTake ==
  /\ sig.procState = "FEED" /\ sigOut # <<>> /\ sigOut' = <<>>
  /\ UNCHANGED <<sig, sigIn, sigFile, sigFed, sigSaid, sigPast, sigFailed, sigResets>>

\* sigInitialize: only a full reset (of an engine after an error) clears the rings.
SigReset ==
  /\ sigResets < SigMaxResets /\ sigResets' = sigResets + 1
  /\ \E mode \in {"SOFT", "FULL"} :
       LET rings == IF mode = "SOFT" THEN sig.rings ELSE SigRings
           mods  == IF mode = "SOFT" THEN sig.mods ELSE SigModifiers
       IN  /\ sig' = SigFresh(rings, mods)
           /\ sigPast' = [rings |-> rings, mods |-> mods, fed |-> sigPast.fed + Len(sigFed)]
  /\ sigIn' = <<>> /\ sigOut' = <<>> /\ sigFile' = <<>> /\ sigFed' = <<>> /\ sigSaid' = <<>>
  /\ sigFailed' = FALSE

SigNext == SigFeed \/ SigTake \/ SigReset \/ SigStep
SigSpec == SigInit /\ [][SigNext]_sigVars /\ WF_sigVars(SigStep) /\ WF_sigVars(SigTake)

-----------------------------------------------------------------------------
(* What has to come out for fed, the items fed since the last reset, with past left *)
(* by what was before.                                                             *)

SigLast(places) == IF places = {} THEN 0 ELSE Max(places)
SigCommand(item, command) == sig_is_command(item) /\ item.info1 = command

\* Is a file saved to while item k is dealt with?  It is that of the first SAVE
\* behind the last UNSAVE.
SigSavedTo(fed, k) ==
  LET closed == SigLast({j \in 1 .. k - 1 : SigCommand(fed[j], "UNSAVE")})
      opened == {j \in closed + 1 .. k - 1 : SigCommand(fed[j], "SAVE") /\ fed[j].wav}
  IN  IF opened = {} THEN <<>> ELSE fed[Min(opened)].name

\* What the modifiers were last set to before item k.
SigSets(item, m) == SigModifies(item) /\ item.info1 = m /\ item.info2 \in {"a", "r"}
SigModsAt(fed, past, k) ==
  [m \in DOMAIN SigModifiers |->
     LET j == SigLast({i \in 1 .. k - 1 : SigSets(fed[i], m)})
     IN  IF j = 0 THEN past.mods[m]
         ELSE (IF fed[j].info2 = "a" THEN 10 ELSE 1) * fed[j].value]

\* The frames up to item k as they were loaded, those left by an earlier text in
\* front: the first one fills the ring.
SigIsFrame(item) == item.type = "FRAME_PAR"
SigFills(available) == IF available < 2 THEN 3 - available ELSE 1
SigLoading(fed, past, j) ==
  IF SigIsFrame(fed[j])
  THEN [i \in 1 .. IF \E e \in 1 .. j - 1 : SigIsFrame(fed[e]) THEN 1
                   ELSE SigFills(past.rings.n_available) |-> SigSpectrum(fed[j])]
  ELSE <<>>
SigLoads(fed, past, k) ==
  past.rings.cep \o FlattenSeq([j \in 1 .. k |-> SigLoading(fed, past, j)])

\* The frame that stands so far before the last one that it is the oldest of a ring.
SigOldest(loads) == loads[Len(loads) - SigCepRing + 1]

SigSounded(fed, past, k, n) ==
  [nr \in 1 .. n |->
     [kind |-> "sound", name |-> fed[k].name, nr |-> nr, mods |-> SigModsAt(fed, past, k),
      saved |-> SigSavedTo(fed, k)]]
SigHeard(fed, past, k) ==
  LET saved == SigSavedTo(fed, k)
  IN  CASE SigIsFrame(fed[k]) ->
             [half \in 1 .. 2 |->
                [kind |-> "frame", cep |-> SigOldest(SigLoads(fed, past, k)), half |-> half,
                 mods |-> SigModsAt(fed, past, k), saved |-> saved]]
        [] SigCommand(fed[k], "PLAY") ->
             IF \/ fed[k].name \notin DOMAIN SigSounds
                \/ (saved # <<>> /\ SigSameName(fed[k].name, saved))
             THEN <<>> ELSE SigSounded(fed, past, k, SigSounds[fed[k].name])
        [] ~sig_deal_with(fed[k]) -> <<[kind |-> "item", id |-> fed[k].id, saved |-> saved]>>
        [] OTHER -> <<>>
SigExpected(fed, past, n) == FlattenSeq([k \in 1 .. n |-> SigHeard(fed, past, k)])

\* A frame without the phase it was made with.
SigBare(what) == [f \in DOMAIN what \ {"phs"} |-> what[f]]

\* Every frame of parameters is heard two frames late, each item and each sound in its
\* place, with the modifiers set before it, and saved to the file open at that time.
SigInOrder ==
  \/ sigFailed
  \/ IsPrefix([i \in DOMAIN sigSaid |-> SigBare(sigSaid[i])],
              SigExpected(sigFed, sigPast, Len(sigFed)))

\* A frame is made of the spectrum and the phase of the same parameters.
SigAligned ==
  \A i \in DOMAIN sigSaid :
    sigSaid[i].kind = "frame" =>
      sigSaid[i].phs = IF sigSaid[i].cep.phase THEN sigSaid[i].cep.id ELSE 0

\* What is heard while a file is open is in that file, in the same order, and nothing
\* else is, though a frame that found cbOut full is written again when it is put out;
\* and the file that is played is never the one that is written.
SigSaves ==
  /\ \A i \in 2 .. Len(sigFile) : sigFile[i - 1].at <= sigFile[i].at
  /\ \A i \in DOMAIN sigSaid :
       (sigSaid[i].saved # <<>> /\ sigSaid[i].kind # "item") =>
         \E e \in DOMAIN sigFile : sigFile[e].at = i
  /\ \A e \in DOMAIN sigFile :
       \/ sigFile[e].at > Len(sigSaid) \/ sigFailed
       \/ sigSaid[sigFile[e].at] = SigWith(sigFile[e].frame, "saved", sigFile[e].name)
  /\ sig.inFile # <<>> => sig.inFile # sig.outFile

\* What is heard is what was fed, in its order; what is saved is what is heard; and a
\* frame's spectrum and phase belong together.
SigSound == SigInOrder /\ SigAligned /\ SigSaves

\* Every item that is not for this unit gets out.
SigAllOut ==
  \A k \in 1 .. Len(sigFed) :
    sig_deal_with(sigFed[k])
    \/ \E i \in DOMAIN sigSaid : sigSaid[i].kind = "item" /\ sigSaid[i].id = sigFed[k].id
=============================================================================
