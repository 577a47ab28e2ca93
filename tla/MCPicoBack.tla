----------------------------- MODULE MCPicoBack -----------------------------
(***************************************************************************)
(* Instances of the units between accentuation and the signal: sentence    *)
(* phonology, phonetic-acoustic mapping with its features, phones and      *)
(* durations, the cepstrum's window and smoothing, and signal generation.  *)
(* They are checked each on its own, with the units around it as its       *)
(* environment: unit says which one a behaviour is about.                  *)
(***************************************************************************)
EXTENDS PicoSpho, PicoPam, PicoPamFeat, PicoPhone, PicoCep, PicoSmooth, PicoSig

CONSTANT Units   \* those a run is about

VARIABLE unit

Item(type, info1, info2, len) == [type |-> type, info1 |-> info1, info2 |-> info2, len |-> len]

-----------------------------------------------------------------------------
(* The items that are fed. *)

MCSphoMenu ==
  {Item("BOUND", "SBEG", "T", 0), Item("BOUND", "SEND", "NA", 0), Item("BOUND", "TERM", "NA", 0),
   Item("BOUND", "PHR1", "P", 0), Item("CMD", "SAVE", "x", 1),
   Item("CMD", "SIL", "x", 2) @@ [time |-> 60],
   Item("WORDPHON", "x", "x", 1) @@ [syls |-> <<1, 0, 1>>]}

MCPamMenu ==
  {Item("BOUND", "SBEG", "Q", 0), Item("BOUND", "SEND", "NA", 0), Item("BOUND", "TERM", "NA", 0),
   Item("BOUND", "PHR1", "P", 0), Item("BOUND", "PHR3", "P", 0),
   Item("CMD", "SAVE", "r", 3), Item("CMD", "PITCH", "r", 2), Item("SYLLPHON", "x", "x", 2)}

MCCepMenu ==
  {Item("BOUND", "SBEG", "x", 0), Item("BOUND", "SEND", "x", 0), Item("BOUND", "TERM", "x", 0),
   Item("CMD", "SAVE", "x", 3), Item("CMD", "IGNSIG", "START", 0), Item("CMD", "IGNSIG", "END", 0),
   Item("PHONE", "x", "x", 0) @@ [states |-> <<2, 0, 1>>]}

\* The names of two files, one of which begins like the other.
MCSigMenu ==
  {Item("FRAME_PAR", "x", "x", 0) @@ [phase |-> p] : p \in BOOLEAN}
  \cup {Item("BOUND", "SEND", "x", 0), Item("CMD", "UNSAVE", "TO_SIG", 0),
         Item("CMD", "PLAY", "TO_SIG", 1) @@ [name |-> <<1>>],
         Item("CMD", "VOLUME", "r", 2) @@ [value |-> 700]}
  \cup {Item("CMD", "SAVE", "TO_SIG", 1) @@ [name |-> n, wav |-> TRUE] : n \in {<<1>>, <<1, 2>>}}
MCSigSounds == <<1>> :> 2

\* Syllables without an accent, with a weak and with a strong one.
MCFeatSylls == {[acc |-> 0, len |-> 1], [acc |-> 1, len |-> 2], [acc |-> 3, len |-> 1]}

-----------------------------------------------------------------------------
(* Sentences of pauses and syllables with their features. *)

MCFeatures(n) == [i \in 1 .. 60 |-> IF i % 7 = 3 THEN 250 ELSE (n * i) % 40]
MCPause(low, high) ==
  [ids |-> <<1>>, vowel |-> 1, feats |-> MCFeatures(1), low |-> low, high |-> high]
MCSyll(ids) == [ids |-> ids, vowel |-> 1, feats |-> MCFeatures(3), low |-> 0, high |-> 0]
MCStillSent == <<MCPause(4, 8), MCPause(2000, 2000)>>
MCPhoneSents ==
  {MCStillSent, <<MCPause(0, 20), MCSyll(<<2, 3>>), MCPause(300, 300)>>,
   <<MCPause(4, 8), MCSyll(<<5>>), MCPause(20, 40)>>}
MCPhoneFrames == {<<1, 1, 1, 1, 1>>, <<3, 0, 4, 7, 2>>, <<1, 12, 20, 9, 3>>}
MCPhoneWeights == {<<0, 1, 0, 0, 0>>, <<1, 4, 8, 4, 1>>, <<0, 0, 0, 0, 0>>}

-----------------------------------------------------------------------------
(* Density tables: order one with all deltas, and order two with sparse    *)
(* deltas, once with vectors a byte too short.                             *)

MCInt16(m) == <<(m + 65536) % 256, ((m + 65536) \div 256) % 256>>
MCDenseVector(mean, delta, ddelta, ivars) ==
  <<1>> \o MCInt16(mean) \o MCInt16(delta) \o MCInt16(ddelta) \o ivars
MCSparseVector(mean) ==
  <<1>> \o MCInt16(mean) \o MCInt16(-mean) \o <<1, 2>> \o MCInt16(mean + 1) \o MCInt16(-3)
  \o <<3, 5, 1, 2, 1, 1>>
MCDense ==
  <<2, 0, 10, 2, 1, 0, 1, 0, 1, 1, 255, 4, 12, 3>> \o <<2, 2, 2>> \o <<1, 1, 1>>
  \o MCDenseVector(7, 1, 0, <<4, 6, 1>>) \o MCDenseVector(-9, 0, 3, <<2, 1, 3>>)
MCSparse(vecsize) ==
  <<2, 0, vecsize, 2, 1, 0, 1, 0, 2, 1, 2, 4, 12, 3>> \o <<2, 2, 2, 1, 1, 1>>
  \o <<1, 1, 1, 1, 0, 255>> \o MCSparseVector(7) \o MCSparseVector(-8)
MCSmoothBases == {MCDense, MCSparse(17), MCSparse(16)}
MCSmoothFrames == UNION {[1 .. n -> {0, 1}] : n \in {2, 4, 5, 6}}

-----------------------------------------------------------------------------
(* Each behaviour is one of one unit; the others stay as they begin. *)

MCInit ==
  /\ unit \in Units
  /\ SphoInit /\ PamInit /\ CepInit /\ SigInit
  /\ FeatInit /\ (unit # "feat" => feat.sType = "DECLARATIVE")
  /\ PhoneInit /\ (unit # "phone" => phoneSent = MCStillSent /\ phoneMod = 1)
  /\ SmoothInit /\ (unit # "smooth" => /\ smoothIn.base = MCDense /\ smoothIn.cepnum = 0
                                       /\ smoothIn.frames = [i \in 1 .. 2 |-> 0])

MCNext ==
  \/ unit = "spho" /\ SphoNext /\ UNCHANGED <<unit, pamVars, featVars, phoneVars, cepVars, smoothVars, sigVars>>
  \/ unit = "pam" /\ PamNext /\ UNCHANGED <<unit, sphoVars, featVars, phoneVars, cepVars, smoothVars, sigVars>>
  \/ unit = "feat" /\ FeatNext /\ UNCHANGED <<unit, sphoVars, pamVars, phoneVars, cepVars, smoothVars, sigVars>>
  \/ unit = "phone" /\ PhoneNext /\ UNCHANGED <<unit, sphoVars, pamVars, featVars, cepVars, smoothVars, sigVars>>
  \/ unit = "cep" /\ CepNext /\ UNCHANGED <<unit, sphoVars, pamVars, featVars, phoneVars, smoothVars, sigVars>>
  \/ unit = "smooth" /\ SmoothNext /\ UNCHANGED <<unit, sphoVars, pamVars, featVars, phoneVars, cepVars, sigVars>>
  \/ unit = "sig" /\ SigNext /\ UNCHANGED <<unit, sphoVars, pamVars, featVars, phoneVars, cepVars, smoothVars>>

MCVars == <<unit, sphoVars, pamVars, featVars, phoneVars, cepVars, smoothVars, sigVars>>

\* picoctrl.c steps a unit again while it is busy or has input, and the unit behind it
\* when it put something out.
Steps ==
  \/ unit = "spho" /\ SphoStep /\ UNCHANGED <<unit, pamVars, featVars, phoneVars, cepVars, smoothVars, sigVars>>
  \/ unit = "pam" /\ PamStep /\ UNCHANGED <<unit, sphoVars, featVars, phoneVars, cepVars, smoothVars, sigVars>>
  \/ unit = "cep" /\ CepStep /\ UNCHANGED <<unit, sphoVars, pamVars, featVars, phoneVars, smoothVars, sigVars>>
  \/ unit = "sig" /\ SigStep /\ UNCHANGED <<unit, sphoVars, pamVars, featVars, phoneVars, cepVars, smoothVars>>
Takes ==
  \/ unit = "spho" /\ SphoTake /\ UNCHANGED <<unit, pamVars, featVars, phoneVars, cepVars, smoothVars, sigVars>>
  \/ unit = "pam" /\ PamTake /\ UNCHANGED <<unit, sphoVars, featVars, phoneVars, cepVars, smoothVars, sigVars>>
  \/ unit = "cep" /\ CepTake /\ UNCHANGED <<unit, sphoVars, pamVars, featVars, phoneVars, smoothVars, sigVars>>
  \/ unit = "sig" /\ SigTake /\ UNCHANGED <<unit, sphoVars, pamVars, featVars, phoneVars, cepVars, smoothVars>>

MCSpec == MCInit /\ [][MCNext]_MCVars /\ WF_MCVars(Steps) /\ WF_MCVars(Takes)

-----------------------------------------------------------------------------
(***************************************************************************)
(* The windows that picospho.c and picopam.c cut a sentence into, and the  *)
(* commands held back until their place is spoken, neither lose, double    *)
(* nor reorder what has to be heard or done; a break lengthens the bound   *)
(* it stands before and no other, and no step fails but for a full buffer. *)
(* When picocep.c has no room for an item in the middle of a sentence,     *)
(* what it had gathered comes out in order all the same.                   *)
(***************************************************************************)
BackInOrder ==
  /\ SphoInOrder /\ SphoBreaksKept /\ SphoFailsOnlyFull
  /\ PamInOrder
  /\ CepGatheredOut

(***************************************************************************)
(* The features of a syllable (picopam.c) are those their definition asks  *)
(* for, the phones made of them last as long as was asked, and their       *)
(* frames are smoothed as the equations of picocep.c ask.                  *)
(***************************************************************************)
AcousticsSound == FeatAsDefined /\ PhoneSound /\ SmoothSound

\* Each unit's stages, positions and buffers stay within their bounds.
BackTypeOK == SphoTypeOK /\ PamTypeOK

(***************************************************************************)
(* The end of a sentence and a flush get out of each of these units, with  *)
(* three exceptions, each a full buffer that the code does not recover     *)
(* from: a step of spho has failed (SphoFailsOnlyFull), pam has dropped    *)
(* the item for want of room, or cep is jammed and goes round for ever     *)
(* (CepGoesRound).  Otherwise no unit keeps one back, whatever windows the *)
(* sentence was cut into.                                                  *)
(***************************************************************************)
BackDelivers ==
  []<>(/\ SphoAllOut \/ spho.failed
       /\ PamAllOut(pam.refused)
       /\ CepAllOut \/ cep.jammed
       /\ SigAllOut)
=============================================================================
