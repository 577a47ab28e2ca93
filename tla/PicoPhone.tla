------------------------------ MODULE PicoPhone ------------------------------
(***************************************************************************)
(* Phonetic-acoustic mapping, the phones (picopam.c, picodata.c): what     *)
(* pamPhoneProcess does for one phone after the other.  The features of    *)
(* its syllable become the vector the trees are fed, the trees' answers    *)
(* become durations and pitch, and a pause is stretched to the time asked  *)
(* for.  The trees and the densities are lingware: which one they pick is  *)
(* an input.  Real numbers are exact multiples of 1/PhoneModDen.           *)
(***************************************************************************)
EXTENDS Integers, Sequences, SequencesExt

CONSTANTS
  PhoneSents,    \* sentences: sequences of syllables
  PhoneFrames,   \* what the duration density may give: frames per state
  PhoneDurs,     \* ... and the duration of the phone in ms
  PhonePitches,  \* the mean pitch of a phone in Hz
  PhoneWeights,  \* what sil_weights may hold for a pause
  PhoneMods,     \* dMod * PhoneModDen, by SPEED commands
  PhoneMaxPhones \* bound: phones put out

PhoneModDen == 5
NRSTPF == 5            \* PICOPAM_NRSTPF
FrameExp == 2          \* a frame has 2 ^ FrameExp ms
Precision == 10        \* PICODATA_PRECISION
PhDontCare == 7        \* PICOPAM_PH_DONT_CARE_VAL
TreeDontCare == 10     \* PICOPAM_DONT_CARE_VAL
FeatDontCare == 250    \* PICOPAM_DONT_CARE_VALUE

VARIABLES
  phoneSent,  \* the syllables of the sentence
  phone,      \* where in it pamPhoneProcess is, and what it has worked out
  phoneMod,   \* dMod
  phoneRest,  \* dRest * PhoneModDen
  phonePut,   \* the last item put out, and what it was made of
  phoneSum    \* history: phones put out, frames asked for * PhoneModDen and given

phoneVars == <<phoneSent, phone, phoneMod, phoneRest, phonePut, phoneSum>>

PhoneAt(syll, nr) == [stage |-> "VECTOR", syll |-> syll, nr |-> nr, vect |-> <<>>,
                      frames |-> <<>>, dur |-> 0]

PhoneInit ==
  /\ phoneSent \in PhoneSents
  /\ phone = PhoneAt(1, 0)
  /\ phoneMod \in PhoneMods /\ phoneRest = 0
  /\ phonePut = [frames |-> <<>>, weight |-> <<>>, low |-> 0, high |-> 0, put |-> <<>>]
  /\ phoneSum = [phones |-> 0, asked |-> 0, given |-> 0]

(***************************************************************************)
(* The vector the trees are fed                                            *)
(***************************************************************************)
\* The indices of the fields of a syllable's vector, and of the tree's.
PhoneNames(letter, from, to) == [n \in 1 .. to - from + 1 |-> <<letter, from + n - 1>>]
PhoneFields ==
  PhoneNames("P", 1, 8) \o PhoneNames("A", 3, 3) \o PhoneNames("B", 1, 21)
  \o PhoneNames("C", 3, 3) \o PhoneNames("D", 2, 2) \o PhoneNames("E", 1, 13)
  \o PhoneNames("F", 2, 2) \o PhoneNames("G", 1, 2) \o PhoneNames("H", 1, 5)
  \o PhoneNames("I", 1, 2) \o PhoneNames("J", 1, 3) \o PhoneNames("DUR", 1, 1)
  \o PhoneNames("F0", 1, 1)
PhoneTreeFields ==
  PhoneNames("B", 1, 21) \o PhoneNames("E", 1, 13)
  \o <<<<"A", 3>>, <<"C", 3>>, <<"D", 2>>, <<"F", 2>>, <<"G", 1>>, <<"I", 1>>,
       <<"G", 2>>, <<"I", 2>>>> \o PhoneNames("H", 1, 5)
PhoneField(name) == CHOOSE i \in 1 .. Len(PhoneFields) : PhoneFields[i] = name
PhoneTreeBase == 8     \* T_B1

PhoneIds(sent) == FlattenSeq([s \in 1 .. Len(sent) |-> sent[s].ids])
PhoneOffset(sent, syll) == Len(PhoneIds(SubSeq(sent, 1, syll - 1)))   \* FID

\* pam_expand_vector: nr counts from 0.
pam_expand_vector(sent, syll, nr) ==
  LET ids == PhoneIds(sent)
      here == PhoneOffset(sent, syll) + nr + 1
      len == Len(sent[syll].ids)
      Around(k) == IF here + k \in 1 .. Len(ids) THEN ids[here + k] ELSE PhDontCare
  IN  [i \in 1 .. Len(PhoneFields) |->
         CASE i \in 1 .. 5 -> Around(i - 3)
           [] i = 6 -> nr + 1
           [] i = 7 -> len - nr
           [] i = 8 -> IF nr < sent[syll].vowel THEN 1 ELSE 0
           [] OTHER -> sent[syll].feats[i]]

pamCompressComponent(val) ==
  CASE val <= 5 -> val
    [] val \in 6 .. 10 -> 6
    [] val \in 11 .. 20 -> 7
    [] val \in 21 .. 30 -> 8
    [] OTHER -> 9
PhoneUncompressed ==
  {<<"P", n>> : n \in 1 .. 5} \cup {<<"B", n>> : n \in {1, 2, 16}} \cup {<<"E", 1>>, <<"H", 5>>}
pamCompressVector(vect) ==
  [i \in 1 .. Len(vect) |->
     CASE PhoneFields[i] \in PhoneUncompressed -> vect[i]
       [] vect[i] = FeatDontCare -> TreeDontCare
       [] OTHER -> pamCompressComponent(vect[i])]

\* The fields are moved from a copy of the vector.
pamReorgVector(vect) ==
  [i \in 1 .. Len(vect) |->
     IF i - PhoneTreeBase \in 1 .. Len(PhoneTreeFields)
     THEN vect[PhoneField(PhoneTreeFields[i - PhoneTreeBase])] ELSE vect[i]]

(***************************************************************************)
(* Durations and pitch                                                     *)
(***************************************************************************)
PhoneSum(seq) == FoldLeft(LAMBDA n, x : n + x, 0, seq)

\* Mutation of pam_get_duration: what is cut off a state is forgotten.
pam_get_durationCut(frames, mod, rest) ==
  [out |-> [i \in DOMAIN frames |-> (rest + frames[i] * mod) \div PhoneModDen], rest |-> rest]

\* pam_get_duration: what is cut off one state is added to the next.
pam_get_duration(frames, mod, rest) ==
  FoldLeft(LAMBDA a, n : [out |-> Append(a.out, (a.rest + n * mod) \div PhoneModDen),
                          rest |-> (a.rest + n * mod) % PhoneModDen],
           [out |-> <<>>, rest |-> rest], frames)

\* f_round(n / d) for n, d > 0
f_round(n, d) == IF 2 * (n % d) < d THEN n \div d ELSE n \div d + 1

PhoneFirst == phone.syll = 1 /\ phone.nr = 0
PhoneBetween(low, x, high) == IF x < low THEN low ELSE IF x > high THEN high ELSE x

\* pam_update_vector: the initial silence of a sentence has 2 frames.
PhoneDurFeat(ms, first) ==
  LET d == PhoneBetween(40, f_round(IF first THEN 8 ELSE ms, 20) * 20, 65535)
  IN  (IF d > 160 THEN PhoneBetween(0, f_round(d, 100) * 100, 600) ELSE d) \div 10
PhoneF0Feat(hz) == PhoneBetween(90, f_round(hz, 30) * 30, 360) \div 10
pam_update_vector(vect, ms, first, hz) ==
  [vect EXCEPT ![PhoneField(<<"DUR", 1>>)] = PhoneDurFeat(ms, first),
               ![PhoneField(<<"F0", 1>>)] = PhoneF0Feat(hz)]

(***************************************************************************)
(* picodata_transformDurations, without a factor and with a rest of 0      *)
(***************************************************************************)
PhoneFrac(ms) == ms * 2 ^ (Precision - FrameExp)
PhoneByte(n) == n % 256    \* inout is picoos_uint8
One == 2 ^ Precision

transDurUniform(frames, inputdur, targetdur) ==
  LET fact == PhoneFrac(targetdur) \div inputdur
      Next1(a, n) == LET out == PhoneByte((a.rest + fact * n) \div One)
                     IN  [out |-> Append(a.out, out), rest |-> a.rest + fact * n - out * One]
  IN  FoldLeft(Next1, [out |-> <<>>, rest |-> 0], frames).out

PhoneWeighted(frames, weight) ==
  PhoneSum([i \in 1 .. Len(frames) |-> frames[i] * weight[i]])

transDurWeighted(frames, weight, inputdur, targetdur) ==
  LET sum == PhoneWeighted(frames, weight)
      diff == PhoneFrac(targetdur - inputdur)
      fact == IF diff > 0 THEN diff \div sum ELSE -((-diff) \div sum)
      Next1(a, i) == LET rest == a.rest + fact * frames[i] * weight[i]
                         sum1 == frames[i] + rest \div One
                         out == IF sum1 < 0 THEN 0 ELSE sum1
                     IN  [out |-> Append(a.out, PhoneByte(out)),
                          rest |-> rest - (out - frames[i]) * One]
  IN  IF sum = 0 THEN transDurUniform(frames, inputdur, targetdur)
      ELSE FoldLeft(Next1, [out |-> <<>>, rest |-> 0], [i \in 1 .. Len(frames) |-> i]).out

PhoneMs(frames) == PhoneSum(frames) * 2 ^ FrameExp
PhoneTarget(frames, low, high) == PhoneBetween(low, PhoneMs(frames), high)
picodata_transformDurations(frames, weight, low, high) ==
  IF PhoneMs(frames) \in low .. high THEN frames
  ELSE transDurWeighted(frames, weight, PhoneMs(frames), PhoneTarget(frames, low, high))

(***************************************************************************)
(* pamPhoneProcess, in the order of its calls                              *)
(***************************************************************************)
PhoneSyll == phoneSent[phone.syll]
PhoneVector ==
  /\ phone.stage = "VECTOR"
  /\ phone' = [phone EXCEPT !.stage = "DURATION",
                 !.vect = pamReorgVector(pamCompressVector(
                            pam_expand_vector(phoneSent, phone.syll, phone.nr)))]
  /\ UNCHANGED <<phoneSent, phoneMod, phoneRest, phonePut, phoneSum>>

PhoneDuration ==
  /\ phone.stage = "DURATION"
  /\ \E frames \in PhoneFrames, ms \in PhoneDurs :
       LET d == pam_get_duration(frames, phoneMod, phoneRest)
       IN  /\ phone' = [phone EXCEPT !.stage = "PITCH", !.frames = d.out,
                          !.dur = (ms * phoneMod) \div PhoneModDen]
           /\ phoneRest' = d.rest
           /\ phoneSum' = [phoneSum EXCEPT !.asked = @ + PhoneSum(frames) * phoneMod,
                                           !.given = @ + PhoneSum(d.out)]
  /\ UNCHANGED <<phoneSent, phoneMod, phonePut>>

PhonePitch ==
  /\ phone.stage = "PITCH"
  /\ \E hz \in PhonePitches :
       phone' = [phone EXCEPT !.stage = "PUT",
                   !.vect = pam_update_vector(@, phone.dur, PhoneFirst, hz)]
  /\ UNCHANGED <<phoneSent, phoneMod, phoneRest, phonePut, phoneSum>>

\* pam_put_item, and the next phone.  A pause has a greatest duration.
PhoneNext1 ==
  IF phone.nr + 1 < Len(PhoneSyll.ids) THEN PhoneAt(phone.syll, phone.nr + 1)
  ELSE PhoneAt((phone.syll % Len(phoneSent)) + 1, 0)
PhonePut ==
  /\ phone.stage = "PUT" /\ phoneSum.phones < PhoneMaxPhones
  /\ \E weight \in IF PhoneSyll.high > 0 /\ ~PhoneFirst THEN PhoneWeights ELSE {<<>>} :
       phonePut' = [frames |-> phone.frames, weight |-> weight,
                    low |-> PhoneSyll.low, high |-> PhoneSyll.high,
                    put |-> IF PhoneFirst THEN <<0, 0, 0, 0, 2>>
                            ELSE IF PhoneSyll.high > 0
                            THEN picodata_transformDurations(phone.frames, weight,
                                                             PhoneSyll.low, PhoneSyll.high)
                            ELSE phone.frames]
  /\ phone' = PhoneNext1
  /\ phoneSum' = [phoneSum EXCEPT !.phones = @ + 1]
  /\ UNCHANGED <<phoneSent, phoneMod, phoneRest>>

\* A SPEED command between two syllables (pamDoCommand).
PhoneSpeed ==
  /\ phone.stage = "VECTOR" /\ phone.nr = 0
  /\ phoneMod' \in PhoneMods
  /\ UNCHANGED <<phoneSent, phone, phoneRest, phoneSum, phonePut>>

PhoneNext == PhoneVector \/ PhoneDuration \/ PhonePitch \/ PhonePut \/ PhoneSpeed
PhoneSpec == PhoneInit /\ [][PhoneNext]_phoneVars

-----------------------------------------------------------------------------
\* The vector that is fed to the trees: the phones around this one in the whole
\* sentence, and each feature at its place, compressed to what a tree can ask for;
\* duration and pitch are two of the steps the trees know.
PhoneVectorOK ==
  phone.stage # "VECTOR" =>
    LET ids == PhoneIds(phoneSent)
        here == PhoneOffset(phoneSent, phone.syll) + phone.nr + 1
        durs == {4, 6, 8, 10, 12, 14, 16, 20, 30, 40, 50, 60}
    IN  /\ \A k \in -2 .. 2 :
             phone.vect[3 + k] = IF here + k \in DOMAIN ids THEN ids[here + k] ELSE PhDontCare
        /\ \A i \in DOMAIN PhoneTreeFields :
             LET raw == PhoneSyll.feats[PhoneField(PhoneTreeFields[i])]
             IN  phone.vect[PhoneTreeBase + i] =
                   CASE PhoneTreeFields[i] \in PhoneUncompressed -> raw
                     [] raw = FeatDontCare -> TreeDontCare
                     [] OTHER -> pamCompressComponent(raw)
        /\ phone.stage = "PUT" => /\ phone.vect[59] \in durs
                                  /\ 3 * (phone.vect[60] \div 3) = phone.vect[60]

\* Speech does not drift from the speed asked for: what rounding cuts off a state
\* is never lost.  So, however fast, no phone is left without a frame, and the
\* division by a pause's duration is safe.
PhoneNoDrift ==
  /\ phoneSum.asked = phoneSum.given * PhoneModDen + phoneRest
  /\ phone.stage \in {"PITCH", "PUT"} => PhoneSum(phone.frames) > 0

\* A pause that is to be longer than its density says gets the time asked for, to
\* a frame or two, if a state with a weight has a frame and none outgrows its byte.
PhoneStretched(p) ==
  /\ p.put # <<>> /\ p.weight # <<>> /\ PhoneMs(p.frames) < p.low
PhonePauseLength ==
  LET p == phonePut
  IN  /\ PhoneStretched(p) /\ PhoneWeighted(p.frames, p.weight) # 0
      /\ (p.low - PhoneMs(p.frames)) \div 4 + PhoneSum(p.frames) < 256
      => p.low - PhoneMs(p.put) \in 0 .. 7

\* What the trees are asked about a phone is said of that phone, and the time of its
\* states adds up.
PhoneSound == PhoneVectorOK /\ PhoneNoDrift /\ PhonePauseLength
=============================================================================
