--------------------------- MODULE PicoSoundProofs --------------------------
(***************************************************************************)
(* Theorems about what is heard: PicoWave, for texts of every size, counts *)
(* of every width, and every size of the buffers; and PicoSig, for every   *)
(* sequence of items, and every size of the rings.                         *)
(***************************************************************************)
EXTENDS PicoWave, PicoSig, PicoInduction, SequenceTheorems, TLAPS

-----------------------------------------------------------------------------
(* The text. *)

\* What one call of pico_putTextUtf8 sends is no more than what is left.
LEMMA SentIsLeft ==
  ASSUME remaining \in 0 .. Width - 1
  PROVE  /\ Sent \in 0 .. remaining
         /\ Left = remaining - Sent
         /\ Left \in 0 .. Width - 1
<1> USE WaveAssumption
<1>1. ShortMax \in Int /\ ShortMax <= Width BY DEF ShortMax
<1>2. BytesToSend <= remaining BY <1>1 DEF BytesToSend
<1>3. BytesToSend \in Nat
  <2>1. CASE remaining > ShortMax
    <3>1. ShortMax \in Nat BY DEF ShortMax
    <3> QED BY <2>1, <3>1 DEF BytesToSend
  <2>2. CASE ~(remaining > ShortMax) BY <2>2 DEF BytesToSend
  <2> QED BY <2>1, <2>2
<1>4. Sent \in 0 .. remaining BY <1>2, <1>3 DEF Sent
<1>5. remaining - Sent \in 0 .. Width - 1 BY <1>4
<1>6. Left = remaining - Sent BY <1>5 DEF Left
<1> QED BY <1>4, <1>5, <1>6

-----------------------------------------------------------------------------
(* The sound file. *)

LEMMA WholeBuffers ==
  ASSUME NEW n \in Nat, NEW b \in Nat \ {0}
  PROVE  (n \div b) * b \in 0 .. n /\ n - (n \div b) * b < b
OBVIOUS

\* The samples s follow what was put before, and are written or kept.
LEMMA PutAppends ==
  ASSUME NEW S, file \in Seq(S), sdfBuf \in Seq(S), NEW s \in Seq(S),
         nrFileSamples \in Nat, SdfPutSamples(s)
  PROVE  /\ file' \in Seq(S) /\ sdfBuf' \in Seq(S) /\ Len(sdfBuf') < SdfBufLen
         /\ file' \o sdfBuf' = (file \o sdfBuf) \o s
         /\ nrFileSamples' \in Nat
         /\ nrFileSamples = Len(file) => nrFileSamples' = Len(file')
<1> USE WaveAssumption
<1> DEFINE all  == sdfBuf \o s
           full == (Len(all) \div SdfBufLen) * SdfBufLen
           head == SubSeq(all, 1, full)
           rest == SubSeq(all, full + 1, Len(all))
<1>1. all \in Seq(S) BY ConcatProperties
<1>2. Len(all) \in Nat BY <1>1, LenProperties
<1>3. full \in 0 .. Len(all) /\ Len(all) - full < SdfBufLen BY <1>2, WholeBuffers
<1>4. sdfBuf' = rest /\ file' = file \o head /\ nrFileSamples' = nrFileSamples + full
  BY DEF SdfPutSamples
<1> HIDE DEF full
<1>5. head \in Seq(S) /\ Len(head) = full
  <2>1. \A i \in 1 .. full : all[i] \in S BY <1>1, <1>2, <1>3, ElementOfSeq
  <2> QED BY <2>1, <1>3, SubSeqProperties
<1>6. rest \in Seq(S) /\ Len(rest) = Len(all) - full
  <2>1. \A i \in full + 1 .. Len(all) : all[i] \in S BY <1>1, <1>2, <1>3, ElementOfSeq
  <2>2. full + 1 \in Int /\ Len(all) \in Int BY <1>2, <1>3
  <2>3. rest \in Seq(S) BY <2>1, <2>2, SubSeqProperties
  <2>4. Len(rest) = Len(all) - full BY <1>2, <1>3
  <2> QED BY <2>3, <2>4
<1>7. head \o rest = all
  <2>1. /\ 1 \in 1 .. Len(all) + 1 /\ full \in 1 - 1 .. Len(all)
        /\ Len(all) \in full .. Len(all)
    BY <1>2, <1>3
  <2>2. head \o rest = SubSeq(all, 1, Len(all)) BY <2>1, <1>1, ConcatAdjacentSubSeq
  <2> QED BY <2>2, <1>1, SubSeqFull
<1> HIDE DEF head, rest
<1>8. (file \o head) \o rest = (file \o sdfBuf) \o s
  <2>3. head \in Seq(S) /\ rest \in Seq(S) BY <1>5, <1>6
  <2>4. (file \o head) \o rest = file \o (head \o rest) BY <2>3, ConcatAssociative
  <2>1. (file \o head) \o rest = file \o all BY <2>4, <1>7, Zenon
  <2>2. file \o all = (file \o sdfBuf) \o s BY ConcatAssociative
  <2> QED BY <2>1, <2>2, Zenon
<1>9. file \o head \in Seq(S) /\ Len(file \o head) = Len(file) + full
  BY <1>5, ConcatProperties
<1>10. nrFileSamples' \in Nat /\ (nrFileSamples = Len(file) => nrFileSamples' = Len(file'))
  BY <1>2, <1>3, <1>4, <1>9
<1>11. Len(sdfBuf') < SdfBufLen BY <1>3, <1>4, <1>6
<1> QED BY <1>4, <1>6, <1>8, <1>9, <1>10, <1>11

-----------------------------------------------------------------------------
(* The invariant. *)

Numbers(n) == [k \in 1 .. n |-> k]

\* Nothing happens before the output is open.
Untouched ==
  pc = "open" =>
    /\ inp = 0 /\ sink = "none" /\ produced = 0 /\ buffer = <<>>
    /\ sdfBuf = <<>> /\ file = <<>> /\ nrFileSamples = 0

\* Only a sound file has a buffer, and it counts what it wrote.
FileCounted ==
  /\ sink # "file" => sdfBuf = <<>>
  /\ sink = "file" => nrFileSamples = Len(file)
  /\ sink = "file" /\ pc = "done" => header = Len(file)

\* A text that is sent at once: where its samples are.
OneChunk ==
  size <= CbInSize /\ size <= ShortMax /\ sink # "none" =>
    /\ pc = "loop" /\ remaining # 0 =>
         produced = 0 /\ buffer = <<>> /\ sdfBuf = <<>> /\ file = <<>>
    /\ pc \in {"get", "pass"} =>
         remaining = 0 /\ (file \o sdfBuf) \o buffer = Numbers(produced)
    /\ pc \in {"loop", "close"} /\ remaining = 0 =>
         file \o sdfBuf = Numbers(produced)
    /\ pc = "close" => remaining = 0
    /\ pc = "done" => file = Numbers(produced)

IInv == TypeOK /\ CountsText /\ Untouched /\ FileCounted /\ OneChunk

\* Writing s keeps the samples in order, whatever the sink is.
LEMMA WriteAppends ==
  ASSUME TypeOK, FileCounted, NEW s \in Seq(1 .. produced), Write(s), sink' = sink
  PROVE  /\ file' \in Seq(1 .. produced)
         /\ sdfBuf' \in Seq(1 .. produced) /\ Len(sdfBuf') < SdfBufLen
         /\ nrFileSamples' \in Nat /\ header' = header
         /\ sink # "file" => sdfBuf' = <<>>
         /\ sink = "file" => nrFileSamples' = Len(file')
         /\ sink # "none" => file' \o sdfBuf' = (file \o sdfBuf) \o s
<1>1. /\ file \in Seq(1 .. produced) /\ sdfBuf \in Seq(1 .. produced)
      /\ Len(sdfBuf) < SdfBufLen /\ nrFileSamples \in Nat
      /\ sink \in {"none", "stdout", "file"}
      /\ sink # "file" => sdfBuf = <<>>
      /\ sink = "file" => nrFileSamples = Len(file)
  BY DEF TypeOK, FileCounted
<1>2. CASE sink = "none"
  <2>1. UNCHANGED <<sdfBuf, file, nrFileSamples, header>> BY <1>2 DEF Write, sdf
  <2> QED BY <2>1, <1>1, <1>2
<1>3. CASE sink = "stdout"
  <2>1. file' = file \o s /\ sdfBuf' = sdfBuf /\ nrFileSamples' = nrFileSamples /\ header' = header
    BY <1>3 DEF Write
  <2>2. sdfBuf = <<>> BY <1>1, <1>3
  <2>3. file \o s \in Seq(1 .. produced) BY <1>1, ConcatProperties
  <2>4. (file \o s) \o <<>> = file \o s BY <2>3, ConcatEmptySeq
  <2>5. file \o <<>> = file BY <1>1, ConcatEmptySeq
  <2>6. file' \o sdfBuf' = (file \o sdfBuf) \o s BY <2>1, <2>2, <2>4, <2>5
  <2> QED BY <2>1, <2>2, <2>3, <2>6, <1>1, <1>3
<1>4. CASE sink = "file"
  <2>1. SdfPutSamples(s) BY <1>4 DEF Write
  <2>2. header' = header BY <2>1 DEF SdfPutSamples
  <2> QED BY <2>1, <2>2, <1>1, <1>4, PutAppends
<1> QED BY <1>1, <1>2, <1>3, <1>4

LEMMA InitInvariant == Init => IInv
<1> SUFFICES ASSUME Init PROVE IInv OBVIOUS
<1> USE WaveAssumption
<1>1. /\ pc = "open" /\ ret = 0 /\ size \in TextSizes /\ remaining = size % Width
      /\ inp = 0 /\ frames = <<>> /\ produced = 0 /\ buffer = <<>> /\ sink = "none"
      /\ sdfBuf = <<>> /\ file = <<>> /\ nrFileSamples = 0 /\ header = Dummy
  BY DEF Init
<1>2. size \in Nat /\ remaining \in 0 .. Width - 1 BY <1>1
<1>3. TypeOK BY <1>1, <1>2 DEF TypeOK
<1>4. CountsText BY <1>1, <1>2 DEF CountsText
<1>5. Untouched BY <1>1 DEF Untouched
<1>6. FileCounted BY <1>1 DEF FileCounted
<1>7. OneChunk BY <1>1 DEF OneChunk
<1> QED BY <1>3, <1>4, <1>5, <1>6, <1>7 DEF IInv

LEMMA OpenStep == IInv /\ OpenOut => IInv'
<1> SUFFICES ASSUME IInv, OpenOut PROVE IInv' OBVIOUS
<1>1. TypeOK /\ CountsText /\ Untouched BY DEF IInv
<1>2. PICK r \in OpenResults :
        /\ pc' = IF r # "suffix" THEN "loop" ELSE "done"
        /\ ret' = IF r # "suffix" THEN 0 ELSE 1
        /\ sink' = CASE r = "stdout" -> "stdout" [] r = "open" -> "file" [] OTHER -> "none"
  BY DEF OpenOut, SdfOpenOut
<1>3. /\ pc = "open" /\ size' = size /\ remaining' = remaining /\ inp' = inp
      /\ frames' = frames /\ produced' = produced /\ buffer' = buffer
      /\ sdfBuf' = sdfBuf /\ file' = file /\ nrFileSamples' = nrFileSamples
      /\ header' = header
  BY DEF OpenOut, sdf
<1>4. produced = 0 /\ buffer = <<>> /\ sdfBuf = <<>> /\ file = <<>> /\ nrFileSamples = 0
  BY <1>1, <1>3 DEF Untouched
<1>5. sink' \in {"none", "stdout", "file"} /\ (pc' = "done" => sink' = "none")
  BY <1>2
<1>6. pc' \in {"done", "loop"} /\ ret' \in {0, 1} BY <1>2
<1>7. TypeOK' BY <1>1, <1>3, <1>5, <1>6 DEF TypeOK
<1>8. CountsText' BY <1>1, <1>3 DEF CountsText
<1>9. Untouched' BY <1>6 DEF Untouched
<1>10. FileCounted' BY <1>3, <1>4, <1>5 DEF FileCounted
<1>11. size # 0 /\ size \in Nat BY <1>1, WaveAssumption DEF TypeOK
<1>12. ShortMax < Width /\ ShortMax \in Int BY WaveAssumption DEF ShortMax
<1>13. size <= ShortMax => remaining # 0
  <2> SUFFICES ASSUME size <= ShortMax PROVE remaining # 0 OBVIOUS
  <2>1. inp = 0 BY <1>1, <1>3 DEF Untouched
  <2>2. size % Width = size BY <1>11, <1>12, WaveAssumption
  <2> QED BY <2>1, <2>2, <1>1, <1>11 DEF CountsText, TypeOK
<1>14. OneChunk' BY <1>3, <1>4, <1>5, <1>6, <1>13 DEF OneChunk
<1> QED BY <1>7, <1>8, <1>9, <1>10, <1>14 DEF IInv

LEMMA PutTextStep == IInv /\ PutText => IInv'
<1> SUFFICES ASSUME IInv, PutText PROVE IInv' OBVIOUS
<1> USE WaveAssumption
<1>1. TypeOK /\ CountsText /\ FileCounted /\ OneChunk BY DEF IInv
<1>2. PICK f \in SeqOf(FrameSizes, MaxFrames) : frames' = frames \o f
  BY DEF PutText
<1>3. /\ pc = "loop" /\ pc' = "get" /\ remaining # 0
      /\ remaining' = Left /\ inp' = inp + Sent
      /\ ret' = ret /\ size' = size /\ produced' = produced /\ buffer' = buffer
      /\ sink' = sink /\ sdfBuf' = sdfBuf /\ file' = file
      /\ nrFileSamples' = nrFileSamples /\ header' = header
  BY DEF PutText, sdf
<1>4. /\ remaining \in 0 .. Width - 1 /\ inp \in 0 .. size /\ size \in Nat
      /\ inp + remaining = size % Width
  BY <1>1 DEF TypeOK, CountsText
<1>5. Sent \in 0 .. remaining /\ Left = remaining - Sent /\ Left \in 0 .. Width - 1
  BY <1>4, SentIsLeft
<1>6. size % Width <= size BY <1>4
<1>7. inp' \in 0 .. size /\ inp' + remaining' = size' % Width
  BY <1>3, <1>4, <1>5, <1>6
<1>8. frames' \in Seq(FrameSizes)
  <2>1. PICK m \in 0 .. MaxFrames : f \in [1 .. m -> FrameSizes] BY <1>2 DEF SeqOf
  <2>2. m \in Nat OBVIOUS
  <2>3. f \in Seq(FrameSizes) BY <2>1, <2>2, SeqDef
  <2>4. frames \in Seq(FrameSizes) BY <1>1 DEF TypeOK
  <2> QED BY <2>3, <2>4, <1>2, ConcatProperties
<1>9. TypeOK' BY <1>1, <1>3, <1>5, <1>7, <1>8 DEF TypeOK
<1>10. CountsText' BY <1>7 DEF CountsText
<1>11. Untouched' BY <1>3 DEF Untouched
<1>12. FileCounted' BY <1>1, <1>3 DEF FileCounted
<1>13. OneChunk'
  <2> SUFFICES ASSUME size <= CbInSize, size <= ShortMax, sink # "none"
               PROVE  remaining' = 0 /\ (file \o sdfBuf) \o buffer = Numbers(produced)
    BY <1>3 DEF OneChunk
  <2>1. remaining <= size BY <1>4, <1>6
  <2>2. ShortMax \in Int BY DEF ShortMax
  <2>3. BytesToSend = remaining BY <2>1, <2>2, <1>4 DEF BytesToSend
  <2>4. Sent = remaining BY <2>1, <2>3, <1>4 DEF Sent
  <2>5. remaining' = 0 BY <2>4, <1>3, <1>4, <1>5
  <2>6. produced = 0 /\ buffer = <<>> /\ sdfBuf = <<>> /\ file = <<>>
    BY <1>1, <1>3 DEF OneChunk
  <2>7. (<<>> \o <<>>) \o <<>> = Numbers(0) BY DEF Numbers
  <2> QED BY <2>5, <2>6, <2>7
<1> QED BY <1>9, <1>10, <1>11, <1>12, <1>13 DEF IInv

\* Steps that only move pc.
LEMMA MoveStep == IInv /\ (LeaveLoop \/ GetIdle \/ GetError) => IInv'
<1> SUFFICES ASSUME IInv, LeaveLoop \/ GetIdle \/ GetError PROVE IInv' OBVIOUS
<1>1. /\ ret' = ret /\ size' = size /\ remaining' = remaining /\ inp' = inp
      /\ frames' = frames /\ produced' = produced /\ buffer' = buffer /\ sink' = sink
      /\ sdfBuf' = sdfBuf /\ file' = file /\ nrFileSamples' = nrFileSamples
      /\ header' = header
  BY DEF LeaveLoop, GetIdle, GetError, sdf
<1>2. \/ pc = "loop" /\ remaining = 0 /\ pc' = "close"
      \/ pc = "get" /\ pc' = "pass"
      \/ pc = "get" /\ pc' = "aborted"
  BY DEF LeaveLoop, GetIdle, GetError
<1>3. TypeOK' /\ CountsText' BY <1>1, <1>2 DEF IInv, TypeOK, CountsText
<1>4. Untouched' /\ FileCounted' BY <1>1, <1>2 DEF IInv, Untouched, FileCounted
<1>5. OneChunk' BY <1>1, <1>2 DEF IInv, OneChunk
<1> QED BY <1>3, <1>4, <1>5 DEF IInv

LEMMA NumbersGrow ==
  ASSUME NEW m \in Nat, NEW n \in Nat
  PROVE  /\ [k \in 1 .. n |-> m + k] \in Seq(1 .. m + n)
         /\ Len([k \in 1 .. n |-> m + k]) = n
         /\ Numbers(m) \in Seq(1 .. m)
         /\ Numbers(m) \o [k \in 1 .. n |-> m + k] = Numbers(m + n)
<1> DEFINE more == [k \in 1 .. n |-> m + k]
<1>1. more \in [1 .. n -> 1 .. m + n] OBVIOUS
<1>11. \A i \in 1 .. n : more[i] = m + i OBVIOUS
<1>2. more \in Seq(1 .. m + n) /\ Len(more) = n BY <1>1, SeqDef, LenProperties
<1> HIDE DEF more
<1>3. \A p \in Nat : Numbers(p) \in Seq(1 .. p) /\ Len(Numbers(p)) = p
  <2> SUFFICES ASSUME NEW p \in Nat PROVE Numbers(p) \in Seq(1 .. p) /\ Len(Numbers(p)) = p
    OBVIOUS
  <2>1. Numbers(p) \in [1 .. p -> 1 .. p] BY DEF Numbers
  <2> QED BY <2>1, SeqDef, LenProperties
<1>4. 1 .. m \subseteq 1 .. m + n OBVIOUS
<1>5. Numbers(m) \in Seq(1 .. m + n) /\ Len(Numbers(m)) = m BY <1>3, <1>4, SeqMonotonic
<1>6. m + n \in Nat OBVIOUS
<1>7. Numbers(m + n) \in Seq(1 .. m + n) /\ Len(Numbers(m + n)) = m + n BY <1>3, <1>6
<1>8. /\ Numbers(m) \o more \in Seq(1 .. m + n)
      /\ Len(Numbers(m) \o more) = m + n
      /\ \A i \in 1 .. m + n : (Numbers(m) \o more)[i]
            = IF i <= m THEN Numbers(m)[i] ELSE more[i - m]
  <2>1. /\ Numbers(m) \o more \in Seq(1 .. m + n)
        /\ Len(Numbers(m) \o more) = Len(Numbers(m)) + Len(more)
        /\ \A i \in 1 .. Len(Numbers(m)) + Len(more) : (Numbers(m) \o more)[i]
              = IF i <= Len(Numbers(m)) THEN Numbers(m)[i] ELSE more[i - Len(Numbers(m))]
    BY <1>2, <1>5, ConcatProperties
  <2> QED BY <2>1, <1>2, <1>5
<1>9. ASSUME NEW i \in 1 .. m + n PROVE (Numbers(m) \o more)[i] = Numbers(m + n)[i]
  <2>1. Numbers(m + n)[i] = i BY DEF Numbers
  <2>2. CASE i <= m
    <3>1. Numbers(m)[i] = i BY <2>2 DEF Numbers
    <3> QED BY <2>1, <2>2, <3>1, <1>8
  <2>3. CASE ~(i <= m)
    <3>1. i - m \in 1 .. n /\ m + (i - m) = i BY <2>3
    <3>2. more[i - m] = i BY <3>1, <1>11
    <3> QED BY <2>1, <2>3, <3>2, <1>8
  <2> QED BY <2>2, <2>3
<1>10. Numbers(m) \o more = Numbers(m + n) BY <1>7, <1>8, <1>9, SeqEqual
<1> QED BY <1>2, <1>3, <1>10 DEF more

LEMMA GetFrameStep == IInv /\ GetFrame => IInv'
<1> SUFFICES ASSUME IInv, GetFrame PROVE IInv' OBVIOUS
<1> USE WaveAssumption
<1> DEFINE n == Head(frames)
           S == 1 .. produced'
<1>1. TypeOK /\ CountsText /\ FileCounted /\ OneChunk BY DEF IInv
<1>2. /\ pc = "get" /\ frames # <<>> /\ frames' = Tail(frames)
      /\ produced' = produced + n
      /\ pc' = pc /\ ret' = ret /\ size' = size /\ remaining' = remaining /\ inp' = inp
      /\ sink' = sink
  BY DEF GetFrame, wave
<1>3. frames \in Seq(FrameSizes) /\ produced \in Nat BY <1>1 DEF TypeOK
<1>4. n \in FrameSizes /\ frames' \in Seq(FrameSizes) BY <1>2, <1>3, HeadTailProperties
<1>12. FrameSizes \subseteq 1 .. BufferSize /\ BufferSize \in Nat OBVIOUS
<1> HIDE DEF n
<1>5. n \in 1 .. BufferSize /\ n \in Nat BY <1>4, <1>12
<1>6. 1 .. produced \subseteq S /\ produced' \in Nat /\ S = 1 .. produced + n
  BY <1>2, <1>3, <1>5
<1>7. /\ FrameData \in Seq(S) /\ Len(FrameData) = n
      /\ Numbers(produced) \in Seq(1 .. produced)
      /\ Numbers(produced) \o FrameData = Numbers(produced')
  BY <1>2, <1>3, <1>5, <1>6, NumbersGrow DEF FrameData, n
<1>8. /\ buffer \in Seq(1 .. produced) /\ file \in Seq(1 .. produced)
      /\ sdfBuf \in Seq(1 .. produced) /\ Len(sdfBuf) < SdfBufLen
      /\ Len(buffer) <= BufferSize /\ nrFileSamples \in Nat
      /\ header \in Nat \cup {Dummy}
  BY <1>1 DEF TypeOK
<1>9. buffer \in Seq(S) /\ file \in Seq(S) /\ sdfBuf \in Seq(S)
  BY <1>6, <1>8, SeqMonotonic
<1> HIDE DEF S, n
<1>10. CASE HasRoom(n)
  <2>1. /\ buffer' = buffer \o FrameData /\ sdfBuf' = sdfBuf /\ file' = file
        /\ nrFileSamples' = nrFileSamples /\ header' = header
    BY <1>10 DEF GetFrame, sdf, n
  <2>2. buffer' \in Seq(S) /\ Len(buffer') = Len(buffer) + n
    BY <2>1, <1>7, <1>9, ConcatProperties
  <2>3. Len(buffer') <= BufferSize BY <2>2, <1>10 DEF HasRoom
  <2>4. TypeOK' BY <2>1, <2>2, <2>3, <1>1, <1>2, <1>4, <1>6, <1>8, <1>9 DEF TypeOK, S
  <2>5. FileCounted' BY <2>1, <1>1, <1>2 DEF FileCounted
  <2>6. OneChunk'
    <3> SUFFICES ASSUME size <= CbInSize, size <= ShortMax, sink # "none"
                 PROVE  remaining = 0 /\ (file \o sdfBuf) \o buffer' = Numbers(produced')
      BY <2>1, <1>2 DEF OneChunk
    <3>1. remaining = 0 /\ (file \o sdfBuf) \o buffer = Numbers(produced)
      BY <1>1, <1>2 DEF OneChunk
    <3>2. file \o sdfBuf \in Seq(S) BY <1>9, ConcatProperties
    <3>3. ((file \o sdfBuf) \o buffer) \o FrameData = (file \o sdfBuf) \o (buffer \o FrameData)
      <4>1. FrameData \in Seq(S) /\ buffer \in Seq(S) BY <1>7, <1>9
      <4> QED BY <3>2, <4>1, ConcatAssociative
    <3> QED BY <3>1, <3>3, <2>1, <1>7
  <2>7. CountsText' /\ Untouched' BY <1>1, <1>2 DEF CountsText, Untouched
  <2> QED BY <2>4, <2>5, <2>6, <2>7 DEF IInv
<1>11. CASE ~HasRoom(n)
  <2>1. buffer' = FrameData /\ Write(buffer)
    BY <1>11 DEF GetFrame, Refilled, n
  <2>2. /\ file' \in Seq(1 .. produced)
        /\ sdfBuf' \in Seq(1 .. produced) /\ Len(sdfBuf') < SdfBufLen
        /\ nrFileSamples' \in Nat /\ header' = header
        /\ sink # "file" => sdfBuf' = <<>>
        /\ sink = "file" => nrFileSamples' = Len(file')
        /\ sink # "none" => file' \o sdfBuf' = (file \o sdfBuf) \o buffer
    BY <2>1, <1>1, <1>2, <1>8, WriteAppends
  <2>3. file' \in Seq(S) /\ sdfBuf' \in Seq(S) BY <2>2, <1>6, SeqMonotonic
  <2>4. Len(buffer') <= BufferSize BY <2>1, <1>5, <1>7
  <2>5. TypeOK' BY <2>1, <2>2, <2>3, <2>4, <1>1, <1>2, <1>4, <1>6, <1>7, <1>8 DEF TypeOK, S
  <2>6. FileCounted' BY <2>2, <1>2 DEF FileCounted
  <2>7. OneChunk'
    <3> SUFFICES ASSUME size <= CbInSize, size <= ShortMax, sink # "none"
                 PROVE  remaining = 0 /\ (file' \o sdfBuf') \o buffer' = Numbers(produced')
      BY <1>2 DEF OneChunk
    <3>1. remaining = 0 /\ (file \o sdfBuf) \o buffer = Numbers(produced)
      BY <1>1, <1>2 DEF OneChunk
    <3> QED BY <3>1, <2>1, <2>2, <1>7
  <2>8. CountsText' /\ Untouched' BY <1>1, <1>2 DEF CountsText, Untouched
  <2> QED BY <2>5, <2>6, <2>7, <2>8 DEF IInv
<1> QED BY <1>10, <1>11

LEMMA PassStep == IInv /\ PassRemaining => IInv'
<1> SUFFICES ASSUME IInv, PassRemaining PROVE IInv' OBVIOUS
<1>1. TypeOK /\ CountsText /\ FileCounted /\ OneChunk BY DEF IInv
<1>2. /\ pc = "pass" /\ pc' = "loop" /\ Write(buffer)
      /\ ret' = ret /\ size' = size /\ remaining' = remaining /\ inp' = inp
      /\ frames' = frames /\ produced' = produced /\ buffer' = buffer /\ sink' = sink
  BY DEF PassRemaining
<1>3. buffer \in Seq(1 .. produced) BY <1>1 DEF TypeOK
<1>4. /\ file' \in Seq(1 .. produced)
      /\ sdfBuf' \in Seq(1 .. produced) /\ Len(sdfBuf') < SdfBufLen
      /\ nrFileSamples' \in Nat /\ header' = header
      /\ sink # "file" => sdfBuf' = <<>>
      /\ sink = "file" => nrFileSamples' = Len(file')
      /\ sink # "none" => file' \o sdfBuf' = (file \o sdfBuf) \o buffer
  BY <1>1, <1>2, <1>3, WriteAppends
<1>5. TypeOK' BY <1>1, <1>2, <1>4 DEF TypeOK
<1>6. CountsText' /\ Untouched' BY <1>1, <1>2 DEF CountsText, Untouched
<1>7. FileCounted' BY <1>2, <1>4 DEF FileCounted
<1>8. OneChunk' BY <1>1, <1>2, <1>4 DEF OneChunk
<1> QED BY <1>5, <1>6, <1>7, <1>8 DEF IInv

LEMMA CloseStep == IInv /\ CloseOut => IInv'
<1> SUFFICES ASSUME IInv, CloseOut PROVE IInv' OBVIOUS
<1> USE WaveAssumption
<1>1. TypeOK /\ CountsText /\ FileCounted /\ OneChunk BY DEF IInv
<1>2. /\ pc = "close" /\ pc' = "done"
      /\ ret' = ret /\ size' = size /\ remaining' = remaining /\ inp' = inp
      /\ frames' = frames /\ produced' = produced /\ buffer' = buffer /\ sink' = sink
      /\ IF sink = "file" THEN SdfCloseOut ELSE UNCHANGED sdf
  BY DEF CloseOut
<1>3. /\ file \in Seq(1 .. produced) /\ sdfBuf \in Seq(1 .. produced)
      /\ Len(sdfBuf) < SdfBufLen /\ nrFileSamples \in Nat /\ header \in Nat \cup {Dummy}
  BY <1>1 DEF TypeOK
<1>4. CountsText' /\ Untouched' BY <1>1, <1>2 DEF CountsText, Untouched
<1>5. CASE sink = "file"
  <2>1. /\ sdfBuf' = <<>> /\ file' = file \o sdfBuf
        /\ nrFileSamples' = nrFileSamples + Len(sdfBuf) /\ header' = nrFileSamples'
    BY <1>2, <1>5 DEF SdfCloseOut
  <2>2. file' \in Seq(1 .. produced) /\ Len(file') = Len(file) + Len(sdfBuf)
    BY <2>1, <1>3, ConcatProperties
  <2>3. Len(sdfBuf) \in Nat BY <1>3, LenProperties
  <2>4. nrFileSamples' \in Nat /\ header' \in Nat BY <2>1, <2>3, <1>3
  <2>5. sdfBuf' \in Seq(1 .. produced) /\ Len(sdfBuf') < SdfBufLen BY <2>1
  <2>6. TypeOK' BY <2>2, <2>4, <2>5, <1>1, <1>2 DEF TypeOK
  <2>7. nrFileSamples = Len(file) BY <1>1, <1>5 DEF FileCounted
  <2>8. header' = Len(file') /\ nrFileSamples' = Len(file') BY <2>1, <2>2, <2>7
  <2>9. FileCounted' BY <2>1, <2>8 DEF FileCounted
  <2>10. OneChunk'
    <3> SUFFICES ASSUME size <= CbInSize, size <= ShortMax, sink # "none"
                 PROVE  file' = Numbers(produced)
      BY <1>2 DEF OneChunk
    <3>1. file \o sdfBuf = Numbers(produced) BY <1>1, <1>2, <1>5 DEF OneChunk
    <3> QED BY <3>1, <2>1
  <2> QED BY <2>6, <2>9, <2>10, <1>4 DEF IInv
<1>6. CASE sink # "file"
  <2>1. /\ sdfBuf' = sdfBuf /\ file' = file /\ nrFileSamples' = nrFileSamples
        /\ header' = header
    BY <1>2, <1>6 DEF sdf
  <2>2. TypeOK' BY <2>1, <1>1, <1>2 DEF TypeOK
  <2>3. FileCounted' BY <2>1, <1>1, <1>2, <1>6 DEF FileCounted
  <2>4. sdfBuf = <<>> BY <1>1, <1>6 DEF FileCounted
  <2>5. file \o sdfBuf = file BY <2>4, <1>3, ConcatEmptySeq
  <2>6. OneChunk'
    <3> SUFFICES ASSUME size <= CbInSize, size <= ShortMax, sink # "none"
                 PROVE  file' = Numbers(produced)
      BY <1>2 DEF OneChunk
    <3>1. file \o sdfBuf = Numbers(produced) BY <1>1, <1>2 DEF OneChunk
    <3> QED BY <3>1, <2>1, <2>5
  <2> QED BY <2>2, <2>3, <2>6, <1>4 DEF IInv
<1> QED BY <1>5, <1>6

LEMMA IdleInvariant == IInv /\ UNCHANGED vars => IInv'
<1> SUFFICES ASSUME IInv, UNCHANGED vars PROVE IInv' OBVIOUS
<1>1. /\ pc' = pc /\ ret' = ret /\ size' = size /\ remaining' = remaining /\ inp' = inp
      /\ frames' = frames /\ produced' = produced /\ buffer' = buffer /\ sink' = sink
      /\ sdfBuf' = sdfBuf /\ file' = file /\ nrFileSamples' = nrFileSamples
      /\ header' = header
  BY DEF vars, wave, sdf
<1>2. TypeOK' /\ CountsText' BY <1>1 DEF IInv, TypeOK, CountsText
<1>3. Untouched' /\ FileCounted' BY <1>1 DEF IInv, Untouched, FileCounted
<1>4. OneChunk' BY <1>1 DEF IInv, OneChunk
<1> QED BY <1>2, <1>3, <1>4 DEF IInv

\* The inductive invariant of pico2wave's loop.
THEOREM Invariant == Spec => []IInv
<1>1. IInv /\ [Next]_vars => IInv'
  BY OpenStep, PutTextStep, MoveStep, GetFrameStep, PassStep, CloseStep, IdleInvariant
     DEF Next
<1> QED BY <1>1, InitInvariant, PTL DEF Spec

\* Every reachable state is well typed: bufused stays inside of buffer, and
\* the pointer into the text inside of the text.
THEOREM TypeCorrect == Spec => []TypeOK
BY Invariant, PTL DEF IInv

\* For counts of any width: the bytes sent and the count of those left add up
\* to the length of the text modulo that width, also while it is negative.
THEOREM TextIsCounted == Spec => []CountsText
BY Invariant, PTL DEF IInv

\* For every size of the two buffers and of the frames: a text sent at once
\* gives a file that holds each sample once and in order.
THEOREM OneChunkIsExact == Spec => []OneChunkExact
<1>1. IInv => OneChunkExact
  BY DEF IInv, OneChunk, OneChunkExact, Finished, Numbers
<1> QED BY <1>1, Invariant, PTL

\* For every length: the header of a closed file states what it holds.
THEOREM HeaderIsTrue == Spec => []HeaderTrue
<1>1. IInv => HeaderTrue
  BY DEF IInv, FileCounted, HeaderTrue, Finished
<1> QED BY <1>1, Invariant, PTL

\* For every size and length: the file of a text sent at once is exact.
THEOREM FileIsExact == Spec => []FileExact
<1>1. OneChunkExact /\ HeaderTrue => FileExact BY DEF FileExact
<1> QED BY <1>1, OneChunkIsExact, HeaderIsTrue, PTL

-----------------------------------------------------------------------------
(* Texts of any length: no sample is lost, and each comes in its order. *)

\* The samples 1 to n are in s, and each stands behind all that precede it.
Ordered(s, n) ==
  \A k \in 1 .. n :
    \E j \in 1 .. Len(s) : s[j] = k /\ {s[i] : i \in 1 .. j - 1} = 1 .. k - 1

\* Where the samples are that the engine returned.
WrittenInOrder ==
  sink # "none" =>
    /\ pc \in {"get", "pass"} => Ordered((file \o sdfBuf) \o buffer, produced)
    /\ pc \in {"loop", "close"} => Ordered(file \o sdfBuf, produced)
    /\ pc = "done" => Ordered(file, produced)

\* What is written behind them moves no sample that is there.
LEMMA OrderedAppend ==
  ASSUME NEW n \in Nat, NEW s \in Seq(1 .. n), NEW t \in Seq(1 .. n), Ordered(s, n)
  PROVE  Ordered(s \o t, n)
<1> DEFINE u == s \o t
<1>1. /\ Len(u) = Len(s) + Len(t)
      /\ \A i \in 1 .. Len(s) + Len(t) :
           u[i] = IF i <= Len(s) THEN s[i] ELSE t[i - Len(s)]
  BY ConcatProperties
<1>2. Len(s) \in Nat /\ Len(t) \in Nat BY LenProperties
<1>3. \A i \in 1 .. Len(s) : u[i] = s[i] BY <1>1, <1>2
<1> HIDE DEF u
<1> SUFFICES ASSUME NEW k \in 1 .. n
             PROVE  \E j \in 1 .. Len(u) : u[j] = k /\ {u[i] : i \in 1 .. j - 1} = 1 .. k - 1
  BY DEF Ordered, u
<1>4. PICK j \in 1 .. Len(s) : s[j] = k /\ {s[i] : i \in 1 .. j - 1} = 1 .. k - 1
  BY DEF Ordered
<1>5. j \in 1 .. Len(u) /\ u[j] = k BY <1>1, <1>2, <1>3, <1>4
<1>6. \A i \in 1 .. j - 1 : u[i] = s[i] BY <1>2, <1>3
<1>7. {u[i] : i \in 1 .. j - 1} = {s[i] : i \in 1 .. j - 1} BY <1>6
<1> QED BY <1>4, <1>5, <1>7

\* The samples of a frame, numbered behind those before, are behind them.
LEMMA OrderedGrow ==
  ASSUME NEW p \in Nat, NEW n \in Nat, NEW s \in Seq(1 .. p), Ordered(s, p),
         NEW t \in Seq(1 .. p + n), Len(t) = n, \A m \in 1 .. n : t[m] = p + m
  PROVE  Ordered(s \o t, p + n)
<1> DEFINE u == s \o t
           L == Len(s)
<1>1. /\ Len(u) = L + n
      /\ \A i \in 1 .. L + n : u[i] = IF i <= L THEN s[i] ELSE t[i - L]
  <2>1. 1 .. p \subseteq 1 .. p + n OBVIOUS
  <2>2. s \in Seq(1 .. p + n) BY <2>1, SeqMonotonic
  <2> QED BY <2>2, ConcatProperties
<1>2. L \in Nat BY LenProperties
<1>3. \A i \in 1 .. L : s[i] \in 1 .. p BY ElementOfSeq
<1> HIDE DEF u, L
<1>4. \A i \in 1 .. L : u[i] = s[i] BY <1>1, <1>2
<1>5. \A m \in 1 .. n : u[L + m] = p + m
  <2> SUFFICES ASSUME NEW m \in 1 .. n PROVE u[L + m] = p + m OBVIOUS
  <2>1. L + m \in 1 .. L + n /\ ~(L + m <= L) /\ (L + m) - L = m BY <1>2
  <2> QED BY <2>1, <1>1
<1>6. \A k \in 1 .. p :
        \E j \in 1 .. L : s[j] = k /\ {s[i] : i \in 1 .. j - 1} = 1 .. k - 1
  BY DEF Ordered, L
<1> SUFFICES ASSUME NEW k \in 1 .. p + n
             PROVE  \E j \in 1 .. Len(u) : u[j] = k /\ {u[i] : i \in 1 .. j - 1} = 1 .. k - 1
  BY DEF Ordered, u
<1>7. CASE k <= p
  <2>0. k \in 1 .. p BY <1>7
  <2>1. PICK j \in 1 .. L : s[j] = k /\ {s[i] : i \in 1 .. j - 1} = 1 .. k - 1
    BY ONLY <1>6, <2>0, Zenon
  <2>2. j \in 1 .. Len(u) /\ u[j] = k BY <1>1, <1>2, <1>4, <2>1
  <2>3. \A i \in 1 .. j - 1 : u[i] = s[i] BY <1>2, <1>4
  <2>4. {u[i] : i \in 1 .. j - 1} = {s[i] : i \in 1 .. j - 1} BY <2>3
  <2> QED BY <2>1, <2>2, <2>4
<1>8. CASE ~(k <= p)
  <2> DEFINE j == L + (k - p)
  <2>1. j \in 1 .. Len(u) /\ k - p \in 1 .. n /\ u[j] = k BY <1>1, <1>2, <1>5, <1>8
  <2>2. ASSUME NEW i \in 1 .. j - 1 PROVE u[i] \in 1 .. k - 1
    <3>1. CASE i <= L
      <4>1. i \in 1 .. L BY <3>1, <1>2
      <4>2. u[i] = s[i] /\ s[i] \in 1 .. p BY <4>1, <1>3, <1>4
      <4> QED BY <4>2, <1>8
    <3>2. CASE ~(i <= L)
      <4>1. i - L \in 1 .. n /\ L + (i - L) = i /\ i - L < k - p BY <3>2, <1>2, <2>1
      <4>2. u[i] = p + (i - L) BY <4>1, <1>5
      <4> QED BY <4>1, <4>2
    <3> QED BY <3>1, <3>2
  <2>3. ASSUME NEW v \in 1 .. k - 1 PROVE \E i \in 1 .. j - 1 : u[i] = v
    <3>1. CASE v <= p
      <4>1. PICK i \in 1 .. L : s[i] = v BY <3>1, <1>6
      <4>2. i \in 1 .. j - 1 /\ u[i] = v BY <4>1, <1>2, <1>4, <2>1
      <4> QED BY <4>2
    <3>2. CASE ~(v <= p)
      <4>1. v - p \in 1 .. n /\ L + (v - p) \in 1 .. j - 1 BY <3>2, <1>2, <2>1
      <4>2. u[L + (v - p)] = v BY <4>1, <1>5
      <4> QED BY <4>1, <4>2
    <3> QED BY <3>1, <3>2
  <2>4. {u[i] : i \in 1 .. j - 1} = 1 .. k - 1 BY <2>2, <2>3
  <2> QED BY <2>1, <2>4
<1> QED BY <1>7, <1>8

LEMMA OrderedInit == Init => WrittenInOrder
BY DEF Init, WrittenInOrder

\* The output is opened before the first sample, and the text does not touch
\* the samples that are written.
LEMMA OrderedQuiet ==
  IInv /\ WrittenInOrder
    /\ (OpenOut \/ PutText \/ LeaveLoop \/ GetIdle \/ GetError \/ UNCHANGED vars)
    => WrittenInOrder'
<1> SUFFICES ASSUME IInv, WrittenInOrder,
                    OpenOut \/ PutText \/ LeaveLoop \/ GetIdle \/ GetError \/ UNCHANGED vars
             PROVE  WrittenInOrder'
  OBVIOUS
<1>1. file' = file /\ sdfBuf' = sdfBuf /\ buffer' = buffer /\ produced' = produced
  BY DEF OpenOut, PutText, LeaveLoop, GetIdle, GetError, vars, sdf, wave
<1>2. CASE OpenOut
  <2>1. produced = 0 BY <1>2 DEF OpenOut, IInv, Untouched
  <2>2. \A s : Ordered(s, 0) BY DEF Ordered
  <2> QED BY <1>1, <2>1, <2>2 DEF WrittenInOrder
<1>3. CASE PutText
  <2>1. sink' = sink /\ pc = "loop" /\ pc' = "get" BY <1>3 DEF PutText
  <2>2. produced \in Nat /\ buffer \in Seq(1 .. produced)
        /\ file \in Seq(1 .. produced) /\ sdfBuf \in Seq(1 .. produced)
    BY DEF IInv, TypeOK
  <2>3. file \o sdfBuf \in Seq(1 .. produced) BY <2>2, ConcatProperties
  <2>4. sink # "none" => Ordered((file \o sdfBuf) \o buffer, produced)
    BY <2>1, <2>2, <2>3, OrderedAppend DEF WrittenInOrder
  <2> QED BY <1>1, <2>1, <2>4 DEF WrittenInOrder
<1>4. CASE LeaveLoop \/ GetIdle \/ GetError \/ UNCHANGED vars
  <2>1. /\ sink' = sink
        /\ \/ pc = "loop" /\ pc' = "close"
           \/ pc = "get" /\ pc' = "pass"
           \/ pc' = "aborted"
           \/ pc' = pc
    BY <1>4 DEF LeaveLoop, GetIdle, GetError, vars, wave
  <2> QED BY <1>1, <2>1 DEF WrittenInOrder
<1> QED BY <1>2, <1>3, <1>4

LEMMA OrderedGetFrame == IInv /\ WrittenInOrder /\ GetFrame => WrittenInOrder'
<1> SUFFICES ASSUME IInv, WrittenInOrder, GetFrame, sink # "none"
             PROVE  Ordered((file' \o sdfBuf') \o buffer', produced')
  BY DEF GetFrame, wave, WrittenInOrder
<1> USE WaveAssumption
<1> DEFINE n == Head(frames)
<1>1. TypeOK /\ FileCounted BY DEF IInv
<1>2. /\ pc = "get" /\ frames # <<>> /\ produced' = produced + n /\ sink' = sink
  BY DEF GetFrame
<1>3. frames \in Seq(FrameSizes) /\ produced \in Nat BY <1>1 DEF TypeOK
<1>4. n \in FrameSizes BY <1>2, <1>3, HeadTailProperties
<1>5. FrameSizes \subseteq 1 .. BufferSize /\ BufferSize \in Nat OBVIOUS
<1>6. FrameData = [k \in 1 .. n |-> produced + k] BY DEF FrameData
<1> HIDE DEF n
<1>7. n \in Nat BY <1>4, <1>5
<1>8. FrameData \in Seq(1 .. produced + n) /\ Len(FrameData) = n
  BY <1>3, <1>6, <1>7, NumbersGrow
<1>9. \A m \in 1 .. n : FrameData[m] = produced + m BY <1>6
<1>10. /\ buffer \in Seq(1 .. produced) /\ file \in Seq(1 .. produced)
       /\ sdfBuf \in Seq(1 .. produced)
  BY <1>1 DEF TypeOK
<1> DEFINE all == (file \o sdfBuf) \o buffer
<1>11. file \o sdfBuf \in Seq(1 .. produced) /\ all \in Seq(1 .. produced)
  BY <1>10, ConcatProperties
<1>12. Ordered(all, produced) BY <1>2 DEF WrittenInOrder
<1>13. Ordered(all \o FrameData, produced + n)
  <2> HIDE DEF all
  <2> QED BY <1>3, <1>7, <1>8, <1>9, <1>11, <1>12, OrderedGrow
<1>14. (file' \o sdfBuf') \o buffer' = all \o FrameData
  <2>1. CASE HasRoom(n)
    <3>1. buffer' = buffer \o FrameData /\ sdfBuf' = sdfBuf /\ file' = file
      BY <2>1 DEF GetFrame, sdf, n
    <3>2. /\ file \o sdfBuf \in Seq(Nat) /\ buffer \in Seq(Nat) /\ FrameData \in Seq(Nat)
      BY <1>8, <1>10, <1>11, <1>3, <1>7, SeqMonotonic
    <3> DEFINE before == file \o sdfBuf
    <3>3. before \in Seq(Nat) BY <3>2
    <3>4. all \o FrameData = before \o (buffer \o FrameData)
      <4> HIDE DEF before
      <4>1. (before \o buffer) \o FrameData = before \o (buffer \o FrameData)
        BY <3>2, <3>3, ConcatAssociative, SMTT(20)
      <4> QED BY <4>1 DEF before
    <3> QED BY <3>1, <3>4
  <2>2. CASE ~HasRoom(n)
    <3>1. buffer' = FrameData /\ Write(buffer) BY <2>2 DEF GetFrame, Refilled, n
    <3>2. file' \o sdfBuf' = all BY <3>1, <1>1, <1>2, <1>10, WriteAppends
    <3> QED BY <3>1, <3>2
  <2> QED BY <2>1, <2>2
<1> QED BY <1>2, <1>13, <1>14

LEMMA OrderedPass == IInv /\ WrittenInOrder /\ PassRemaining => WrittenInOrder'
<1> SUFFICES ASSUME IInv, WrittenInOrder, PassRemaining, sink # "none"
             PROVE  Ordered(file' \o sdfBuf', produced)
  BY DEF PassRemaining, WrittenInOrder
<1>1. TypeOK /\ FileCounted /\ Write(buffer) /\ sink' = sink /\ pc = "pass"
  BY DEF IInv, PassRemaining
<1>2. buffer \in Seq(1 .. produced) BY <1>1 DEF TypeOK
<1>3. file' \o sdfBuf' = (file \o sdfBuf) \o buffer BY <1>1, <1>2, WriteAppends
<1> QED BY <1>1, <1>3 DEF WrittenInOrder

LEMMA OrderedClose == IInv /\ WrittenInOrder /\ CloseOut => WrittenInOrder'
<1> SUFFICES ASSUME IInv, WrittenInOrder, CloseOut, sink # "none"
             PROVE  Ordered(file', produced)
  BY DEF CloseOut, WrittenInOrder
<1>1. TypeOK /\ FileCounted /\ pc = "close" BY DEF IInv, CloseOut
<1>2. Ordered(file \o sdfBuf, produced) BY <1>1 DEF WrittenInOrder
<1>3. file' = file \o sdfBuf
  <2>1. CASE sink = "file" BY <2>1 DEF CloseOut, SdfCloseOut
  <2>2. CASE sink # "file"
    <3>1. sdfBuf = <<>> /\ file \in Seq(1 .. produced) BY <2>2, <1>1 DEF FileCounted, TypeOK
    <3>2. file \o sdfBuf = file BY <3>1, ConcatEmptySeq
    <3> QED BY <2>2, <3>2 DEF CloseOut, sdf
  <2> QED BY <2>1, <2>2
<1> QED BY <1>2, <1>3

\* For texts of every length, every size of the two buffers and of the
\* frames: at a normal end each sample the engine returned is in the file,
\* and was first written behind all the samples before it.
THEOREM NoSampleIsLost == Spec => []NothingLost
<1>1. IInv /\ WrittenInOrder /\ [Next]_vars => WrittenInOrder'
  BY OrderedQuiet, OrderedGetFrame, OrderedPass, OrderedClose DEF Next
<1>2. WrittenInOrder => NothingLost
  BY DEF WrittenInOrder, NothingLost, Finished, Ordered
<1> QED BY <1>1, <1>2, OrderedInit, Invariant, PTL DEF Spec

-----------------------------------------------------------------------------
(* Signal generation: what is saved, and the rings of spectra and phases. *)

\* The sub object and its rings have these fields.
SigFields ==
  /\ sig = [procState |-> sig.procState, retState |-> sig.retState, inner |-> sig.inner,
            inBuf |-> sig.inBuf, outBuf |-> sig.outBuf, inFile |-> sig.inFile,
            inPos |-> sig.inPos, outFile |-> sig.outFile, rings |-> sig.rings,
            mods |-> sig.mods]
  /\ sig.retState \in {"COLLECT", "PLAY"}
  /\ sig.procState \in {"COLLECT", "SCHEDULE", "PROCESS", "PLAY", "FEED"}

\* The phase two places behind a spectrum is the one its frame named.
RingsAligned(rings) ==
  /\ rings = [cep |-> rings.cep, phs |-> rings.phs, n_available |-> rings.n_available]
  /\ Listed(rings.cep) /\ Len(rings.cep) = SigCepRing
  /\ Listed(rings.phs) /\ Len(rings.phs) = SigPhsRing
  /\ \A i \in 1 .. SigCepRing :
       rings.phs[i + 2] = IF rings.cep[i].phase THEN rings.cep[i].id ELSE 0

FrameAligned(frame) ==
  frame.kind = "frame" => frame.phs = IF frame.cep.phase THEN frame.cep.id ELSE 0

\* What waits in outBuf is made of one frame, and has the fields its kind has.
SigOutAligned ==
  /\ Listed(sig.outBuf) /\ (sig.procState = "FEED" => sig.outBuf # <<>>)
  /\ \A i \in 1 .. Len(sig.outBuf) :
       /\ "kind" \in DOMAIN sig.outBuf[i]
       /\ sig.outBuf[i].kind = "frame" => {"phs", "cep"} \subseteq DOMAIN sig.outBuf[i]
       /\ FrameAligned(sig.outBuf[i])
SigSaidAligned ==
  /\ Listed(sigSaid)
  /\ \A i \in 1 .. Len(sigSaid) : FrameAligned(sigSaid[i])

\* A file that is played or saved to has a name.
NamedItem(item) == item.type = "CMD" /\ item.info1 \in {"PLAY", "SAVE"} => item.name \in Seq(Nat)
SigItemsNamed ==
  /\ Listed(sigIn) /\ \A i \in 1 .. Len(sigIn) : NamedItem(sigIn[i])
  /\ Listed(sig.inBuf) /\ \A i \in 1 .. Len(sig.inBuf) : NamedItem(sig.inBuf[i])
  /\ sig.procState = "SCHEDULE" => sig.inBuf # <<>>
  /\ sig.inFile # <<>> => sig.inFile # sig.outFile

\* What is in a file has been heard, or is the frame that waits for cbOut, or there was
\* an error; and what has been heard while a file was open is in it.
SigInFile(e) ==
  \/ e.at \in 1 .. Len(sigSaid) /\ sigSaid[e.at] = SigWith(e.frame, "saved", e.name)
  \/ /\ e.at = Len(sigSaid) + 1 /\ sig.procState = "FEED" /\ SigWrites
     /\ e.frame = Head(sig.outBuf) /\ e.name = sig.outFile
SigFilesWritten ==
  /\ Listed(sigFile) /\ sigFailed \in BOOLEAN
  /\ \A i \in 1 .. Len(sigFile) :
       sigFile[i].at \in Nat \ {0} /\ sigFile[i].at <= Len(sigSaid) + 1
       /\ (sigFailed \/ SigInFile(sigFile[i]))
  /\ \A i \in 2 .. Len(sigFile) : sigFile[i - 1].at <= sigFile[i].at
  /\ \A i \in 1 .. Len(sigSaid) :
       (sigSaid[i].saved # <<>> /\ sigSaid[i].kind # "item") =>
         \E e \in 1 .. Len(sigFile) : sigFile[e].at = i

SigInv ==
  /\ SigFields /\ RingsAligned(sig.rings) /\ SigOutAligned /\ SigSaidAligned
  /\ SigItemsNamed /\ SigFilesWritten
LEMMA FreshRings == RingsAligned(SigRings)
<1>1. SigCepRing \in Nat /\ SigPhsRing \in Nat /\ SigPhsRing = SigCepRing + 2 BY SigAssumption
<1>2. /\ Listed([i \in 1 .. SigCepRing |-> SigSilent]) /\ Len([i \in 1 .. SigCepRing |-> SigSilent]) = SigCepRing
      /\ Listed([i \in 1 .. SigPhsRing |-> 0]) /\ Len([i \in 1 .. SigPhsRing |-> 0]) = SigPhsRing
  BY <1>1, ListedRing
<1>3. \A i \in 1 .. SigCepRing : SigRings.phs[i + 2] = 0 /\ SigRings.cep[i] = SigSilent
  BY <1>1 DEF SigRings
<1> QED BY <1>2, <1>3 DEF RingsAligned, SigRings, SigSilent

LEMMA SigInitially == SigInit => SigInv
<1> SUFFICES ASSUME SigInit PROVE SigInv OBVIOUS
<1> USE DEF SigInit, SigFresh
<1>1. SigFields BY DEF SigFields
<1>2. RingsAligned(SigRings) BY FreshRings
<1>3. RingsAligned(sig.rings) BY <1>2
<1>4. SigOutAligned BY ListedEmpty, ListedLen DEF SigOutAligned
<1>5. SigSaidAligned BY ListedEmpty, ListedLen DEF SigSaidAligned
<1>6. SigItemsNamed BY ListedEmpty, ListedLen DEF SigItemsNamed
<1>7. SigFilesWritten
  <2>1. Len(<<>>) = 0 /\ 1 .. 0 = {} /\ 2 .. 0 = {} OBVIOUS
  <2>2. sigFile = <<>> /\ sigSaid = <<>> /\ sigFailed = FALSE OBVIOUS
  <2>3. 1 .. Len(sigFile) = {} /\ 2 .. Len(sigFile) = {} /\ 1 .. Len(sigSaid) = {} BY <2>1, <2>2
  <2>4. Listed(sigFile) BY <2>2, ListedEmpty
  <2> QED BY <2>2, <2>3, <2>4 DEF SigFilesWritten
<1> QED BY <1>1, <1>3, <1>4, <1>5, <1>6, <1>7 DEF SigInv

\* While nothing waits for cbOut, what is in the files has been heard.
LEMMA FilesQuiet ==
  ASSUME SigInv, sig.procState # "FEED", UNCHANGED <<sigFile, sigSaid>>,
         sigFailed' \in {sigFailed, TRUE}
  PROVE  SigFilesWritten'
<1> USE DEF SigInv, SigFilesWritten
<1>1. \A i \in 1 .. Len(sigFile) : sigFailed' \/ SigInFile(sigFile[i])' BY DEF SigInFile
<1> QED BY <1>1

\* A step that only consumes the item or moves to another case of the switch.
LEMMA SigQuiet ==
  ASSUME SigInv, SigFields', SigItemsNamed', sig.procState # "FEED", sig'.procState # "FEED",
         UNCHANGED <<sigFile, sigSaid>>, sigFailed' \in {sigFailed, TRUE},
         sig'.outBuf = sig.outBuf, sig'.rings = sig.rings
  PROVE  SigInv'
<1>1. SigFilesWritten' BY FilesQuiet
<1>2. SigOutAligned' BY DEF SigInv, SigOutAligned
<1>3. SigSaidAligned' BY DEF SigInv, SigSaidAligned
<1> QED BY <1>1, <1>2, <1>3 DEF SigInv

\* A record is that of its fields.
LEMMA RecordOf ==
  ASSUME NEW t, t = [x \in DOMAIN t |-> t[x]],
         DOMAIN t = {"procState", "retState", "inner", "inBuf", "outBuf", "inFile", "inPos",
                     "outFile", "rings", "mods"}
  PROVE  t = [procState |-> t.procState, retState |-> t.retState, inner |-> t.inner,
              inBuf |-> t.inBuf, outBuf |-> t.outBuf, inFile |-> t.inFile,
              inPos |-> t.inPos, outFile |-> t.outFile, rings |-> t.rings, mods |-> t.mods]
OBVIOUS

LEMMA SigConsumedFields ==
  ASSUME SigInv
  PROVE  SigConsumed = [procState |-> "COLLECT", retState |-> "COLLECT", inner |-> sig.inner,
            inBuf |-> <<>>, outBuf |-> sig.outBuf, inFile |-> sig.inFile,
            inPos |-> sig.inPos, outFile |-> sig.outFile, rings |-> sig.rings,
            mods |-> sig.mods]
<1> DEFINE t == SigConsumed
<1>1. DOMAIN t = {"procState", "retState", "inner", "inBuf", "outBuf", "inFile", "inPos",
                  "outFile", "rings", "mods"}
  BY DEF SigInv, SigFields, SigConsumed
<1>2. /\ t.procState = "COLLECT" /\ t.retState = "COLLECT" /\ t.inner = sig.inner /\ t.inBuf = <<>>
      /\ t.outBuf = sig.outBuf /\ t.inFile = sig.inFile /\ t.inPos = sig.inPos
      /\ t.outFile = sig.outFile /\ t.rings = sig.rings /\ t.mods = sig.mods
  BY DEF SigInv, SigFields, SigConsumed
<1>3. t = [x \in DOMAIN t |-> t[x]] BY DEF SigConsumed
<1> HIDE DEF t
<1>4. t = [procState |-> "COLLECT", retState |-> "COLLECT", inner |-> sig.inner,
            inBuf |-> <<>>, outBuf |-> sig.outBuf, inFile |-> sig.inFile,
            inPos |-> sig.inPos, outFile |-> sig.outFile, rings |-> sig.rings,
            mods |-> sig.mods]
  BY <1>1, <1>2, <1>3
<1> QED BY <1>4 DEF t

\* The item in inBuf, if it plays or saves, has a name.
LEMMA ItemNamed ==
  ASSUME SigInv, sig.procState = "SCHEDULE"
  PROVE  NamedItem(SigItem)
BY ListedHead DEF SigInv, SigItemsNamed, SigItem

LEMMA NamesBegin == ASSUME NEW name \in Seq(Nat) PROVE SigSameName(name, name)
BY DEF SigSameName, IsPrefix

LEMMA SigQuietSteps ==
  ASSUME SigInv,
         \/ SigCollect \/ SigScheduleFrame \/ SigSchedulePlay \/ SigScheduleSave
         \/ SigScheduleUnsave \/ SigScheduleModify \/ SigPlayEnd
  PROVE  SigInv'
<1> USE DEF SigInv, SigInside
<1>1. CASE SigCollect
  <2>1. sig' = [sig EXCEPT !.inBuf = sigIn, !.procState = "SCHEDULE"] /\ sigIn # <<>> /\ sigIn' = <<>>
        /\ sig.procState = "COLLECT"
    BY <1>1 DEF SigCollect
  <2>2. SigFields' BY <2>1 DEF SigFields
  <2>3. SigItemsNamed' BY <2>1, ListedEmpty, ListedLen DEF SigItemsNamed, SigFields
  <2> QED BY <1>1, <2>1, <2>2, <2>3, SigQuiet DEF SigCollect, SigFields
<1>2. CASE SigScheduleFrame
  <2>1. SigFields' BY <1>2 DEF SigFields, SigScheduleFrame
  <2>2. SigItemsNamed' BY <1>2 DEF SigItemsNamed, SigFields, SigScheduleFrame
  <2> QED BY <1>2, <2>1, <2>2, SigQuiet DEF SigScheduleFrame, SigFields
<1>3. CASE SigSchedulePlay
  <2> USE SigConsumedFields DEF SigSchedulePlay, SigScheduled
  <2>1. SigFields'
    <3>1. CASE sig' = SigConsumed BY <3>1 DEF SigFields
    <3>2. CASE sig' # SigConsumed BY <1>3, <3>2 DEF SigFields
    <3> QED BY <3>1, <3>2
  <2>2. NamedItem(SigItem) BY <1>3, ItemNamed
  <2>3. SigItem.name \in Seq(Nat) BY <1>3, <2>2 DEF NamedItem
  <2>4. sig'.inFile # <<>> => sig'.inFile # sig'.outFile BY <1>3, <2>3, NamesBegin DEF SigItemsNamed
  <2>5. SigItemsNamed' BY <1>3, <2>4, ListedEmpty, ListedLen DEF SigItemsNamed
  <2> QED BY <1>3, <2>1, <2>5, SigQuiet
<1>4. CASE SigScheduleSave
  <2> USE SigConsumedFields DEF SigScheduleSave, SigScheduled
  <2>1. SigFields' BY <1>4 DEF SigFields
  <2>2. NamedItem(SigItem) BY <1>4, ItemNamed
  <2>3. SigItem.name \in Seq(Nat) BY <1>4, <2>2 DEF NamedItem
  <2>4. sig'.inFile # <<>> => sig'.inFile # sig'.outFile BY <1>4, <2>3, NamesBegin DEF SigItemsNamed
  <2>5. SigItemsNamed' BY <1>4, <2>4, ListedEmpty, ListedLen DEF SigItemsNamed
  <2>6. sigFailed' \in {sigFailed, TRUE} BY <1>4
  <2>7. sig'.procState = "COLLECT" /\ sig'.outBuf = sig.outBuf /\ sig'.rings = sig.rings BY <1>4
  <2>8. sig.procState # "FEED" /\ UNCHANGED <<sigFile, sigSaid>> BY <1>4
  <2> HIDE SigConsumedFields
  <2> QED BY <2>1, <2>5, <2>6, <2>7, <2>8, SigQuiet
<1>5. CASE SigScheduleUnsave
  <2> USE SigConsumedFields DEF SigScheduleUnsave, SigScheduled
  <2>1. SigFields' BY <1>5 DEF SigFields
  <2>2. SigItemsNamed' BY <1>5, ListedEmpty, ListedLen DEF SigItemsNamed
  <2> QED BY <1>5, <2>1, <2>2, SigQuiet
<1>6. CASE SigScheduleModify
  <2> USE SigConsumedFields DEF SigScheduleModify
  <2>1. SigFields' BY <1>6 DEF SigFields
  <2>2. SigItemsNamed' BY <1>6, ListedEmpty, ListedLen DEF SigItemsNamed
  <2> QED BY <1>6, <2>1, <2>2, SigQuiet
<1>7. CASE SigPlayEnd
  <2>1. SigFields' BY <1>7 DEF SigFields, SigPlayEnd
  <2>2. SigItemsNamed' BY <1>7 DEF SigItemsNamed, SigFields, SigPlayEnd
  <2> QED BY <1>7, <2>1, <2>2, SigQuiet DEF SigPlayEnd, SigFields
<1> QED BY <1>1, <1>2, <1>3, <1>4, <1>5, <1>6, <1>7

\* Both rings move together: what is loaded is two places apart again.
LEMMA LoadAligned ==
  ASSUME NEW rings, RingsAligned(rings), NEW item
  PROVE  RingsAligned(SigLoaded(rings, item))
<1>1. SigCepRing \in Nat \ {0} /\ SigPhsRing = SigCepRing + 2 BY SigAssumption
<1> DEFINE phase == IF item.phase THEN item.id ELSE 0
           spectra == SigShift(rings.cep, SigSpectrum(item))
           phs == SigShift(rings.phs, phase)
<1> USE DEF RingsAligned
<1>2. rings.cep # <<>> /\ rings.phs # <<>> BY <1>1, ListedLen
<1>3. /\ Listed(Tail(rings.cep)) /\ Len(Tail(rings.cep)) = SigCepRing - 1
      /\ \A i \in 1 .. SigCepRing - 1 : Tail(rings.cep)[i] = rings.cep[i + 1]
  BY <1>2, ListedTail
<1>4. /\ Listed(Tail(rings.phs)) /\ Len(Tail(rings.phs)) = SigCepRing + 1
      /\ \A i \in 1 .. SigCepRing + 1 : Tail(rings.phs)[i] = rings.phs[i + 1]
  <2>1. /\ Listed(Tail(rings.phs)) /\ Len(Tail(rings.phs)) = Len(rings.phs) - 1
        /\ \A i \in 1 .. Len(rings.phs) - 1 : Tail(rings.phs)[i] = rings.phs[i + 1]
    BY <1>2, ListedTail
  <2>2. Len(rings.phs) - 1 = SigCepRing + 1 BY <1>1
  <2> QED BY <2>1, <2>2
<1>5. /\ Listed(spectra) /\ Len(spectra) = SigCepRing /\ spectra[SigCepRing] = SigSpectrum(item)
      /\ \A i \in 1 .. SigCepRing - 1 : spectra[i] = rings.cep[i + 1]
  <2>1. /\ Listed(spectra) /\ Len(spectra) = (SigCepRing - 1) + 1 /\ spectra[(SigCepRing - 1) + 1] = SigSpectrum(item)
        /\ \A i \in 1 .. SigCepRing - 1 : spectra[i] = Tail(rings.cep)[i]
    BY <1>3, ListedAppend DEF SigShift
  <2>2. (SigCepRing - 1) + 1 = SigCepRing BY <1>1
  <2> QED BY <2>1, <2>2, <1>3
<1>6. /\ Listed(phs) /\ Len(phs) = SigPhsRing /\ phs[SigCepRing + 2] = phase
      /\ \A i \in 1 .. SigCepRing + 1 : phs[i] = rings.phs[i + 1]
  <2>1. /\ Listed(phs) /\ Len(phs) = (SigCepRing + 1) + 1 /\ phs[(SigCepRing + 1) + 1] = phase
        /\ \A i \in 1 .. SigCepRing + 1 : phs[i] = Tail(rings.phs)[i]
    <3> HIDE DEF phase
    <3> QED BY <1>4, ListedAppend DEF SigShift
  <2>2. (SigCepRing + 1) + 1 = SigCepRing + 2 BY <1>1
  <2> QED BY <2>1, <2>2, <1>1, <1>4
<1>7. ASSUME NEW i \in 1 .. SigCepRing
      PROVE  phs[i + 2] = IF spectra[i].phase THEN spectra[i].id ELSE 0
  <2>1. CASE i = SigCepRing
    <3>1. spectra[i].phase = item.phase /\ spectra[i].id = item.id BY <1>5, <2>1 DEF SigSpectrum
    <3> QED BY <1>6, <2>1, <3>1
  <2>2. CASE i # SigCepRing
    <3>1. i \in 1 .. SigCepRing - 1 /\ i + 2 \in 1 .. SigCepRing + 1 /\ i + 1 \in 1 .. SigCepRing
          /\ (i + 2) + 1 = (i + 1) + 2
      BY <1>1, <2>2
    <3>2. phs[i + 2] = rings.phs[(i + 1) + 2] /\ spectra[i] = rings.cep[i + 1] BY <1>5, <1>6, <3>1
    <3>3. rings.phs[(i + 1) + 2] = IF rings.cep[i + 1].phase THEN rings.cep[i + 1].id ELSE 0
      BY <3>1
    <3> HIDE DEF phs, spectra
    <3> QED BY <3>2, <3>3
  <2> QED BY <2>1, <2>2
<1> HIDE DEF spectra, phs
<1>8. SigLoaded(rings, item) =
        [cep |-> spectra, phs |-> phs,
         n_available |-> IF rings.n_available < 3 THEN rings.n_available + 1 ELSE 3]
  BY DEF SigLoaded, spectra, phs
<1> QED BY <1>5, <1>6, <1>7, <1>8
\* What is put into outBuf when it is empty of what was there before.
LEMMA SigFilled ==
  ASSUME SigInv, SigFields', SigItemsNamed', sig.procState # "FEED", sig'.procState = "FEED",
         UNCHANGED <<sigFile, sigSaid, sigFailed>>, RingsAligned(sig'.rings),
         Listed(sig'.outBuf), sig'.outBuf # <<>>,
         \A i \in 1 .. Len(sig'.outBuf) :
           /\ "kind" \in DOMAIN sig'.outBuf[i]
           /\ sig'.outBuf[i].kind = "frame" => {"phs", "cep"} \subseteq DOMAIN sig'.outBuf[i]
           /\ FrameAligned(sig'.outBuf[i])
  PROVE  SigInv'
<1>1. SigFilesWritten' BY FilesQuiet
<1>2. SigOutAligned' BY DEF SigOutAligned
<1>3. SigSaidAligned' BY DEF SigInv, SigSaidAligned
<1>4. RingsAligned(sig.rings)' BY DEF RingsAligned
<1> QED BY <1>1, <1>2, <1>3, <1>4 DEF SigInv

LEMMA ConsumedNamed ==
  ASSUME SigInv, UNCHANGED sigIn, sig'.inBuf = <<>>, sig'.procState # "SCHEDULE",
         sig'.inFile = sig.inFile, sig'.outFile = sig.outFile
  PROVE  SigItemsNamed'
<1>1. Len(<<>>) = 0 /\ 1 .. 0 = {} OBVIOUS
<1>2. Listed(sig'.inBuf) /\ 1 .. Len(sig'.inBuf) = {} BY <1>1, ListedEmpty
<1> QED BY <1>2 DEF SigItemsNamed, SigInv

LEMMA SigProcessSteps ==
  ASSUME SigInv, SigScheduleOther \/ SigProcessLoad \/ SigProcessMake \/ SigPlayFrame
  PROVE  SigInv'
<1> USE DEF SigInside
<1>1. CASE SigScheduleOther
  <2> DEFINE item == [kind |-> "item", id |-> SigItem.id]
  <2>0. sig' = [SigConsumed EXCEPT !.outBuf = <<item>>, !.procState = "FEED"] /\ UNCHANGED sigIn
    BY <1>1 DEF SigScheduleOther
  <2>4. Listed(<<item>>) /\ Len(<<item>>) = 1 /\ <<item>>[1] = item BY ListedOne
  <2>5. item.kind # "frame" /\ "kind" \in DOMAIN item OBVIOUS
  <2> HIDE DEF item
  <2>1. /\ sig'.inBuf = <<>> /\ sig'.outBuf = <<item>> /\ sig'.procState = "FEED"
        /\ sig'.inFile = sig.inFile /\ sig'.outFile = sig.outFile /\ sig'.rings = sig.rings
    BY <2>0, SigConsumedFields
  <2>2. SigFields'
    <3>1. DOMAIN sig' = {"procState", "retState", "inner", "inBuf", "outBuf", "inFile", "inPos",
                         "outFile", "rings", "mods"}
          /\ sig' = [x \in DOMAIN sig' |-> sig'[x]]
      BY <2>0, SigConsumedFields
    <3>2. sig'.retState = "COLLECT" BY <2>0, SigConsumedFields
    <3> QED BY <2>1, <3>1, <3>2, RecordOf DEF SigFields
  <2>3. SigItemsNamed' BY <2>0, <2>1, ConsumedNamed
  <2>6. <<item>> # <<>> BY <2>4, ListedLen
  <2>7. Listed(sig'.outBuf) /\ Len(sig'.outBuf) = 1 /\ sig'.outBuf[1] = item /\ sig'.outBuf # <<>>
    BY <2>1, <2>4, <2>6
  <2>8. RingsAligned(sig'.rings) BY <2>1 DEF SigInv
  <2>9. sig.procState # "FEED" /\ sig'.procState = "FEED" /\ UNCHANGED <<sigFile, sigSaid, sigFailed>>
    BY <1>1, <2>1 DEF SigScheduleOther
  <2>10. \A i \in 1 .. Len(sig'.outBuf) : sig'.outBuf[i] = item BY <2>7
  <2> QED BY <2>2, <2>3, <2>5, <2>7, <2>8, <2>9, <2>10, SigFilled DEF FrameAligned
<1>2. CASE SigProcessLoad
  <2> DEFINE new == SigLoaded(sig.rings, SigItem)
  <2>1. RingsAligned(new) BY LoadAligned DEF SigInv
  <2> HIDE DEF new
  <2>2. sig' = [sig EXCEPT !.rings = new, !.inner = IF new.n_available < 3 THEN "load" ELSE "make"]
    BY <1>2 DEF SigProcessLoad, new
  <2>3. SigFields' BY <2>2 DEF SigFields, SigInv
  <2>4. /\ sig'.rings = new /\ sig'.procState = sig.procState /\ sig'.outBuf = sig.outBuf
        /\ sig'.inBuf = sig.inBuf /\ sig'.inFile = sig.inFile /\ sig'.outFile = sig.outFile
    BY <2>2 DEF SigFields, SigInv
  <2>5. sig.procState = "PROCESS" /\ UNCHANGED <<sigIn, sigFile, sigSaid, sigFailed>>
    BY <1>2 DEF SigProcessLoad
  <2>6. SigItemsNamed' BY <2>4, <2>5 DEF SigItemsNamed, SigInv
  <2>7. SigFilesWritten' BY <2>5, FilesQuiet
  <2>8. SigOutAligned' BY <2>4 DEF SigOutAligned, SigInv
  <2>9. SigSaidAligned' BY <2>5 DEF SigSaidAligned, SigInv
  <2>10. RingsAligned(sig.rings)' BY <2>1, <2>4 DEF RingsAligned
  <2> QED BY <2>3, <2>6, <2>7, <2>8, <2>9, <2>10 DEF SigInv
<1>3. CASE SigProcessMake
  <2> DEFINE out == <<SigMade(1), SigMade(2)>>
  <2>0. sig' = [SigConsumed EXCEPT !.inner = "load", !.outBuf = out, !.procState = "FEED"]
        /\ UNCHANGED sigIn
    BY <1>3 DEF SigProcessMake
  <2>4. Listed(out) /\ Len(out) = 2 /\ out[1] = SigMade(1) /\ out[2] = SigMade(2) BY ListedTwo
  <2>5. ASSUME NEW half
        PROVE  /\ "kind" \in DOMAIN SigMade(half) /\ {"phs", "cep"} \subseteq DOMAIN SigMade(half)
               /\ FrameAligned(SigMade(half))
    <3>1. sig.rings.phs[3] = IF sig.rings.cep[1].phase THEN sig.rings.cep[1].id ELSE 0
      <4>1. 1 \in 1 .. SigCepRing /\ 1 + 2 = 3 BY SigAssumption
      <4> QED BY <4>1 DEF SigInv, RingsAligned
    <3> QED BY <3>1 DEF SigMade, FrameAligned
  <2> HIDE DEF out
  <2>1. /\ sig'.inBuf = <<>> /\ sig'.outBuf = out /\ sig'.procState = "FEED"
        /\ sig'.inFile = sig.inFile /\ sig'.outFile = sig.outFile /\ sig'.rings = sig.rings
    BY <2>0, SigConsumedFields
  <2>2. SigFields'
    <3>1. DOMAIN sig' = {"procState", "retState", "inner", "inBuf", "outBuf", "inFile", "inPos",
                         "outFile", "rings", "mods"}
          /\ sig' = [x \in DOMAIN sig' |-> sig'[x]]
      BY <2>0, SigConsumedFields
    <3>2. sig'.retState = "COLLECT" BY <2>0, SigConsumedFields
    <3> QED BY <2>1, <3>1, <3>2, RecordOf DEF SigFields
  <2>3. SigItemsNamed' BY <2>0, <2>1, ConsumedNamed
  <2>6. out # <<>> BY <2>4, ListedLen
  <2>7. \A i \in 1 .. Len(sig'.outBuf) : sig'.outBuf[i] \in {SigMade(1), SigMade(2)}
    <3>1. 1 .. Len(sig'.outBuf) = {1, 2} BY <2>1, <2>4
    <3> QED BY <2>1, <2>4, <3>1
  <2>8. RingsAligned(sig'.rings) BY <2>1 DEF SigInv
  <2>9. sig.procState # "FEED" /\ sig'.procState = "FEED" /\ UNCHANGED <<sigFile, sigSaid, sigFailed>>
    BY <1>3, <2>1 DEF SigProcessMake
  <2>10. \A i \in 1 .. Len(sig'.outBuf) :
           /\ "kind" \in DOMAIN sig'.outBuf[i]
           /\ {"phs", "cep"} \subseteq DOMAIN sig'.outBuf[i]
           /\ FrameAligned(sig'.outBuf[i])
    BY <2>5, <2>7
  <2>11. Listed(sig'.outBuf) /\ sig'.outBuf # <<>> BY <2>1, <2>4, <2>6
  <2> QED BY <2>2, <2>3, <2>8, <2>9, <2>10, <2>11, SigFilled
<1>4. CASE SigPlayFrame
  <2> DEFINE sound == [kind |-> "sound", name |-> sig.inFile, nr |-> sig.inPos + 1,
                       mods |-> sig.mods]
  <2>1. sig.procState = "PLAY" /\ UNCHANGED <<sigIn, sigFile, sigSaid, sigFailed>>
        /\ sig' = [sig EXCEPT !.inPos = @ + 1, !.procState = "FEED", !.retState = "PLAY",
                              !.outBuf = <<sound>>]
    BY <1>4 DEF SigPlayFrame
  <2>2. Listed(<<sound>>) /\ Len(<<sound>>) = 1 /\ <<sound>>[1] = sound BY ListedOne
  <2>3. sound.kind # "frame" /\ "kind" \in DOMAIN sound OBVIOUS
  <2> HIDE DEF sound
  <2>4. SigFields' BY <2>1 DEF SigFields, SigInv
  <2>5. /\ sig'.rings = sig.rings /\ sig'.procState = "FEED" /\ sig'.outBuf = <<sound>>
        /\ sig'.inBuf = sig.inBuf /\ sig'.inFile = sig.inFile /\ sig'.outFile = sig.outFile
    BY <2>1 DEF SigFields, SigInv
  <2>6. SigItemsNamed' BY <2>1, <2>5 DEF SigItemsNamed, SigInv
  <2>7. <<sound>> # <<>> BY <2>2, ListedLen
  <2>8. RingsAligned(sig'.rings) BY <2>5 DEF SigInv
  <2>9. Listed(sig'.outBuf) /\ sig'.outBuf # <<>> BY <2>2, <2>5, <2>7
  <2>10. \A i \in 1 .. Len(sig'.outBuf) : sig'.outBuf[i] = sound BY <2>2, <2>5
  <2> QED BY <2>1, <2>3, <2>4, <2>5, <2>6, <2>8, <2>9, <2>10, SigFilled DEF FrameAligned
<1> QED BY <1>1, <1>2, <1>3, <1>4
\* A frame that is written comes behind those written before.
LEMMA FileGrows ==
  ASSUME SigInv
  PROVE  /\ Listed(SigWritten) /\ Len(SigWritten) = Len(sigFile) + 1 /\ Len(sigFile) \in Nat
         /\ \A i \in 1 .. Len(sigFile) : SigWritten[i] = sigFile[i]
         /\ SigWritten[Len(sigFile) + 1].at = Len(sigSaid) + 1
         /\ SigWritten[Len(sigFile) + 1].frame = Head(sig.outBuf)
         /\ SigWritten[Len(sigFile) + 1].name = sig.outFile
         /\ \A i \in 2 .. Len(SigWritten) : SigWritten[i - 1].at <= SigWritten[i].at
<1> DEFINE e == [name |-> sig.outFile, at |-> Len(sigSaid) + 1, frame |-> Head(sig.outBuf)]
<1>1. Listed(sigFile) /\ Len(sigFile) \in Nat BY ListedLen DEF SigInv, SigFilesWritten
<1>2. e.at = Len(sigSaid) + 1 /\ e.frame = Head(sig.outBuf) /\ e.name = sig.outFile OBVIOUS
<1>3. SigWritten = Append(sigFile, e) BY DEF SigWritten
<1> HIDE DEF e
<1>4. /\ Listed(SigWritten) /\ Len(SigWritten) = Len(sigFile) + 1
      /\ \A i \in 1 .. Len(sigFile) : SigWritten[i] = sigFile[i]
      /\ SigWritten[Len(sigFile) + 1] = e
  BY <1>1, <1>3, ListedAppend
<1>5. ASSUME NEW i \in 2 .. Len(SigWritten) PROVE SigWritten[i - 1].at <= SigWritten[i].at
  <2>1. i - 1 \in 1 .. Len(sigFile) BY <1>1, <1>4
  <2>2. SigWritten[i - 1] = sigFile[i - 1] BY <1>4, <2>1
  <2>3. CASE i \in 2 .. Len(sigFile)
    <3>1. SigWritten[i] = sigFile[i] BY <1>4, <2>3
    <3>2. sigFile[i - 1].at <= sigFile[i].at BY <2>3 DEF SigInv, SigFilesWritten
    <3> QED BY <2>2, <3>1, <3>2
  <2>4. CASE i \notin 2 .. Len(sigFile)
    <3>1. i = Len(sigFile) + 1 BY <1>1, <1>4, <2>4
    <3>2. sigFile[i - 1].at <= Len(sigSaid) + 1 BY <2>1 DEF SigInv, SigFilesWritten
    <3> QED BY <1>2, <1>4, <2>2, <3>1, <3>2
  <2> QED BY <2>3, <2>4
<1> QED BY <1>1, <1>2, <1>4, <1>5

\* What is put out is the frame that waited, and the file it went to.
LEMMA SigPutKeeps == ASSUME SigInv, SigFeedPut PROVE SigInv'
<1> USE DEF SigInv
<1> DEFINE head == Head(sig.outBuf)
           new == SigWith(head, "saved", sig.outFile)
           n == Len(sigSaid)
<1>1. sig.procState = "FEED" /\ sig.outBuf # <<>> BY DEF SigFeedPut, SigOutAligned
<1>2. sig' = [sig EXCEPT !.outBuf = Tail(@),
                         !.procState = IF Len(sig.outBuf) > 1 THEN @ ELSE sig.retState]
      /\ sigSaid' = Append(sigSaid, new) /\ UNCHANGED <<sigIn, sigFailed>>
      /\ sigFile' = IF SigWrites THEN SigWritten ELSE sigFile
  BY DEF SigFeedPut
<1>3. /\ sig'.outBuf = Tail(sig.outBuf) /\ sig'.rings = sig.rings
      /\ sig'.procState = IF Len(sig.outBuf) > 1 THEN "FEED" ELSE sig.retState
      /\ sig'.inBuf = sig.inBuf /\ sig'.inFile = sig.inFile /\ sig'.outFile = sig.outFile
  BY <1>1, <1>2 DEF SigFields
<1>4. SigFields' BY <1>1, <1>2 DEF SigFields
<1>5. SigItemsNamed' BY <1>2, <1>3 DEF SigItemsNamed, SigFields
<1>6. RingsAligned(sig.rings)' BY <1>3 DEF RingsAligned
<1>7. head = sig.outBuf[1] /\ 1 \in 1 .. Len(sig.outBuf) /\ Len(sig.outBuf) \in Nat
  BY <1>1, ListedHead DEF SigOutAligned
<1>8. /\ "kind" \in DOMAIN head /\ (head.kind = "frame" => {"phs", "cep"} \subseteq DOMAIN head)
      /\ FrameAligned(head)
  BY <1>7 DEF SigOutAligned
<1>9. SigOutAligned'
  <2>1. /\ Listed(sig'.outBuf) /\ Len(sig'.outBuf) = Len(sig.outBuf) - 1
        /\ \A i \in 1 .. Len(sig.outBuf) - 1 : sig'.outBuf[i] = sig.outBuf[i + 1]
    BY <1>1, <1>3, ListedTail DEF SigOutAligned
  <2>2. sig'.procState = "FEED" => sig'.outBuf # <<>>
    <3>1. Listed(sig'.outBuf) => (sig'.outBuf = <<>> <=> Len(sig'.outBuf) = 0) BY ListedLen
    <3>2. sig.retState # "FEED" BY DEF SigFields
    <3>3. sig'.procState = "FEED" => Len(sig.outBuf) > 1 BY <1>3, <1>7, <3>2
    <3>4. \A k \in Nat : k > 1 => k - 1 # 0 OBVIOUS
    <3> QED BY <1>7, <2>1, <3>1, <3>3, <3>4
  <2>3. \A i \in 1 .. Len(sig'.outBuf) : i + 1 \in 1 .. Len(sig.outBuf) BY <1>7, <2>1
  <2> QED BY <2>1, <2>2, <2>3 DEF SigOutAligned
<1>10. new.saved = sig.outFile /\ new.kind = head.kind /\ FrameAligned(new)
  <2>1. new = [f \in DOMAIN head \cup {"saved"} |-> IF f = "saved" THEN sig.outFile ELSE head[f]]
    BY DEF SigWith
  <2> HIDE DEF new, head
  <2>2. new.saved = sig.outFile /\ \A f \in DOMAIN head \ {"saved"} : new[f] = head[f] BY <2>1
  <2>3. new.kind = head.kind BY <1>8, <2>2
  <2>4. head.kind = "frame" => new.phs = head.phs /\ new.cep = head.cep BY <1>8, <2>2
  <2> QED BY <1>8, <2>2, <2>3, <2>4 DEF FrameAligned
<1> HIDE DEF new
<1>11. /\ n \in Nat /\ Listed(sigSaid') /\ Len(sigSaid') = n + 1
       /\ \A i \in 1 .. n : sigSaid'[i] = sigSaid[i]
       /\ sigSaid'[n + 1] = new
  <2>1. n \in Nat BY ListedLen DEF SigSaidAligned
  <2> QED BY <1>2, <2>1, ListedAppend DEF SigSaidAligned
<1>12. SigSaidAligned'
  <2>1. ASSUME NEW i \in 1 .. Len(sigSaid') PROVE FrameAligned(sigSaid'[i])
    <3>1. i \in 1 .. n \/ i = n + 1 BY <1>11
    <3> QED BY <1>10, <1>11, <3>1 DEF SigSaidAligned
  <2> QED BY <1>11, <2>1 DEF SigSaidAligned
<1>13. SigFilesWritten'
  <2> DEFINE m == Len(sigFile)
  <2>1. m \in Nat /\ Listed(sigFile) BY ListedLen DEF SigFilesWritten
  <2>2. /\ Listed(sigFile') /\ Len(sigFile') \in Nat /\ m <= Len(sigFile')
        /\ \A i \in 1 .. m : sigFile'[i] = sigFile[i]
        /\ \A i \in 2 .. Len(sigFile') : sigFile'[i - 1].at <= sigFile'[i].at
        /\ \A i \in 1 .. Len(sigFile') :
             i \in 1 .. m \/ (i = m + 1 /\ sigFile'[i].at = n + 1 /\ sigFile'[i].frame = head
                             /\ sigFile'[i].name = sig.outFile)
        /\ SigWrites => (m + 1 \in 1 .. Len(sigFile') /\ sigFile'[m + 1].at = n + 1)
    <3>1. CASE SigWrites BY <1>2, <2>1, <3>1, FileGrows
    <3>2. CASE ~SigWrites BY <1>2, <2>1, <3>2 DEF SigFilesWritten
    <3> QED BY <3>1, <3>2
  <2>3. ASSUME NEW i \in 1 .. Len(sigFile')
        PROVE  /\ sigFile'[i].at \in Nat \ {0} /\ sigFile'[i].at <= Len(sigSaid') + 1
               /\ sigFailed' \/ SigInFile(sigFile[i])'
    <3>1. CASE i \in 1 .. m
      <4>1. sigFile'[i] = sigFile[i] BY <2>2, <3>1
      <4>2. sigFile[i].at \in Nat \ {0} /\ sigFile[i].at <= n + 1
            /\ (sigFailed \/ SigInFile(sigFile[i]))
        BY <3>1 DEF SigFilesWritten
      <4>3. ASSUME SigInFile(sigFile[i])
            PROVE  sigFile[i].at \in 1 .. Len(sigSaid')
                   /\ sigSaid'[sigFile[i].at] = SigWith(sigFile[i].frame, "saved", sigFile[i].name)
        <5>1. CASE sigFile[i].at \in 1 .. n BY <1>11, <4>3, <5>1 DEF SigInFile
        <5>2. CASE sigFile[i].at \notin 1 .. n
          <6>1. sigFile[i].at = n + 1 /\ sigFile[i].frame = head /\ sigFile[i].name = sig.outFile
            BY <4>3, <5>2 DEF SigInFile
          <6>2. n + 1 \in 1 .. Len(sigSaid') BY <1>11
          <6> QED BY <1>11, <6>1, <6>2 DEF new
        <5> QED BY <5>1, <5>2
      <4> QED BY <1>2, <1>11, <4>1, <4>2, <4>3 DEF SigInFile
    <3>2. CASE i \notin 1 .. m
      <4>1. sigFile'[i].at = n + 1 /\ sigFile'[i].frame = head /\ sigFile'[i].name = sig.outFile
        BY <2>2, <3>2
      <4>2. n + 1 \in 1 .. Len(sigSaid') /\ n + 1 \in Nat \ {0} /\ n + 1 <= Len(sigSaid') + 1 BY <1>11
      <4>3. sigSaid'[n + 1] = SigWith(sigFile'[i].frame, "saved", sigFile'[i].name)
        BY <1>11, <4>1 DEF new
      <4> QED BY <4>1, <4>2, <4>3 DEF SigInFile
    <3> QED BY <3>1, <3>2
  <2>4. ASSUME NEW i \in 1 .. Len(sigSaid'), sigSaid'[i].saved # <<>>, sigSaid'[i].kind # "item"
        PROVE  \E e \in 1 .. Len(sigFile') : sigFile'[e].at = i
    <3>1. CASE i \in 1 .. n
      <4>1. PICK e \in 1 .. m : sigFile[e].at = i BY <1>11, <2>4, <3>1 DEF SigFilesWritten
      <4>2. e \in 1 .. Len(sigFile') /\ sigFile'[e].at = i BY <2>1, <2>2, <4>1
      <4> QED BY <4>2
    <3>2. CASE i \notin 1 .. n
      <4>1. i = n + 1 BY <1>11, <3>2
      <4>2. SigWrites BY <1>10, <1>11, <2>4, <4>1 DEF SigWrites
      <4> QED BY <2>2, <4>1, <4>2
    <3> QED BY <3>1, <3>2
  <2>5. sigFailed' \in BOOLEAN BY <1>2 DEF SigFilesWritten
  <2> QED BY <2>2, <2>3, <2>4, <2>5 DEF SigFilesWritten
<1> QED BY <1>4, <1>5, <1>6, <1>9, <1>12, <1>13

\* The frame that found cbOut full is in the file, and still waits.
LEMMA SigFullKeeps == ASSUME SigInv, SigFeedFull PROVE SigInv'
<1> USE DEF SigInv
<1>1. sigFile' = SigWritten /\ SigWrites /\ sig.procState = "FEED"
      /\ UNCHANGED <<sig, sigIn, sigSaid, sigFailed>>
  BY DEF SigFeedFull
<1>2. SigFields' BY <1>1 DEF SigFields
<1>3. RingsAligned(sig.rings)' BY <1>1 DEF RingsAligned
<1>4. SigOutAligned' BY <1>1 DEF SigOutAligned
<1>5. SigSaidAligned' BY <1>1 DEF SigSaidAligned
<1>6. SigItemsNamed' BY <1>1 DEF SigItemsNamed
<1>7. SigFilesWritten'
  <2> DEFINE m == Len(sigFile)
             n == Len(sigSaid)
  <2>1. n \in Nat BY ListedLen DEF SigSaidAligned
  <2>2. ASSUME NEW i \in 1 .. Len(sigFile')
        PROVE  /\ sigFile'[i].at \in Nat \ {0} /\ sigFile'[i].at <= Len(sigSaid') + 1
               /\ sigFailed' \/ SigInFile(sigFile[i])'
    <3>1. CASE i \in 1 .. m
      <4>1. sigFile'[i] = sigFile[i] BY <1>1, <3>1, FileGrows
      <4> QED BY <1>1, <3>1, <4>1 DEF SigFilesWritten, SigInFile, SigWrites
    <3>2. CASE i \notin 1 .. m
      <4>1. i = m + 1 BY <1>1, <3>2, FileGrows
      <4>2. sigFile'[i].at = n + 1 /\ sigFile'[i].frame = Head(sig.outBuf)
            /\ sigFile'[i].name = sig.outFile
        BY <1>1, <4>1, FileGrows
      <4> QED BY <1>1, <2>1, <4>2 DEF SigInFile, SigWrites
    <3> QED BY <3>1, <3>2
  <2>3. ASSUME NEW i \in 1 .. Len(sigSaid'), sigSaid'[i].saved # <<>>, sigSaid'[i].kind # "item"
        PROVE  \E e \in 1 .. Len(sigFile') : sigFile'[e].at = i
    <3>1. PICK e \in 1 .. m : sigFile[e].at = i BY <1>1, <2>3 DEF SigFilesWritten
    <3>2. e \in 1 .. Len(sigFile') /\ sigFile'[e].at = i BY <1>1, <3>1, FileGrows
    <3> QED BY <3>2
  <2>4. Listed(sigFile') /\ \A i \in 2 .. Len(sigFile') : sigFile'[i - 1].at <= sigFile'[i].at
    BY <1>1, FileGrows
  <2>5. sigFailed' \in BOOLEAN BY <1>1 DEF SigFilesWritten
  <2> QED BY <2>2, <2>3, <2>4, <2>5 DEF SigFilesWritten
<1> QED BY <1>2, <1>3, <1>4, <1>5, <1>6, <1>7

LEMMA SigErrorKeeps == ASSUME SigInv, SigFeedError PROVE SigInv'
<1> USE DEF SigInv
<1>1. sig' = [sig EXCEPT !.outFile = <<>>, !.outBuf = <<>>, !.procState = sig.retState]
      /\ sigFailed' = TRUE /\ UNCHANGED <<sigIn, sigFile, sigSaid>> /\ sig.procState = "FEED"
  BY DEF SigFeedError, SigInside
<1>2. SigFields' BY <1>1 DEF SigFields
<1>3. /\ sig'.outBuf = <<>> /\ sig'.rings = sig.rings /\ sig'.procState = sig.retState
      /\ sig'.inBuf = sig.inBuf /\ sig'.inFile = sig.inFile /\ sig'.outFile = <<>>
  BY <1>1 DEF SigFields
<1>4. sig'.procState \notin {"FEED", "SCHEDULE"} BY <1>3 DEF SigFields
<1>5. RingsAligned(sig.rings)' BY <1>3 DEF RingsAligned
<1>6. SigOutAligned'
  <2>1. Len(<<>>) = 0 /\ 1 .. 0 = {} OBVIOUS
  <2> QED BY <1>3, <1>4, <2>1, ListedEmpty DEF SigOutAligned
<1>7. SigSaidAligned' BY <1>1 DEF SigSaidAligned
<1>8. SigItemsNamed' BY <1>1, <1>3, <1>4 DEF SigItemsNamed
<1>9. SigFilesWritten' BY <1>1 DEF SigFilesWritten
<1> QED BY <1>2, <1>5, <1>6, <1>7, <1>8, <1>9
LEMMA SigFeedKeeps == ASSUME SigInv, SigFeed PROVE SigInv'
<1> USE DEF SigInv
<1>1. PICK m \in SigMenu :
        LET item == SigWith(m, "id", sigPast.fed + Len(sigFed) + 1)
        IN  sigIn' = <<item>>
  BY DEF SigFeed
<1> DEFINE item == SigWith(m, "id", sigPast.fed + Len(sigFed) + 1)
<1>2. sigIn' = <<item>> /\ UNCHANGED <<sig, sigFile, sigSaid, sigFailed>> BY <1>1 DEF SigFeed
<1>3. NamedItem(item)
  <2>1. \A f \in DOMAIN m \ {"id"} : item[f] = m[f] BY DEF SigWith
  <2>2. /\ {"type", "info1"} \subseteq DOMAIN m
        /\ m.type = "CMD" /\ m.info1 \in {"PLAY", "SAVE"} => "name" \in DOMAIN m /\ m.name \in Seq(Nat)
    BY SigAssumption
  <2> HIDE DEF item
  <2>3. item.type = m.type /\ item.info1 = m.info1 BY <2>1, <2>2
  <2>4. "name" \in DOMAIN m => item.name = m.name BY <2>1
  <2> QED BY <2>2, <2>3, <2>4 DEF NamedItem
<1> HIDE DEF item
<1>4. Listed(sigIn') /\ Len(sigIn') = 1 /\ sigIn'[1] = item BY <1>2, ListedOne
<1>5. SigItemsNamed' BY <1>2, <1>3, <1>4 DEF SigItemsNamed, NamedItem
<1>6. SigFields' BY <1>2 DEF SigFields
<1>7. RingsAligned(sig.rings)' BY <1>2 DEF RingsAligned
<1>8. SigOutAligned' BY <1>2 DEF SigOutAligned
<1>9. SigSaidAligned' BY <1>2 DEF SigSaidAligned
<1>10. SigFilesWritten' BY <1>2 DEF SigFilesWritten, SigInFile, SigWrites
<1> QED BY <1>5, <1>6, <1>7, <1>8, <1>9, <1>10

\* A reset forgets the files and what was heard, and may leave the rings as they are.
LEMMA SigResetKeeps == ASSUME SigInv, SigReset PROVE SigInv'
<1> USE DEF SigInv
<1>1. PICK rings, mods :
        /\ sig' = SigFresh(rings, mods) /\ rings \in {sig.rings, SigRings}
  BY DEF SigReset
<1>2. sigIn' = <<>> /\ sigFile' = <<>> /\ sigSaid' = <<>> /\ sigFailed' = FALSE BY DEF SigReset
<1>3. /\ sig'.inBuf = <<>> /\ sig'.outBuf = <<>> /\ sig'.procState = "COLLECT"
      /\ sig'.inFile = <<>> /\ sig'.rings = rings
  BY <1>1 DEF SigFresh
<1>4. Len(<<>>) = 0 /\ 1 .. 0 = {} /\ 2 .. 0 = {} OBVIOUS
<1>5. SigFields' BY <1>1 DEF SigFields, SigFresh
<1>6. RingsAligned(sig.rings)'
  <2>1. RingsAligned(rings) BY <1>1, FreshRings
  <2> QED BY <1>3, <2>1 DEF RingsAligned
<1>7. SigOutAligned' BY <1>3, <1>4, ListedEmpty DEF SigOutAligned
<1>8. SigSaidAligned' BY <1>2, <1>4, ListedEmpty DEF SigSaidAligned
<1>9. SigItemsNamed' BY <1>2, <1>3, <1>4, ListedEmpty DEF SigItemsNamed
<1>10. SigFilesWritten'
  <2>1. 1 .. Len(sigFile') = {} /\ 2 .. Len(sigFile') = {} /\ 1 .. Len(sigSaid') = {} BY <1>2, <1>4
  <2>2. Listed(sigFile') BY <1>2, ListedEmpty
  <2> QED BY <1>2, <2>1, <2>2 DEF SigFilesWritten
<1> QED BY <1>5, <1>6, <1>7, <1>8, <1>9, <1>10

LEMMA SigStands ==
  ASSUME SigInv, UNCHANGED <<sig, sigIn, sigFile, sigSaid, sigFailed>>
  PROVE  SigInv'
BY DEF SigInv, SigFields, RingsAligned, SigOutAligned, SigSaidAligned, SigItemsNamed,
       SigFilesWritten, SigInFile, SigWrites

(***************************************************************************)
(* What sigStep relies on at every step: the rings of spectra and phases   *)
(* move together, what waits in outBuf is made of one frame, and a frame   *)
(* that is in a file was put out or still waits for cbOut.                 *)
(***************************************************************************)
THEOREM SigInvariant == SigSpec => []SigInv
<1>1. SigInit => SigInv BY SigInitially
<1>2. SigInv /\ [SigNext]_sigVars => SigInv'
  <2> SUFFICES ASSUME SigInv, [SigNext]_sigVars PROVE SigInv' OBVIOUS
  <2>1. CASE SigFeed BY <2>1, SigFeedKeeps
  <2>2. CASE SigTake BY <2>2, SigStands DEF SigTake
  <2>3. CASE SigReset BY <2>3, SigResetKeeps
  <2>4. CASE SigStep
    <3>1. CASE SigFeedPut BY <3>1, SigPutKeeps
    <3>2. CASE SigFeedFull BY <3>2, SigFullKeeps
    <3>3. CASE SigFeedError BY <3>3, SigErrorKeeps
    <3>4. CASE SigScheduleOther \/ SigProcessLoad \/ SigProcessMake \/ SigPlayFrame
      BY <3>4, SigProcessSteps
    <3>5. CASE \/ SigCollect \/ SigScheduleFrame \/ SigSchedulePlay \/ SigScheduleSave
               \/ SigScheduleUnsave \/ SigScheduleModify \/ SigPlayEnd
      BY <3>5, SigQuietSteps
    <3> QED BY <2>4, <3>1, <3>2, <3>3, <3>4, <3>5 DEF SigStep
  <2>5. CASE UNCHANGED sigVars BY <2>5, SigStands DEF sigVars
  <2> QED BY <2>1, <2>2, <2>3, <2>4, <2>5 DEF SigNext
<1> QED BY <1>1, <1>2, PTL DEF SigSpec

-----------------------------------------------------------------------------
(* The order of what is heard: what holds between the steps, for the sub object x, *)
(* the items in cbIn, those fed, what was left before them and what was put out.   *)

\* All items fed were dealt with but the last, while it waits or is being worked on.
SigUntold(x, in) == in # <<>> \/ x.procState \in {"SCHEDULE", "PROCESS"}
SigReached(x, in, fed) == IF SigUntold(x, in) THEN Len(fed) - 1 ELSE Len(fed)
SigPlaying(x) == x.procState = "PLAY" \/ (x.procState = "FEED" /\ x.retState = "PLAY")

SigItemWell(item) ==
  /\ SigCommand(item, "SAVE") => item.wav \in BOOLEAN /\ (item.wav => item.name # <<>>)
  /\ SigModifies(item) => item.value \in Int

\* Which item is worked on, and which file is played.
SigTurn(x, in, fed, failed) ==
  /\ Listed(fed) /\ \A k \in 1 .. Len(fed) : SigItemWell(fed[k])
  /\ SigUntold(x, in) \/ SigPlaying(x) => Len(fed) # 0
  /\ in # <<>> => x.procState = "COLLECT" /\ in = <<fed[Len(fed)]>>
  /\ x.procState \in {"SCHEDULE", "PROCESS"} => x.inBuf = <<fed[Len(fed)]>>
  /\ x.procState = "PROCESS" => SigIsFrame(fed[Len(fed)])
  /\ x.procState # "FEED" => x.outBuf = <<>>
  /\ SigPlaying(x) =>
       /\ SigCommand(fed[Len(fed)], "PLAY") /\ x.inFile = fed[Len(fed)].name
       /\ x.inFile \in DOMAIN SigSounds /\ x.inPos \in 0 .. SigSounds[x.inFile]
       /\ failed \/ x.outFile = <<>> \/ ~SigSameName(x.inFile, x.outFile)
  /\ ~SigPlaying(x) => x.inFile = <<>>

\* The file and the modifiers are those set by the first k items.
SigSettled(x, fed, past, k, failed) ==
  /\ failed \/ x.outFile = SigSavedTo(fed, k + 1)
  /\ x.mods = SigModsAt(fed, past, k + 1)

\* The ring of spectra is the part of the loads that ends at the m-th.
RingAt(ring, loads, m) ==
  m \in SigCepRing .. Len(loads) /\ \A i \in 1 .. SigCepRing : ring[i] = loads[m - SigCepRing + i]
SigPastWell(past) ==
  /\ past.rings.n_available \in 0 .. 3
  /\ Listed(past.rings.cep) /\ Len(past.rings.cep) = SigCepRing
SigAvailable(fed, past, k) ==
  IF \E e \in 1 .. k : SigIsFrame(fed[e]) THEN 3 ELSE past.rings.n_available
SigCaughtUp(x, fed, past, k) ==
  /\ x.inner = "load" /\ x.rings.n_available = SigAvailable(fed, past, k)
  /\ RingAt(x.rings.cep, SigLoads(fed, past, k), Len(SigLoads(fed, past, k)))

\* The last item is being loaded: so often more.
SigToLoad(x) == IF x.inner = "make" THEN 0 ELSE SigFills(x.rings.n_available)
SigFilling(x, fed, past, k) ==
  /\ x.inner \in {"load", "make"} /\ SigToLoad(x) <= Len(SigLoading(fed, past, k))
  /\ RingAt(x.rings.cep, SigLoads(fed, past, k), Len(SigLoads(fed, past, k)) - SigToLoad(x))
  /\ x.inner = "make" => x.rings.n_available = 3
SigSpectra(x, in, fed, past) ==
  /\ SigPastWell(past) /\ x.rings.n_available \in 0 .. 3
  /\ x.procState = "PROCESS" => SigFilling(x, fed, past, Len(fed))
  /\ x.procState # "PROCESS" => SigCaughtUp(x, fed, past, SigReached(x, in, fed))

\* What was put out, and what waits in outBuf to be put out, without the phases.
SigTelling(what, dest) == SigBare(SigWith(what, "saved", dest))
SigTold(said, out, dest) ==
  [i \in 1 .. Len(said) + Len(out) |->
     IF i <= Len(said) THEN SigBare(said[i]) ELSE SigTelling(out[i - Len(said)], dest)]
SigTells(x, in, fed, past) ==
  IF SigPlaying(x)
  THEN SigExpected(fed, past, Len(fed) - 1) \o SigSounded(fed, past, Len(fed), x.inPos)
  ELSE SigExpected(fed, past, SigReached(x, in, fed))

SigOrdered(x, in, fed, past, said, failed) ==
  /\ SigTurn(x, in, fed, failed) /\ SigSettled(x, fed, past, SigReached(x, in, fed), failed)
  /\ SigSpectra(x, in, fed, past) /\ Listed(said)
  /\ failed \/ SigTold(said, x.outBuf, x.outFile) = SigTells(x, in, fed, past)
SigOrder == SigOrdered(sig, sigIn, sigFed, sigPast, sigSaid, sigFailed)

-----------------------------------------------------------------------------
(* What the items say, one item more at a time. *)

LEMMA LastOf ==
  ASSUME NEW n \in Nat, NEW P \in SUBSET (1 .. n)
  PROVE  /\ SigLast(P) \in 0 .. n /\ (SigLast(P) = 0 <=> P = {})
         /\ P # {} => SigLast(P) \in P /\ \A y \in P : y <= SigLast(P)
<1>1. CASE P = {} BY <1>1 DEF SigLast
<1>2. CASE P # {}
  <2>1. Max(P) \in P /\ \A y \in P : y <= Max(P) BY <1>2, MaxOf
  <2>2. SigLast(P) = Max(P) BY <1>2 DEF SigLast
  <2>3. Max(P) \in 1 .. n BY <2>1
  <2> QED BY <1>2, <2>1, <2>2, <2>3
<1> QED BY <1>1, <1>2

LEMMA LastNext ==
  ASSUME NEW n \in Nat, NEW P \in SUBSET (1 .. n)
  PROVE  SigLast(P \cup {n + 1}) = n + 1
<1> PICK Q : Q = P \cup {n + 1} OBVIOUS
<1>1. n + 1 \in Nat /\ Q \in SUBSET (1 .. n + 1) /\ Q # {} OBVIOUS
<1>2. SigLast(Q) \in 0 .. n + 1 /\ \A y \in Q : y <= SigLast(Q) BY <1>1, LastOf
<1>3. n + 1 <= SigLast(Q) BY <1>2
<1> QED BY <1>2, <1>3

\* The places up to k - 1 and those up to k.
LEMMA PlacesNext ==
  ASSUME NEW k \in Nat \ {0}, NEW P
  PROVE  {j \in 1 .. (k + 1) - 1 : j \in P} =
           {j \in 1 .. k - 1 : j \in P} \cup (IF k \in P THEN {k} ELSE {})
<1>1. (k + 1) - 1 = k /\ \A j \in 1 .. k : j \in 1 .. k - 1 \/ j = k OBVIOUS
<1> QED BY <1>1

SigClosed(fed, k) == SigLast({j \in 1 .. k - 1 : SigCommand(fed[j], "UNSAVE")})
SigOpened(fed, k) ==
  {j \in SigClosed(fed, k) + 1 .. k - 1 : SigCommand(fed[j], "SAVE") /\ fed[j].wav}
LEMMA SavedIs ==
  ASSUME NEW fed, NEW k
  PROVE  SigSavedTo(fed, k) = IF SigOpened(fed, k) = {} THEN <<>> ELSE fed[Min(SigOpened(fed, k))].name
BY DEF SigSavedTo, SigOpened, SigClosed

LEMMA ClosedIn ==
  ASSUME NEW fed, NEW k \in Nat \ {0}
  PROVE  SigClosed(fed, k) \in 0 .. k - 1 /\ SigOpened(fed, k) \subseteq 1 .. k - 1
<1> PICK P : P = {j \in 1 .. k - 1 : SigCommand(fed[j], "UNSAVE")} OBVIOUS
<1>1. k - 1 \in Nat /\ P \in SUBSET (1 .. k - 1) OBVIOUS
<1>2. SigLast(P) \in 0 .. k - 1 BY <1>1, LastOf
<1>3. SigClosed(fed, k) \in 0 .. k - 1 BY <1>2 DEF SigClosed
<1> QED BY <1>3 DEF SigOpened

\* A name that is empty is no name of a file that was opened.
SigNamedWell(fed, k) ==
  \A j \in 1 .. k : SigCommand(fed[j], "SAVE") =>
    fed[j].wav \in BOOLEAN /\ (fed[j].wav => fed[j].name # <<>>)
LEMMA SavedNone ==
  ASSUME NEW fed, NEW k \in Nat \ {0}, SigNamedWell(fed, k - 1)
  PROVE  SigSavedTo(fed, k) = <<>> <=> SigOpened(fed, k) = {}
<1> PICK P : P = SigOpened(fed, k) OBVIOUS
<1>1. ASSUME P # {} PROVE fed[Min(P)].name # <<>>
  <2>1. P \in SUBSET Nat /\ P \subseteq 1 .. k - 1 BY ClosedIn
  <2>2. Min(P) \in P BY <1>1, <2>1, MinOf
  <2>3. SigCommand(fed[Min(P)], "SAVE") /\ fed[Min(P)].wav BY <2>2 DEF SigOpened
  <2> QED BY <2>1, <2>2, <2>3 DEF SigNamedWell
<1> QED BY <1>1, SavedIs

LEMMA SavedNext ==
  ASSUME NEW fed, NEW k \in Nat \ {0}, SigNamedWell(fed, k)
  PROVE  SigSavedTo(fed, k + 1) =
           IF SigCommand(fed[k], "UNSAVE") THEN <<>>
           ELSE IF SigCommand(fed[k], "SAVE") /\ fed[k].wav /\ SigSavedTo(fed, k) = <<>> THEN fed[k].name
           ELSE SigSavedTo(fed, k)
<1> PICK U : U = {j \in 1 .. k : SigCommand(fed[j], "UNSAVE")} OBVIOUS
<1> PICK C : C = {j \in 1 .. k - 1 : SigCommand(fed[j], "UNSAVE")} OBVIOUS
<1> PICK P : P = SigOpened(fed, k) OBVIOUS
<1> PICK Q : Q = SigOpened(fed, k + 1) OBVIOUS
<1>0. k - 1 \in Nat /\ (k + 1) - 1 = k /\ k + 1 \in Nat \ {0} /\ \A j \in 1 .. k : j \in 1 .. k - 1 \/ j = k
  OBVIOUS
<1>1. P \subseteq 1 .. k - 1 /\ SigClosed(fed, k) \in 0 .. k - 1 BY ClosedIn
<1>2. SigClosed(fed, k) = SigLast(C) BY DEF SigClosed
<1>3. SigClosed(fed, k + 1) = SigLast(U) BY <1>0 DEF SigClosed
<1>4. SigNamedWell(fed, k - 1) BY <1>0 DEF SigNamedWell
<1>5. SigSavedTo(fed, k) = <<>> <=> P = {} BY <1>4, SavedNone
<1>6. SigSavedTo(fed, k) = IF P = {} THEN <<>> ELSE fed[Min(P)].name BY SavedIs
<1>7. SigSavedTo(fed, k + 1) = IF Q = {} THEN <<>> ELSE fed[Min(Q)].name BY SavedIs
<1>8. CASE SigCommand(fed[k], "UNSAVE")
  <2>1. U = C \cup {(k - 1) + 1} BY <1>0, <1>8
  <2>2. C \in SUBSET (1 .. k - 1) OBVIOUS
  <2>3. SigLast(U) = (k - 1) + 1 BY <1>0, <2>1, <2>2, LastNext
  <2>4. SigClosed(fed, k + 1) = k BY <1>0, <1>3, <2>3
  <2>5. Q = {} BY <1>0, <2>4 DEF SigOpened
  <2> QED BY <1>7, <1>8, <2>5
<1>9. CASE ~SigCommand(fed[k], "UNSAVE")
  <2>1. U = C BY <1>0, <1>9
  <2>2. SigClosed(fed, k + 1) = SigClosed(fed, k) BY <1>2, <1>3, <2>1
  <2>3. Q = P \cup (IF SigCommand(fed[k], "SAVE") /\ fed[k].wav THEN {k} ELSE {})
    BY <1>0, <1>1, <2>2 DEF SigOpened
  <2>4. CASE P = {} /\ SigCommand(fed[k], "SAVE") /\ fed[k].wav
    <3>1. Q = {k} BY <2>3, <2>4
    <3>2. Q \in SUBSET Nat /\ Q # {} BY <3>1
    <3>3. Min(Q) = k BY <3>1, <3>2, MinOf
    <3> QED BY <1>5, <1>7, <1>9, <2>4, <3>1, <3>3
  <2>5. CASE P # {}
    <3>1. P \in SUBSET Nat /\ Q \in SUBSET Nat /\ Q # {} BY <1>1, <2>3, <2>5
    <3>2. Min(P) \in P /\ \A y \in P : Min(P) <= y BY <2>5, <3>1, MinOf
    <3>3. Min(Q) \in Q /\ \A y \in Q : Min(Q) <= y BY <3>1, MinOf
    <3>4. Min(P) < k BY <1>1, <3>2
    <3>5. Min(P) \in Q BY <2>3, <3>2
    <3>6. Min(Q) <= Min(P) BY <3>3, <3>5
    <3>7. Min(Q) # k
      <4>1. Min(P) \in Int /\ k \in Int BY <1>1, <3>2
      <4> QED BY <3>4, <3>6, <4>1
    <3>8. Min(Q) \in P BY <2>3, <3>3, <3>7
    <3>9. Min(P) <= Min(Q) /\ Min(P) \in Int /\ Min(Q) \in Int BY <1>1, <3>2, <3>8
    <3>10. Min(P) = Min(Q) BY <3>6, <3>9
    <3> QED BY <1>5, <1>6, <1>7, <1>9, <2>5, <3>1, <3>10
  <2>6. CASE P = {} /\ ~(SigCommand(fed[k], "SAVE") /\ fed[k].wav)
    <3>1. Q = {} BY <2>3, <2>6
    <3> QED BY <1>5, <1>7, <1>9, <2>6, <3>1
  <2> QED BY <2>4, <2>5, <2>6
<1> QED BY <1>8, <1>9

LEMMA ModsNext ==
  ASSUME NEW fed, NEW past, NEW k \in Nat \ {0}, SigModifies(fed[k]) => fed[k].value \in Int
  PROVE  SigModsAt(fed, past, k + 1) =
           IF SigModifies(fed[k]) THEN SigModified(SigModsAt(fed, past, k), fed[k])
           ELSE SigModsAt(fed, past, k)
<1> PICK item : item = fed[k] OBVIOUS
<1> PICK a : a = SigModsAt(fed, past, k) OBVIOUS
<1> PICK b : b = SigModsAt(fed, past, k + 1) OBVIOUS
<1> DEFINE at(m, n) == {i \in 1 .. n : SigSets(fed[i], m)}
           said(m, j) == IF j = 0 THEN past.mods[m]
                         ELSE (IF fed[j].info2 = "a" THEN 10 ELSE 1) * fed[j].value
<1>0. k - 1 \in Nat /\ (k + 1) - 1 = k /\ \A j \in 1 .. k : j \in 1 .. k - 1 \/ j = k OBVIOUS
<1>1. a = [m \in DOMAIN SigModifiers |-> said(m, SigLast(at(m, k - 1)))] BY DEF SigModsAt
<1>2. b = [m \in DOMAIN SigModifiers |-> said(m, SigLast(at(m, k)))] BY <1>0 DEF SigModsAt
<1>3. ASSUME NEW m, ~SigSets(item, m) PROVE at(m, k) = at(m, k - 1) BY <1>0, <1>3
<1>4. ASSUME NEW m, SigSets(item, m) PROVE SigLast(at(m, k)) = k
  <2>1. at(m, k) = at(m, k - 1) \cup {(k - 1) + 1} BY <1>0, <1>4
  <2>2. PICK S : S = at(m, k - 1) OBVIOUS
  <2>3. S \in SUBSET (1 .. k - 1) BY <2>2
  <2>4. SigLast(S \cup {(k - 1) + 1}) = (k - 1) + 1 BY <1>0, <2>3, LastNext
  <2> HIDE DEF at
  <2> QED BY <1>0, <2>1, <2>2, <2>4
<1> HIDE DEF at
<1>5. CASE ~SigModifies(item)
  <2>1. \A m : ~SigSets(item, m) BY <1>5 DEF SigSets
  <2>2. b = a BY <1>1, <1>2, <1>3, <2>1
  <2> QED BY <1>5, <2>2
<1>6. CASE SigModifies(item)
  <2>1. item.info1 \in DOMAIN SigModifiers BY <1>6 DEF SigModifies
  <2>2. DOMAIN a = DOMAIN SigModifiers /\ DOMAIN b = DOMAIN SigModifiers BY <1>1, <1>2
  <2>3. PICK c : c = SigModified(a, item) OBVIOUS
  <2>4. DOMAIN c = DOMAIN SigModifiers /\ c = [m \in DOMAIN SigModifiers |-> c[m]]
    BY <2>2, <2>3 DEF SigModified
  <2>5. ASSUME NEW m \in DOMAIN SigModifiers PROVE b[m] = c[m]
    <3>1. CASE ~SigSets(item, m)
      <4>1. b[m] = a[m] BY <1>1, <1>2, <1>3, <3>1
      <4>2. c[m] = a[m] BY <1>6, <2>2, <2>3, <3>1 DEF SigModified, SigSets
      <4> QED BY <4>1, <4>2
    <3>2. CASE SigSets(item, m)
      <4>1. b[m] = said(m, k) BY <1>2, <1>4, <3>2
      <4>2. item.info1 = m /\ item.info2 \in {"a", "r"} /\ item.value \in Int BY <1>6, <3>2 DEF SigSets
      <4>3. c[m] = IF item.info2 = "a" THEN 10 * item.value ELSE item.value
        BY <2>2, <2>3, <4>2 DEF SigModified
      <4>4. 1 * item.value = item.value BY <4>2
      <4>5. said(m, k) = (IF item.info2 = "a" THEN 10 ELSE 1) * item.value BY <1>0
      <4> QED BY <4>1, <4>3, <4>4, <4>5
    <3> QED BY <3>1, <3>2
  <2>6. b = [m \in DOMAIN SigModifiers |-> b[m]] BY <1>2
  <2>7. b = c BY <2>4, <2>5, <2>6
  <2> QED BY <1>6, <2>3, <2>7
<1> QED BY <1>5, <1>6

-----------------------------------------------------------------------------
(* The frames as they were loaded. *)

\* How often the frame of item j is loaded.
SigTimes(fed, past, j) ==
  IF \E e \in 1 .. j - 1 : SigIsFrame(fed[e]) THEN 1 ELSE SigFills(past.rings.n_available)
LEMMA LoadingIs ==
  ASSUME NEW fed, NEW past, SigPastWell(past), NEW j
  PROVE  /\ SigTimes(fed, past, j) \in Nat \ {0} /\ Listed(SigLoading(fed, past, j))
         /\ ~SigIsFrame(fed[j]) => SigLoading(fed, past, j) = <<>>
         /\ SigIsFrame(fed[j]) =>
              /\ Len(SigLoading(fed, past, j)) = SigTimes(fed, past, j)
              /\ \A i \in 1 .. SigTimes(fed, past, j) : SigLoading(fed, past, j)[i] = SigSpectrum(fed[j])
         /\ Len(SigLoading(fed, past, j)) \in Nat
<1> PICK n : n = SigTimes(fed, past, j) OBVIOUS
<1> PICK a : a = SigSpectrum(fed[j]) OBVIOUS
<1>1. SigFills(past.rings.n_available) \in Nat \ {0} BY DEF SigFills, SigPastWell
<1>2. n \in Nat \ {0} BY <1>1 DEF SigTimes
<1>3. SigLoading(fed, past, j) = IF SigIsFrame(fed[j]) THEN [i \in 1 .. n |-> a] ELSE <<>>
  BY DEF SigLoading, SigTimes
<1>4. Listed([i \in 1 .. n |-> a]) /\ Len([i \in 1 .. n |-> a]) = n BY <1>2, ListedRing
<1>5. Listed(<<>>) /\ Len(<<>>) = 0 BY ListedEmpty
<1> QED BY <1>2, <1>3, <1>4, <1>5

LEMMA LoadsNext ==
  ASSUME NEW fed, NEW past, SigPastWell(past), NEW k \in Nat
  PROVE  /\ SigLoads(fed, past, 0) = past.rings.cep
         /\ Listed(SigLoads(fed, past, k))
         /\ SigLoads(fed, past, k + 1) = SigLoads(fed, past, k) \o SigLoading(fed, past, k + 1)
<1> PICK S : S = {past.rings.cep[i] : i \in DOMAIN past.rings.cep}
                 \cup UNION {{SigLoading(fed, past, j)[i] : i \in DOMAIN SigLoading(fed, past, j)} : j \in 1 .. k + 1}
  OBVIOUS
<1> PICK P : P = [j \in 1 .. k + 1 |-> SigLoading(fed, past, j)] OBVIOUS
<1>1. \A j \in 1 .. k + 1 : P[j] \in Seq(S)
  <2> TAKE j \in 1 .. k + 1
  <2>1. Listed(P[j]) BY LoadingIs
  <2>2. \A i \in DOMAIN P[j] : P[j][i] \in S OBVIOUS
  <2> QED BY <2>1, <2>2, ListedIn
<1>2. past.rings.cep \in Seq(S)
  <2>1. Listed(past.rings.cep) BY DEF SigPastWell
  <2>2. \A i \in DOMAIN past.rings.cep : past.rings.cep[i] \in S OBVIOUS
  <2> QED BY <2>1, <2>2, ListedIn
<1>3. /\ FlattenSeq([j \in 1 .. k + 1 |-> P[j]]) = FlattenSeq([j \in 1 .. k |-> P[j]]) \o P[k + 1]
      /\ FlattenSeq([j \in 1 .. k |-> P[j]]) \in Seq(S)
  BY ONLY <1>1, k \in Nat, FlattenNext
<1> PICK a, b, c : /\ a = past.rings.cep /\ b = FlattenSeq([j \in 1 .. k |-> P[j]]) /\ c = P[k + 1]
  OBVIOUS
<1>4. \A j \in 1 .. k : j \in 1 .. k + 1 OBVIOUS
<1>5. [j \in 1 .. k |-> P[j]] = [j \in 1 .. k |-> SigLoading(fed, past, j)] BY <1>4
<1>6. SigLoads(fed, past, k) = a \o b BY <1>5 DEF SigLoads
<1>7. [j \in 1 .. k + 1 |-> P[j]] = [j \in 1 .. k + 1 |-> SigLoading(fed, past, j)] OBVIOUS
<1>8. SigLoads(fed, past, k + 1) = a \o (b \o c) BY <1>3, <1>7 DEF SigLoads
<1>9. a \in Seq(S) /\ b \in Seq(S) /\ c \in Seq(S)
  <2>1. k + 1 \in 1 .. k + 1 OBVIOUS
  <2>2. P[k + 1] \in Seq(S) BY ONLY <1>1, <2>1
  <2>3. a \in Seq(S) BY <1>2, Zenon
  <2>4. b \in Seq(S) BY <1>3, Zenon
  <2>5. c \in Seq(S) BY <2>2, Zenon
  <2> QED BY ONLY <2>3, <2>4, <2>5
<1>10. a \o (b \o c) = (a \o b) \o c BY ONLY <1>9, ConcatAssociative
<1>11. c = SigLoading(fed, past, k + 1) BY <1>4
<1>12. a \o b \in Seq(S) /\ Len(a \o b) \in Nat BY <1>9
<1>13. Listed(a \o b)
  <2> PICK d : d = a \o b OBVIOUS
  <2>1. d \in Seq(S) /\ Len(d) \in Nat BY <1>12
  <2> QED BY <2>1, ListedSeq
<1>14. SigLoads(fed, past, 0) = a
  <2>1. FlattenSeq([j \in 1 .. 0 |-> P[j]]) = <<>> BY FlattenNothing
  <2>2. [j \in 1 .. 0 |-> P[j]] = [j \in 1 .. 0 |-> SigLoading(fed, past, j)] OBVIOUS
  <2>3. a \o <<>> = a BY <1>9
  <2> QED BY <2>1, <2>2, <2>3 DEF SigLoads
<1> QED BY <1>6, <1>8, <1>10, <1>11, <1>13, <1>14

\* What is loaded for an item stands behind what was loaded before.
LEMMA LoadsGrow ==
  ASSUME NEW fed, NEW past, SigPastWell(past), NEW k \in Nat, NEW a, a = SigLoads(fed, past, k),
         NEW b, b = SigLoads(fed, past, k + 1), NEW n, n = Len(SigLoading(fed, past, k + 1))
  PROVE  /\ Listed(a) /\ Listed(b) /\ Len(a) \in Nat /\ Len(b) \in Nat /\ n \in Nat
         /\ Len(b) = Len(a) + n
         /\ \A i \in 1 .. Len(a) : b[i] = a[i]
         /\ n # 0 => SigIsFrame(fed[k + 1]) /\ n = SigTimes(fed, past, k + 1)
         /\ ~SigIsFrame(fed[k + 1]) => a = b
         /\ SigIsFrame(fed[k + 1]) => n = SigTimes(fed, past, k + 1)
         /\ \A i \in Len(a) + 1 .. Len(b) : b[i] = SigSpectrum(fed[k + 1])
<1> PICK c : c = SigLoading(fed, past, k + 1) OBVIOUS
<1> PICK t : t = SigTimes(fed, past, k + 1) OBVIOUS
<1>1. b = a \o c /\ Listed(a) BY LoadsNext
<1>2. /\ Listed(c) /\ t \in Nat \ {0} /\ (~SigIsFrame(fed[k + 1]) => c = <<>>) /\ n \in Nat
      /\ SigIsFrame(fed[k + 1]) => n = t /\ \A i \in 1 .. t : c[i] = SigSpectrum(fed[k + 1])
  BY LoadingIs
<1>3. /\ Listed(b) /\ Len(b) = Len(a) + n /\ Len(a) \in Nat
      /\ \A i \in 1 .. Len(a) + n : b[i] = IF i <= Len(a) THEN a[i] ELSE c[i - Len(a)]
  <2>1. Len(a) \in Nat BY <1>1, ListedLen
  <2>2. /\ Listed(a \o c) /\ Len(a \o c) = Len(a) + Len(c)
        /\ \A i \in 1 .. Len(a) + Len(c) : (a \o c)[i] = IF i <= Len(a) THEN a[i] ELSE c[i - Len(a)]
    BY ONLY <1>1, <1>2, ListedJoin
  <2> QED BY ONLY <1>1, <2>1, <2>2, n = Len(SigLoading(fed, past, k + 1)), c = SigLoading(fed, past, k + 1)
<1>4. n # 0 => SigIsFrame(fed[k + 1])
  <2>1. c = <<>> => n = 0 OBVIOUS
  <2> QED BY <1>2, <2>1
<1>5. ~SigIsFrame(fed[k + 1]) => a = b
  <2>1. PICK R : a \in Seq(R) BY <1>1, ListedLen
  <2>2. a \o <<>> = a BY <2>1
  <2> QED BY <1>1, <1>2, <2>2
<1>6. ASSUME NEW i \in Len(a) + 1 .. Len(b) PROVE b[i] = SigSpectrum(fed[k + 1])
  <2>1. i \in 1 .. Len(a) + n /\ ~(i <= Len(a)) /\ i - Len(a) \in 1 .. n /\ n # 0 BY <1>2, <1>3
  <2>2. b[i] = c[i - Len(a)] BY <1>3, <2>1
  <2> QED BY <1>2, <1>4, <2>1, <2>2
<1>7. \A i \in 1 .. Len(a) : b[i] = a[i]
  <2> TAKE i \in 1 .. Len(a)
  <2>1. i \in 1 .. Len(a) + n /\ i <= Len(a) BY <1>2, <1>3
  <2> QED BY <1>3, <2>1
<1> QED BY <1>1, <1>2, <1>3, <1>4, <1>5, <1>6, <1>7

-----------------------------------------------------------------------------
(* What is heard, item by item. *)

LEMMA SoundedListed ==
  ASSUME NEW fed, NEW past, NEW k, NEW n \in Nat
  PROVE  Listed(SigSounded(fed, past, k, n)) /\ Len(SigSounded(fed, past, k, n)) = n
<1> PICK s : s = SigSounded(fed, past, k, n) OBVIOUS
<1>1. s = [nr \in 1 .. n |-> s[nr]] BY DEF SigSounded
<1>2. Listed(s) BY <1>1 DEF Listed
<1>3. DOMAIN s = 1 .. n BY <1>1
<1> QED BY <1>2, <1>3, ListedLen

SigUnheard(fed, k) ==
  \/ fed[k].name \notin DOMAIN SigSounds
  \/ SigSavedTo(fed, k) # <<>> /\ SigSameName(fed[k].name, SigSavedTo(fed, k))
LEMMA HeardCases ==
  ASSUME NEW fed, NEW past, NEW k, NEW h, h = SigHeard(fed, past, k)
  PROVE  /\ SigIsFrame(fed[k]) =>
              h = [half \in 1 .. 2 |->
                     [kind |-> "frame", cep |-> SigOldest(SigLoads(fed, past, k)), half |-> half,
                      mods |-> SigModsAt(fed, past, k), saved |-> SigSavedTo(fed, k)]]
         /\ SigCommand(fed[k], "PLAY") =>
              h = IF SigUnheard(fed, k) THEN <<>>
                  ELSE SigSounded(fed, past, k, SigSounds[fed[k].name])
         /\ ~sig_deal_with(fed[k]) =>
              h = <<[kind |-> "item", id |-> fed[k].id, saved |-> SigSavedTo(fed, k)]>>
         /\ sig_is_command(fed[k]) /\ ~SigCommand(fed[k], "PLAY") => h = <<>>
<1> PICK item : item = fed[k] OBVIOUS
<1>1. SigIsFrame(item) => ~sig_is_command(item)
  BY DEF SigIsFrame, sig_is_command, SigModifies
<1>2. SigCommand(item, "PLAY") => sig_is_command(item) BY DEF SigCommand
<1>3. sig_deal_with(item) <=> SigIsFrame(item) \/ sig_is_command(item) BY DEF sig_deal_with, SigIsFrame
<1>4. CASE SigIsFrame(item) BY <1>1, <1>2, <1>3, <1>4 DEF SigHeard
<1>5. CASE SigCommand(item, "PLAY") BY <1>1, <1>2, <1>3, <1>5 DEF SigHeard, SigUnheard
<1>6. CASE ~sig_deal_with(item) BY <1>1, <1>2, <1>3, <1>6 DEF SigHeard
<1>7. CASE sig_is_command(item) /\ ~SigCommand(item, "PLAY") BY <1>1, <1>2, <1>3, <1>7 DEF SigHeard
<1> QED BY <1>1, <1>2, <1>3, <1>4, <1>5, <1>6, <1>7

LEMMA HeardListed == ASSUME NEW fed, NEW past, NEW k PROVE Listed(SigHeard(fed, past, k))
<1> PICK item : item = fed[k] OBVIOUS
<1> PICK h : h = SigHeard(fed, past, k) OBVIOUS
<1>1. CASE SigIsFrame(item)
  <2>1. DOMAIN h = 1 .. 2 /\ h = [half \in 1 .. 2 |-> h[half]] BY <1>1, HeardCases
  <2>2. 2 \in Nat OBVIOUS
  <2> QED BY <2>1, <2>2 DEF Listed
<1>2. CASE SigCommand(item, "PLAY")
  <2>1. item.name \in DOMAIN SigSounds => SigSounds[item.name] \in Nat BY SigAssumption
  <2>2. SigUnheard(fed, k) => h = <<>> BY <1>2, HeardCases
  <2>3. ~SigUnheard(fed, k) => h = SigSounded(fed, past, k, SigSounds[item.name]) BY <1>2, HeardCases
  <2>4. ~SigUnheard(fed, k) => SigSounds[item.name] \in Nat BY <2>1 DEF SigUnheard
  <2> QED BY <2>2, <2>3, <2>4, ListedEmpty, SoundedListed
<1>3. CASE ~sig_deal_with(item)
  <2>1. h = <<[kind |-> "item", id |-> fed[k].id, saved |-> SigSavedTo(fed, k)]>> BY <1>3, HeardCases
  <2> QED BY <2>1, ListedOne
<1>4. CASE sig_is_command(item) /\ ~SigCommand(item, "PLAY")
  <2>1. h = <<>> BY <1>4, HeardCases
  <2> QED BY <2>1, ListedEmpty
<1> QED BY <1>1, <1>2, <1>3, <1>4 DEF sig_deal_with, SigIsFrame

LEMMA ExpectedNext ==
  ASSUME NEW fed, NEW past, NEW k \in Nat
  PROVE  /\ SigExpected(fed, past, 0) = <<>>
         /\ Listed(SigExpected(fed, past, k))
         /\ SigExpected(fed, past, k + 1) = SigExpected(fed, past, k) \o SigHeard(fed, past, k + 1)
<1> PICK S : S = UNION {{SigHeard(fed, past, j)[i] : i \in DOMAIN SigHeard(fed, past, j)} : j \in 1 .. k + 1}
  OBVIOUS
<1> PICK P : P = [j \in 1 .. k + 1 |-> SigHeard(fed, past, j)] OBVIOUS
<1>1. \A j \in 1 .. k + 1 : P[j] \in Seq(S)
  <2> TAKE j \in 1 .. k + 1
  <2>1. Listed(P[j]) BY HeardListed
  <2>2. \A i \in DOMAIN P[j] : P[j][i] \in S OBVIOUS
  <2> QED BY <2>1, <2>2, ListedIn
<1>2. /\ FlattenSeq([j \in 1 .. k + 1 |-> P[j]]) = FlattenSeq([j \in 1 .. k |-> P[j]]) \o P[k + 1]
      /\ FlattenSeq([j \in 1 .. k |-> P[j]]) \in Seq(S)
  BY ONLY <1>1, k \in Nat, FlattenNext
<1>3. \A j \in 1 .. k : j \in 1 .. k + 1 OBVIOUS
<1>4. [j \in 1 .. k |-> P[j]] = [j \in 1 .. k |-> SigHeard(fed, past, j)] BY <1>3
<1>5. [j \in 1 .. k + 1 |-> P[j]] = [j \in 1 .. k + 1 |-> SigHeard(fed, past, j)] OBVIOUS
<1>6. P[k + 1] = SigHeard(fed, past, k + 1)
  <2>1. k + 1 \in 1 .. k + 1 OBVIOUS
  <2> QED BY <2>1
<1> PICK w : w = SigExpected(fed, past, k) OBVIOUS
<1>7. w \in Seq(S) BY <1>2, <1>4 DEF SigExpected
<1>8. Len(w) \in Nat BY <1>7
<1>9. Listed(w) BY <1>7, <1>8, ListedSeq
<1>10. SigExpected(fed, past, 0) = <<>>
  <2>1. FlattenSeq([j \in 1 .. 0 |-> P[j]]) = <<>> BY FlattenNothing
  <2>2. [j \in 1 .. 0 |-> P[j]] = [j \in 1 .. 0 |-> SigHeard(fed, past, j)] OBVIOUS
  <2> QED BY <2>1, <2>2 DEF SigExpected
<1> QED BY <1>2, <1>4, <1>5, <1>6, <1>9, <1>10 DEF SigExpected

-----------------------------------------------------------------------------
(* An item that is fed later changes nothing of what comes before it. *)

SigAgree(fed, more, k) == \A j \in 1 .. k : fed[j] = more[j]
LEMMA AgreeSaved ==
  ASSUME NEW fed, NEW more, NEW past, NEW k \in Nat \ {0}, SigAgree(fed, more, k - 1)
  PROVE  /\ SigSavedTo(fed, k) = SigSavedTo(more, k)
         /\ SigModsAt(fed, past, k) = SigModsAt(more, past, k)
<1>1. \A j \in 1 .. k - 1 : fed[j] = more[j] BY DEF SigAgree
<1>2. {j \in 1 .. k - 1 : SigCommand(fed[j], "UNSAVE")} = {j \in 1 .. k - 1 : SigCommand(more[j], "UNSAVE")}
  BY <1>1
<1>3. SigClosed(fed, k) = SigClosed(more, k) BY <1>2 DEF SigClosed
<1>4. SigClosed(fed, k) \in 0 .. k - 1 /\ SigOpened(fed, k) \subseteq 1 .. k - 1 BY ClosedIn
<1>5. \A j \in SigClosed(fed, k) + 1 .. k - 1 : fed[j] = more[j] BY <1>1, <1>4
<1>6. SigOpened(fed, k) = SigOpened(more, k) BY <1>3, <1>5 DEF SigOpened
<1>7. SigSavedTo(fed, k) = SigSavedTo(more, k)
  <2> PICK P : P = SigOpened(fed, k) OBVIOUS
  <2>1. CASE P = {} BY <1>6, <2>1, SavedIs
  <2>2. CASE P # {}
    <3>1. P \in SUBSET Nat BY <1>4
    <3>2. Min(P) \in 1 .. k - 1 BY <1>4, <2>2, <3>1, MinOf
    <3>3. fed[Min(P)] = more[Min(P)] BY <1>1, <3>2
    <3> QED BY <1>6, <3>3, SavedIs
  <2> QED BY <2>1, <2>2
<1>8. ASSUME NEW m \in DOMAIN SigModifiers
      PROVE  SigModsAt(fed, past, k)[m] = SigModsAt(more, past, k)[m]
  <2> PICK P : P = {i \in 1 .. k - 1 : SigSets(fed[i], m)} OBVIOUS
  <2>1. P = {i \in 1 .. k - 1 : SigSets(more[i], m)} BY <1>1
  <2>2. k - 1 \in Nat /\ P \in SUBSET (1 .. k - 1) OBVIOUS
  <2>3. SigLast(P) \in 0 .. k - 1 BY <2>2, LastOf
  <2>4. SigLast(P) # 0 => fed[SigLast(P)] = more[SigLast(P)] BY <1>1, <2>3
  <2> QED BY <2>1, <2>4 DEF SigModsAt
<1>9. SigModsAt(fed, past, k) = SigModsAt(more, past, k)
  <2>1. /\ SigModsAt(fed, past, k) = [m \in DOMAIN SigModifiers |-> SigModsAt(fed, past, k)[m]]
        /\ SigModsAt(more, past, k) = [m \in DOMAIN SigModifiers |-> SigModsAt(more, past, k)[m]]
    BY DEF SigModsAt
  <2> QED BY <1>8, <2>1
<1> QED BY <1>7, <1>9

LEMMA AgreeLoads ==
  ASSUME NEW fed, NEW more, NEW past, NEW k \in Nat, SigAgree(fed, more, k)
  PROVE  SigLoads(fed, past, k) = SigLoads(more, past, k)
<1>1. \A j \in 1 .. k : fed[j] = more[j] BY DEF SigAgree
<1>2. ASSUME NEW j \in 1 .. k PROVE SigLoading(fed, past, j) = SigLoading(more, past, j)
  <2>1. \A e \in 1 .. j - 1 : e \in 1 .. k OBVIOUS
  <2>2. fed[j] = more[j] /\ \A e \in 1 .. j - 1 : fed[e] = more[e] BY <1>1, <2>1
  <2>3. SigTimes(fed, past, j) = SigTimes(more, past, j) BY <2>2 DEF SigTimes
  <2> QED BY <2>2, <2>3 DEF SigLoading, SigTimes
<1>3. [j \in 1 .. k |-> SigLoading(fed, past, j)] = [j \in 1 .. k |-> SigLoading(more, past, j)] BY <1>2
<1> QED BY <1>3 DEF SigLoads

LEMMA AgreeHeard ==
  ASSUME NEW fed, NEW more, NEW past, NEW k \in Nat, SigAgree(fed, more, k)
  PROVE  SigExpected(fed, past, k) = SigExpected(more, past, k)
<1>1. \A j \in 1 .. k : fed[j] = more[j] BY DEF SigAgree
<1>2. ASSUME NEW j \in 1 .. k PROVE SigHeard(fed, past, j) = SigHeard(more, past, j)
  <2>1. j \in Nat \ {0} /\ \A e \in 1 .. j : e \in 1 .. k OBVIOUS
  <2>2. SigAgree(fed, more, j) /\ SigAgree(fed, more, j - 1) BY <1>1, <2>1 DEF SigAgree
  <2>3. /\ SigSavedTo(fed, j) = SigSavedTo(more, j)
        /\ SigModsAt(fed, past, j) = SigModsAt(more, past, j)
    BY <2>1, <2>2, AgreeSaved
  <2>4. SigLoads(fed, past, j) = SigLoads(more, past, j) BY <2>1, <2>2, AgreeLoads
  <2>5. fed[j] = more[j] BY <1>1
  <2> PICK a : a = fed[j] OBVIOUS
  <2>6. \A n : SigSounded(fed, past, j, n) = SigSounded(more, past, j, n) BY <2>3, <2>5 DEF SigSounded
  <2>7. SigUnheard(fed, j) <=> SigUnheard(more, j) BY <2>3, <2>5 DEF SigUnheard
  <2>8. CASE SigIsFrame(a) BY <2>3, <2>4, <2>5, <2>8, HeardCases
  <2>9. CASE SigCommand(a, "PLAY")
    <3>1. SigHeard(fed, past, j) = IF SigUnheard(fed, j) THEN <<>> ELSE SigSounded(fed, past, j, SigSounds[a.name])
      BY <2>9, HeardCases
    <3>2. SigHeard(more, past, j) = IF SigUnheard(more, j) THEN <<>> ELSE SigSounded(more, past, j, SigSounds[a.name])
      BY <2>5, <2>9, HeardCases
    <3> QED BY <2>6, <2>7, <3>1, <3>2
  <2>10. CASE ~sig_deal_with(a) BY <2>3, <2>5, <2>10, HeardCases
  <2>11. CASE sig_is_command(a) /\ ~SigCommand(a, "PLAY") BY <2>5, <2>11, HeardCases
  <2> QED BY <2>8, <2>9, <2>10, <2>11 DEF sig_deal_with, SigIsFrame
<1>3. [j \in 1 .. k |-> SigHeard(fed, past, j)] = [j \in 1 .. k |-> SigHeard(more, past, j)] BY <1>2
<1> QED BY <1>3 DEF SigExpected

-----------------------------------------------------------------------------
(* What was put out and what is about to be. *)

SigMapped(out, dest) == [i \in 1 .. Len(out) |-> SigTelling(out[i], dest)]
LEMMA MappedListed ==
  ASSUME NEW out, Listed(out), NEW dest
  PROVE  Listed(SigMapped(out, dest)) /\ Len(SigMapped(out, dest)) = Len(out) /\ Len(out) \in Nat
<1> PICK m : m = SigMapped(out, dest) OBVIOUS
<1>1. Len(out) \in Nat BY ListedLen
<1>2. DOMAIN m = 1 .. Len(out) /\ m = [i \in 1 .. Len(out) |-> m[i]] BY DEF SigMapped
<1>3. Listed(m) BY <1>1, <1>2 DEF Listed
<1>4. Len(m) \in Nat /\ DOMAIN m = 1 .. Len(m) BY <1>3, ListedLen
<1> QED BY <1>1, <1>2, <1>3, <1>4

LEMMA ToldListed ==
  ASSUME NEW said, Listed(said), NEW out, Listed(out), NEW dest
  PROVE  /\ Listed(SigTold(said, out, dest)) /\ Len(SigTold(said, out, dest)) = Len(said) + Len(out)
         /\ Len(said) \in Nat /\ Len(out) \in Nat
<1> PICK t : t = SigTold(said, out, dest) OBVIOUS
<1>1. Len(said) \in Nat /\ Len(out) \in Nat BY ListedLen
<1> PICK n \in Nat : n = Len(said) + Len(out) BY <1>1
<1>2. DOMAIN t = 1 .. n /\ t = [i \in 1 .. n |-> t[i]] BY DEF SigTold
<1>3. Listed(t) BY <1>2 DEF Listed
<1>4. Len(t) \in Nat /\ DOMAIN t = 1 .. Len(t) BY <1>3, ListedLen
<1> QED BY <1>1, <1>2, <1>3, <1>4

\* outBuf, filled when it was empty, adds what is in it.
LEMMA ToldAdds ==
  ASSUME NEW said, Listed(said), NEW out, Listed(out), NEW dest, NEW before
  PROVE  SigTold(said, out, dest) = SigTold(said, <<>>, before) \o SigMapped(out, dest)
<1> PICK a, b, t, m, n : /\ a = SigTold(said, out, dest) /\ b = SigTold(said, <<>>, before)
                        /\ t = SigMapped(out, dest) /\ m = Len(said) /\ n = Len(out)
  OBVIOUS
<1>1. Listed(a) /\ Len(a) = m + n /\ m \in Nat /\ n \in Nat BY ToldListed
<1>2. Listed(<<>>) /\ Len(<<>>) = 0 BY ListedEmpty
<1>3. Listed(b) /\ Len(b) = m
  <2>1. Listed(b) /\ Len(b) = m + Len(<<>>) BY <1>2, ToldListed
  <2> QED BY <1>1, <1>2, <2>1
<1>4. Listed(t) /\ Len(t) = n BY MappedListed
<1> PICK u : u = b \o t OBVIOUS
<1>5. /\ Listed(u) /\ Len(u) = m + n
      /\ \A k \in 1 .. m + n : u[k] = IF k <= m THEN b[k] ELSE t[k - m]
  <2>1. /\ Listed(b \o t) /\ Len(b \o t) = Len(b) + Len(t)
        /\ \A k \in 1 .. Len(b) + Len(t) : (b \o t)[k] = IF k <= Len(b) THEN b[k] ELSE t[k - Len(b)]
    BY ONLY <1>3, <1>4, ListedJoin
  <2> QED BY ONLY <1>3, <1>4, <2>1, u = b \o t
<1>6. \A k \in 1 .. m + n : a[k] = IF k <= m THEN SigBare(said[k]) ELSE SigTelling(out[k - m], dest)
  BY DEF SigTold
<1>7. \A k \in 1 .. m : b[k] = SigBare(said[k])
  <2> TAKE k \in 1 .. m
  <2>1. k \in 1 .. Len(said) + Len(<<>>) /\ k <= Len(said) BY <1>1, <1>2
  <2> QED BY <2>1 DEF SigTold
<1>8. \A k \in 1 .. n : t[k] = SigTelling(out[k], dest) BY DEF SigMapped
<1>9. ASSUME NEW k \in 1 .. m + n PROVE a[k] = u[k]
  <2>1. CASE k <= m
    <3>1. k \in 1 .. m BY <1>1, <2>1
    <3> QED BY <1>5, <1>6, <1>7, <2>1, <3>1
  <2>2. CASE ~(k <= m)
    <3>1. k - m \in 1 .. n BY <1>1, <2>2
    <3> QED BY <1>5, <1>6, <1>8, <2>2, <3>1
  <2> QED BY <2>1, <2>2
<1>10. a = u
  <2>1. \A k \in 1 .. Len(a) : a[k] = u[k] BY <1>1, <1>9
  <2> QED BY ONLY <1>1, <1>5, <2>1, ListedSame
<1> QED BY <1>10

\* What is put out was about to be.
LEMMA ToldPut ==
  ASSUME NEW said, Listed(said), NEW out, Listed(out), out # <<>>, NEW dest
  PROVE  /\ SigTold(Append(said, SigWith(Head(out), "saved", dest)), Tail(out), dest)
              = SigTold(said, out, dest)
         /\ Listed(Append(said, SigWith(Head(out), "saved", dest)))
<1> PICK m, n, head, tail, new, more :
      /\ m = Len(said) /\ n = Len(out) /\ head = Head(out) /\ tail = Tail(out)
      /\ new = SigWith(head, "saved", dest) /\ more = Append(said, new)
  OBVIOUS
<1>1. m \in Nat /\ n \in Nat \ {0} /\ head = out[1] BY ListedLen, ListedHead
<1>2. /\ Listed(tail) /\ Len(tail) = n - 1
      /\ \A i \in 1 .. n - 1 : tail[i] = out[i + 1]
  BY ListedTail
<1>3. /\ Listed(more) /\ Len(more) = m + 1
      /\ \A i \in 1 .. m : more[i] = said[i]
      /\ more[m + 1] = new
  BY ListedAppend
<1> PICK a, b : a = SigTold(more, tail, dest) /\ b = SigTold(said, out, dest) OBVIOUS
<1>4. Listed(a) /\ Len(a) = m + n
  <2>1. Listed(a) /\ Len(a) = Len(more) + Len(tail) BY <1>2, <1>3, ToldListed
  <2> QED BY <1>1, <1>2, <1>3, <2>1
<1>5. Listed(b) /\ Len(b) = m + n BY ToldListed
<1>6. Len(more) + Len(tail) = m + n BY <1>1, <1>2, <1>3
<1>7. \A k \in 1 .. m + n : a[k] = IF k <= m + 1 THEN SigBare(more[k]) ELSE SigTelling(tail[k - (m + 1)], dest)
  BY <1>3, <1>6 DEF SigTold
<1>8. \A k \in 1 .. m + n : b[k] = IF k <= m THEN SigBare(said[k]) ELSE SigTelling(out[k - m], dest)
  BY DEF SigTold
<1>9. ASSUME NEW k \in 1 .. m + n PROVE a[k] = b[k]
  <2>1. CASE k <= m
    <3>1. k \in 1 .. m /\ k <= m + 1 BY <1>1, <2>1
    <3> QED BY <1>3, <1>7, <1>8, <2>1, <3>1
  <2>2. CASE k = m + 1
    <3>1. ~(k <= m) /\ k - m = 1 /\ k <= m + 1 BY <1>1, <2>2
    <3>2. a[k] = SigBare(new) /\ b[k] = SigTelling(head, dest) BY <1>1, <1>3, <1>7, <1>8, <2>2, <3>1
    <3> QED BY <3>2 DEF SigTelling
  <2>3. CASE k > m + 1
    <3>1. /\ ~(k <= m) /\ ~(k <= m + 1) /\ k - (m + 1) \in 1 .. n - 1
          /\ (k - (m + 1)) + 1 = k - m
      BY <1>1, <2>3
    <3>2. tail[k - (m + 1)] = out[k - m] BY <1>2, <3>1
    <3> QED BY <1>7, <1>8, <3>1, <3>2
  <2> QED BY <1>1, <2>1, <2>2, <2>3
<1>10. a = b
  <2>1. \A k \in 1 .. Len(a) : a[k] = b[k] BY <1>4, <1>9
  <2> QED BY ONLY <1>4, <1>5, <2>1, ListedSame
<1> QED BY <1>3, <1>10

-----------------------------------------------------------------------------
(* How an item is dealt with. *)

\* An item that is no frame loads nothing.
LEMMA SigNoFrame ==
  ASSUME NEW x, NEW y, NEW fed, NEW past, SigPastWell(past), NEW n \in Nat \ {0},
         SigCaughtUp(x, fed, past, n - 1), ~SigIsFrame(fed[n]),
         y.inner = x.inner, y.rings = x.rings
  PROVE  SigCaughtUp(y, fed, past, n)
<1> PICK k \in Nat : k = n - 1 OBVIOUS
<1>1. n = k + 1 /\ \A e \in 1 .. n : e \in 1 .. k \/ e = n OBVIOUS
<1>2. SigLoads(fed, past, k) = SigLoads(fed, past, k + 1)
  <2> PICK a, b, c : /\ a = SigLoads(fed, past, k) /\ b = SigLoads(fed, past, k + 1)
                     /\ c = Len(SigLoading(fed, past, k + 1))
    OBVIOUS
  <2>1. ~SigIsFrame(fed[k + 1]) => a = b BY LoadsGrow
  <2> QED BY <1>1, <2>1
<1>3. SigAvailable(fed, past, k) = SigAvailable(fed, past, n) BY <1>1 DEF SigAvailable
<1>4. SigCaughtUp(x, fed, past, k) OBVIOUS
<1>5. SigLoads(fed, past, n) = SigLoads(fed, past, k) BY <1>1, <1>2
<1> QED BY <1>3, <1>4, <1>5 DEF SigCaughtUp

\* What the last item makes is what is to be heard of it, and it is dealt with.
LEMMA SigDealt ==
  ASSUME NEW x, NEW y, NEW fed, NEW past, NEW said, NEW failed, NEW now, failed => now,
         x.procState \in {"SCHEDULE", "PROCESS"}, SigOrdered(x, <<>>, fed, past, said, failed),
         y.procState \in {"COLLECT", "FEED"}, y.retState = "COLLECT", y.inFile = <<>>,
         Listed(y.outBuf), y.procState # "FEED" => y.outBuf = <<>>,
         now \/ y.outFile = SigSavedTo(fed, Len(fed) + 1),
         y.mods = SigModsAt(fed, past, Len(fed) + 1),
         SigCaughtUp(y, fed, past, Len(fed)), y.rings.n_available \in 0 .. 3,
         now \/ SigMapped(y.outBuf, y.outFile) = SigHeard(fed, past, Len(fed))
  PROVE  SigOrdered(y, <<>>, fed, past, said, now)
<1> PICK n : n = Len(fed) OBVIOUS
<1>1. /\ SigTurn(x, <<>>, fed, failed) /\ SigSpectra(x, <<>>, fed, past) /\ Listed(said)
      /\ failed \/ SigTold(said, x.outBuf, x.outFile) = SigTells(x, <<>>, fed, past)
  BY DEF SigOrdered
<1>2. SigUntold(x, <<>>) /\ ~SigUntold(y, <<>>) BY DEF SigUntold
<1>3. SigReached(x, <<>>, fed) = n - 1 /\ SigReached(y, <<>>, fed) = n BY <1>2 DEF SigReached
<1>4. ~SigPlaying(x) /\ ~SigPlaying(y) BY DEF SigPlaying
<1>5. n \in Nat /\ n # 0 /\ Listed(fed) /\ x.outBuf = <<>>
  <2>1. Listed(fed) /\ Len(fed) # 0 /\ x.outBuf = <<>> BY <1>1, <1>2 DEF SigTurn
  <2> QED BY <2>1, ListedLen
<1>6. SigTurn(y, <<>>, fed, now) BY <1>1, <1>2, <1>4 DEF SigTurn
<1>7. SigSettled(y, fed, past, SigReached(y, <<>>, fed), now) BY <1>3 DEF SigSettled
<1>8. SigSpectra(y, <<>>, fed, past) BY <1>1, <1>3 DEF SigSpectra
<1>9. now \/ SigTold(said, y.outBuf, y.outFile) = SigTells(y, <<>>, fed, past)
  <2> SUFFICES ASSUME ~now PROVE SigTold(said, y.outBuf, y.outFile) = SigTells(y, <<>>, fed, past)
    OBVIOUS
  <2> PICK k \in Nat : k = n - 1 BY <1>5
  <2>1. n = k + 1 BY <1>5
  <2>2. SigTold(said, <<>>, x.outFile) = SigExpected(fed, past, k)
    BY <1>1, <1>3, <1>4, <1>5 DEF SigTells
  <2>3. SigTold(said, y.outBuf, y.outFile) = SigTold(said, <<>>, x.outFile) \o SigMapped(y.outBuf, y.outFile)
    <3> PICK o, f, g : o = y.outBuf /\ f = y.outFile /\ g = x.outFile OBVIOUS
    <3>1. Listed(said) /\ Listed(o) BY <1>1
    <3>2. SigTold(said, o, f) = SigTold(said, <<>>, g) \o SigMapped(o, f) BY ONLY <3>1, ToldAdds
    <3> QED BY <3>2
  <2>4. SigExpected(fed, past, k + 1) = SigExpected(fed, past, k) \o SigHeard(fed, past, k + 1)
    BY ExpectedNext
  <2>5. SigTells(y, <<>>, fed, past) = SigExpected(fed, past, n) BY <1>3, <1>4 DEF SigTells
  <2> QED BY <2>1, <2>2, <2>3, <2>4, <2>5
<1> QED BY <1>1, <1>6, <1>7, <1>8, <1>9 DEF SigOrdered

\* What is known of the item being dealt with.
LEMMA SigAtItem ==
  ASSUME NEW x, NEW fed, NEW past, NEW said, NEW failed,
         x.procState \in {"SCHEDULE", "PROCESS"}, SigOrdered(x, <<>>, fed, past, said, failed)
  PROVE  /\ Len(fed) \in Nat \ {0} /\ Listed(fed) /\ SigNamedWell(fed, Len(fed))
         /\ SigItemWell(fed[Len(fed)]) /\ x.inBuf = <<fed[Len(fed)]>> /\ Head(x.inBuf) = fed[Len(fed)]
         /\ x.inFile = <<>> /\ x.outBuf = <<>>
         /\ failed \/ x.outFile = SigSavedTo(fed, Len(fed))
         /\ x.mods = SigModsAt(fed, past, Len(fed))
         /\ SigPastWell(past) /\ x.rings.n_available \in 0 .. 3
         /\ x.procState = "SCHEDULE" => SigCaughtUp(x, fed, past, Len(fed) - 1)
         /\ x.procState = "PROCESS" => SigFilling(x, fed, past, Len(fed)) /\ SigIsFrame(fed[Len(fed)])
<1> PICK n : n = Len(fed) OBVIOUS
<1>1. /\ SigTurn(x, <<>>, fed, failed) /\ SigSpectra(x, <<>>, fed, past)
      /\ SigSettled(x, fed, past, SigReached(x, <<>>, fed), failed)
  BY DEF SigOrdered
<1>2. SigUntold(x, <<>>) /\ ~SigPlaying(x) BY DEF SigUntold, SigPlaying
<1>3. SigReached(x, <<>>, fed) = n - 1 BY <1>2 DEF SigReached
<1>4. Listed(fed) /\ n # 0 /\ x.inBuf = <<fed[n]>> /\ x.inFile = <<>> /\ x.outBuf = <<>>
      /\ \A k \in 1 .. n : SigItemWell(fed[k])
  BY <1>1, <1>2 DEF SigTurn
<1>5. n \in Nat \ {0} /\ n \in 1 .. n /\ (n - 1) + 1 = n
  <2>1. n \in Nat BY <1>4, ListedLen
  <2> QED BY <1>4, <2>1
<1>6. Head(x.inBuf) = fed[n] BY <1>4
<1>7. SigNamedWell(fed, n) BY <1>4 DEF SigNamedWell, SigItemWell
<1>8. (failed \/ x.outFile = SigSavedTo(fed, n)) /\ x.mods = SigModsAt(fed, past, n)
  BY <1>1, <1>3, <1>5 DEF SigSettled
<1>9. /\ SigPastWell(past) /\ x.rings.n_available \in 0 .. 3
      /\ x.procState = "SCHEDULE" => SigCaughtUp(x, fed, past, n - 1)
      /\ x.procState = "PROCESS" => SigFilling(x, fed, past, n)
  BY <1>1, <1>3 DEF SigSpectra
<1>10. x.procState = "PROCESS" => SigIsFrame(fed[n]) BY <1>1 DEF SigTurn
<1> QED BY <1>4, <1>5, <1>6, <1>7, <1>8, <1>9, <1>10

\* What is told of each kind that is put into outBuf.
LEMMA TellingItem ==
  ASSUME NEW id, NEW dest
  PROVE  SigTelling([kind |-> "item", id |-> id], dest) = [kind |-> "item", id |-> id, saved |-> dest]
BY DEF SigTelling, SigBare, SigWith

LEMMA TellingSound ==
  ASSUME NEW name, NEW nr, NEW mods, NEW dest
  PROVE  SigTelling([kind |-> "sound", name |-> name, nr |-> nr, mods |-> mods], dest)
           = [kind |-> "sound", name |-> name, nr |-> nr, mods |-> mods, saved |-> dest]
BY DEF SigTelling, SigBare, SigWith

LEMMA TellingFrame ==
  ASSUME NEW cep, NEW phs, NEW half, NEW mods, NEW dest
  PROVE  SigTelling([kind |-> "frame", cep |-> cep, phs |-> phs, half |-> half, mods |-> mods], dest)
           = [kind |-> "frame", cep |-> cep, half |-> half, mods |-> mods, saved |-> dest]
<1> PICK a : a = [kind |-> "frame", cep |-> cep, phs |-> phs, half |-> half, mods |-> mods] OBVIOUS
<1> PICK b : b = SigWith(a, "saved", dest) OBVIOUS
<1> PICK c : c = SigBare(b) OBVIOUS
<1>1. /\ DOMAIN a = {"kind", "cep", "phs", "half", "mods"}
      /\ a.kind = "frame" /\ a.cep = cep /\ a.half = half /\ a.mods = mods
  OBVIOUS
<1>2. /\ DOMAIN b = {"kind", "cep", "phs", "half", "mods", "saved"}
      /\ b.kind = "frame" /\ b.cep = cep /\ b.half = half /\ b.mods = mods /\ b.saved = dest
  BY <1>1 DEF SigWith
<1>3. /\ DOMAIN c = {"kind", "cep", "half", "mods", "saved"} /\ c = [f \in DOMAIN c |-> c[f]]
      /\ c.kind = "frame" /\ c.cep = cep /\ c.half = half /\ c.mods = mods /\ c.saved = dest
  BY <1>2 DEF SigBare
<1>4. c = [kind |-> "frame", cep |-> cep, half |-> half, mods |-> mods, saved |-> dest] BY <1>3
<1> QED BY <1>4 DEF SigTelling

LEMMA MappedNone == ASSUME NEW dest PROVE SigMapped(<<>>, dest) = <<>>
<1>1. Len(<<>>) = 0 OBVIOUS
<1> QED BY <1>1 DEF SigMapped
LEMMA MappedOne == ASSUME NEW a, NEW dest PROVE SigMapped(<<a>>, dest) = <<SigTelling(a, dest)>>
<1>1. Len(<<a>>) = 1 /\ <<a>>[1] = a OBVIOUS
<1>2. SigMapped(<<a>>, dest) = [i \in 1 .. 1 |-> SigTelling(<<a>>[i], dest)] BY <1>1 DEF SigMapped
<1> PICK b : b = SigTelling(a, dest) OBVIOUS
<1>3. \A i \in 1 .. 1 : SigTelling(<<a>>[i], dest) = b BY <1>1
<1>4. SigMapped(<<a>>, dest) = [i \in 1 .. 1 |-> b] BY <1>2, <1>3
<1>5. <<b>> = [i \in 1 .. 1 |-> b] OBVIOUS
<1> QED BY <1>4, <1>5

-----------------------------------------------------------------------------
(* One action at a time. *)

\* What SIG is given and keeps beside its sub object stands while it works.
SigItemAtHand == Len(sigFed) \in Nat \ {0} /\ SigItem = sigFed[Len(sigFed)]

LEMMA OrderItem ==
  ASSUME SigOrder, sig.procState \in {"SCHEDULE", "PROCESS"}
  PROVE  /\ SigItemAtHand /\ sigIn = <<>> /\ SigOrdered(sig, <<>>, sigFed, sigPast, sigSaid, sigFailed)
<1>1. SigTurn(sig, sigIn, sigFed, sigFailed) BY DEF SigOrder, SigOrdered
<1>2. sigIn = <<>> BY <1>1 DEF SigTurn
<1>3. SigOrdered(sig, <<>>, sigFed, sigPast, sigSaid, sigFailed) BY <1>2 DEF SigOrder
<1>4. Len(sigFed) \in Nat \ {0} /\ Head(sig.inBuf) = sigFed[Len(sigFed)] BY <1>3, SigAtItem
<1> QED BY <1>2, <1>3, <1>4 DEF SigItemAtHand, SigItem

LEMMA OrderOther == ASSUME SigInv, SigOrder, SigScheduleOther PROVE SigOrder'
<1> PICK n : n = Len(sigFed) OBVIOUS
<1> PICK item : item = SigItem OBVIOUS
<1> PICK new : new = [kind |-> "item", id |-> item.id] OBVIOUS
<1>1. /\ sig.procState = "SCHEDULE" /\ ~sig_deal_with(item)
      /\ sig' = [SigConsumed EXCEPT !.outBuf = <<new>>, !.procState = "FEED"]
      /\ UNCHANGED <<sigIn, sigFed, sigSaid, sigPast, sigFailed>>
  BY DEF SigScheduleOther, SigInside
<1>2. sigIn = <<>> /\ SigOrdered(sig, <<>>, sigFed, sigPast, sigSaid, sigFailed) /\ SigItemAtHand
  BY <1>1, OrderItem
<1>3. /\ n \in Nat \ {0} /\ SigNamedWell(sigFed, n) /\ SigItemWell(sigFed[n]) /\ sig.inFile = <<>>
      /\ sigFailed \/ sig.outFile = SigSavedTo(sigFed, n)
      /\ sig.mods = SigModsAt(sigFed, sigPast, n) /\ SigPastWell(sigPast)
      /\ sig.rings.n_available \in 0 .. 3 /\ SigCaughtUp(sig, sigFed, sigPast, n - 1)
  BY <1>1, <1>2, SigAtItem
<1>4. item = sigFed[n] BY <1>2 DEF SigItemAtHand
<1>5. /\ sig'.procState = "FEED" /\ sig'.retState = "COLLECT" /\ sig'.inner = sig.inner
      /\ sig'.outBuf = <<new>> /\ sig'.inFile = sig.inFile /\ sig'.outFile = sig.outFile
      /\ sig'.rings = sig.rings /\ sig'.mods = sig.mods
  BY <1>1, SigConsumedFields
<1>6. ~sig_is_command(item) /\ ~SigIsFrame(item) /\ ~SigModifies(item)
      /\ \A c : ~SigCommand(item, c)
  BY <1>1 DEF sig_deal_with, sig_is_command, SigIsFrame, SigCommand
<1>7. SigSavedTo(sigFed, n + 1) = SigSavedTo(sigFed, n) BY <1>3, <1>4, <1>6, SavedNext
<1>8. SigModsAt(sigFed, sigPast, n + 1) = SigModsAt(sigFed, sigPast, n) BY <1>3, <1>4, <1>6, ModsNext
<1>9. SigCaughtUp(sig', sigFed, sigPast, n) BY <1>3, <1>4, <1>5, <1>6, SigNoFrame
<1>10. sigFailed \/ SigMapped(sig'.outBuf, sig'.outFile) = SigHeard(sigFed, sigPast, n)
  <2>1. SigHeard(sigFed, sigPast, n) = <<[kind |-> "item", id |-> item.id, saved |-> SigSavedTo(sigFed, n)]>>
    BY <1>1, <1>4, HeardCases
  <2>2. SigMapped(<<new>>, sig.outFile) = <<SigTelling(new, sig.outFile)>> BY MappedOne
  <2>3. SigTelling(new, sig.outFile) = [kind |-> "item", id |-> item.id, saved |-> sig.outFile]
    BY TellingItem
  <2> QED BY <1>3, <1>5, <2>1, <2>2, <2>3
<1>11. Listed(sig'.outBuf) BY <1>5, ListedOne
<1>12. SigOrdered(sig', <<>>, sigFed, sigPast, sigSaid, sigFailed)
  <2> PICK x, y : x = sig /\ y = sig' OBVIOUS
  <2>1. /\ x.procState = "SCHEDULE" /\ SigOrdered(x, <<>>, sigFed, sigPast, sigSaid, sigFailed)
        /\ y.procState = "FEED" /\ y.retState = "COLLECT" /\ y.inFile = <<>> /\ Listed(y.outBuf)
        /\ sigFailed \/ y.outFile = SigSavedTo(sigFed, Len(sigFed) + 1)
        /\ y.mods = SigModsAt(sigFed, sigPast, Len(sigFed) + 1)
        /\ SigCaughtUp(y, sigFed, sigPast, Len(sigFed)) /\ y.rings.n_available \in 0 .. 3
        /\ sigFailed \/ SigMapped(y.outBuf, y.outFile) = SigHeard(sigFed, sigPast, Len(sigFed))
    BY <1>1, <1>2, <1>3, <1>5, <1>7, <1>8, <1>9, <1>10, <1>11
  <2> QED BY ONLY <2>1, y = sig', SigDealt
<1> QED BY <1>1, <1>2, <1>12 DEF SigOrder

\* An item that is no frame is consumed, and nothing is heard of it.
LEMMA OrderConsumed ==
  ASSUME SigInv, SigOrder, sig.procState = "SCHEDULE", ~SigIsFrame(SigItem),
         sig'.procState = "COLLECT", sig'.retState = "COLLECT", sig'.inner = sig.inner,
         sig'.outBuf = sig.outBuf, sig'.inFile = sig.inFile, sig'.rings = sig.rings,
         sigFailed' \/ sig'.outFile = SigSavedTo(sigFed, Len(sigFed) + 1),
         sig'.mods = SigModsAt(sigFed, sigPast, Len(sigFed) + 1),
         sigFailed' \/ SigHeard(sigFed, sigPast, Len(sigFed)) = <<>>,
         UNCHANGED <<sigIn, sigFed, sigSaid, sigPast>>, sigFailed => sigFailed'
  PROVE  SigOrder'
<1> PICK n : n = Len(sigFed) OBVIOUS
<1>1. sigIn = <<>> /\ SigOrdered(sig, <<>>, sigFed, sigPast, sigSaid, sigFailed) /\ SigItemAtHand
  BY OrderItem
<1>2. /\ n \in Nat \ {0} /\ sig.inFile = <<>> /\ sig.outBuf = <<>> /\ SigPastWell(sigPast)
      /\ sig.rings.n_available \in 0 .. 3 /\ SigCaughtUp(sig, sigFed, sigPast, n - 1)
  BY <1>1, SigAtItem
<1>3. ~SigIsFrame(sigFed[n]) BY <1>1 DEF SigItemAtHand
<1>4. SigCaughtUp(sig', sigFed, sigPast, n) BY <1>2, <1>3, SigNoFrame
<1>5. sigFailed' \/ SigMapped(sig'.outBuf, sig'.outFile) = SigHeard(sigFed, sigPast, n)
  <2>1. SigMapped(<<>>, sig'.outFile) = <<>> BY MappedNone
  <2> QED BY <1>2, <2>1
<1>6. SigOrdered(sig', <<>>, sigFed, sigPast, sigSaid, sigFailed')
  <2> PICK x, y, now : x = sig /\ y = sig' /\ now = sigFailed' OBVIOUS
  <2>1. /\ x.procState = "SCHEDULE" /\ SigOrdered(x, <<>>, sigFed, sigPast, sigSaid, sigFailed)
        /\ y.procState = "COLLECT" /\ y.retState = "COLLECT" /\ y.inFile = <<>> /\ y.outBuf = <<>>
        /\ now \/ y.outFile = SigSavedTo(sigFed, Len(sigFed) + 1)
        /\ y.mods = SigModsAt(sigFed, sigPast, Len(sigFed) + 1)
        /\ SigCaughtUp(y, sigFed, sigPast, Len(sigFed)) /\ y.rings.n_available \in 0 .. 3
        /\ now \/ SigMapped(y.outBuf, y.outFile) = SigHeard(sigFed, sigPast, Len(sigFed))
        /\ sigFailed => now
    BY <1>1, <1>2, <1>4, <1>5
  <2>2. Listed(y.outBuf) BY <2>1, ListedEmpty
  <2> QED BY ONLY <2>1, <2>2, y = sig', now = sigFailed', SigDealt
<1> QED BY <1>1, <1>6 DEF SigOrder

\* The commands that SIG obeys are not frames, and each is one of these.
LEMMA CommandKinds ==
  ASSUME NEW item
  PROVE  /\ sig_is_command(item) => ~SigIsFrame(item)
         /\ SigModifies(item) => sig_is_command(item)
         /\ SigModifies(item) => item.info1 \notin {"PLAY", "SAVE", "UNSAVE"}
         /\ item.info1 \in {"PLAY", "SAVE", "UNSAVE"} => ~SigModifies(item)
         /\ \A c : sig_is_command(item) => (SigCommand(item, c) <=> item.info1 = c)
BY DEF sig_is_command, SigIsFrame, SigModifies, SigModifiers, SigCommand

LEMMA OrderModify == ASSUME SigInv, SigOrder, SigScheduleModify PROVE SigOrder'
<1> PICK n : n = Len(sigFed) OBVIOUS
<1> PICK item : item = SigItem OBVIOUS
<1>1. /\ sig.procState = "SCHEDULE" /\ SigModifies(item)
      /\ sig' = [SigConsumed EXCEPT !.mods = SigModified(@, item)]
      /\ UNCHANGED <<sigIn, sigFed, sigSaid, sigPast, sigFailed>>
  BY DEF SigScheduleModify, SigInside
<1>2. SigOrdered(sig, <<>>, sigFed, sigPast, sigSaid, sigFailed) /\ SigItemAtHand BY <1>1, OrderItem
<1>3. /\ n \in Nat \ {0} /\ SigNamedWell(sigFed, n) /\ SigItemWell(sigFed[n])
      /\ sigFailed \/ sig.outFile = SigSavedTo(sigFed, n)
      /\ sig.mods = SigModsAt(sigFed, sigPast, n)
  BY <1>1, <1>2, SigAtItem
<1>4. item = sigFed[n] BY <1>2 DEF SigItemAtHand
<1>5. /\ sig'.procState = "COLLECT" /\ sig'.retState = "COLLECT" /\ sig'.inner = sig.inner
      /\ sig'.outBuf = sig.outBuf /\ sig'.inFile = sig.inFile /\ sig'.outFile = sig.outFile
      /\ sig'.rings = sig.rings /\ sig'.mods = SigModified(sig.mods, item)
  BY <1>1, SigConsumedFields
<1>6. /\ sig_is_command(item) /\ ~SigIsFrame(item)
      /\ \A c \in {"PLAY", "SAVE", "UNSAVE"} : ~SigCommand(item, c)
  BY <1>1, CommandKinds
<1>7. SigSavedTo(sigFed, n + 1) = SigSavedTo(sigFed, n) BY <1>3, <1>4, <1>6, SavedNext
<1>8. SigModsAt(sigFed, sigPast, n + 1) = SigModified(SigModsAt(sigFed, sigPast, n), item)
  BY <1>1, <1>3, <1>4, ModsNext DEF SigItemWell
<1>9. SigHeard(sigFed, sigPast, n) = <<>> BY <1>4, <1>6, HeardCases
<1> QED BY <1>1, <1>3, <1>5, <1>6, <1>7, <1>8, <1>9, OrderConsumed

LEMMA OrderUnsave == ASSUME SigInv, SigOrder, SigScheduleUnsave PROVE SigOrder'
<1> PICK n : n = Len(sigFed) OBVIOUS
<1> PICK item : item = SigItem OBVIOUS
<1>1. /\ sig.procState = "SCHEDULE" /\ sig_is_command(item) /\ item.info1 = "UNSAVE"
      /\ sig' = [SigConsumed EXCEPT !.outFile = <<>>]
      /\ UNCHANGED <<sigIn, sigFed, sigSaid, sigPast, sigFailed>>
  BY DEF SigScheduleUnsave, SigScheduled, SigInside
<1>2. SigOrdered(sig, <<>>, sigFed, sigPast, sigSaid, sigFailed) /\ SigItemAtHand BY <1>1, OrderItem
<1>3. /\ n \in Nat \ {0} /\ SigNamedWell(sigFed, n) /\ SigItemWell(sigFed[n])
      /\ sig.mods = SigModsAt(sigFed, sigPast, n)
  BY <1>1, <1>2, SigAtItem
<1>4. item = sigFed[n] BY <1>2 DEF SigItemAtHand
<1>5. /\ sig'.procState = "COLLECT" /\ sig'.retState = "COLLECT" /\ sig'.inner = sig.inner
      /\ sig'.outBuf = sig.outBuf /\ sig'.inFile = sig.inFile /\ sig'.outFile = <<>>
      /\ sig'.rings = sig.rings /\ sig'.mods = sig.mods
  BY <1>1, SigConsumedFields
<1>6. ~SigIsFrame(item) /\ ~SigModifies(item) /\ SigCommand(item, "UNSAVE") /\ ~SigCommand(item, "PLAY")
  BY <1>1, CommandKinds
<1>7. SigSavedTo(sigFed, n + 1) = <<>> BY <1>3, <1>4, <1>6, SavedNext
<1>8. SigModsAt(sigFed, sigPast, n + 1) = SigModsAt(sigFed, sigPast, n) BY <1>3, <1>4, <1>6, ModsNext
<1>9. SigHeard(sigFed, sigPast, n) = <<>> BY <1>1, <1>4, <1>6, HeardCases
<1> QED BY <1>1, <1>3, <1>5, <1>6, <1>7, <1>8, <1>9, OrderConsumed

LEMMA OrderSave == ASSUME SigInv, SigOrder, SigScheduleSave PROVE SigOrder'
<1> PICK n : n = Len(sigFed) OBVIOUS
<1> PICK item : item = SigItem OBVIOUS
<1>1. /\ sig.procState = "SCHEDULE" /\ sig_is_command(item) /\ item.info1 = "SAVE"
      /\ UNCHANGED <<sigIn, sigFed, sigSaid, sigPast>>
      /\ \/ sig.outFile = <<>> /\ item.wav /\ sig' = [SigConsumed EXCEPT !.outFile = item.name]
            /\ UNCHANGED sigFailed
         \/ (sig.outFile # <<>> \/ ~item.wav) /\ sig' = SigConsumed /\ UNCHANGED sigFailed
         \/ sig' = SigConsumed /\ sigFailed' = TRUE
  BY DEF SigScheduleSave, SigScheduled, SigInside
<1>2. SigOrdered(sig, <<>>, sigFed, sigPast, sigSaid, sigFailed) /\ SigItemAtHand BY <1>1, OrderItem
<1>3. /\ n \in Nat \ {0} /\ SigNamedWell(sigFed, n) /\ SigItemWell(sigFed[n])
      /\ sigFailed \/ sig.outFile = SigSavedTo(sigFed, n)
      /\ sig.mods = SigModsAt(sigFed, sigPast, n)
  BY <1>1, <1>2, SigAtItem
<1>4. item = sigFed[n] BY <1>2 DEF SigItemAtHand
<1>5. /\ sig'.procState = "COLLECT" /\ sig'.retState = "COLLECT" /\ sig'.inner = sig.inner
      /\ sig'.outBuf = sig.outBuf /\ sig'.inFile = sig.inFile
      /\ sig'.rings = sig.rings /\ sig'.mods = sig.mods
  BY <1>1, SigConsumedFields
<1>6. ~SigIsFrame(item) /\ ~SigModifies(item) /\ SigCommand(item, "SAVE")
      /\ ~SigCommand(item, "PLAY") /\ ~SigCommand(item, "UNSAVE")
  BY <1>1, CommandKinds
<1>7. SigSavedTo(sigFed, n + 1) = IF item.wav /\ SigSavedTo(sigFed, n) = <<>> THEN item.name
                                  ELSE SigSavedTo(sigFed, n)
  BY <1>3, <1>4, <1>6, SavedNext
<1>8. sigFailed' \/ sig'.outFile = SigSavedTo(sigFed, n + 1)
  <2>1. CASE sig.outFile = <<>> /\ item.wav /\ sig' = [SigConsumed EXCEPT !.outFile = item.name]
             /\ UNCHANGED sigFailed
    <3>1. sig'.outFile = item.name BY <2>1, SigConsumedFields
    <3> QED BY <1>3, <1>7, <2>1, <3>1
  <2>2. CASE (sig.outFile # <<>> \/ ~item.wav) /\ sig' = SigConsumed /\ UNCHANGED sigFailed
    <3>1. sig'.outFile = sig.outFile BY <2>2, SigConsumedFields
    <3> QED BY <1>3, <1>7, <2>2, <3>1
  <2> QED BY <1>1, <2>1, <2>2
<1>9. SigModsAt(sigFed, sigPast, n + 1) = SigModsAt(sigFed, sigPast, n) BY <1>3, <1>4, <1>6, ModsNext
<1>10. SigHeard(sigFed, sigPast, n) = <<>> BY <1>1, <1>4, <1>6, HeardCases
<1>11. sigFailed => sigFailed' BY <1>1
<1> QED BY <1>1, <1>3, <1>5, <1>6, <1>8, <1>9, <1>10, <1>11, OrderConsumed

LEMMA OrderPlay == ASSUME SigInv, SigOrder, SigSchedulePlay PROVE SigOrder'
<1> PICK n : n = Len(sigFed) OBVIOUS
<1> PICK item : item = SigItem OBVIOUS
<1> DEFINE unheard == \/ sig.inFile # <<>>
                      \/ (sig.outFile # <<>> /\ SigSameName(item.name, sig.outFile))
                      \/ item.name \notin DOMAIN SigSounds
           plays == [SigConsumed EXCEPT !.inFile = item.name, !.inPos = 0,
                                        !.procState = "PLAY", !.retState = "PLAY"]
<1>1. /\ sig.procState = "SCHEDULE" /\ sig_is_command(item) /\ item.info1 = "PLAY"
      /\ UNCHANGED <<sigIn, sigFed, sigSaid, sigPast, sigFailed>>
      /\ sig' = IF unheard THEN SigConsumed ELSE plays
  BY DEF SigSchedulePlay, SigScheduled, SigInside
<1>2. SigOrdered(sig, <<>>, sigFed, sigPast, sigSaid, sigFailed) /\ SigItemAtHand /\ sigIn = <<>>
  BY <1>1, OrderItem
<1>3. /\ n \in Nat \ {0} /\ Listed(sigFed) /\ SigNamedWell(sigFed, n) /\ SigItemWell(sigFed[n])
      /\ sigFailed \/ sig.outFile = SigSavedTo(sigFed, n)
      /\ sig.mods = SigModsAt(sigFed, sigPast, n) /\ sig.inFile = <<>> /\ sig.outBuf = <<>>
      /\ SigPastWell(sigPast) /\ sig.rings.n_available \in 0 .. 3
      /\ SigCaughtUp(sig, sigFed, sigPast, n - 1)
  BY <1>1, <1>2, SigAtItem
<1>4. item = sigFed[n] BY <1>2 DEF SigItemAtHand
<1>6. ~SigIsFrame(item) /\ ~SigModifies(item) /\ SigCommand(item, "PLAY")
      /\ ~SigCommand(item, "SAVE") /\ ~SigCommand(item, "UNSAVE")
  BY <1>1, CommandKinds
<1>7. SigSavedTo(sigFed, n + 1) = SigSavedTo(sigFed, n) BY <1>3, <1>4, <1>6, SavedNext
<1>8. SigModsAt(sigFed, sigPast, n + 1) = SigModsAt(sigFed, sigPast, n) BY <1>3, <1>4, <1>6, ModsNext
<1>9. CASE unheard
  <2>1. /\ sig'.procState = "COLLECT" /\ sig'.retState = "COLLECT" /\ sig'.inner = sig.inner
        /\ sig'.outBuf = sig.outBuf /\ sig'.inFile = sig.inFile /\ sig'.outFile = sig.outFile
        /\ sig'.rings = sig.rings /\ sig'.mods = sig.mods
    BY <1>1, <1>9, SigConsumedFields
  <2>2. sigFailed \/ SigUnheard(sigFed, n) BY <1>3, <1>4, <1>9 DEF SigUnheard
  <2>3. sigFailed \/ SigHeard(sigFed, sigPast, n) = <<>> BY <1>4, <1>6, <2>2, HeardCases
  <2> QED BY <1>1, <1>3, <1>6, <1>7, <1>8, <2>1, <2>3, OrderConsumed
<1>10. CASE ~unheard
  <2>1. /\ sig'.procState = "PLAY" /\ sig'.retState = "PLAY" /\ sig'.inner = sig.inner
        /\ sig'.outBuf = <<>> /\ sig'.inFile = item.name /\ sig'.inPos = 0
        /\ sig'.outFile = sig.outFile /\ sig'.rings = sig.rings /\ sig'.mods = sig.mods
    BY <1>1, <1>3, <1>10, SigConsumedFields
  <2> PICK y : y = sig' OBVIOUS
  <2>2. item.name \in DOMAIN SigSounds
        /\ (sig.outFile = <<>> \/ ~SigSameName(item.name, sig.outFile))
    BY <1>10
  <2>3. SigPlaying(y) /\ ~SigUntold(y, <<>>) BY <2>1 DEF SigPlaying, SigUntold
  <2>4. SigReached(y, <<>>, sigFed) = n BY <2>3 DEF SigReached
  <2>5. SigTurn(y, <<>>, sigFed, sigFailed)
    <3>1. \A k \in 1 .. n : SigItemWell(sigFed[k]) BY <1>2 DEF SigOrdered, SigTurn
    <3>2. 0 \in 0 .. SigSounds[item.name] BY <2>2, SigAssumption
    <3> QED BY <1>3, <1>4, <1>6, <2>1, <2>2, <2>3, <3>1, <3>2 DEF SigTurn
  <2>6. SigSettled(y, sigFed, sigPast, n, sigFailed) BY <1>3, <1>7, <1>8, <2>1 DEF SigSettled
  <2>7. SigCaughtUp(y, sigFed, sigPast, n) BY <1>3, <1>4, <1>6, <2>1, SigNoFrame
  <2>8. SigSpectra(y, <<>>, sigFed, sigPast) BY <1>3, <2>1, <2>4, <2>7 DEF SigSpectra
  <2>9. Listed(sigSaid)
        /\ (sigFailed \/ SigTold(sigSaid, sig.outBuf, sig.outFile) = SigTells(sig, <<>>, sigFed, sigPast))
    BY <1>2 DEF SigOrdered
  <2>10. ~SigPlaying(sig) /\ SigReached(sig, <<>>, sigFed) = n - 1
    BY <1>1 DEF SigPlaying, SigReached, SigUntold
  <2>11. SigTells(y, <<>>, sigFed, sigPast) = SigExpected(sigFed, sigPast, n - 1)
    <3> PICK k \in Nat : k = n - 1 BY <1>3
    <3> PICK w : w = SigExpected(sigFed, sigPast, k) OBVIOUS
    <3>1. Listed(w) BY ExpectedNext
    <3>2. PICK R : w \in Seq(R) BY <3>1, ListedLen
    <3>3. w \o <<>> = w BY <3>2
    <3>4. SigSounded(sigFed, sigPast, n, 0) = <<>>
      <4>1. Listed(SigSounded(sigFed, sigPast, n, 0)) /\ Len(SigSounded(sigFed, sigPast, n, 0)) = 0
        BY SoundedListed
      <4> QED BY <4>1, ListedLen
    <3> QED BY <2>1, <2>3, <3>3, <3>4 DEF SigTells
  <2>12. SigTells(sig, <<>>, sigFed, sigPast) = SigExpected(sigFed, sigPast, n - 1)
    BY <2>10 DEF SigTells
  <2>13. SigOrdered(y, <<>>, sigFed, sigPast, sigSaid, sigFailed)
    BY <1>3, <2>1, <2>4, <2>5, <2>6, <2>8, <2>9, <2>11, <2>12 DEF SigOrdered
  <2> QED BY <1>1, <1>2, <2>13 DEF SigOrder
<1> QED BY <1>9, <1>10

\* A frame is begun: it has to be loaded as often as the ring wants it.
LEMMA OrderFrame == ASSUME SigInv, SigOrder, SigScheduleFrame PROVE SigOrder'
<1> PICK n : n = Len(sigFed) OBVIOUS
<1> PICK y : y = sig' OBVIOUS
<1>1. /\ sig.procState = "SCHEDULE" /\ SigItem.type = "FRAME_PAR"
      /\ sig' = [sig EXCEPT !.procState = "PROCESS", !.retState = "COLLECT"]
      /\ UNCHANGED <<sigIn, sigFed, sigSaid, sigPast, sigFailed>>
  BY DEF SigScheduleFrame, SigInside
<1>2. SigOrdered(sig, <<>>, sigFed, sigPast, sigSaid, sigFailed) /\ SigItemAtHand /\ sigIn = <<>>
  BY <1>1, OrderItem
<1>3. /\ n \in Nat \ {0} /\ Listed(sigFed) /\ sig.inBuf = <<sigFed[n]>>
      /\ sig.inFile = <<>> /\ sig.outBuf = <<>>
      /\ SigPastWell(sigPast) /\ sig.rings.n_available \in 0 .. 3
      /\ SigCaughtUp(sig, sigFed, sigPast, n - 1)
  BY <1>1, <1>2, SigAtItem
<1>4. SigIsFrame(sigFed[n]) BY <1>1, <1>2 DEF SigItemAtHand, SigIsFrame
<1>5. /\ y.procState = "PROCESS" /\ y.retState = "COLLECT" /\ y.inner = sig.inner
      /\ y.inBuf = sig.inBuf /\ y.outBuf = <<>> /\ y.inFile = <<>> /\ y.outFile = sig.outFile
      /\ y.rings = sig.rings /\ y.mods = sig.mods
  BY <1>1, <1>3 DEF SigInv, SigFields
<1>6. SigUntold(sig, <<>>) /\ SigUntold(y, <<>>) /\ ~SigPlaying(sig) /\ ~SigPlaying(y)
  BY <1>1, <1>5 DEF SigUntold, SigPlaying
<1>7. SigReached(sig, <<>>, sigFed) = n - 1 /\ SigReached(y, <<>>, sigFed) = n - 1
  BY <1>6 DEF SigReached
<1>8. SigTurn(y, <<>>, sigFed, sigFailed)
  BY <1>2, <1>3, <1>4, <1>5, <1>6 DEF SigOrdered, SigTurn
<1>9. SigSettled(y, sigFed, sigPast, n - 1, sigFailed)
  BY <1>2, <1>5, <1>7 DEF SigOrdered, SigSettled
<1>10. SigFilling(y, sigFed, sigPast, n)
  <2> PICK k \in Nat : k = n - 1 BY <1>3
  <2> PICK a, b, t : /\ a = SigLoads(sigFed, sigPast, k) /\ b = SigLoads(sigFed, sigPast, k + 1)
                     /\ t = Len(SigLoading(sigFed, sigPast, k + 1))
    OBVIOUS
  <2>0. n = k + 1 BY <1>3
  <2>1. sig.inner = "load" /\ sig.rings.n_available = SigAvailable(sigFed, sigPast, k)
        /\ RingAt(sig.rings.cep, a, Len(a))
    BY <1>3 DEF SigCaughtUp
  <2>2. /\ Len(a) \in Nat /\ t \in Nat /\ Len(b) = Len(a) + t
        /\ \A i \in 1 .. Len(a) : b[i] = a[i]
        /\ SigIsFrame(sigFed[k + 1]) => t = SigTimes(sigFed, sigPast, k + 1)
    BY <1>3, LoadsGrow
  <2>3. SigToLoad(y) = t
    <3>1. (k + 1) - 1 = k OBVIOUS
    <3>2. SigFills(3) = 1 BY DEF SigFills
    <3>3. SigFills(SigAvailable(sigFed, sigPast, k)) = SigTimes(sigFed, sigPast, k + 1)
      BY <3>1, <3>2 DEF SigAvailable, SigTimes
    <3>4. SigToLoad(y) = SigFills(sig.rings.n_available) BY <1>5, <2>1 DEF SigToLoad
    <3> QED BY <1>4, <2>0, <2>1, <2>2, <3>3, <3>4
  <2>4. Len(b) - t = Len(a) BY <2>2
  <2>5. RingAt(sig.rings.cep, b, Len(a))
    <3>0. SigCepRing \in Nat \ {0} BY SigAssumption
    <3>1. Len(a) \in SigCepRing .. Len(b)
          /\ \A i \in 1 .. SigCepRing : sig.rings.cep[i] = a[Len(a) - SigCepRing + i]
      BY <2>1, <2>2, <3>0 DEF RingAt
    <3>2. \A i \in 1 .. SigCepRing : Len(a) - SigCepRing + i \in 1 .. Len(a) BY <2>2, <3>0, <3>1
    <3> QED BY <2>2, <3>1, <3>2 DEF RingAt
  <2> QED BY <1>5, <2>0, <2>1, <2>2, <2>3, <2>4, <2>5 DEF SigFilling
<1>11. SigSpectra(y, <<>>, sigFed, sigPast) BY <1>3, <1>5, <1>10 DEF SigSpectra
<1>12. Listed(sigSaid) /\ (sigFailed \/ SigTold(sigSaid, y.outBuf, y.outFile) = SigTells(y, <<>>, sigFed, sigPast))
  BY <1>2, <1>3, <1>5, <1>6, <1>7 DEF SigOrdered, SigTells
<1>13. SigOrdered(y, <<>>, sigFed, sigPast, sigSaid, sigFailed)
  BY <1>7, <1>8, <1>9, <1>11, <1>12 DEF SigOrdered
<1> QED BY <1>1, <1>2, <1>13 DEF SigOrder

\* A frame is loaded once more.
LEMMA OrderLoad == ASSUME SigInv, SigOrder, SigProcessLoad PROVE SigOrder'
<1> PICK n : n = Len(sigFed) OBVIOUS
<1> PICK y : y = sig' OBVIOUS
<1> PICK item : item = SigItem OBVIOUS
<1> PICK new : new = SigLoaded(sig.rings, item) OBVIOUS
<1>1. /\ sig.procState = "PROCESS" /\ sig.inner = "load"
      /\ sig' = [sig EXCEPT !.rings = new, !.inner = IF new.n_available < 3 THEN "load" ELSE "make"]
      /\ UNCHANGED <<sigIn, sigFed, sigSaid, sigPast, sigFailed>>
  BY DEF SigProcessLoad, SigInside
<1>2. SigOrdered(sig, <<>>, sigFed, sigPast, sigSaid, sigFailed) /\ SigItemAtHand /\ sigIn = <<>>
  BY <1>1, OrderItem
<1>3. /\ n \in Nat \ {0} /\ Listed(sigFed) /\ sig.inBuf = <<sigFed[n]>>
      /\ sig.inFile = <<>> /\ sig.outBuf = <<>>
      /\ SigPastWell(sigPast) /\ sig.rings.n_available \in 0 .. 3
      /\ SigFilling(sig, sigFed, sigPast, n) /\ SigIsFrame(sigFed[n])
  BY <1>1, <1>2, SigAtItem
<1>4. item = sigFed[n] BY <1>2 DEF SigItemAtHand
<1>5. /\ y.procState = "PROCESS" /\ y.inBuf = sig.inBuf /\ y.outBuf = <<>> /\ y.inFile = <<>>
      /\ y.outFile = sig.outFile /\ y.rings = new /\ y.mods = sig.mods
      /\ y.inner = IF new.n_available < 3 THEN "load" ELSE "make"
  BY <1>1, <1>3 DEF SigInv, SigFields
<1>6. SigUntold(sig, <<>>) /\ SigUntold(y, <<>>) /\ ~SigPlaying(sig) /\ ~SigPlaying(y)
  BY <1>1, <1>5 DEF SigUntold, SigPlaying
<1>7. SigReached(sig, <<>>, sigFed) = n - 1 /\ SigReached(y, <<>>, sigFed) = n - 1
  BY <1>6 DEF SigReached
<1>8. SigTurn(y, <<>>, sigFed, sigFailed)
  BY <1>2, <1>3, <1>5, <1>6 DEF SigOrdered, SigTurn
<1>9. SigSettled(y, sigFed, sigPast, n - 1, sigFailed)
  BY <1>2, <1>5, <1>7 DEF SigOrdered, SigSettled
<1>10. SigFilling(y, sigFed, sigPast, n) /\ y.rings.n_available \in 0 .. 3
  <2> PICK k \in Nat : k = n - 1 BY <1>3
  <2> PICK a, b, t : /\ a = SigLoads(sigFed, sigPast, k) /\ b = SigLoads(sigFed, sigPast, k + 1)
                     /\ t = Len(SigLoading(sigFed, sigPast, k + 1))
    OBVIOUS
  <2> PICK left, avail : left = SigToLoad(sig) /\ avail = sig.rings.n_available OBVIOUS
  <2>0. n = k + 1 BY <1>3
  <2>1. /\ Len(a) \in Nat /\ t \in Nat /\ Len(b) = Len(a) + t
        /\ \A i \in Len(a) + 1 .. Len(b) : b[i] = SigSpectrum(sigFed[k + 1])
    <3> PICK past, fed : past = sigPast /\ fed = sigFed OBVIOUS
    <3>1. /\ SigPastWell(past) /\ a = SigLoads(fed, past, k) /\ b = SigLoads(fed, past, k + 1)
          /\ t = Len(SigLoading(fed, past, k + 1))
      BY <1>3
    <3>2. /\ Len(a) \in Nat /\ t \in Nat /\ Len(b) = Len(a) + t
          /\ \A i \in Len(a) + 1 .. Len(b) : b[i] = SigSpectrum(fed[k + 1])
      BY ONLY <3>1, k \in Nat, LoadsGrow
    <3> QED BY <3>2
  <2>2. left <= t /\ RingAt(sig.rings.cep, b, Len(b) - left) BY <1>3, <2>0 DEF SigFilling
  <2>3. left = IF avail < 2 THEN 3 - avail ELSE 1 BY <1>1 DEF SigToLoad, SigFills
  <2>4. left \in 1 .. 3 /\ avail \in 0 .. 3 BY <1>3, <2>3
  <2>5. new.n_available = IF avail < 3 THEN avail + 1 ELSE 3 BY DEF SigLoaded
  <2>6. SigToLoad(y) = left - 1
    <3>1. SigToLoad(y) = IF new.n_available < 3
                         THEN IF new.n_available < 2 THEN 3 - new.n_available ELSE 1 ELSE 0
      BY <1>5 DEF SigToLoad, SigFills
    <3>2. avail = 0 \/ avail = 1 \/ avail = 2 \/ avail = 3 BY <2>4
    <3> QED BY <2>3, <2>5, <3>1, <3>2
  <2>7. new.n_available \in 0 .. 3 /\ (y.inner = "make" => new.n_available = 3) BY <1>5, <2>4, <2>5
  <2> PICK m : m = Len(b) - left OBVIOUS
  <2>8. m \in SigCepRing .. Len(b) /\ \A i \in 1 .. SigCepRing : sig.rings.cep[i] = b[m - SigCepRing + i]
    BY <2>2 DEF RingAt
  <2>9. SigCepRing \in Nat \ {0} BY SigAssumption
  <2>10. /\ Listed(sig.rings.cep) /\ Len(sig.rings.cep) = SigCepRing
    BY DEF SigInv, RingsAligned
  <2>11. /\ \A i \in 1 .. SigCepRing - 1 : new.cep[i] = sig.rings.cep[i + 1]
         /\ new.cep[SigCepRing] = SigSpectrum(item)
    <3> PICK ring, rest, e, more : /\ ring = sig.rings.cep /\ rest = Tail(ring)
                                  /\ e = SigSpectrum(item) /\ more = Append(rest, e)
      OBVIOUS
    <3>1. ring # <<>> BY <2>9, <2>10, ListedLen
    <3>2. /\ Listed(rest) /\ Len(rest) = SigCepRing - 1
          /\ \A i \in 1 .. SigCepRing - 1 : rest[i] = ring[i + 1]
      BY <2>10, <3>1, ListedTail
    <3>3. new.cep = more BY DEF SigLoaded, SigShift
    <3>4. /\ \A i \in 1 .. Len(rest) : more[i] = rest[i]
          /\ more[Len(rest) + 1] = e
      BY ONLY <3>2, more = Append(rest, e), ListedAppend
    <3>5. Len(rest) + 1 = SigCepRing BY <2>9, <3>2
    <3> QED BY <3>2, <3>3, <3>4, <3>5
  <2>12. RingAt(new.cep, b, m + 1)
    <3>1. m + 1 \in SigCepRing .. Len(b) /\ m \in Nat /\ Len(b) \in Nat BY <2>1, <2>4, <2>8, <2>9
    <3>2. ASSUME NEW i \in 1 .. SigCepRing PROVE new.cep[i] = b[(m + 1) - SigCepRing + i]
      <4>1. CASE i = SigCepRing
        <5>1. (m + 1) - SigCepRing + i = m + 1 BY <2>9, <3>1, <4>1
        <5>2. m + 1 \in Len(a) + 1 .. Len(b) BY <2>1, <2>2, <2>4, <3>1
        <5> QED BY <1>4, <2>0, <2>1, <2>11, <4>1, <5>1, <5>2
      <4>2. CASE i # SigCepRing
        <5>1. i \in 1 .. SigCepRing - 1 /\ i + 1 \in 1 .. SigCepRing
              /\ (m + 1) - SigCepRing + i = m - SigCepRing + (i + 1)
          BY <2>9, <3>1, <4>2
        <5> QED BY <2>8, <2>11, <5>1
      <4> QED BY <4>1, <4>2
    <3> QED BY <3>1, <3>2 DEF RingAt
  <2>13. Len(b) - (left - 1) = m + 1 /\ left - 1 <= t BY <2>1, <2>2, <2>4
  <2>14. y.inner \in {"load", "make"} BY <1>5
  <2> QED BY <1>5, <2>0, <2>6, <2>7, <2>12, <2>13, <2>14 DEF SigFilling
<1>11. SigSpectra(y, <<>>, sigFed, sigPast) BY <1>3, <1>5, <1>10 DEF SigSpectra
<1>12. Listed(sigSaid) /\ (sigFailed \/ SigTold(sigSaid, y.outBuf, y.outFile) = SigTells(y, <<>>, sigFed, sigPast))
  BY <1>2, <1>3, <1>5, <1>6, <1>7 DEF SigOrdered, SigTells
<1>13. SigOrdered(y, <<>>, sigFed, sigPast, sigSaid, sigFailed)
  BY <1>7, <1>8, <1>9, <1>11, <1>12 DEF SigOrdered
<1> QED BY <1>1, <1>2, <1>13 DEF SigOrder

\* Two frames of samples are made of the oldest spectrum of the ring.
LEMMA OrderMake == ASSUME SigInv, SigOrder, SigProcessMake PROVE SigOrder'
<1> PICK n : n = Len(sigFed) OBVIOUS
<1> PICK y : y = sig' OBVIOUS
<1> PICK one, two : one = SigMade(1) /\ two = SigMade(2) OBVIOUS
<1>1. /\ sig.procState = "PROCESS" /\ sig.inner = "make"
      /\ sig' = [SigConsumed EXCEPT !.inner = "load", !.outBuf = <<one, two>>, !.procState = "FEED"]
      /\ UNCHANGED <<sigIn, sigFed, sigSaid, sigPast, sigFailed>>
  BY DEF SigProcessMake, SigInside
<1>2. SigOrdered(sig, <<>>, sigFed, sigPast, sigSaid, sigFailed) /\ SigItemAtHand /\ sigIn = <<>>
  BY <1>1, OrderItem
<1>3. /\ n \in Nat \ {0} /\ SigNamedWell(sigFed, n) /\ SigItemWell(sigFed[n]) /\ sig.inFile = <<>>
      /\ sigFailed \/ sig.outFile = SigSavedTo(sigFed, n)
      /\ sig.mods = SigModsAt(sigFed, sigPast, n) /\ SigPastWell(sigPast)
      /\ sig.rings.n_available \in 0 .. 3
      /\ SigFilling(sig, sigFed, sigPast, n) /\ SigIsFrame(sigFed[n])
  BY <1>1, <1>2, SigAtItem
<1>4. /\ y.procState = "FEED" /\ y.retState = "COLLECT" /\ y.inner = "load"
      /\ y.outBuf = <<one, two>> /\ y.inFile = sig.inFile /\ y.outFile = sig.outFile
      /\ y.rings = sig.rings /\ y.mods = sig.mods
  BY <1>1, SigConsumedFields
<1> PICK b : b = SigLoads(sigFed, sigPast, n) OBVIOUS
<1>5. Listed(b) /\ Len(b) \in Nat
  <2>1. Listed(b) BY <1>3, LoadsNext
  <2> QED BY <2>1, ListedLen
<1>6. SigToLoad(sig) = 0 /\ sig.rings.n_available = 3 /\ RingAt(sig.rings.cep, b, Len(b))
  <2>1. SigToLoad(sig) = 0 BY <1>1 DEF SigToLoad
  <2>2. Len(b) - 0 = Len(b) BY <1>5
  <2> QED BY <1>1, <1>3, <2>1, <2>2 DEF SigFilling
<1>7. ~sig_is_command(sigFed[n]) /\ ~SigModifies(sigFed[n]) /\ \A c : ~SigCommand(sigFed[n], c)
  BY <1>3, CommandKinds DEF SigCommand
<1>8. SigSavedTo(sigFed, n + 1) = SigSavedTo(sigFed, n) BY <1>3, <1>7, SavedNext
<1>9. SigModsAt(sigFed, sigPast, n + 1) = SigModsAt(sigFed, sigPast, n) BY <1>3, <1>7, ModsNext
<1>10. SigCaughtUp(y, sigFed, sigPast, n)
  <2>1. n \in 1 .. n BY <1>3
  <2>2. SigAvailable(sigFed, sigPast, n) = 3 BY <1>3, <2>1 DEF SigAvailable
  <2> QED BY <1>4, <1>6, <2>2 DEF SigCaughtUp
<1>11. sigFailed \/ SigMapped(y.outBuf, y.outFile) = SigHeard(sigFed, sigPast, n)
  <2> SUFFICES ASSUME ~sigFailed PROVE SigMapped(<<one, two>>, sig.outFile) = SigHeard(sigFed, sigPast, n)
    BY <1>4
  <2> PICK old, mods, dest : old = sig.rings.cep[1] /\ mods = sig.mods /\ dest = sig.outFile OBVIOUS
  <2>1. old = SigOldest(b)
    <3>0. SigCepRing \in Nat \ {0} BY SigAssumption
    <3>1. 1 \in 1 .. SigCepRing BY <3>0
    <3>2. old = b[Len(b) - SigCepRing + 1] BY <1>6, <3>1 DEF RingAt
    <3> QED BY <3>2 DEF SigOldest
  <2> DEFINE telling(half) == [kind |-> "frame", cep |-> old, half |-> half, mods |-> mods, saved |-> dest]
  <2>2. SigTelling(one, dest) = telling(1)
    <3> PICK phs : phs = sig.rings.phs[3] OBVIOUS
    <3>1. one = [kind |-> "frame", cep |-> old, phs |-> phs, half |-> 1, mods |-> mods] BY DEF SigMade
    <3> QED BY <3>1, TellingFrame
  <2>3. SigTelling(two, dest) = telling(2)
    <3> PICK phs : phs = sig.rings.phs[3] OBVIOUS
    <3>1. two = [kind |-> "frame", cep |-> old, phs |-> phs, half |-> 2, mods |-> mods] BY DEF SigMade
    <3> QED BY <3>1, TellingFrame
  <2>4. SigHeard(sigFed, sigPast, n) = [half \in 1 .. 2 |-> telling(half)]
    BY <1>3, <2>1, HeardCases
  <2> HIDE DEF telling
  <2>5. Len(<<one, two>>) = 2 /\ <<one, two>>[1] = one /\ <<one, two>>[2] = two OBVIOUS
  <2>6. SigMapped(<<one, two>>, dest) = [i \in 1 .. 2 |-> SigTelling(<<one, two>>[i], dest)]
    BY <2>5 DEF SigMapped
  <2>7. \A i \in 1 .. 2 : SigTelling(<<one, two>>[i], dest) = telling(i)
    <3> TAKE i \in 1 .. 2
    <3>1. i = 1 \/ i = 2 OBVIOUS
    <3> QED BY <2>2, <2>3, <2>5, <3>1
  <2> QED BY <2>4, <2>6, <2>7
<1>12. Listed(y.outBuf) BY <1>4, ListedTwo
<1>13. SigOrdered(y, <<>>, sigFed, sigPast, sigSaid, sigFailed)
  <2> PICK x : x = sig OBVIOUS
  <2>1. /\ x.procState = "PROCESS" /\ SigOrdered(x, <<>>, sigFed, sigPast, sigSaid, sigFailed)
        /\ y.procState = "FEED" /\ y.retState = "COLLECT" /\ y.inFile = <<>> /\ Listed(y.outBuf)
        /\ sigFailed \/ y.outFile = SigSavedTo(sigFed, Len(sigFed) + 1)
        /\ y.mods = SigModsAt(sigFed, sigPast, Len(sigFed) + 1)
        /\ SigCaughtUp(y, sigFed, sigPast, Len(sigFed)) /\ y.rings.n_available \in 0 .. 3
        /\ sigFailed \/ SigMapped(y.outBuf, y.outFile) = SigHeard(sigFed, sigPast, Len(sigFed))
    BY <1>1, <1>2, <1>3, <1>4, <1>8, <1>9, <1>10, <1>11, <1>12
  <2> QED BY ONLY <2>1, SigDealt
<1> QED BY <1>1, <1>2, <1>13 DEF SigOrder

\* One frame more of the file is played.
LEMMA OrderPlayFrame == ASSUME SigInv, SigOrder, SigPlayFrame PROVE SigOrder'
<1> PICK n : n = Len(sigFed) OBVIOUS
<1> PICK y, p : y = sig' /\ p = sig.inPos OBVIOUS
<1> PICK new : new = [kind |-> "sound", name |-> sig.inFile, nr |-> p + 1, mods |-> sig.mods] OBVIOUS
<1>1. /\ sig.procState = "PLAY" /\ p < SigSounds[sig.inFile]
      /\ sig' = [sig EXCEPT !.inPos = @ + 1, !.procState = "FEED", !.retState = "PLAY", !.outBuf = <<new>>]
      /\ UNCHANGED <<sigIn, sigFed, sigSaid, sigPast, sigFailed>>
  BY DEF SigPlayFrame, SigInside
<1>2. /\ SigTurn(sig, sigIn, sigFed, sigFailed) /\ SigSpectra(sig, sigIn, sigFed, sigPast)
      /\ SigSettled(sig, sigFed, sigPast, SigReached(sig, sigIn, sigFed), sigFailed)
      /\ Listed(sigSaid)
      /\ sigFailed \/ SigTold(sigSaid, sig.outBuf, sig.outFile) = SigTells(sig, sigIn, sigFed, sigPast)
  BY DEF SigOrder, SigOrdered
<1>3. SigPlaying(sig) /\ ~SigUntold(sig, sigIn) /\ sigIn = <<>>
  <2>1. sigIn = <<>> BY <1>1, <1>2 DEF SigTurn
  <2> QED BY <1>1, <2>1 DEF SigPlaying, SigUntold
<1>4. /\ Len(sigFed) # 0 /\ Listed(sigFed) /\ SigCommand(sigFed[n], "PLAY") /\ sig.inFile = sigFed[n].name
      /\ sig.inFile \in DOMAIN SigSounds /\ p \in 0 .. SigSounds[sig.inFile]
      /\ sigFailed \/ sig.outFile = <<>> \/ ~SigSameName(sig.inFile, sig.outFile)
      /\ sig.outBuf = <<>>
  BY <1>1, <1>2, <1>3 DEF SigTurn
<1>5. /\ y.procState = "FEED" /\ y.retState = "PLAY" /\ y.inner = sig.inner /\ y.inPos = p + 1
      /\ y.outBuf = <<new>> /\ y.inFile = sig.inFile /\ y.outFile = sig.outFile
      /\ y.rings = sig.rings /\ y.mods = sig.mods
  BY <1>1 DEF SigInv, SigFields
<1>6. SigPlaying(y) /\ ~SigUntold(y, sigIn) BY <1>3, <1>5 DEF SigPlaying, SigUntold
<1>7. SigReached(sig, sigIn, sigFed) = n /\ SigReached(y, sigIn, sigFed) = n BY <1>3, <1>6 DEF SigReached
<1>8. n \in Nat \ {0} /\ SigSounds[sig.inFile] \in Nat /\ p \in Nat /\ p + 1 \in 0 .. SigSounds[sig.inFile]
  <2>1. SigSounds[sig.inFile] \in Nat BY <1>4, SigAssumption
  <2>2. n \in Nat BY <1>4, ListedLen
  <2> QED BY <1>1, <1>4, <2>1, <2>2
<1>9. SigTurn(y, sigIn, sigFed, sigFailed) BY <1>2, <1>3, <1>4, <1>5, <1>6, <1>8 DEF SigTurn
<1>10. SigSettled(y, sigFed, sigPast, n, sigFailed) BY <1>2, <1>5, <1>7 DEF SigSettled
<1>11. SigSpectra(y, sigIn, sigFed, sigPast) BY <1>1, <1>2, <1>5, <1>7 DEF SigSpectra, SigCaughtUp
<1>12. ASSUME ~sigFailed PROVE SigTold(sigSaid, y.outBuf, y.outFile) = SigTells(y, sigIn, sigFed, sigPast)
  <2> PICK k \in Nat : k = n - 1 BY <1>8
  <2> PICK w, a, b : /\ w = SigExpected(sigFed, sigPast, k) /\ a = SigSounded(sigFed, sigPast, n, p)
                     /\ b = SigSounded(sigFed, sigPast, n, p + 1)
    OBVIOUS
  <2> PICK dest : dest = sig.outFile OBVIOUS
  <2> PICK e : e = SigTelling(new, dest) OBVIOUS
  <2>0. n = k + 1 BY <1>8
  <2>1. Listed(w) BY ExpectedNext
  <2>2. Listed(a) /\ Len(a) = p /\ Listed(b) /\ Len(b) = p + 1
    <3>1. p + 1 \in Nat BY <1>8
    <3> QED BY <1>8, <3>1, SoundedListed
  <2>3. SigTold(sigSaid, <<>>, dest) = w \o a BY <1>2, <1>3, <1>4, <1>12 DEF SigTells
  <2>4. SigTold(sigSaid, <<new>>, dest) = SigTold(sigSaid, <<>>, dest) \o <<e>>
    <3>1. Listed(<<new>>) /\ SigMapped(<<new>>, dest) = <<e>> BY ListedOne, MappedOne
    <3>2. Listed(sigSaid) BY <1>2
    <3>3. SigTold(sigSaid, <<new>>, dest) = SigTold(sigSaid, <<>>, dest) \o SigMapped(<<new>>, dest)
      BY ONLY <3>1, <3>2, ToldAdds
    <3> QED BY <3>1, <3>3
  <2>5. SigTells(y, sigIn, sigFed, sigPast) = w \o b BY <1>5, <1>6 DEF SigTells
  <2>6. sig.mods = SigModsAt(sigFed, sigPast, n) /\ dest = SigSavedTo(sigFed, n)
    <3> PICK item : item = sigFed[n] OBVIOUS
    <3>1. sig.mods = SigModsAt(sigFed, sigPast, n + 1) /\ dest = SigSavedTo(sigFed, n + 1)
      BY <1>2, <1>7, <1>12 DEF SigSettled
    <3>2. \A j \in 1 .. n : SigItemWell(sigFed[j]) BY <1>2 DEF SigTurn
    <3>3. SigNamedWell(sigFed, n) BY <3>2 DEF SigNamedWell, SigItemWell
    <3>4. item.info1 = "PLAY" BY <1>4 DEF SigCommand
    <3>5. ~SigModifies(item) /\ ~SigCommand(item, "SAVE") /\ ~SigCommand(item, "UNSAVE")
      BY <3>4, CommandKinds DEF SigCommand
    <3>6. SigSavedTo(sigFed, n + 1) = SigSavedTo(sigFed, n) BY <1>8, <3>3, <3>5, SavedNext
    <3>7. SigModsAt(sigFed, sigPast, n + 1) = SigModsAt(sigFed, sigPast, n) BY <1>8, <3>5, ModsNext
    <3> QED BY <3>1, <3>6, <3>7
  <2>7. e = [kind |-> "sound", name |-> sigFed[n].name, nr |-> p + 1,
             mods |-> SigModsAt(sigFed, sigPast, n), saved |-> SigSavedTo(sigFed, n)]
    <3> PICK name, mods, nr : name = sig.inFile /\ mods = sig.mods /\ nr = p + 1 OBVIOUS
    <3>1. e = [kind |-> "sound", name |-> name, nr |-> nr, mods |-> mods, saved |-> dest]
      BY TellingSound
    <3> QED BY <1>4, <2>6, <3>1
  <2>8. /\ \A i \in 1 .. p : b[i] = a[i]
        /\ b[p + 1] = e
    <3>1. p + 1 \in 1 .. p + 1 /\ \A i \in 1 .. p : i \in 1 .. p + 1 BY <1>8
    <3> QED BY <2>7, <3>1 DEF SigSounded
  <2>9. b = a \o <<e>>
    <3> PICK c : c = a \o <<e>> OBVIOUS
    <3>1. Listed(<<e>>) /\ Len(<<e>>) = 1 /\ <<e>>[1] = e BY ListedOne
    <3>2. /\ Listed(c) /\ Len(c) = Len(a) + Len(<<e>>)
          /\ \A i \in 1 .. Len(a) + Len(<<e>>) : c[i] = IF i <= Len(a) THEN a[i] ELSE <<e>>[i - Len(a)]
      BY ONLY <2>2, <3>1, c = a \o <<e>>, ListedJoin
    <3>3. Len(c) = p + 1 /\ \A i \in 1 .. p + 1 : c[i] = IF i <= p THEN a[i] ELSE <<e>>[i - p]
      BY <2>2, <3>1, <3>2
    <3>4. \A i \in 1 .. p + 1 : b[i] = c[i]
      <4> TAKE i \in 1 .. p + 1
      <4>1. CASE i \in 1 .. p
        <5>1. i <= p BY <4>1
        <5> QED BY <2>8, <3>3, <4>1, <5>1
      <4>2. CASE i = p + 1
        <5>1. ~(i <= p) /\ i - p = 1 BY <1>8, <4>2
        <5> QED BY <2>8, <3>1, <3>3, <4>2, <5>1
      <4>3. i \in 1 .. p \/ i = p + 1 BY ONLY <1>8, i \in 1 .. p + 1
      <4> QED BY ONLY <4>1, <4>2, <4>3
    <3>5. Listed(b) /\ Listed(c) /\ Len(b) = Len(c) /\ \A i \in 1 .. Len(b) : b[i] = c[i]
      BY <2>2, <3>2, <3>3, <3>4
    <3>6. b = c BY ONLY <3>5, ListedSame
    <3> QED BY <3>6
  <2>10. w \o b = (w \o a) \o <<e>>
    <3> PICK S : S = {w[i] : i \in DOMAIN w} \cup {a[i] : i \in DOMAIN a} \cup {e} OBVIOUS
    <3>1. w \in Seq(S)
      <4>1. \A i \in DOMAIN w : w[i] \in S OBVIOUS
      <4> QED BY <2>1, <4>1, ListedIn
    <3>2. a \in Seq(S)
      <4>1. \A i \in DOMAIN a : a[i] \in S OBVIOUS
      <4> QED BY <2>2, <4>1, ListedIn
    <3>3. <<e>> \in Seq(S) OBVIOUS
    <3>4. w \o (a \o <<e>>) = (w \o a) \o <<e>> BY ONLY <3>1, <3>2, <3>3, ConcatAssociative
    <3> QED BY <2>9, <3>4
  <2> QED BY <1>5, <2>3, <2>4, <2>5, <2>10
<1>13. SigOrdered(y, sigIn, sigFed, sigPast, sigSaid, sigFailed)
  BY <1>2, <1>7, <1>9, <1>10, <1>11, <1>12 DEF SigOrdered
<1> QED BY <1>1, <1>13 DEF SigOrder

\* A file that was played to its end is heard as a whole.
LEMMA OrderPlayEnd == ASSUME SigInv, SigOrder, SigPlayEnd PROVE SigOrder'
<1> PICK n : n = Len(sigFed) OBVIOUS
<1> PICK y, p : y = sig' /\ p = sig.inPos OBVIOUS
<1>1. /\ sig.procState = "PLAY" /\ p >= SigSounds[sig.inFile]
      /\ sig' = [sig EXCEPT !.inFile = <<>>, !.procState = "COLLECT", !.retState = "COLLECT"]
      /\ UNCHANGED <<sigIn, sigFed, sigSaid, sigPast, sigFailed>>
  BY DEF SigPlayEnd, SigInside
<1>2. /\ SigTurn(sig, sigIn, sigFed, sigFailed) /\ SigSpectra(sig, sigIn, sigFed, sigPast)
      /\ SigSettled(sig, sigFed, sigPast, SigReached(sig, sigIn, sigFed), sigFailed)
      /\ Listed(sigSaid)
      /\ sigFailed \/ SigTold(sigSaid, sig.outBuf, sig.outFile) = SigTells(sig, sigIn, sigFed, sigPast)
  BY DEF SigOrder, SigOrdered
<1>3. SigPlaying(sig) /\ ~SigUntold(sig, sigIn) /\ sigIn = <<>>
  <2>1. sigIn = <<>> BY <1>1, <1>2 DEF SigTurn
  <2> QED BY <1>1, <2>1 DEF SigPlaying, SigUntold
<1>4. /\ Len(sigFed) # 0 /\ Listed(sigFed) /\ SigCommand(sigFed[n], "PLAY") /\ sig.inFile = sigFed[n].name
      /\ sig.inFile \in DOMAIN SigSounds /\ p \in 0 .. SigSounds[sig.inFile]
      /\ sigFailed \/ sig.outFile = <<>> \/ ~SigSameName(sig.inFile, sig.outFile)
      /\ sig.outBuf = <<>>
  BY <1>1, <1>2, <1>3 DEF SigTurn
<1>5. /\ y.procState = "COLLECT" /\ y.retState = "COLLECT" /\ y.inner = sig.inner
      /\ y.outBuf = <<>> /\ y.inFile = <<>> /\ y.outFile = sig.outFile
      /\ y.rings = sig.rings /\ y.mods = sig.mods
  BY <1>1, <1>4 DEF SigInv, SigFields
<1>6. ~SigPlaying(y) /\ ~SigUntold(y, sigIn) BY <1>3, <1>5 DEF SigPlaying, SigUntold
<1>7. SigReached(sig, sigIn, sigFed) = n /\ SigReached(y, sigIn, sigFed) = n BY <1>3, <1>6 DEF SigReached
<1>8. n \in Nat \ {0} /\ p = SigSounds[sig.inFile]
  <2>1. SigSounds[sig.inFile] \in Nat BY <1>4, SigAssumption
  <2>2. n \in Nat BY <1>4, ListedLen
  <2> QED BY <1>1, <1>4, <2>1, <2>2
<1>9. SigTurn(y, sigIn, sigFed, sigFailed) BY <1>2, <1>3, <1>5, <1>6 DEF SigTurn
<1>10. SigSettled(y, sigFed, sigPast, n, sigFailed) BY <1>2, <1>5, <1>7 DEF SigSettled
<1>11. SigSpectra(y, sigIn, sigFed, sigPast) BY <1>1, <1>2, <1>5, <1>7 DEF SigSpectra, SigCaughtUp
<1>12. ASSUME ~sigFailed PROVE SigTold(sigSaid, y.outBuf, y.outFile) = SigTells(y, sigIn, sigFed, sigPast)
  <2> PICK k \in Nat : k = n - 1 BY <1>8
  <2> PICK item : item = sigFed[n] OBVIOUS
  <2>0. n = k + 1 BY <1>8
  <2>1. SigTold(sigSaid, <<>>, sig.outFile) = SigExpected(sigFed, sigPast, k) \o SigSounded(sigFed, sigPast, n, p)
    BY <1>2, <1>3, <1>4, <1>12 DEF SigTells
  <2>2. SigTells(y, sigIn, sigFed, sigPast) = SigExpected(sigFed, sigPast, n) BY <1>6, <1>7 DEF SigTells
  <2>3. SigExpected(sigFed, sigPast, k + 1) = SigExpected(sigFed, sigPast, k) \o SigHeard(sigFed, sigPast, k + 1)
    BY ExpectedNext
  <2>4. sig.outFile = SigSavedTo(sigFed, n)
    <3>1. sig.outFile = SigSavedTo(sigFed, n + 1) BY <1>2, <1>7, <1>12 DEF SigSettled
    <3>2. \A j \in 1 .. n : SigItemWell(sigFed[j]) BY <1>2 DEF SigTurn
    <3>3. SigNamedWell(sigFed, n) BY <3>2 DEF SigNamedWell, SigItemWell
    <3>4. item.info1 = "PLAY" BY <1>4 DEF SigCommand
    <3>5. ~SigCommand(item, "SAVE") /\ ~SigCommand(item, "UNSAVE") BY <3>4 DEF SigCommand
    <3>6. SigSavedTo(sigFed, n + 1) = SigSavedTo(sigFed, n) BY <1>8, <3>3, <3>5, SavedNext
    <3> QED BY <3>1, <3>6
  <2>5. ~SigUnheard(sigFed, n) BY <1>4, <1>12, <2>4 DEF SigUnheard
  <2>6. SigHeard(sigFed, sigPast, n) = SigSounded(sigFed, sigPast, n, p) BY <1>4, <1>8, <2>5, HeardCases
  <2> QED BY <1>5, <2>0, <2>1, <2>2, <2>3, <2>6
<1>13. SigOrdered(y, sigIn, sigFed, sigPast, sigSaid, sigFailed)
  BY <1>2, <1>7, <1>9, <1>10, <1>11, <1>12 DEF SigOrdered
<1> QED BY <1>1, <1>13 DEF SigOrder

\* The first item of outBuf is put out; what is told of it stands.
LEMMA OrderPut == ASSUME SigInv, SigOrder, SigFeedPut PROVE SigOrder'
<1> PICK y : y = sig' OBVIOUS
<1>1. /\ sig.procState = "FEED" /\ sigSaid' = Append(sigSaid, SigWith(Head(sig.outBuf), "saved", sig.outFile))
      /\ sig' = [sig EXCEPT !.outBuf = Tail(@),
                            !.procState = IF Len(sig.outBuf) > 1 THEN @ ELSE sig.retState]
      /\ UNCHANGED <<sigIn, sigFed, sigPast, sigFailed>>
  BY DEF SigFeedPut
<1>2. /\ SigTurn(sig, sigIn, sigFed, sigFailed) /\ SigSpectra(sig, sigIn, sigFed, sigPast)
      /\ SigSettled(sig, sigFed, sigPast, SigReached(sig, sigIn, sigFed), sigFailed)
      /\ Listed(sigSaid)
      /\ sigFailed \/ SigTold(sigSaid, sig.outBuf, sig.outFile) = SigTells(sig, sigIn, sigFed, sigPast)
  BY DEF SigOrder, SigOrdered
<1>3. Listed(sig.outBuf) /\ sig.outBuf # <<>> /\ sig.retState \in {"COLLECT", "PLAY"}
  BY <1>1 DEF SigInv, SigOutAligned, SigFields
<1>4. /\ y.procState = IF Len(sig.outBuf) > 1 THEN "FEED" ELSE sig.retState
      /\ y.retState = sig.retState /\ y.inner = sig.inner
      /\ y.outBuf = Tail(sig.outBuf) /\ y.inFile = sig.inFile /\ y.inPos = sig.inPos
      /\ y.outFile = sig.outFile /\ y.rings = sig.rings /\ y.mods = sig.mods
  BY <1>1 DEF SigInv, SigFields
<1>5. sigIn = <<>> BY <1>1, <1>2 DEF SigTurn
<1>6. SigPlaying(y) <=> SigPlaying(sig) BY <1>1, <1>3, <1>4 DEF SigPlaying
<1>7. ~SigUntold(y, sigIn) /\ ~SigUntold(sig, sigIn) BY <1>1, <1>3, <1>4, <1>5 DEF SigUntold
<1>8. SigReached(y, sigIn, sigFed) = SigReached(sig, sigIn, sigFed) BY <1>7 DEF SigReached
<1>9. y.procState # "FEED" => y.outBuf = <<>>
  <2>1. /\ Listed(Tail(sig.outBuf)) /\ Len(Tail(sig.outBuf)) = Len(sig.outBuf) - 1
    BY <1>3, ListedTail
  <2>2. Len(sig.outBuf) \in Nat \ {0} BY <1>3, ListedHead
  <2>3. y.procState # "FEED" => ~(Len(sig.outBuf) > 1) BY <1>4
  <2>4. \A k \in Nat \ {0} : ~(k > 1) => k - 1 = 0 OBVIOUS
  <2>5. y.procState # "FEED" => Len(Tail(sig.outBuf)) = 0 BY <2>1, <2>2, <2>3, <2>4
  <2> QED BY <1>4, <2>1, <2>5, ListedLen
<1>10. SigTurn(y, sigIn, sigFed, sigFailed) BY <1>2, <1>3, <1>4, <1>5, <1>6, <1>7, <1>9 DEF SigTurn
<1>11. SigSettled(y, sigFed, sigPast, SigReached(y, sigIn, sigFed), sigFailed)
  BY <1>2, <1>4, <1>8 DEF SigSettled
<1>12. SigSpectra(y, sigIn, sigFed, sigPast)
  BY <1>1, <1>2, <1>3, <1>4, <1>8 DEF SigSpectra, SigCaughtUp
<1>13. SigTells(y, sigIn, sigFed, sigPast) = SigTells(sig, sigIn, sigFed, sigPast)
  BY <1>4, <1>6, <1>8 DEF SigTells
<1>14. /\ SigTold(sigSaid', y.outBuf, y.outFile) = SigTold(sigSaid, sig.outBuf, sig.outFile)
       /\ Listed(sigSaid')
  <2> PICK out, said, dest : out = sig.outBuf /\ said = sigSaid /\ dest = sig.outFile OBVIOUS
  <2>1. Listed(said) /\ Listed(out) /\ out # <<>> BY <1>2, <1>3
  <2>2. /\ SigTold(Append(said, SigWith(Head(out), "saved", dest)), Tail(out), dest) = SigTold(said, out, dest)
        /\ Listed(Append(said, SigWith(Head(out), "saved", dest)))
    BY ONLY <2>1, ToldPut
  <2> QED BY <1>1, <1>4, <2>2
<1>15. SigOrdered(y, sigIn, sigFed, sigPast, sigSaid', sigFailed)
  BY <1>2, <1>10, <1>11, <1>12, <1>13, <1>14 DEF SigOrdered
<1> QED BY <1>1, <1>15 DEF SigOrder

\* What waited is dropped with the file.
LEMMA OrderError == ASSUME SigInv, SigOrder, SigFeedError PROVE SigOrder'
<1> PICK y : y = sig' OBVIOUS
<1>1. /\ sig.procState = "FEED" /\ sigFailed' = TRUE
      /\ sig' = [sig EXCEPT !.outFile = <<>>, !.outBuf = <<>>, !.procState = sig.retState]
      /\ UNCHANGED <<sigIn, sigFed, sigSaid, sigPast>>
  BY DEF SigFeedError, SigInside
<1>2. /\ SigTurn(sig, sigIn, sigFed, sigFailed) /\ SigSpectra(sig, sigIn, sigFed, sigPast)
      /\ SigSettled(sig, sigFed, sigPast, SigReached(sig, sigIn, sigFed), sigFailed)
      /\ Listed(sigSaid)
  BY DEF SigOrder, SigOrdered
<1>3. sig.retState \in {"COLLECT", "PLAY"} BY DEF SigInv, SigFields
<1>4. /\ y.procState = sig.retState /\ y.retState = sig.retState /\ y.inner = sig.inner
      /\ y.outBuf = <<>> /\ y.inFile = sig.inFile /\ y.inPos = sig.inPos
      /\ y.outFile = <<>> /\ y.rings = sig.rings /\ y.mods = sig.mods
  BY <1>1 DEF SigInv, SigFields
<1>5. sigIn = <<>> BY <1>1, <1>2 DEF SigTurn
<1>6. SigPlaying(y) <=> SigPlaying(sig) BY <1>1, <1>3, <1>4 DEF SigPlaying
<1>7. ~SigUntold(y, sigIn) /\ ~SigUntold(sig, sigIn) BY <1>1, <1>3, <1>4, <1>5 DEF SigUntold
<1>8. SigReached(y, sigIn, sigFed) = SigReached(sig, sigIn, sigFed) BY <1>7 DEF SigReached
<1>9. SigTurn(y, sigIn, sigFed, TRUE) BY <1>2, <1>3, <1>4, <1>5, <1>6, <1>7 DEF SigTurn
<1>10. SigSettled(y, sigFed, sigPast, SigReached(y, sigIn, sigFed), TRUE)
  BY <1>2, <1>4, <1>8 DEF SigSettled
<1>11. SigSpectra(y, sigIn, sigFed, sigPast)
  BY <1>1, <1>2, <1>3, <1>4, <1>8 DEF SigSpectra, SigCaughtUp
<1>12. SigOrdered(y, sigIn, sigFed, sigPast, sigSaid, TRUE)
  BY <1>2, <1>9, <1>10, <1>11 DEF SigOrdered
<1> QED BY <1>1, <1>12 DEF SigOrder

\* The item fed is taken.
LEMMA OrderCollect == ASSUME SigInv, SigOrder, SigCollect PROVE SigOrder'
<1> PICK y : y = sig' OBVIOUS
<1>1. /\ sig.procState = "COLLECT" /\ sigIn # <<>> /\ sigIn' = <<>>
      /\ sig' = [sig EXCEPT !.inBuf = sigIn, !.procState = "SCHEDULE"]
      /\ UNCHANGED <<sigFed, sigSaid, sigPast, sigFailed>>
  BY DEF SigCollect
<1>2. /\ SigTurn(sig, sigIn, sigFed, sigFailed) /\ SigSpectra(sig, sigIn, sigFed, sigPast)
      /\ SigSettled(sig, sigFed, sigPast, SigReached(sig, sigIn, sigFed), sigFailed)
      /\ Listed(sigSaid)
      /\ sigFailed \/ SigTold(sigSaid, sig.outBuf, sig.outFile) = SigTells(sig, sigIn, sigFed, sigPast)
  BY DEF SigOrder, SigOrdered
<1>3. /\ y.procState = "SCHEDULE" /\ y.inner = sig.inner /\ y.inBuf = sigIn
      /\ y.outBuf = sig.outBuf /\ y.inFile = sig.inFile
      /\ y.outFile = sig.outFile /\ y.rings = sig.rings /\ y.mods = sig.mods
  BY <1>1 DEF SigInv, SigFields
<1>4. /\ SigUntold(y, <<>>) /\ SigUntold(sig, sigIn) /\ ~SigPlaying(y) /\ ~SigPlaying(sig)
  BY <1>1, <1>3 DEF SigUntold, SigPlaying
<1>5. SigReached(y, <<>>, sigFed) = SigReached(sig, sigIn, sigFed) BY <1>4 DEF SigReached
<1>6. SigTurn(y, <<>>, sigFed, sigFailed) BY <1>1, <1>2, <1>3, <1>4 DEF SigTurn
<1>7. SigSettled(y, sigFed, sigPast, SigReached(y, <<>>, sigFed), sigFailed)
  BY <1>2, <1>3, <1>5 DEF SigSettled
<1>8. SigSpectra(y, <<>>, sigFed, sigPast) BY <1>1, <1>2, <1>3, <1>5 DEF SigSpectra, SigCaughtUp
<1>9. SigTells(y, <<>>, sigFed, sigPast) = SigTells(sig, sigIn, sigFed, sigPast)
  BY <1>4, <1>5 DEF SigTells
<1>10. SigOrdered(y, <<>>, sigFed, sigPast, sigSaid, sigFailed)
  BY <1>2, <1>3, <1>6, <1>7, <1>8, <1>9 DEF SigOrdered
<1> QED BY <1>1, <1>10 DEF SigOrder

\* An item more is fed.
LEMMA OrderFeed == ASSUME SigInv, SigOrder, SigFeed PROVE SigOrder'
<1> PICK n : n = Len(sigFed) OBVIOUS
<1> PICK m \in SigMenu :
      LET item == SigWith(m, "id", sigPast.fed + Len(sigFed) + 1)
      IN  sigIn' = <<item>> /\ sigFed' = Append(sigFed, item)
  BY DEF SigFeed
<1> PICK item : item = SigWith(m, "id", sigPast.fed + Len(sigFed) + 1) OBVIOUS
<1> PICK more : more = Append(sigFed, item) OBVIOUS
<1>1. /\ sig.procState = "COLLECT" /\ sigIn = <<>> /\ sigIn' = <<item>> /\ sigFed' = more
      /\ UNCHANGED <<sig, sigSaid, sigPast, sigFailed>>
  BY DEF SigFeed
<1>2. /\ SigTurn(sig, sigIn, sigFed, sigFailed) /\ SigSpectra(sig, sigIn, sigFed, sigPast)
      /\ SigSettled(sig, sigFed, sigPast, SigReached(sig, sigIn, sigFed), sigFailed)
      /\ Listed(sigSaid)
      /\ sigFailed \/ SigTold(sigSaid, sig.outBuf, sig.outFile) = SigTells(sig, sigIn, sigFed, sigPast)
  BY DEF SigOrder, SigOrdered
<1>3. Listed(sigFed) /\ \A k \in 1 .. n : SigItemWell(sigFed[k]) BY <1>2 DEF SigTurn
<1>4. /\ n \in Nat /\ Listed(more) /\ Len(more) = n + 1 /\ more[n + 1] = item
      /\ \A k \in 1 .. n : more[k] = sigFed[k]
  BY <1>3, ListedLen, ListedAppend
<1>5. SigItemWell(item)
  <2>1. /\ {"type", "info1", "info2"} \subseteq DOMAIN m
        /\ m.type = "CMD" /\ m.info1 = "SAVE" =>
             "wav" \in DOMAIN m /\ m.wav \in BOOLEAN /\ (m.wav => m.name # <<>>)
        /\ m.type = "CMD" /\ m.info1 \in {"PLAY", "SAVE"} => "name" \in DOMAIN m
        /\ m.type = "CMD" /\ m.info1 \in {"PITCH", "VOLUME", "SPEAKER"} =>
             "value" \in DOMAIN m /\ m.value \in Int
    BY SigAssumption
  <2>2. \A f \in DOMAIN m \ {"id"} : item[f] = m[f] BY DEF SigWith
  <2>3. item.type = m.type /\ item.info1 = m.info1 BY <2>1, <2>2
  <2>4. ASSUME SigCommand(item, "SAVE") PROVE item.wav \in BOOLEAN /\ (item.wav => item.name # <<>>)
    <3>1. m.type = "CMD" /\ m.info1 = "SAVE"
      BY <2>3, <2>4 DEF SigCommand, sig_is_command, SigModifies, SigModifiers
    <3>2. item.wav = m.wav /\ item.name = m.name BY <2>1, <2>2, <3>1
    <3> QED BY <2>1, <3>1, <3>2
  <2>5. ASSUME SigModifies(item) PROVE item.value \in Int
    <3>1. m.type = "CMD" /\ m.info1 \in {"PITCH", "VOLUME", "SPEAKER"}
      BY <2>3, <2>5 DEF SigModifies, SigModifiers
    <3>2. item.value = m.value BY <2>1, <2>2, <3>1
    <3> QED BY <2>1, <3>1, <3>2
  <2> QED BY <2>4, <2>5 DEF SigItemWell
<1>6. \A k \in 1 .. n + 1 : SigItemWell(more[k])
  <2> TAKE k \in 1 .. n + 1
  <2>1. k \in 1 .. n \/ k = n + 1 BY <1>4
  <2> QED BY <1>3, <1>4, <1>5, <2>1
<1>7. ~SigUntold(sig, sigIn) /\ SigUntold(sig, <<item>>) /\ ~SigPlaying(sig)
  BY <1>1, <1>2 DEF SigUntold, SigPlaying
<1>8. SigReached(sig, sigIn, sigFed) = n /\ SigReached(sig, <<item>>, more) = n
  <2>1. (n + 1) - 1 = n BY <1>4
  <2> QED BY <1>4, <1>7, <2>1 DEF SigReached
<1>9. SigAgree(sigFed, more, n) BY <1>4 DEF SigAgree
<1>10. /\ SigSavedTo(sigFed, n + 1) = SigSavedTo(more, n + 1)
       /\ SigModsAt(sigFed, sigPast, n + 1) = SigModsAt(more, sigPast, n + 1)
  <2>1. n + 1 \in Nat \ {0} /\ (n + 1) - 1 = n BY <1>4
  <2>2. SigAgree(sigFed, more, (n + 1) - 1) BY <1>9, <2>1
  <2> QED BY <2>1, <2>2, AgreeSaved
<1>11. SigLoads(sigFed, sigPast, n) = SigLoads(more, sigPast, n) BY <1>4, <1>9, AgreeLoads
<1>12. SigAvailable(sigFed, sigPast, n) = SigAvailable(more, sigPast, n) BY <1>4 DEF SigAvailable
<1>13. SigExpected(sigFed, sigPast, n) = SigExpected(more, sigPast, n) BY <1>4, <1>9, AgreeHeard
<1>14. SigTurn(sig, <<item>>, more, sigFailed)
  <2>1. Len(more) # 0 BY <1>4
  <2>2. <<item>> = <<more[Len(more)]>> BY <1>4
  <2>3. sig.outBuf = <<>> /\ sig.inFile = <<>> BY <1>1, <1>2, <1>7 DEF SigTurn
  <2> QED BY <1>1, <1>4, <1>6, <1>7, <2>1, <2>2, <2>3 DEF SigTurn
<1>15. SigSettled(sig, more, sigPast, n, sigFailed) BY <1>2, <1>8, <1>10 DEF SigSettled
<1>16. SigSpectra(sig, <<item>>, more, sigPast)
  BY <1>1, <1>2, <1>8, <1>11, <1>12 DEF SigSpectra, SigCaughtUp
<1>17. SigTells(sig, <<item>>, more, sigPast) = SigTells(sig, sigIn, sigFed, sigPast)
  BY <1>7, <1>8, <1>13 DEF SigTells
<1>18. SigOrdered(sig, <<item>>, more, sigPast, sigSaid, sigFailed)
  BY <1>2, <1>8, <1>14, <1>15, <1>16, <1>17 DEF SigOrdered
<1> QED BY <1>1, <1>18 DEF SigOrder

\* With nothing fed, the rings and modifiers are those left by what was before.
LEMMA FreshOrdered ==
  ASSUME NEW rings, RingsAligned(rings), rings.n_available \in 0 .. 3,
         NEW mods, mods = [m \in DOMAIN SigModifiers |-> mods[m]],
         NEW past, past.rings = rings, past.mods = mods
  PROVE  SigOrdered(SigFresh(rings, mods), <<>>, <<>>, past, <<>>, FALSE)
<1> PICK x : x = SigFresh(rings, mods) OBVIOUS
<1>1. /\ x.procState = "COLLECT" /\ x.retState = "COLLECT" /\ x.inner = "load" /\ x.outBuf = <<>>
      /\ x.inFile = <<>> /\ x.outFile = <<>> /\ x.rings = rings /\ x.mods = mods
  BY DEF SigFresh
<1>2. Len(<<>>) = 0 /\ Listed(<<>>) BY ListedEmpty
<1>3. ~SigUntold(x, <<>>) /\ ~SigPlaying(x) BY <1>1 DEF SigUntold, SigPlaying
<1>4. SigReached(x, <<>>, <<>>) = 0 BY <1>2, <1>3 DEF SigReached
<1>5. SigTurn(x, <<>>, <<>>, FALSE) BY <1>1, <1>2, <1>3 DEF SigTurn
<1>6. SigSettled(x, <<>>, past, 0, FALSE)
  <2> PICK fed : fed = <<>> OBVIOUS
  <2>1. SigSavedTo(fed, 1) = <<>>
    <3>1. SigOpened(fed, 1) \subseteq 1 .. 1 - 1 BY ClosedIn
    <3>2. SigOpened(fed, 1) = {} BY <3>1
    <3> QED BY <3>2, SavedIs
  <2>2. SigModsAt(fed, past, 1) = mods
    <3>1. \A m : {i \in 1 .. 1 - 1 : SigSets(fed[i], m)} = {} OBVIOUS
    <3>2. SigLast({}) = 0 BY DEF SigLast
    <3>3. SigModsAt(fed, past, 1) = [m \in DOMAIN SigModifiers |-> past.mods[m]]
      BY <3>1, <3>2 DEF SigModsAt
    <3> QED BY <3>3
  <2>3. 0 + 1 = 1 OBVIOUS
  <2> QED BY <1>1, <2>1, <2>2, <2>3 DEF SigSettled
<1>7. SigSpectra(x, <<>>, <<>>, past)
  <2>0. SigCepRing \in Nat \ {0} BY SigAssumption
  <2>1. SigPastWell(past) BY DEF SigPastWell, RingsAligned
  <2>2. SigLoads(<<>>, past, 0) = rings.cep BY <2>1, LoadsNext
  <2>3. RingAt(rings.cep, rings.cep, Len(rings.cep))
    <3> PICK ring : ring = rings.cep OBVIOUS
    <3>1. Len(ring) = SigCepRing BY DEF RingsAligned
    <3>2. \A i \in 1 .. SigCepRing : SigCepRing - SigCepRing + i = i BY <2>0
    <3>3. SigCepRing \in SigCepRing .. SigCepRing BY <2>0
    <3> QED BY <3>1, <3>2, <3>3 DEF RingAt
  <2>4. SigAvailable(<<>>, past, 0) = rings.n_available BY DEF SigAvailable
  <2>5. SigCaughtUp(x, <<>>, past, 0) BY <1>1, <2>2, <2>3, <2>4 DEF SigCaughtUp
  <2> QED BY <1>1, <1>4, <2>1, <2>5 DEF SigSpectra
<1>8. SigTold(<<>>, <<>>, x.outFile) = SigTells(x, <<>>, <<>>, past)
  <2>1. SigTells(x, <<>>, <<>>, past) = SigExpected(<<>>, past, 0) BY <1>3, <1>4 DEF SigTells
  <2>2. SigExpected(<<>>, past, 0) = <<>> BY ExpectedNext
  <2>3. SigTold(<<>>, <<>>, x.outFile) = <<>>
    <3> PICK t : t = SigTold(<<>>, <<>>, x.outFile) OBVIOUS
    <3>1. Listed(t) /\ Len(t) = 0 + 0 BY <1>2, ToldListed
    <3> QED BY <3>1, ListedLen
  <2> QED BY <2>1, <2>2, <2>3
<1> QED BY <1>1, <1>2, <1>4, <1>5, <1>6, <1>7, <1>8 DEF SigOrdered

LEMMA OrderInitially == SigInit => SigOrder
<1> SUFFICES ASSUME SigInit PROVE SigOrder OBVIOUS
<1>1. /\ sig = SigFresh(SigRings, SigModifiers) /\ sigIn = <<>> /\ sigFed = <<>> /\ sigSaid = <<>>
      /\ sigPast.rings = SigRings /\ sigPast.mods = SigModifiers /\ sigFailed = FALSE
  BY DEF SigInit
<1>2. RingsAligned(SigRings) BY FreshRings
<1>3. SigRings.n_available \in 0 .. 3 BY DEF SigRings
<1>4. SigModifiers = [m \in DOMAIN SigModifiers |-> SigModifiers[m]] BY DEF SigModifiers
<1>5. SigOrdered(SigFresh(SigRings, SigModifiers), <<>>, <<>>, sigPast, <<>>, FALSE)
  BY <1>1, <1>2, <1>3, <1>4, FreshOrdered
<1> QED BY <1>1, <1>5 DEF SigOrder

\* A reset begins again with the rings and modifiers there were, or with new ones.
LEMMA OrderReset == ASSUME SigInv, SigOrder, SigReset PROVE SigOrder'
<1>1. PICK rings, mods :
        /\ sig' = SigFresh(rings, mods)
        /\ sigPast' = [rings |-> rings, mods |-> mods, fed |-> sigPast.fed + Len(sigFed)]
        /\ (rings = sig.rings /\ mods = sig.mods) \/ (rings = SigRings /\ mods = SigModifiers)
  BY DEF SigReset
<1>2. sigIn' = <<>> /\ sigFed' = <<>> /\ sigSaid' = <<>> /\ sigFailed' = FALSE BY DEF SigReset
<1>3. RingsAligned(sig.rings) /\ RingsAligned(SigRings) BY FreshRings DEF SigInv
<1>4. sig.rings.n_available \in 0 .. 3 BY DEF SigOrder, SigOrdered, SigSpectra
<1>5. SigRings.n_available \in 0 .. 3 BY DEF SigRings
<1>6. SigModifiers = [m \in DOMAIN SigModifiers |-> SigModifiers[m]] BY DEF SigModifiers
<1>7. sig.mods = [m \in DOMAIN SigModifiers |-> sig.mods[m]]
  <2> PICK k : k = SigReached(sig, sigIn, sigFed) OBVIOUS
  <2>1. sig.mods = SigModsAt(sigFed, sigPast, k + 1) BY DEF SigOrder, SigOrdered, SigSettled
  <2> QED BY <2>1 DEF SigModsAt
<1>8. RingsAligned(rings) /\ rings.n_available \in 0 .. 3 /\ mods = [m \in DOMAIN SigModifiers |-> mods[m]]
  <2>1. CASE rings = sig.rings /\ mods = sig.mods BY <1>3, <1>4, <1>7, <2>1
  <2>2. CASE rings = SigRings /\ mods = SigModifiers BY <1>3, <1>5, <1>6, <2>2
  <2> QED BY <1>1, <2>1, <2>2
<1>9. sigPast'.rings = rings /\ sigPast'.mods = mods BY <1>1
<1> PICK past : past = sigPast' OBVIOUS
<1>10. SigOrdered(SigFresh(rings, mods), <<>>, <<>>, past, <<>>, FALSE)
  BY <1>8, <1>9, FreshOrdered
<1> QED BY <1>1, <1>2, <1>10 DEF SigOrder

LEMMA OrderStands ==
  ASSUME SigOrder, UNCHANGED <<sig, sigIn, sigFed, sigSaid, sigPast, sigFailed>>
  PROVE  SigOrder'
BY DEF SigOrder

LEMMA OrderKept == ASSUME SigInv, SigOrder, [SigNext]_sigVars PROVE SigOrder'
<1>1. CASE SigFeed BY <1>1, OrderFeed
<1>2. CASE SigTake BY <1>2, OrderStands DEF SigTake
<1>3. CASE SigReset BY <1>3, OrderReset
<1>4. CASE SigStep
  <2>1. CASE SigCollect BY <2>1, OrderCollect
  <2>2. CASE SigScheduleFrame BY <2>2, OrderFrame
  <2>3. CASE SigScheduleOther BY <2>3, OrderOther
  <2>4. CASE SigSchedulePlay BY <2>4, OrderPlay
  <2>5. CASE SigScheduleSave BY <2>5, OrderSave
  <2>6. CASE SigScheduleUnsave BY <2>6, OrderUnsave
  <2>7. CASE SigScheduleModify BY <2>7, OrderModify
  <2>8. CASE SigProcessLoad BY <2>8, OrderLoad
  <2>9. CASE SigProcessMake BY <2>9, OrderMake
  <2>10. CASE SigPlayFrame BY <2>10, OrderPlayFrame
  <2>11. CASE SigPlayEnd BY <2>11, OrderPlayEnd
  <2>12. CASE SigFeedPut BY <2>12, OrderPut
  <2>13. CASE SigFeedFull BY <2>13, OrderStands DEF SigFeedFull
  <2>14. CASE SigFeedError BY <2>14, OrderError
  <2> QED BY <1>4, <2>1, <2>2, <2>3, <2>4, <2>5, <2>6, <2>7, <2>8, <2>9, <2>10, <2>11, <2>12,
             <2>13, <2>14 DEF SigStep
<1>5. CASE UNCHANGED sigVars BY <1>5, OrderStands DEF sigVars
<1> QED BY <1>1, <1>2, <1>3, <1>4, <1>5 DEF SigNext

\* What was put out starts what is to be heard.
LEMMA OrderImplies == SigInv /\ SigOrder => SigInOrder
<1> SUFFICES ASSUME SigInv, SigOrder, ~sigFailed
             PROVE  IsPrefix([i \in DOMAIN sigSaid |-> SigBare(sigSaid[i])],
                             SigExpected(sigFed, sigPast, Len(sigFed)))
  BY DEF SigInOrder
<1> PICK n : n = Len(sigFed) OBVIOUS
<1> PICK said, out, fed, past : said = sigSaid /\ out = sig.outBuf /\ fed = sigFed /\ past = sigPast OBVIOUS
<1> PICK heard, told, all : /\ heard = [i \in DOMAIN said |-> SigBare(said[i])]
                           /\ told = SigTold(said, out, sig.outFile)
                           /\ all = SigExpected(fed, past, n)
  OBVIOUS
<1>1. /\ SigTurn(sig, sigIn, fed, sigFailed) /\ Listed(said)
      /\ told = SigTells(sig, sigIn, fed, past)
      /\ SigSettled(sig, fed, past, SigReached(sig, sigIn, fed), sigFailed)
  BY DEF SigOrder, SigOrdered
<1>2. Listed(fed) /\ n \in Nat BY <1>1, ListedLen DEF SigTurn
<1>3. Listed(out) BY DEF SigInv, SigOutAligned
<1>4. Leads(heard, told)
  <2>1. /\ Listed(told) /\ Len(told) = Len(said) + Len(out) /\ Len(said) \in Nat /\ Len(out) \in Nat
    BY <1>1, <1>3, ToldListed
  <2> PICK m \in Nat : m = Len(said) BY <2>1
  <2>2. DOMAIN said = 1 .. m BY <1>1, ListedLen
  <2>3. heard = [i \in 1 .. m |-> heard[i]] BY <2>2
  <2>4. Listed(heard) BY <2>3 DEF Listed
  <2>5. Len(heard) = m
    <3>1. DOMAIN heard = 1 .. m BY <2>3
    <3> QED BY <3>1
  <2>6. \A i \in 1 .. m : i \in 1 .. Len(said) + Len(out) /\ i <= Len(said) BY <2>1
  <2>7. \A i \in 1 .. m : heard[i] = told[i] BY <2>2, <2>6 DEF SigTold
  <2>8. m <= Len(told) BY <2>1
  <2> QED BY <2>1, <2>4, <2>5, <2>7, <2>8 DEF Leads
<1>5. Leads(told, all)
  <2> DEFINE so(k) == SigExpected(fed, past, k)
  <2>0. ASSUME NEW k \in Nat
        PROVE  Listed(so(k)) /\ Listed(SigHeard(fed, past, k + 1))
               /\ so(k + 1) = so(k) \o SigHeard(fed, past, k + 1)
    BY ExpectedNext, HeardListed
  <2> HIDE DEF so
  <2>1. CASE SigPlaying(sig)
    <3> PICK p, item : p = sig.inPos /\ item = fed[n] OBVIOUS
    <3>1. /\ n # 0 /\ SigCommand(item, "PLAY") /\ sig.inFile = item.name
          /\ sig.inFile \in DOMAIN SigSounds /\ p \in 0 .. SigSounds[sig.inFile]
          /\ sig.outFile = <<>> \/ ~SigSameName(sig.inFile, sig.outFile)
          /\ sigIn # <<>> => sig.procState = "COLLECT"
      BY <1>1, <2>1 DEF SigTurn
    <3> PICK k \in Nat : k = n - 1 BY <1>2, <3>1
    <3> PICK m : m = SigSounds[item.name] OBVIOUS
    <3>2. n = k + 1 BY <1>2
    <3>3. m \in Nat /\ p \in Nat /\ p <= m
      <4>1. m \in Nat BY <3>1, SigAssumption
      <4> QED BY <3>1, <4>1
    <3>4. ~SigUntold(sig, sigIn) BY <2>1, <3>1 DEF SigUntold, SigPlaying
    <3>5. SigReached(sig, sigIn, fed) = n BY <3>4 DEF SigReached
    <3>6. sig.outFile = SigSavedTo(fed, n)
      <4>1. sig.outFile = SigSavedTo(fed, n + 1) BY <1>1, <3>5 DEF SigSettled
      <4>2. \A j \in 1 .. n : SigItemWell(fed[j]) BY <1>1 DEF SigTurn
      <4>3. SigNamedWell(fed, n) BY <4>2 DEF SigNamedWell, SigItemWell
      <4>4. ~SigCommand(item, "SAVE") /\ ~SigCommand(item, "UNSAVE") BY <3>1 DEF SigCommand
      <4>5. SigSavedTo(fed, n + 1) = SigSavedTo(fed, n) BY <3>2, <4>3, <4>4, SavedNext
      <4> QED BY <4>1, <4>5
    <3>7. SigHeard(fed, past, n) = SigSounded(fed, past, n, m)
      <4>1. ~SigUnheard(fed, n) BY <3>1, <3>6 DEF SigUnheard
      <4> QED BY <3>1, <4>1, HeardCases
    <3>8. Leads(SigSounded(fed, past, n, p), SigSounded(fed, past, n, m))
      <4> PICK a, b : a = SigSounded(fed, past, n, p) /\ b = SigSounded(fed, past, n, m) OBVIOUS
      <4>1. Listed(a) /\ Len(a) = p /\ Listed(b) /\ Len(b) = m BY <3>3, SoundedListed
      <4>2. \A i \in 1 .. p : i \in 1 .. m BY <3>3
      <4>3. \A i \in 1 .. p : a[i] = b[i] BY <4>2 DEF SigSounded
      <4> QED BY <3>3, <4>1, <4>3 DEF Leads
    <3>9. told = so(k) \o SigSounded(fed, past, n, p) BY <1>1, <2>1, <3>2 DEF SigTells, so
    <3>10. all = so(k) \o SigSounded(fed, past, n, m) BY <2>0, <3>2, <3>7 DEF so
    <3>11. Leads(so(k) \o SigSounded(fed, past, n, p), so(k) \o SigSounded(fed, past, n, m))
      BY <2>0, <3>8, LeadsJoin
    <3> QED BY <3>9, <3>10, <3>11
  <2>2. CASE ~SigPlaying(sig)
    <3>1. told = so(SigReached(sig, sigIn, fed)) BY <1>1, <2>2 DEF SigTells, so
    <3>2. CASE SigUntold(sig, sigIn)
      <4>1. n # 0 BY <1>1, <3>2 DEF SigTurn
      <4> PICK k \in Nat : k = n - 1 BY <1>2, <4>1
      <4>2. n = k + 1 /\ SigReached(sig, sigIn, fed) = k BY <1>2, <3>2 DEF SigReached
      <4>3. Leads(so(k), so(k) \o SigHeard(fed, past, k + 1)) BY <2>0, LeadsMore
      <4>4. all = so(k) \o SigHeard(fed, past, k + 1) BY <2>0, <4>2 DEF so
      <4> QED BY <3>1, <4>2, <4>3, <4>4
    <3>3. CASE ~SigUntold(sig, sigIn)
      <4>1. SigReached(sig, sigIn, fed) = n BY <3>3 DEF SigReached
      <4>2. told = all /\ Listed(all) BY <1>2, <2>0, <3>1, <4>1 DEF so
      <4>3. Leads(all, all) BY <4>2, LeadsMore
      <4> QED BY <4>2, <4>3
    <3> QED BY <3>2, <3>3
  <2> QED BY <2>1, <2>2
<1>6. IsPrefix(heard, all) BY <1>4, <1>5, LeadsOn, PrefixIs
<1> QED BY <1>6

(***************************************************************************)
(* What picosig.c has put out and what waits in outBuf is what the items   *)
(* dealt with have to sound like, to the last of them: the ring holds the  *)
(* spectra of the last frames, the first one as often as is needed to fill *)
(* it, and the modifiers and the file are those the commands before set.   *)
(***************************************************************************)
THEOREM SigOrderInvariant == SigSpec => []SigOrder
<1>1. SigInit => SigOrder BY OrderInitially
<1>2. SigInv /\ SigOrder /\ [SigNext]_sigVars => SigOrder' BY OrderKept
<1> QED BY <1>1, <1>2, SigInvariant, PTL DEF SigSpec

LEMMA SigInvImplies == SigInv => SigAligned /\ SigSaves
<1> SUFFICES ASSUME SigInv PROVE SigAligned /\ SigSaves OBVIOUS
<1> USE DEF SigInv
<1>1. DOMAIN sigSaid = 1 .. Len(sigSaid) /\ Len(sigSaid) \in Nat BY ListedLen DEF SigSaidAligned
<1>2. DOMAIN sigFile = 1 .. Len(sigFile) BY ListedLen DEF SigFilesWritten
<1>3. SigAligned BY <1>1 DEF SigAligned, SigSaidAligned, FrameAligned
<1>4. SigSaves
  <2>1. ASSUME NEW e \in DOMAIN sigFile
        PROVE  \/ sigFile[e].at > Len(sigSaid) \/ sigFailed
               \/ sigSaid[sigFile[e].at] = SigWith(sigFile[e].frame, "saved", sigFile[e].name)
    BY <1>1, <1>2 DEF SigFilesWritten, SigInFile
  <2>2. sig.inFile # <<>> => sig.inFile # sig.outFile BY DEF SigItemsNamed
  <2> QED BY <1>1, <1>2, <2>1, <2>2 DEF SigSaves, SigFilesWritten
<1> QED BY <1>3, <1>4

(***************************************************************************)
(* What is heard is what was fed, in its order: each frame of parameters   *)
(* two frames late, each sound and item in its place, with the modifiers   *)
(* set before it.  The frames that picosig.c writes to a sound file are    *)
(* those that are heard while it is open, in the same order, however often *)
(* cbOut is full; the file that is played is not the one that is written;  *)
(* and every frame is made of the spectrum and the phase of the same       *)
(* parameters, whatever the resets leave in the rings.                     *)
(***************************************************************************)
THEOREM SavedIsHeard == SigSpec => []SigSound
<1>1. SigInv /\ SigOrder => SigSound BY OrderImplies, SigInvImplies DEF SigSound
<1> QED BY <1>1, SigInvariant, SigOrderInvariant, PTL
=============================================================================
