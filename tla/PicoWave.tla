------------------------------ MODULE PicoWave ------------------------------
(***************************************************************************)
(* The synthesis loop of pico2wave and the sound file it writes            *)
(* (picoos_sdf...): text is fed in chunks, after each chunk the samples are *)
(* fetched until the engine is IDLE, and they go through a buffer of       *)
(* pico2wave and one of the sound file.                                    *)
(*                                                                         *)
(* The engine is what PicoCtrl shows it to be: it takes as much text as    *)
(* its input buffer holds (after an IDLE it is empty), returns its frames  *)
(* in order, and answers IDLE when it has none left.  A pico_getData that  *)
(* is BUSY without data changes nothing here and is not a step.            *)
(***************************************************************************)
EXTENDS Integers, Sequences, SequencesExt

CONSTANTS
  TextSizes,    \* values of strlen(text) + 1
  Width,        \* the number of values of a pico_Int16
  CbInSize,     \* PICODATA_BUFSIZE_TEXT: what the engine takes at a time
  BufferSize,   \* bufferSize, in samples
  SdfBufLen,    \* PICOOS_SDF_BUF_LEN
  FrameSizes,   \* the sizes of a frame, in samples
  MaxFrames,    \* bound on the frames that one chunk of text gives
  OpenResults   \* the outcomes of picoos_sdfOpenOut that are looked at

ASSUME WaveAssumption ==
  /\ TextSizes \subseteq Nat \ {0}
  /\ Width \in Nat \ {0, 1}
  /\ CbInSize \in Nat \ {0} /\ BufferSize \in Nat \ {0} /\ SdfBufLen \in Nat \ {0}
  /\ FrameSizes \subseteq 1 .. BufferSize
  /\ MaxFrames \in Nat
  /\ OpenResults \subseteq {"stdout", "open", "suffix", "create"}

VARIABLES
  pc,          \* where main is
  ret,         \* its exit status
  size,        \* strlen(text) + 1
  remaining,   \* text_remaining, a pico_Int16, by its value modulo Width
  inp,         \* how many bytes of the text were sent
  frames,      \* the sizes of the frames inside the engine
  produced,    \* history: how many samples the engine returned, numbered from 1
  buffer,      \* the first bufused bytes of buffer: the samples in it
  sink,        \* where samples go: stdout, a sound file, or nowhere
  sdfBuf,      \* the first bufPos samples of the sound file's buffer
  file,        \* the samples written to the file or to stdout
  nrFileSamples,
  header       \* the number of samples the file's header states

wave == <<pc, ret, size, remaining, inp>>
sdf  == <<sdfBuf, file, nrFileSamples, header>>
vars == <<wave, frames, produced, buffer, sink, sdf>>

Dummy == -1  \* DummyLen

ShortMax == (Width \div 2) - 1

TypeOK ==
  /\ pc \in {"open", "loop", "get", "pass", "close", "done", "aborted"}
  /\ ret \in {0, 1}
  /\ size \in TextSizes
  /\ remaining \in 0 .. Width - 1
  /\ inp \in 0 .. size
  /\ frames \in Seq(FrameSizes)
  /\ produced \in Nat
  /\ buffer \in Seq(1 .. produced) /\ Len(buffer) <= BufferSize
  /\ sink \in {"none", "stdout", "file"}
  /\ sdfBuf \in Seq(1 .. produced) /\ Len(sdfBuf) < SdfBufLen
  /\ file \in Seq(1 .. produced)
  /\ nrFileSamples \in Nat
  /\ header \in Nat \cup {Dummy}

-----------------------------------------------------------------------------
(* The sound file. *)

(***************************************************************************)
(* What picoos_sdfOpenOut returns: FALSE for a name without the suffix     *)
(* .wav.  When the file cannot be created it raises an exception, leaves   *)
(* the handle NULL, and returns TRUE.                                      *)
(***************************************************************************)
SdfOpenOut(r) == r # "suffix"

\* picoos_sdfPutSamples: samples are written whenever the buffer is full.
SdfPutSamples(s) ==
  LET all  == sdfBuf \o s
      full == (Len(all) \div SdfBufLen) * SdfBufLen
  IN  /\ sdfBuf' = SubSeq(all, full + 1, Len(all))
      /\ file' = file \o SubSeq(all, 1, full)
      /\ nrFileSamples' = nrFileSamples + full
      /\ UNCHANGED header

\* Mutation of SdfCloseOut: the header is written before the flush.
SdfCloseOutEarly ==
  /\ sdfBuf' = <<>>
  /\ file' = file \o sdfBuf
  /\ nrFileSamples' = nrFileSamples + Len(sdfBuf)
  /\ header' = nrFileSamples

\* Mutation of SdfCloseOut: the rest is not flushed.
SdfCloseOutShort ==
  /\ sdfBuf' = <<>>
  /\ header' = nrFileSamples
  /\ UNCHANGED <<file, nrFileSamples>>

\* picoos_sdfCloseOut: flush, then the header again with the true length.
SdfCloseOut ==
  /\ sdfBuf' = <<>>
  /\ file' = file \o sdfBuf
  /\ nrFileSamples' = nrFileSamples + Len(sdfBuf)
  /\ header' = nrFileSamples'

\* The samples s leave pico2wave's buffer.
Write(s) ==
  CASE sink = "stdout" -> file' = file \o s /\ UNCHANGED <<sdfBuf, nrFileSamples, header>>
    [] sink = "file"   -> SdfPutSamples(s)
    [] sink = "none"   -> UNCHANGED sdf

-----------------------------------------------------------------------------
(* main. *)

OpenOut ==
  /\ pc = "open"
  /\ \E r \in OpenResults :
       /\ pc' = IF SdfOpenOut(r) THEN "loop" ELSE "done"
       /\ ret' = IF SdfOpenOut(r) THEN 0 ELSE 1
       /\ sink' = CASE r = "stdout" -> "stdout" [] r = "open" -> "file" [] OTHER -> "none"
  /\ UNCHANGED <<size, remaining, inp, frames, produced, buffer, sdf>>

\* bytesToSend, after the cast: a negative text_remaining sends ShortMax.
BytesToSend == IF remaining > ShortMax THEN ShortMax ELSE remaining

Sent == IF BytesToSend < CbInSize THEN BytesToSend ELSE CbInSize

\* Mutation of Left: what the engine did not take is skipped.
LeftOfAsked == (remaining - BytesToSend) % Width

Left == (remaining - Sent) % Width

\* One round of the outer loop begins: pico_putTextUtf8.
PutText ==
  /\ pc = "loop" /\ remaining # 0
  /\ remaining' = Left
  /\ inp' = inp + Sent
  /\ \E f \in SeqOf(FrameSizes, MaxFrames) : frames' = frames \o f
  /\ pc' = "get"
  /\ UNCHANGED <<ret, size, produced, buffer, sink, sdf>>

\* Mutation of LeaveLoop: the loop waits for the end of the text.
LeaveAtEnd ==
  /\ pc = "loop" /\ inp = size
  /\ pc' = "close"
  /\ UNCHANGED <<ret, size, remaining, inp, frames, produced, buffer, sink, sdf>>

LeaveLoop ==
  /\ pc = "loop" /\ remaining = 0
  /\ pc' = "close"
  /\ UNCHANGED <<ret, size, remaining, inp, frames, produced, buffer, sink, sdf>>

\* The samples of the next frame.
FrameData == [k \in 1 .. Head(frames) |-> produced + k]

\* Mutation of HasRoom: the size of the frame is left out.
HasRoomForSome(n) == Len(buffer) < BufferSize

HasRoom(n) == Len(buffer) + n <= BufferSize

\* Mutation of Refilled: bufused is not reset.
RefilledAfter(s) == SubSeq(buffer \o s, 1, BufferSize)

\* The buffer after it was written, with the samples s.
Refilled(s) == s

\* pico_getData returns a frame: it is added to the buffer, which is written
\* before that if it has no room.
GetFrame ==
  /\ pc = "get" /\ frames # <<>>
  /\ frames' = Tail(frames)
  /\ produced' = produced + Head(frames)
  /\ IF HasRoom(Head(frames))
     THEN buffer' = buffer \o FrameData /\ UNCHANGED sdf
     ELSE buffer' = Refilled(FrameData) /\ Write(buffer)
  /\ UNCHANGED <<wave, sink>>

GetIdle ==
  /\ pc = "get" /\ frames = <<>>
  /\ pc' = "pass"
  /\ UNCHANGED <<ret, size, remaining, inp, frames, produced, buffer, sink, sdf>>

\* pico_getData fails: main leaves without closing the sound file, and with
\* the exit status that the last pico_putTextUtf8 gave.
GetError ==
  /\ pc = "get"
  /\ pc' = "aborted"
  /\ UNCHANGED <<ret, size, remaining, inp, frames, produced, buffer, sink, sdf>>

\* The chunk is finished: what is in the buffer is written, and stays there.
PassRemaining ==
  /\ pc = "pass"
  /\ Write(buffer)
  /\ pc' = "loop"
  /\ UNCHANGED <<ret, size, remaining, inp, frames, produced, buffer, sink>>

CloseOut ==
  /\ pc = "close"
  /\ pc' = "done"
  /\ IF sink = "file" THEN SdfCloseOut ELSE UNCHANGED sdf
  /\ UNCHANGED <<ret, size, remaining, inp, frames, produced, buffer, sink>>

Init ==
  /\ pc = "open" /\ ret = 0
  /\ size \in TextSizes
  /\ remaining = size % Width
  /\ inp = 0
  /\ frames = <<>> /\ produced = 0 /\ buffer = <<>>
  /\ sink = "none"
  /\ sdfBuf = <<>> /\ file = <<>> /\ nrFileSamples = 0 /\ header = Dummy

Next ==
  \/ OpenOut \/ PutText \/ LeaveLoop \/ GetFrame \/ GetIdle \/ GetError
  \/ PassRemaining \/ CloseOut

Spec == Init /\ [][Next]_vars /\ WF_vars(Next)

-----------------------------------------------------------------------------
(* Properties. *)

\* main ended well, after it wrote to a file or to stdout.
Finished == pc = "done" /\ ret = 0 /\ sink # "none"

(***************************************************************************)
(* The pointer into the text and the 16 bit count of what is left agree,   *)
(* also while the count is negative: no byte beyond the text is sent.      *)
(***************************************************************************)
CountsText == inp + remaining = size % Width

(***************************************************************************)
(* Every sample that the engine returned is written, and the samples come  *)
(* in their order the first time they are written.                         *)
(***************************************************************************)
NothingLost ==
  Finished =>
    \A k \in 1 .. produced :
      \E j \in 1 .. Len(file) :
        file[j] = k /\ {file[i] : i \in 1 .. j - 1} = 1 .. k - 1

(***************************************************************************)
(* For a text that the engine takes at once, each sample is written once.  *)
(***************************************************************************)
OneChunkExact ==
  Finished /\ size <= CbInSize /\ size <= ShortMax =>
    file = [k \in 1 .. produced |-> k]

\* The header of a closed sound file states the number of samples in it.
HeaderTrue == Finished /\ sink = "file" => header = Len(file)

(***************************************************************************)
(* The file is what its readers expect: a text sent at once is in it sample *)
(* by sample, and the header of a sound file agrees with its contents.     *)
(***************************************************************************)
FileExact == OneChunkExact /\ HeaderTrue

\* The program ends, whatever the length of the text is modulo Width.
Ends == <>(pc \in {"done", "aborted"})

-----------------------------------------------------------------------------
(* What a comment says, and the code does not do. *)

\* "pass the remaining samples": a sample is not written again.
NoneTwice == \A i, j \in 1 .. Len(file) : file[i] = file[j] => i = j
=============================================================================
