------------------------------- MODULE PicoKpdf -------------------------------
(***************************************************************************)
(* The probability densities (picokpdf.c), how their knowledge bases are   *)
(* read (kpdfMULInitialize, kpdfDURInitialize), and how picocep.c finds a  *)
(* mean or an inverse variance in a vector (getFromPdf).  A knowledge base *)
(* is a sequence of bytes; positions count from 0.                         *)
(***************************************************************************)
EXTENDS Integers, Sequences, SequencesExt

BigPow == 12          \* PICOKPDF_BIG_POW
DenseDeltas == 255    \* numdeltas, when the delta means are not sparse

KpdfByte(base, pos) == base[pos + 1]
KpdfUint16(base, pos) == KpdfByte(base, pos) + 256 * KpdfByte(base, pos + 1)
KpdfInt16(base, pos) ==
  IF KpdfUint16(base, pos) >= 32768 THEN KpdfUint16(base, pos) - 65536
  ELSE KpdfUint16(base, pos)
KpdfBytes(base, pos, n) == SubSeq(base, pos + 1, pos + n)

\* The power of two that makes a number with this scale a fixed point number; a
\* byte above 15 is a negative power.
convScaleFactorToBig(pow, bigpow) ==
  IF pow > 15 THEN bigpow + 256 - pow ELSE IF bigpow >= pow THEN bigpow - pow ELSE 0

\* kpdfMULInitialize: what it answers, and the sub object.
KpdfVecsize(p) ==
  IF p.numdeltas = DenseDeltas THEN p.numvuv + p.ceporder * 9
  ELSE p.numvuv + p.ceporder * 2 + p.numdeltas * 3 + p.ceporder * 3
kpdfMULInitialize(base) ==
  LET numstates == KpdfByte(base, 3)
      head == 4 + 2 * numstates
      order == KpdfByte(base, head)
      pows == head + 6
      content == pows + 6 * order
      Pows(at) == [i \in 1 .. 3 * order |->
                     convScaleFactorToBig(KpdfByte(base, at + i - 1), BigPow)]
      \* the frames of the states before
      Offset(a, s) == Append(a, Last(a) + KpdfUint16(base, 4 + 2 * (s - 1)))
      p == [numframes |-> KpdfUint16(base, 0), vecsize |-> KpdfByte(base, 2),
            stateoffset |-> FoldLeft(Offset, <<0>>, [s \in 1 .. numstates - 1 |-> s]),
            ceporder |-> order, numvuv |-> KpdfByte(base, head + 1),
            numdeltas |-> KpdfByte(base, head + 2),
            meanpow |-> convScaleFactorToBig(KpdfByte(base, head + 3), BigPow),
            meanpowUm |-> Pows(pows), ivarpow |-> Pows(pows + 3 * order),
            content |-> content]
  IN  [res |-> IF KpdfByte(base, head + 4) < BigPow \/ p.meanpow = 0 THEN "MAX_NUM_EXCEED"
               ELSE IF p.vecsize # KpdfVecsize(p)
                       \/ content + p.numframes * p.vecsize # Len(base)
               THEN "FILE_CORRUPT" ELSE "OK",
       pdf |-> p]

(***************************************************************************)
(* getFromPdf                                                              *)
(***************************************************************************)
\* Where in the vector that starts at vecstart the mean, or the inverse variance,
\* of a stream (0 static, 1 delta, 2 delta delta) begins; none if it is not there.
KpdfNone == -1
KpdfSparse(base, p, vecstart, stream, cepnum) ==
  LET table == p.content + vecstart + p.numvuv + 2 * p.ceporder
      want == (stream - 1) * p.ceporder + cepnum
      Is(s) == KpdfByte(base, table + s) = want
      \* both loops stop at the first index beyond the one that is wanted
      upto == {s \in 0 .. p.numdeltas - 1 :
                 IF stream = 1
                 THEN \A r \in 0 .. s - 1 : KpdfByte(base, table + r) < cepnum
                 ELSE \A r \in s + 1 .. p.numdeltas - 1 : KpdfByte(base, table + r) > want}
      found == {s \in upto : Is(s)}
  IN  IF found = {} THEN KpdfNone
      ELSE table + p.numdeltas + 2 * (CHOOSE s \in found : TRUE)

KpdfMeanAt(base, p, vecstart, stream, cepnum) ==
  IF stream = 0 \/ p.numdeltas = DenseDeltas
  THEN p.content + vecstart + p.numvuv + 2 * (stream * p.ceporder + cepnum)
  ELSE KpdfSparse(base, p, vecstart, stream, cepnum)
KpdfIvarAt(p, vecstart, stream, cepnum) ==
  p.content + vecstart + p.numvuv + cepnum
  + IF p.numdeltas = DenseDeltas THEN (6 + stream) * p.ceporder
    ELSE (2 + stream) * p.ceporder + 3 * p.numdeltas

getFromPdfMean(base, p, vecstart, cepnum, stream) ==
  LET at == KpdfMeanAt(base, p, vecstart, stream, cepnum)
  IN  IF at = KpdfNone THEN 0
      ELSE KpdfInt16(base, at) * 2 ^ p.meanpowUm[stream * p.ceporder + cepnum + 1]
getFromPdfIvar(base, p, vecstart, cepnum, stream) ==
  KpdfByte(base, KpdfIvarAt(p, vecstart, stream, cepnum))
  * 2 ^ p.ivarpow[stream * p.ceporder + cepnum + 1]
=============================================================================
