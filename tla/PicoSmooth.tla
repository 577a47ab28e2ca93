------------------------------ MODULE PicoSmooth ------------------------------
(***************************************************************************)
(* Cepstral smoothing, the computation (picocep.c): the trajectory of one  *)
(* coefficient over the frames of a sentence is the solution of a banded   *)
(* system of linear equations.  makeWUWandWUm sets it up from the static,  *)
(* delta and delta delta densities of the frames; invMatrix solves it by   *)
(* an LDL factorization in fixed point numbers with 32 bits.               *)
(*                                                                         *)
(* An action is one pass over one row.  Rows count from 0, as in the code; *)
(* TLC's own integers have 32 bits too, and it stops where one overflows.  *)
(***************************************************************************)
EXTENDS PicoKpdf

CONSTANTS
  SmoothBases,   \* knowledge bases
  SmoothFrames,  \* sequences of indices into their vectors
  SmoothInvpow,  \* PICOCEP_MGCINVPOW, with PICOCEP_MGCDOUBLEDEC = 0
  SmoothTolerance  \* how far from solved the equations may be, in BIG

VARIABLES
  smoothIn,   \* the knowledge base, as read, the coefficient and the frames
  smooth      \* the matrix, the right hand side, and how far they are

smoothVars == <<smoothIn, smooth>>

(***************************************************************************)
(* Fixed point arithmetic                                                  *)
(***************************************************************************)
FixAbs(x) == IF x < 0 THEN -x ELSE x
FixTrunc(x, d) == IF x < 0 THEN -((-x) \div d) ELSE x \div d    \* C's division
picocep_highestBit(x) ==
  IF x = 0 THEN 0
  ELSE CHOOSE n \in 1 .. 31 : FixAbs(x) >= 2 ^ (n - 1) /\ (n = 31 \/ FixAbs(x) < 2 ^ n)

picocep_fixptdivpow(a, pow) ==
  IF a >= 0 THEN (a + 2 ^ (pow - 1)) \div 2 ^ pow
  ELSE -((-a + 2 ^ (pow - 1)) \div 2 ^ pow)

\* The product in four parts, for factors whose product has more than 30 bits.
picocep_fixptmultdouble(x, y, pow) ==
  LET a == FixTrunc(x, 2 ^ pow)   b == x - a * 2 ^ pow
      c == FixTrunc(y, 2 ^ pow)   d == y - c * 2 ^ pow
  IN  (a * c) * 2 ^ pow + (a * d + b * c) + picocep_fixptdivpow(b * d, pow)
picocep_fixptmult(x, y, pow) ==
  IF picocep_highestBit(x) + picocep_highestBit(y) <= 30
  THEN picocep_fixptdivpow(x * y, pow) ELSE picocep_fixptmultdouble(x, y, pow)

\* Division bit by bit: from pow - 1 down to 1, then rounded.
FixDivide(r0, b, pow) ==
  LET Bit(a, k) == LET p == pow - k
                   IN  IF a.r = 0 THEN a
                       ELSE [c |-> IF a.r >= b THEN a.c + 2 ^ p ELSE a.c,
                             r |-> 2 * (IF a.r >= b THEN a.r - b ELSE a.r)]
      first == [c |-> (r0 \div b) * 2 ^ pow, r |-> 2 * (r0 % b)]
      a == FoldLeft(Bit, first, [k \in 1 .. pow - 1 |-> k])
      f == a.r + b \div 2
  IN  a.c + (IF a.r = 0 \/ f < b THEN 0 ELSE IF f >= 2 * b THEN 2 ELSE 1)
picocep_fixptdiv(a, b, pow) ==
  IF a < 0 THEN -FixDivide(-a, b, pow) ELSE FixDivide(a, b, pow)

\* A diagonal element that is too small is scaled up by 2 ^ rowscpow.
FixRowScale(d, pow, invpow) ==
  LET over == invpow + pow - 30 - picocep_highestBit(d) IN IF over > 0 THEN over ELSE 0
picocep_fixptInvDiagEle(d, pow, invpow) ==
  FixDivide(2 ^ invpow, d * 2 ^ FixRowScale(d, pow, invpow), pow)

picocep_fixptinv(a, invb, pow, invpow) ==
  picocep_fixptdivpow(picocep_fixptmult(a, invb, pow), invpow - pow)

(***************************************************************************)
(* makeWUWandWUm                                                           *)
(***************************************************************************)
SmoothN == Len(smoothIn.frames)
SmoothMean(i, stream) ==
  getFromPdfMean(smoothIn.base, smoothIn.pdf, smoothIn.frames[i + 1] * smoothIn.pdf.vecsize,
                 smoothIn.cepnum, stream)
SmoothIvar(i, stream) ==
  getFromPdfIvar(smoothIn.base, smoothIn.pdf, smoothIn.frames[i + 1] * smoothIn.pdf.vecsize,
                 smoothIn.cepnum, stream)

\* The frames whose delta and delta delta row i takes part in, with the factors of
\* the mean; those of the variance are their squares.
SmoothRows(i, n) ==
  CASE 1 < i /\ i < n - 2 ->
         [d |-> <<i - 1, i + 1>>, dd |-> <<i - 1, i, i + 1>>, x |-> <<1, -1, 2, -4, 2>>]
    [] i = 0     -> [d |-> <<1>>, dd |-> <<1>>, x |-> <<-1, 2>>]
    [] i = 1     -> [d |-> <<2>>, dd |-> <<1, 2>>, x |-> <<-1, -4, 2>>]
    [] i = n - 2 -> [d |-> <<n - 3>>, dd |-> <<n - 3, n - 2>>, x |-> <<1, 2, -4>>]
    [] i = n - 1 -> [d |-> <<n - 2>>, dd |-> <<n - 2>>, x |-> <<1, 2>>]

SmoothSum(seq) == FoldLeft(LAMBDA n, x : n + x, 0, seq)
SmoothDiag0(i) ==
  LET rows == SmoothRows(i, SmoothN)
      nd == Len(rows.d)
  IN  FixTrunc(4 * SmoothIvar(i, 0)
        + SmoothSum([j \in 1 .. nd |-> rows.x[j] ^ 2 * SmoothIvar(rows.d[j], 1)])
        + SmoothSum([j \in 1 .. Len(rows.dd) |->
                       rows.x[nd + j] ^ 2 * SmoothIvar(rows.dd[j], 2)]) + 2, 4)
SmoothWUm(i) ==
  LET rows == SmoothRows(i, SmoothN)
      nd == Len(rows.d)
  IN  FixTrunc(2 * SmoothMean(i, 0)
        + SmoothSum([j \in 1 .. nd |-> rows.x[j] * SmoothMean(rows.d[j], 1)])
        + SmoothSum([j \in 1 .. Len(rows.dd) |->
                       rows.x[nd + j] * SmoothMean(rows.dd[j], 2)]) + 1, 2)

\* Mutation of SmoothSame: it is the row before that is compared.
SmoothSameBefore(i) ==
  i >= 1 /\ i + 1 < SmoothN /\ smoothIn.frames[i + 1] = smoothIn.frames[i]

\* What is the same as in the row before is not looked up again: prev holds it.
SmoothSame(i) == i >= 0 /\ i + 1 < SmoothN /\ smoothIn.frames[i + 1] = smoothIn.frames[i + 2]
SmoothDiag1(prev, i) ==
  LET next == IF i < SmoothN - 2
              THEN IF i > 0 /\ SmoothSame(i) THEN prev.next ELSE SmoothIvar(i + 1, 2)
              ELSE 0
      this == IF i = 0 THEN 0
              ELSE IF i > 1 /\ SmoothSame(i - 1) THEN prev.this ELSE SmoothIvar(i, 2)
  IN  [next |-> IF i < SmoothN - 2 THEN next ELSE prev.next,
       this |-> IF i > 0 THEN this ELSE prev.this,
       out |-> Append(prev.out, -2 * (next + this))]
SmoothDiag2(prev, i) ==
  Append(prev, IF i > 0 /\ SmoothSame(i) THEN Last(prev)
               ELSE SmoothIvar(i + 1, 2) - (SmoothIvar(i + 1, 1) + 2) \div 4)

\* A sentence of up to three frames is not smoothed (getDirect).
SmoothInit ==
  /\ \E base \in SmoothBases, frames \in SmoothFrames :
       LET k == kpdfMULInitialize(base)
       IN  \E cepnum \in 0 .. k.pdf.ceporder - 1 :
             smoothIn = [base |-> base, res |-> k.res, pdf |-> k.pdf, cepnum |-> cepnum,
                         frames |-> frames]
  /\ smooth = [stage |-> "MAKE", row |-> 0, a0 |-> <<>>, a1 |-> <<>>, a2 |-> <<>>,
               b |-> <<>>, diag0 |-> <<>>, diag1 |-> <<>>, diag2 |-> <<>>, inv |-> <<>>,
               wum |-> <<>>, scale |-> <<>>]

SmoothLoaded == smoothIn.res = "OK"
SmoothMake ==
  /\ smooth.stage = "MAKE" /\ SmoothLoaded /\ SmoothN > 3
  /\ LET n == SmoothN
         diag0 == [i \in 1 .. n |-> SmoothDiag0(i - 1)]
         diag1 == FoldLeft(SmoothDiag1, [next |-> 0, this |-> 0, out |-> <<>>],
                           [i \in 1 .. n - 1 |-> i - 1]).out
         diag2 == FoldLeft(SmoothDiag2, <<>>, [i \in 1 .. n - 2 |-> i - 1])
         wum == [i \in 1 .. n |-> SmoothWUm(i - 1)]
     IN  smooth' = [smooth EXCEPT !.stage = "FACTOR", !.row = 0,
                      !.a0 = diag0, !.a1 = diag1, !.a2 = diag2, !.b = wum,
                      !.diag0 = diag0, !.diag1 = diag1, !.diag2 = diag2, !.wum = wum]
  /\ UNCHANGED smoothIn

SmoothDirect ==
  /\ smooth.stage = "MAKE" /\ SmoothLoaded /\ SmoothN <= 3
  /\ smooth' = [smooth EXCEPT !.stage = "DONE",
                  !.wum = [i \in 1 .. SmoothN |->
                             picocep_fixptdiv(SmoothMean(i - 1, 0), SmoothIvar(i - 1, 0),
                                              BigPow)]]
  /\ UNCHANGED smoothIn

(***************************************************************************)
(* invMatrix                                                               *)
(***************************************************************************)
FixMult(x, y) == picocep_fixptmult(x, y, BigPow)
FixInv(a, invb) == picocep_fixptinv(a, invb, BigPow, SmoothInvpow)

\* One row of the factorization, with the forward substitution.
SmoothFactor ==
  /\ smooth.stage = "FACTOR" /\ smooth.row < SmoothN
  /\ LET j == smooth.row + 1   \* from 1
         s == smooth
         v1 == IF j = 1 THEN 0
               ELSE FixMult(FixTrunc(s.diag1[j - 1], 2 ^ s.scale[j - 1]), s.diag0[j - 1])
         v2 == IF j <= 2 THEN 0
               ELSE FixMult(FixTrunc(s.diag2[j - 2], 2 ^ s.scale[j - 2]), s.diag0[j - 2])
         d0 == s.diag0[j] - (IF j > 1 THEN FixMult(s.diag1[j - 1], v1) ELSE 0)
                          - (IF j > 2 THEN FixMult(s.diag2[j - 2], v2) ELSE 0)
         w == s.wum[j] - (IF j > 1 THEN FixMult(s.diag1[j - 1], s.wum[j - 1]) ELSE 0)
                       - (IF j > 2 THEN FixMult(s.diag2[j - 2], s.wum[j - 2]) ELSE 0)
         scale == FixRowScale(d0, BigPow, SmoothInvpow)
         inv == picocep_fixptInvDiagEle(d0, BigPow, SmoothInvpow)
         h == IF j = 1 \/ j = SmoothN THEN 0 ELSE FixMult(s.diag2[j - 1], v1)
     IN  smooth' =
           [s EXCEPT !.row = j, !.inv = Append(@, inv), !.scale = Append(@, scale),
              !.diag0[j] = d0, !.wum[j] = w * 2 ^ scale,
              !.diag1 = IF j < SmoothN
                        THEN [@ EXCEPT ![j] = FixInv((@ - h) * 2 ^ scale, inv)] ELSE @,
              !.diag2 = IF j < SmoothN - 1
                        THEN [@ EXCEPT ![j] = FixInv(@ * 2 ^ scale, inv)] ELSE @]
  /\ UNCHANGED smoothIn

SmoothDivide ==
  /\ smooth.stage = "FACTOR" /\ smooth.row = SmoothN
  /\ smooth' = [smooth EXCEPT !.stage = "BACK", !.row = SmoothN - 1,
                  !.wum = [j \in 1 .. SmoothN |-> FixInv(@[j], smooth.inv[j])]]
  /\ UNCHANGED smoothIn

\* One row of the backward substitution.
SmoothBack ==
  /\ smooth.stage = "BACK" /\ smooth.row > 0
  /\ LET j == smooth.row
     IN  smooth' = [smooth EXCEPT !.row = j - 1,
           !.wum[j] = @ - FixMult(smooth.diag1[j], smooth.wum[j + 1])
                        - (IF j < SmoothN - 1
                           THEN FixMult(smooth.diag2[j], smooth.wum[j + 2]) ELSE 0)]
  /\ UNCHANGED smoothIn

SmoothDone ==
  /\ smooth.stage = "BACK" /\ smooth.row = 0
  /\ smooth' = [smooth EXCEPT !.stage = "DONE"]
  /\ UNCHANGED smoothIn

SmoothNext == SmoothMake \/ SmoothDirect \/ SmoothFactor \/ SmoothDivide \/ SmoothBack
              \/ SmoothDone
SmoothSpec == SmoothInit /\ [][SmoothNext]_smoothVars

-----------------------------------------------------------------------------
\* A vector of densities that is accepted is read within the knowledge base only.
SmoothReadsWithin ==
  SmoothLoaded =>
    \A v \in 0 .. smoothIn.pdf.numframes - 1, stream \in 0 .. 2 :
      LET start == v * smoothIn.pdf.vecsize
          mean == KpdfMeanAt(smoothIn.base, smoothIn.pdf, start, stream, smoothIn.cepnum)
          end == smoothIn.pdf.content + start + smoothIn.pdf.vecsize
      IN  /\ mean # KpdfNone => mean + 1 < end
          /\ KpdfIvarAt(smoothIn.pdf, start, stream, smoothIn.cepnum) < end

\* The weight of frame i in the delta (1) or delta delta (2) of frame t, doubled.
SmoothWeight(stream, t, i, n) ==
  IF t \in 1 .. n - 2
  THEN CASE stream = 1 -> IF i = t + 1 THEN 1 ELSE IF i = t - 1 THEN -1 ELSE 0
         [] stream = 2 -> IF i = t THEN -4 ELSE IF i \in {t - 1, t + 1} THEN 2 ELSE 0
  ELSE 0
\* Four times W' U W, and twice W' U m.
SmoothMatrix4(i, k) ==
  (IF i = k THEN 4 * SmoothIvar(i, 0) ELSE 0)
  + SmoothSum([t \in 1 .. SmoothN - 2 |->
      SmoothSum([s \in 1 .. 2 |-> SmoothWeight(s, t, i, SmoothN)
                   * SmoothWeight(s, t, k, SmoothN) * SmoothIvar(t, s)])])
SmoothVector2(i) ==
  2 * SmoothMean(i, 0)
  + SmoothSum([t \in 1 .. SmoothN - 2 |->
      SmoothSum([s \in 1 .. 2 |-> SmoothWeight(s, t, i, SmoothN) * SmoothMean(t, s)])])

\* The matrix and the right hand side are those of the smoothing equations, also at
\* the ends of the sentence and where what a row before looked up is used again.
SmoothEquations ==
  smooth.stage \in {"FACTOR", "BACK"} \/ (smooth.stage = "DONE" /\ SmoothN > 3) =>
    \A i \in 0 .. SmoothN - 1 :
      /\ FixAbs(4 * smooth.a0[i + 1] - SmoothMatrix4(i, i)) <= 2
      /\ FixAbs(2 * smooth.b[i + 1] - SmoothVector2(i)) <= 2
      /\ i + 1 < SmoothN => FixAbs(4 * smooth.a1[i + 1] - SmoothMatrix4(i, i + 1)) <= 4
      /\ i + 2 < SmoothN => FixAbs(4 * smooth.a2[i + 1] - SmoothMatrix4(i, i + 2)) <= 4

\* The solution solves them, to SmoothTolerance.
SmoothSolved ==
  smooth.stage = "DONE" /\ SmoothN > 3 =>
    \A i \in 1 .. SmoothN :
      LET Term(k) ==
            IF k \notin 1 .. SmoothN THEN 0
            ELSE LET a == CASE k = i -> smooth.a0[i]
                            [] k = i + 1 -> smooth.a1[i] [] k = i - 1 -> smooth.a1[k]
                            [] k = i + 2 -> smooth.a2[i] [] k = i - 2 -> smooth.a2[k]
                 IN  FixMult(a, smooth.wum[k])
      IN  FixAbs(SmoothSum([d \in 1 .. 5 |-> Term(i + d - 3)]) - smooth.b[i])
            <= SmoothTolerance

\* The trajectory of a sentence is the smoothest one for the densities of its frames.
SmoothSound == SmoothReadsWithin /\ SmoothEquations /\ SmoothSolved
=============================================================================
