------------------------------- MODULE PicoTrns -------------------------------
(***************************************************************************)
(* The finite state transducers: the access to their knowledge base, a     *)
(* stream of bytes (picokfst.c), and the backtracking search that          *)
(* transduces a sequence of symbols (picotrns.c), as the simple transducer *)
(* of the phoneme mark-up runs it (picodata_mapPAStrToPAIds): the symbols  *)
(* are added, then transduced and rid of their epsilons once per           *)
(* transducer, then read as phoneme ids.  Positions in a stream count from *)
(* 0.                                                                      *)
(***************************************************************************)
EXTENDS Integers, Sequences, SequencesExt, FiniteSets, FiniteSetsExt

CONSTANTS TrnsFsts,       \* a sequence of transducers, see FstStream
          TrnsInputs,     \* the strings to transduce: sequences of characters
          TrnsMaxPossym,  \* PICOTRNS_MAX_NUM_POSSYM
          TrnsMaxAlt      \* maxAltDescLen

FstEps == 0               \* PICOKFST_SYMID_EPS
FstIlleg == -1            \* PICOKFST_SYMID_ILLEG
FstHdrLen == 4            \* FileHdrSize
FstAsciiPlane == 1        \* PICOKFST_PLANE_ASCII
TrnsPosInsert == -1       \* PICOTRNS_POS_INSERT

ASSUME TrnsMaxAltAssumption == TrnsMaxAlt \in Nat \ {0}
-----------------------------------------------------------------------------
(***************************************************************************)
(* Numbers in a stream.                                                    *)
(***************************************************************************)
FstByte(s, pos) == s[pos + 1]

\* The least significant bit is the sign.
FstSign(val) == IF val % 2 = 1 THEN -((val - 1) \div 2) - 1 ELSE val \div 2

FixedBytesToUnsignedNum(s, n, pos) ==
  LET num[i \in 0 .. n] == IF i = 0 THEN 0 ELSE (256 * num[i - 1]) + FstByte(s, pos + i - 1)
  IN  num[n]
FixedBytesToSignedNum(s, n, pos) == FstSign(FixedBytesToUnsignedNum(s, n, pos))

\* Seven bits a byte, up to the first byte with its eighth bit set.
BytesToNum(s, pos) ==
  LET Last7(p) == FstByte(s, p) >= 128 /\ \A q \in pos .. p - 1 : FstByte(s, q) < 128
      last == CHOOSE p \in pos .. Len(s) - 1 : Last7(p)
      val[p \in pos - 1 .. last] ==
        IF p < pos THEN 0 ELSE (128 * val[p - 1]) + (FstByte(s, p) % 128)
  IN  [num |-> FstSign(val[last]), pos |-> last + 1]

\* The num'th number of those that start at pos.
FstNum(s, pos, num) ==
  FoldLeft(LAMBDA r, i : BytesToNum(s, r.pos), [num |-> 0, pos |-> pos], [i \in 1 .. num |-> i])

kfstInitialize(s) ==
  LET Header(i) == FstNum(s, FstHdrLen, i).num
  IN  [stream |-> s, transductionMode |-> Header(1), nrClasses |-> Header(2),
       nrStates |-> Header(3), alphaHashTabSize |-> Header(5),
       alphaHashTabPos |-> FstHdrLen + Header(6), transTabEntrySize |-> Header(7),
       transTabPos |-> FstHdrLen + Header(8), inEpsStateTabPos |-> FstHdrLen + Header(9),
       accStateTabPos |-> FstHdrLen + Header(10)]

(***************************************************************************)
(* The searches in a transducer.  A search state is a position, or -1.     *)
(***************************************************************************)
FstNoPair == [found |-> FALSE, out |-> FstIlleg, val |-> 0, search |-> -1]

RECURSIVE FstCell(_, _, _)
\* The position after the head of the cell of this symbol, in the chain from pos.
FstCell(fst, pos, inSym) ==
  LET sym == BytesToNum(fst.stream, pos)
      next == BytesToNum(fst.stream, sym.pos)
  IN  IF sym.num = inSym THEN next.pos
      ELSE IF next.num > 0 THEN FstCell(fst, pos + next.num, inSym) ELSE -1

picokfst_kfstStartPairSearch(fst, inSym) ==
  LET offs == FixedBytesToSignedNum(fst.stream, 4,
                fst.alphaHashTabPos + (4 * (inSym % fst.alphaHashTabSize)))
  IN  IF offs > 0 THEN FstCell(fst, fst.alphaHashTabPos + offs, inSym) ELSE -1

\* A pair of an output symbol and a number (a class, or an end state), unless the
\* list ends here.
FstNextPair(fst, search) ==
  LET out == BytesToNum(fst.stream, search)
      val == BytesToNum(fst.stream, out.pos)
  IN  IF search < 0 \/ out.num = FstIlleg THEN FstNoPair
      ELSE [found |-> TRUE, out |-> out.num, val |-> val.num, search |-> val.pos]

picokfst_kfstGetNextPair(fst, search) == FstNextPair(fst, search)
picokfst_kfstGetNextInEpsTrans(fst, search) == FstNextPair(fst, search)

picokfst_kfstGetTrans(fst, start, class) ==
  IF start \notin 1 .. fst.nrStates \/ class \notin 1 .. fst.nrClasses THEN 0
  ELSE LET index == ((start - 1) * fst.nrClasses) + class - 1
       IN  FixedBytesToUnsignedNum(fst.stream, fst.transTabEntrySize,
             fst.transTabPos + (index * fst.transTabEntrySize))

picokfst_kfstStartInEpsTransSearch(fst, start) ==
  IF start \notin 1 .. fst.nrStates THEN -1
  ELSE LET offs == FixedBytesToSignedNum(fst.stream, 4, fst.inEpsStateTabPos + ((start - 1) * 4))
       IN  IF offs > 0 THEN fst.inEpsStateTabPos + offs ELSE -1

picokfst_kfstIsAcceptingState(fst, state) ==
  /\ state \in 1 .. fst.nrStates
  /\ FixedBytesToUnsignedNum(fst.stream, 1, fst.accStateTabPos + state - 1) = 1
-----------------------------------------------------------------------------
(***************************************************************************)
(* The stream of a transducer f, as the lingware holds it: for each symbol *)
(* f.pairs gives the output symbols and classes, f.trans the end state of  *)
(* each state and class (0: none), f.eps the transitions of each state     *)
(* that read nothing, f.acc the accepting states; 1 is the start state.    *)
(***************************************************************************)
FstZig(v) == IF v < 0 THEN (-2 * v) - 1 ELSE 2 * v
FstPut(v) == <<FstZig(v) \div 128, 128 + (FstZig(v) % 128)>>
FstPut4(v) == <<0, 0, FstZig(v) \div 256, FstZig(v) % 256>>
FstPutList(pairs) == FlattenSeq([i \in 1 .. Len(pairs) |-> FstPut(pairs[i][1]) \o FstPut(pairs[i][2])])
                     \o FstPut(FstIlleg)
FstTabSize == 2

FstStream(f) ==
  LET syms == SetToSortSeq(DOMAIN f.pairs,
                LAMBDA a, b : a % FstTabSize < b % FstTabSize
                              \/ (a % FstTabSize = b % FstTabSize /\ a < b))
      Size(i) == 6 + (4 * Len(f.pairs[syms[i]]))
      Offset(i) == FoldLeft(LAMBDA o, j : o + Size(j), 4 * FstTabSize, [j \in 1 .. i - 1 |-> j])
      Cell(i) == FstPut(syms[i])
                 \o FstPut(IF i < Len(syms) /\ syms[i + 1] % FstTabSize = syms[i] % FstTabSize
                           THEN Size(i) ELSE 0)
                 \o FstPutList(f.pairs[syms[i]])
      First(h) == {i \in 1 .. Len(syms) : syms[i] % FstTabSize = h}
      alpha == FlattenSeq([h \in 1 .. FstTabSize |->
                 FstPut4(IF First(h - 1) = {} THEN 0 ELSE Offset(Min(First(h - 1))))])
               \o FlattenSeq([i \in 1 .. Len(syms) |-> Cell(i)])
      trans == FlattenSeq(f.trans)
      EpsOffset(q) == FoldLeft(LAMBDA o, r : o + 2 + (4 * Len(f.eps[r])), 4 * Len(f.eps),
                               [r \in 1 .. q - 1 |-> r])
      eps == FlattenSeq([q \in 1 .. Len(f.eps) |->
                           FstPut4(IF f.eps[q] = <<>> THEN 0 ELSE EpsOffset(q))])
             \o FlattenSeq([q \in 1 .. Len(f.eps) |-> FstPutList(f.eps[q])])
      acc == [q \in 1 .. Len(f.trans) |-> IF q \in f.acc THEN 1 ELSE 0]
      at == 20                    \* the header: ten numbers of two bytes
  IN  [i \in 1 .. FstHdrLen |-> 0]
      \o FstPut(0) \o FstPut(Len(f.trans[1])) \o FstPut(Len(f.trans)) \o FstPut(0)
      \o FstPut(FstTabSize) \o FstPut(at) \o FstPut(1) \o FstPut(at + Len(alpha))
      \o FstPut(at + Len(alpha) + Len(trans)) \o FstPut(at + Len(alpha) + Len(trans) + Len(eps))
      \o alpha \o trans \o eps \o acc

TrnsKb == [f \in DOMAIN TrnsFsts |-> kfstInitialize(FstStream(TrnsFsts[f]))]
-----------------------------------------------------------------------------
(***************************************************************************)
(* The transduction of symbols with positions.                             *)
(***************************************************************************)
VARIABLE trns      \* the simple transducer and the transduction it is in

trnsVars == <<trns>>

TrnsFst == TrnsKb[Head(trns.fsts)]
TrnsPosSym(pos, sym) == [pos |-> pos, sym |-> sym]
picotrns_unplane(sym) == IF sym < 0 THEN sym + 256 ELSE sym % 256

\* A search position: no alternative tried yet.
TrnsAltDesc(state, inPos) ==
  [startFSTState |-> state, inPos |-> inPos, altState |-> 0, searchState |-> -1,
   altOutSym |-> FstEps, altOutRefPos |-> TrnsPosInsert]

TrnsUpTo(seq, n) == SubSeq(seq, 1, Min({Len(seq), n}))

\* The path so far is the answer, as far as it fits.
NoteSolution(t, path) ==
  [t EXCEPT !.nrSol = @ + 1,
            !.out = TrnsUpTo([i \in 1 .. Len(path) |->
                                TrnsPosSym(path[i].altOutRefPos, path[i].altOutSym)], TrnsMaxPossym)]

picotrns_eliminate_epsilons(seq) ==
  TrnsUpTo(SelectSeq(seq, LAMBDA p : p.sym # FstEps), TrnsMaxPossym)
-----------------------------------------------------------------------------
(***************************************************************************)
(* picodata_mapPAStrToPAIds with the simple transducer: alt is the path of *)
(* the search (altDesc up to recPos), buf what is transduced, out what the *)
(* transduction answers, fsts the transducers still to be run.             *)
(***************************************************************************)
TrnsStart(str, f, g) ==
  trns = [state |-> "add", str |-> str, fsts |-> <<f, g>>, phase |-> 0, nrSol |-> 0, nrSteps |-> 0,
          alt |-> <<>>, buf |-> <<>>, out |-> <<>>, ids |-> <<>>, status |-> "OK", answer |-> <<>>]
TrnsInit == \E str \in TrnsInputs, f, g \in DOMAIN TrnsFsts : TrnsStart(str, f, g)

\* picotrns_stInitialize and picotrns_stAddWithPlane: a string that is too long is an
\* error, with as much of it as fits left in the buffer.
picotrns_stAddWithPlane ==
  /\ trns.state = "add"
  /\ trns' = [trns EXCEPT
       !.buf = TrnsUpTo([i \in 1 .. Len(trns.str) |->
                 TrnsPosSym(TrnsPosInsert, (FstAsciiPlane * 256) + trns.str[i])], TrnsMaxPossym),
       !.status = IF Len(trns.str) > TrnsMaxPossym THEN "BUF_OVERFLOW" ELSE "OK",
       !.state = IF Len(trns.str) > TrnsMaxPossym THEN "done" ELSE "transduce"]

\* Phase 0: the empty string is accepted whatever the transducer says.
TransductionStart ==
  /\ trns.state = "transduce" /\ trns.phase = 0
  /\ LET t == [trns EXCEPT !.nrSol = 0, !.nrSteps = 0, !.alt = <<TrnsAltDesc(1, 0)>>, !.phase = 1]
     IN  trns' = IF trns.buf = <<>> THEN NoteSolution(t, <<>>) ELSE t

(***************************************************************************)
(* Phase 1, firstSolOnly: the next acceptable alternative at the last      *)
(* position (GetNextAlternative), one turn of its loop a step: first the   *)
(* pairs of the input symbol (altState 0 and 1), then the transitions that *)
(* read nothing (2 and 3), then back to the position before (4).           *)
(***************************************************************************)
TrnsAt(altState) ==
  /\ trns.state = "transduce" /\ trns.phase = 1
  /\ trns.alt # <<>> /\ trns.nrSol = 0
  /\ Last(trns.alt).altState = altState

TrnsSetLast(d) == [trns EXCEPT !.alt = Append(Front(@), d), !.nrSteps = @ + 1]

\* The alternative is noted; a path that is an answer is the solution; the search goes
\* on one position further, unless the path has the length it may have.
TrnsFurther(t, end, next) ==
  IF Len(t.alt) < TrnsMaxAlt THEN [t EXCEPT !.alt = Append(@, TrnsAltDesc(end, next))] ELSE t
TrnsFound(d, out, ref, end, next) ==
  LET t == TrnsSetLast([d EXCEPT !.altOutSym = out, !.altOutRefPos = ref])
      Solved == next = Len(trns.buf) /\ picokfst_kfstIsAcceptingState(TrnsFst, end)
  IN  trns' = TrnsFurther(IF Solved THEN NoteSolution(t, t.alt) ELSE t, end, next)

\* An epsilon in the input is passed on, without a step of the transducer.
TrnsSearched(d, search, some, none) ==
  trns' = TrnsSetLast([d EXCEPT !.searchState = search, !.altState = IF search < 0 THEN none ELSE some])
AltBeforePairs ==
  /\ TrnsAt(0)
  /\ LET d == Last(trns.alt)
         p == trns.buf[d.inPos + 1]
     IN  IF d.inPos >= Len(trns.buf) THEN trns' = TrnsSetLast([d EXCEPT !.altState = 2])
         ELSE IF p.sym = FstEps
         THEN TrnsFound([d EXCEPT !.altState = 2], FstEps, p.pos, d.startFSTState, d.inPos + 1)
         ELSE TrnsSearched(d, picokfst_kfstStartPairSearch(TrnsFst, p.sym), 1, 2)

\* Mutation of TrnsPair: without a pair left the search goes back at once.
TrnsPairOnly(d, pair, end) ==
  IF ~pair.found THEN trns' = TrnsSetLast([d EXCEPT !.altState = 4])
  ELSE IF end > 0 THEN TrnsFound(d, pair.out, trns.buf[d.inPos + 1].pos, end, d.inPos + 1)
  ELSE trns' = TrnsSetLast(d)

TrnsPair(d, pair, end) ==
  IF ~pair.found THEN trns' = TrnsSetLast([d EXCEPT !.altState = 2])
  ELSE IF end > 0 THEN TrnsFound(d, pair.out, trns.buf[d.inPos + 1].pos, end, d.inPos + 1)
  ELSE trns' = TrnsSetLast(d)
TrnsTryPair(d, pair) ==
  TrnsPair([d EXCEPT !.searchState = pair.search], pair,
           picokfst_kfstGetTrans(TrnsFst, d.startFSTState, pair.val))
AltPair ==
  /\ TrnsAt(1)
  /\ TrnsTryPair(Last(trns.alt), picokfst_kfstGetNextPair(TrnsFst, Last(trns.alt).searchState))

AltBeforeEps ==
  /\ TrnsAt(2)
  /\ TrnsSearched(Last(trns.alt),
       picokfst_kfstStartInEpsTransSearch(TrnsFst, Last(trns.alt).startFSTState), 3, 4)

TrnsTryEps(d, trans) ==
  LET next == [d EXCEPT !.searchState = trans.search]
  IN  IF trans.found THEN TrnsFound(next, trans.out, TrnsPosInsert, trans.val, d.inPos)
      ELSE trns' = TrnsSetLast([next EXCEPT !.altState = 4])
AltEps ==
  /\ TrnsAt(3)
  /\ TrnsTryEps(Last(trns.alt), picokfst_kfstGetNextInEpsTrans(TrnsFst, Last(trns.alt).searchState))

AltBack == TrnsAt(4) /\ trns' = [trns EXCEPT !.alt = Front(@), !.nrSteps = @ + 1]

TransductionStep == AltBeforePairs \/ AltPair \/ AltBeforeEps \/ AltEps \/ AltBack

TransductionFound ==
  /\ trns.state = "transduce" /\ trns.phase = 1
  /\ trns.alt = <<>> \/ trns.nrSol > 0
  /\ trns' = [trns EXCEPT !.phase = 2]

\* Phase 2: without a solution the input is the output; then picotrns_stTransduce
\* drops the epsilons, and the next transducer's turn comes.
TransductionEnd ==
  /\ trns.state = "transduce" /\ trns.phase = 2
  /\ LET out == IF trns.nrSol = 0 THEN TrnsUpTo(trns.buf, TrnsMaxPossym) ELSE trns.out
     IN  trns' = [trns EXCEPT !.phase = 0, !.fsts = Tail(@), !.alt = <<>>,
                              !.out = out, !.answer = Append(@, out),
                              !.buf = picotrns_eliminate_epsilons(out),
                              !.state = IF Len(trns.fsts) = 1 THEN "get" ELSE "transduce"]

\* The planes are dropped: whatever is in the buffer becomes a phoneme id.
picotrns_stGetSymSequence ==
  /\ trns.state = "get"
  /\ trns' = [trns EXCEPT !.state = "done",
                          !.ids = [i \in 1 .. Len(trns.buf) |-> picotrns_unplane(trns.buf[i].sym)]]

TrnsNext == \/ picotrns_stAddWithPlane \/ TransductionStart \/ TransductionStep
            \/ TransductionFound \/ TransductionEnd \/ picotrns_stGetSymSequence

TrnsSpec == TrnsInit /\ [][TrnsNext]_trnsVars
-----------------------------------------------------------------------------
(***************************************************************************)
(* What a transducer answers: the paths through it that read the whole     *)
(* input and end in an accepting state, in the order of the search: at     *)
(* each state first the pairs of the next symbol, then the transitions     *)
(* that read nothing.                                                      *)
(***************************************************************************)
TrnsMoves(f, in, q, i) ==
  LET Pairs == IF i >= Len(in) \/ in[i + 1].sym \notin DOMAIN f.pairs THEN <<>>
               ELSE SelectSeq([k \in 1 .. Len(f.pairs[in[i + 1].sym]) |->
                                 LET p == f.pairs[in[i + 1].sym][k]
                                 IN  [out |-> TrnsPosSym(in[i + 1].pos, p[1]),
                                      to |-> f.trans[q][p[2]], next |-> i + 1]],
                              LAMBDA m : m.to # 0)
  IN  Pairs \o [k \in 1 .. Len(f.eps[q]) |->
                  [out |-> TrnsPosSym(TrnsPosInsert, f.eps[q][k][1]), to |-> f.eps[q][k][2], next |-> i]]

RECURSIVE TrnsPaths(_, _, _, _, _)
\* The outputs of the accepting paths of at most n moves from state q at input i.
TrnsPaths(f, in, q, i, n) ==
  IF n = 0 THEN <<>>
  ELSE FlattenSeq([k \in 1 .. Len(TrnsMoves(f, in, q, i)) |->
         LET m == TrnsMoves(f, in, q, i)[k]
             rest == TrnsPaths(f, in, m.to, m.next, n - 1)
         IN  (IF m.next = Len(in) /\ m.to \in f.acc THEN <<<<m.out>>>> ELSE <<>>)
             \o [r \in 1 .. Len(rest) |-> <<m.out>> \o rest[r]]])

TrnsAnswer(f, in) ==
  LET paths == TrnsPaths(f, in, 1, 0, TrnsMaxAlt)
  IN  IF in = <<>> THEN <<>> ELSE IF paths = <<>> THEN in ELSE TrnsUpTo(paths[1], TrnsMaxPossym)

\* The backtracking search in the stream of bytes answers the first accepting path of
\* the transducer, and the input itself only when there is none within maxAltDescLen.
TrnsFindsPath ==
  trns.phase = 2 =>
    (IF trns.nrSol = 0 THEN trns.buf ELSE trns.out) = TrnsAnswer(TrnsFsts[Head(trns.fsts)], trns.buf)

\* Every search ends, also in a transducer that can go on without reading: the paths
\* are no longer than maxAltDescLen (picotrns.c:514), so there are only so many to try.
TrnsEnds ==
  LET moves == 6                         \* at most so many turns for one alternative
      tree[n \in 0 .. TrnsMaxAlt] == IF n = 0 THEN 0 ELSE 1 + (moves * tree[n - 1])
  IN  trns.nrSteps <= moves * tree[TrnsMaxAlt]

\* A transduction finds what its transducer says, and ends.
TrnsSound == TrnsFindsPath /\ TrnsEnds
=============================================================================
