-------------------------------- MODULE PicoKdt --------------------------------
(***************************************************************************)
(* The decision trees (picokdt.c): loading one, building its input vector  *)
(* from a word or a context, walking the packed tree bit by bit, and       *)
(* mapping the class it decides for to the outside.                        *)
(*                                                                         *)
(* A tree is tables (the tables in, the table out: type, number of values  *)
(* declared, values), the numbers of bits of its fields, and the bytes of  *)
(* its body.  A grapheme is one character.                                 *)
(***************************************************************************)
EXTENDS Integers, Sequences, FiniteSets, SequencesExt, FiniteSetsExt, Functions

CONSTANT KdtCases    \* the trees and their inputs: kb, input

VARIABLE
  kdt    \* [case, phase, dt (the tree loaded), vec (invec), at (iByteNo, iBitNo),
         \*  dset, dclass, res (what the caller gets)]

KdtOutside == 48     \* PICOKDT_OUTSIDEGRAPH_DEFCH
KdtEow == 49         \* PICOKDT_OUTSIDEGRAPH_EOW_DEFCH
KdtHistoryZero == 30000
KdtAcc0 == 48        \* PICODATA_ACC0
KdtNone == -1        \* no value, no class

\* The attributes of each tree, and the type its table out must have.
KdtNrAtt == [PosP |-> 12, PosD |-> 7, G2P |-> 16, PHR |-> 8, ACC |-> 13, PAM |-> 60]
KdtOutType == [t \in DOMAIN KdtNrAtt |-> IF t = "G2P" THEN "BYTETOVAR" ELSE "WORD"]
-----------------------------------------------------------------------------
(***************************************************************************)
(* Loading.                                                                *)
(***************************************************************************)
\* A table out of three bytes must be an empty one, and is then no table at all.
kdtDtInitialize(kb) ==
  LET Ok == /\ kb.inppos # 0 /\ kb.outpos # 0 /\ kb.treepos # 0
            /\ kb.nrout = 1
            /\ kb.out.len = 3 => kb.out.type = "EMPTY"
            /\ kb.nrvfields = 2 /\ kb.nrqfields = 5
  IN  [ok |-> Ok, out |-> IF kb.out.len = 3 THEN [type |-> "NULL"] ELSE kb.out]
kdtDtCheck(kb, out) ==
  /\ kb.nratt = KdtNrAtt[kb.type] /\ Len(kb.inp) = KdtNrAtt[kb.type]
  /\ out.type # "NULL" /\ kb.nrout = 1 /\ out.type = KdtOutType[kb.type]
\* Every type of tree checks itself; its vector starts empty.
KdtTypeInitialize(kb) == LET dt == kdtDtInitialize(kb) IN dt.ok /\ kdtDtCheck(kb, dt.out)
picokdt_specialize(kb) == kb.type \in DOMAIN KdtNrAtt /\ KdtTypeInitialize(kb)
-----------------------------------------------------------------------------
(***************************************************************************)
(* The body: a position is a byte and a bit, 7 the first.                  *)
(***************************************************************************)
\* Mutation of kdt_jump: a jump to the end of a byte stays in it.
kdt_jumpInByte(jump, at) ==
  LET bits == (jump % 8) + (7 - at.bit)
  IN  IF bits > 8 THEN [byte |-> at.byte + (jump \div 8) + 1, bit |-> 15 - bits]
      ELSE [byte |-> at.byte + (jump \div 8), bit |-> IF bits = 8 THEN 0 ELSE 7 - bits]
kdt_jump(jump, at) ==
  LET bits == (jump % 8) + (7 - at.bit)
  IN  IF bits >= 8 THEN [byte |-> at.byte + (jump \div 8) + 1, bit |-> 15 - bits]
      ELSE [byte |-> at.byte + (jump \div 8), bit |-> 7 - bits]
KdtBit(body, at) == (body[at.byte + 1] \div 2^at.bit) % 2

\* A few bits one by one, more of them byte by byte.
kdtGetShiftVal(body, size, at) ==
  LET Bit(a, i) == [val |-> (2 * a.val) + KdtBit(body, a.at),
                    at |-> IF a.at.bit = 0 THEN [byte |-> a.at.byte + 1, bit |-> 7]
                           ELSE [a.at EXCEPT !.bit = @ - 1]]
      first == body[at.byte + 1] % 2^(at.bit + 1)
      rest == size - (at.bit + 1)
      Byte(v, i) == LET n == Min({8, rest - (8 * (i - 1))})
                    IN  (v * 2^n) + (body[at.byte + 1 + i] \div 2^(8 - n))
      val == IF rest < 0 THEN first \div 2^(-rest)
             ELSE FoldLeft(Byte, first, [i \in 1 .. (rest + 7) \div 8 |-> i])
      bit == at.bit - size
      bytes == IF bit < 0 THEN (7 - bit) \div 8 ELSE 0
  IN  IF size < 4 THEN FoldLeft(Bit, [val |-> 0, at |-> at], [i \in 1 .. size |-> i])
      ELSE [val |-> val, at |-> [byte |-> at.byte + bytes, bit |-> bit + (8 * bytes)]]

\* One subset of a discrete question: which values it holds, and where the next begins.
KdtSubset(dt, q, val, a, i) ==
  LET type == kdtGetShiftVal(dt.body, 2, a.at)
      f == dt.qfields[q + 1]
      Found == a.id > -1
      pos == kdtGetShiftVal(dt.body, f.bitno, type.at)
      cnt == kdtGetShiftVal(dt.body, f.bitcount, pos.at)
      skipped == kdt_jump(f.bitno, type.at)
      both == kdt_jump(f.bitno + f.bitcount, type.at)
      mask == kdtGetShiftVal(dt.body, f.bitcount, skipped)
      off == kdt_jump(val - pos.val, cnt.at)
      InRange == val >= pos.val /\ val < pos.val + cnt.val
      Hit(b, at) == [at |-> at, id |-> IF b THEN i ELSE a.id]
  IN  CASE type.val = 0 -> IF Found THEN [a EXCEPT !.at = skipped] ELSE Hit(val = pos.val, pos.at)
        [] type.val = 1 -> IF Found THEN [a EXCEPT !.at = both]
                           ELSE Hit(val \in {pos.val, cnt.val}, cnt.at)
        [] type.val = 2 -> IF Found THEN [a EXCEPT !.at = both] ELSE Hit(InRange, cnt.at)
        [] type.val = 3 ->
             IF Found THEN [a EXCEPT !.at = kdt_jump(mask.val, mask.at)]
             ELSE IF InRange
                  THEN Hit(KdtBit(dt.body, off) = 1, kdt_jump(cnt.val - (val - pos.val), off))
                  ELSE Hit(FALSE, kdt_jump(cnt.val, cnt.at))

\* The branches in turn: the one asked for decides, or leads to the next node.
KdtBranch(dt, q, id, a, i) ==
  LET decide == kdtGetShiftVal(dt.body, 1, a.at)
      size == IF decide.val = 1 THEN dt.vdecide ELSE dt.qfields[q + 1].jump
      read == kdtGetShiftVal(dt.body, size, decide.at)
  IN  CASE a.rv # -1 -> a
        [] a.rv = -1 /\ id # i -> [a EXCEPT !.at = kdt_jump(size, decide.at)]
        [] a.rv = -1 /\ id = i /\ decide.val = 1 -> [rv |-> 0, at |-> read.at, class |-> read.val]
        [] OTHER -> [rv |-> 1, at |-> kdt_jump(read.val, read.at), class |-> KdtNone]

KdtUndecided(at) == [rv |-> -1, at |-> at, class |-> KdtNone]
KdtBranches(dt, q, node) ==
  FoldLeft(LAMBDA a, i : KdtBranch(dt, q, node.id, a, i), KdtUndecided(node.at),
           [i \in 1 .. node.forks |-> i - 1])
\* How many branches the node has, which one the value takes, and where they begin.
KdtNode(dt, type, q, val, f) ==
  LET cut == kdtGetShiftVal(dt.body, f.cut, q.at)
      count == kdtGetShiftVal(dt.body, f.forkcount, q.at)
      subsets == FoldLeft(LAMBDA a, i : KdtSubset(dt, q.val, val, a, i), [at |-> count.at, id |-> -1],
                          [i \in 1 .. count.val - 1 |-> i - 1])
      Of(s) == [forks |-> count.val, at |-> s.at, id |-> IF s.id = -1 THEN count.val - 1 ELSE s.id]
  IN  CASE type = 0 -> [forks |-> 0, id |-> -1, at |-> q.at]
        [] type = 1 -> [forks |-> 2, id |-> val, at |-> q.at]
        [] type = 2 -> [forks |-> 2, id |-> IF val <= cut.val THEN 0 ELSE 1, at |-> cut.at]
        [] type = 3 -> Of(subsets)
KdtQuestion(dt, vec, type, q) ==
  IF q.val >= dt.nratt THEN KdtUndecided(q.at)
  ELSE KdtBranches(dt, q.val, KdtNode(dt, type, q, vec[q.val + 1], dt.qfields[q.val + 1]))
kdtAskTree(dt, vec, at) ==
  LET type == kdtGetShiftVal(dt.body, 2, at)
  IN  KdtQuestion(dt, vec, type.val, kdtGetShiftVal(dt.body, dt.vquestion, type.at))
-----------------------------------------------------------------------------
(***************************************************************************)
(* The tables.  What is not in a table maps to the number of its values,   *)
(* and there is no mapping at all if that is 0.                            *)
(***************************************************************************)
KdtPlace(table, val) == SelectInSeq(SubSeq(table.vals, 1, Min({table.nr, Len(table.vals)})),
                                    LAMBDA v : v = val)
KdtFound(table, val) ==
  IF KdtPlace(table, val) > 0 THEN KdtPlace(table, val) - 1
  ELSE IF table.nr > 0 THEN table.nr ELSE KdtNone
kdtMapInFixed(dt, nr, val) ==
  LET table == dt.inp[nr + 1]
  IN  CASE table.type = "EMPTY" -> val
        [] table.type \in {"BYTE", "WORD"} -> KdtFound(table, val)
        [] OTHER -> KdtNone
kdtMapInGraph(dt, nr, graph) ==
  IF dt.inp[nr + 1].type = "GRAPH" THEN KdtFound(dt.inp[nr + 1], graph) ELSE KdtNone
kdtMapOutFixed(dt, class) ==
  CASE dt.out.type \in {"BYTE", "WORD"} ->
         IF class < dt.out.nr THEN dt.out.vals[class + 1] ELSE KdtNone
    [] OTHER -> KdtNone
kdtReverseMapOutFixed(dt, val) ==
  IF dt.out.type \in {"BYTE", "WORD"} THEN KdtFound(dt.out, val) ELSE KdtNone
\* offsets[c + 1] is where the values of the class behind c start.
kdtMapOutVar(dt, class) ==
  LET from == IF class = 0 THEN 0 ELSE dt.out.offsets[class]
      nr == (dt.out.offsets[class + 1] - from) % 256
  IN  IF /\ dt.out.type = "BYTETOVAR" /\ class < dt.out.nr
         /\ from + nr <= Len(dt.out.vals)
         /\ nr <= dt.maxout
      THEN [ok |-> TRUE, vals |-> SubSeq(dt.out.vals, from + 1, from + nr)]
      ELSE [ok |-> FALSE, vals |-> <<>>]
-----------------------------------------------------------------------------
(***************************************************************************)
(* The input vectors.                                                      *)
(***************************************************************************)
\* The graphemes run through a buffer of six; what leaves it at the front fills the
\* prefix while there is room, and what stays in it fills the suffix from the end.
\* Mutation of KdtPosPGraphs: prefix and suffix are drawn apart from each other.
KdtPosPGraphsApart(graph) ==
  LET n == Len(graph)
  IN  [i \in 1 .. 4 |-> IF i <= n THEN graph[i] ELSE KdtOutside]
      \o [i \in 1 .. 6 |-> IF n - 6 + i >= 1 THEN graph[n - 6 + i] ELSE KdtOutside]
KdtPosPGraphs(graph) ==
  LET Next(a, g) ==
        LET Full == Len(a.buf) >= 6
        IN  [buf |-> Append(IF Full THEN Tail(a.buf) ELSE a.buf, g),
             pre |-> IF Full /\ Len(a.pre) < 4 THEN Append(a.pre, a.buf[1]) ELSE a.pre]
      r == FoldLeft(Next, [buf |-> <<>>, pre |-> <<>>], graph)
  IN  r.pre \o [i \in 1 .. 4 - Len(r.pre) |-> KdtOutside]
      \o [i \in 1 .. 6 - Len(r.buf) |-> KdtOutside] \o r.buf
picokdt_dtPosPconstructInVec(dt, input) ==
  LET graphs == KdtPosPGraphs(input.graph)
      vec == [i \in 1 .. 10 |-> kdtMapInGraph(dt, i - 1, graphs[i])]
             \o <<kdtMapInFixed(dt, 10, input.spec), kdtMapInFixed(dt, 11, Len(input.graph))>>
  IN  [ok |-> input.graph # <<>> /\ KdtNone \notin ToSet(vec), vec |-> vec, asked |-> graphs]

\* The graphemes around the one at place nr.
KdtG2PGraphs(graph, nr) ==
  LET n == Len(graph)
      Left(i) == LET c == 4 - i
                 IN  IF nr > c /\ nr <= n THEN graph[nr - c]
                     ELSE IF nr = c /\ i # 4 THEN KdtEow ELSE KdtOutside
      Right(i) == LET c == n - (i - 5)
                  IN  IF nr > 0 /\ nr <= c - 1 THEN graph[nr + n - c + 1]
                      ELSE IF nr = c THEN KdtEow ELSE KdtOutside
  IN  [i \in 1 .. 9 |-> IF i <= 5 THEN Left(i - 1) ELSE Right(i - 1)]
\* A value that cannot be mapped is 0 here, and the vector bad.
picokdt_dtG2PconstructInVec(dt, input) ==
  LET graphs == KdtG2PGraphs(input.graph, input.nr)
      mapped == [i \in 1 .. 9 |-> kdtMapInGraph(dt, i - 1, graphs[i])]
                \o [i \in 1 .. 7 |-> kdtMapInFixed(dt, i + 8, input.vals[i])]
  IN  [ok |-> KdtNone \notin ToSet(mapped), asked |-> graphs,
       vec |-> [i \in 1 .. 16 |-> IF mapped[i] = KdtNone THEN 0 ELSE mapped[i]]]

\* In the accentuation's history, no value yet counts as unaccented.
KdtHistory(dt, i, val) ==
  IF dt.type = "ACC" /\ i \in {5, 6} /\ val = KdtHistoryZero
  THEN kdtReverseMapOutFixed(dt, KdtAcc0) ELSE val
KdtFixedVec(dt, vals) ==
  LET vec == [i \in DOMAIN vals |->
                LET val == KdtHistory(dt, i - 1, vals[i])
                IN  IF val = KdtNone THEN KdtNone ELSE kdtMapInFixed(dt, i - 1, val)]
  IN  [ok |-> Len(vals) = dt.nratt /\ KdtNone \notin ToSet(vec), vec |-> vec, asked |-> <<>>]
picokdt_dtPosDconstructInVec(dt, input) == KdtFixedVec(dt, input.vals)
picokdt_dtPHRconstructInVec(dt, input) == KdtFixedVec(dt, input.vals)
picokdt_dtPAMconstructInVec(dt, input) == KdtFixedVec(dt, input.vals)
picokdt_dtACCconstructInVec(dt, input) == KdtFixedVec(dt, input.vals)
-----------------------------------------------------------------------------
(***************************************************************************)
(* A tree in use.                                                          *)
(***************************************************************************)
KdtStart(case) ==
  kdt = [case |-> case, phase |-> "load", vec |-> [ok |-> FALSE, vec |-> <<>>, asked |-> <<>>],
         at |-> [byte |-> 0, bit |-> 7], dset |-> FALSE, dclass |-> 0, res |-> <<>>]
KdtInit == \E case \in KdtCases : KdtStart(case)

KdtLoad ==
  /\ kdt.phase = "load"
  /\ kdt' = [kdt EXCEPT !.phase = IF picokdt_specialize(kdt.case.kb) THEN "vector" ELSE "corrupt"]
KdtConstruct ==
  LET dt == kdt.case.kb
      v == CASE dt.type = "PosP" -> picokdt_dtPosPconstructInVec(dt, kdt.case.input)
             [] dt.type = "G2P" -> picokdt_dtG2PconstructInVec(dt, kdt.case.input)
             [] dt.type = "PosD" -> picokdt_dtPosDconstructInVec(dt, kdt.case.input)
             [] dt.type = "PHR" -> picokdt_dtPHRconstructInVec(dt, kdt.case.input)
             [] dt.type = "PAM" -> picokdt_dtPAMconstructInVec(dt, kdt.case.input)
             [] dt.type = "ACC" -> picokdt_dtACCconstructInVec(dt, kdt.case.input)
  IN  /\ kdt.phase = "vector"
      /\ kdt' = [kdt EXCEPT !.vec = v, !.phase = IF v.ok THEN "ask" ELSE "failed"]
KdtAnswered(r) ==
  [kdt EXCEPT !.at = r.at, !.dset = r.rv = 0, !.dclass = IF r.rv = 0 THEN r.class ELSE @,
              !.phase = CASE r.rv = 0 -> "decided" [] r.rv = 1 -> "ask" [] OTHER -> "failed"]
KdtAsk ==
  /\ kdt.phase = "ask"
  /\ kdt' = KdtAnswered(kdtAskTree(kdt.case.kb, kdt.vec.vec, kdt.at))
KdtDecompose ==
  LET dt == kdt.case.kb
      one == kdtMapOutFixed(dt, kdt.dclass)
      res == IF dt.type = "G2P" THEN kdtMapOutVar(dt, kdt.dclass).vals
             ELSE IF one = KdtNone THEN <<>> ELSE <<one>>
  IN  /\ kdt.phase = "decided" /\ kdt.dset
      /\ kdt' = [kdt EXCEPT !.res = res, !.phase = "done"]
KdtNext == KdtLoad \/ KdtConstruct \/ KdtAsk \/ KdtDecompose
KdtSpec == KdtInit /\ [][KdtNext]_kdt
-----------------------------------------------------------------------------
(***************************************************************************)
(* The tools that write trees.  A node has a type, the attribute q asked   *)
(* for, a cut, subsets (type, a, b, and for a mask its bits) and forks,    *)
(* each a leaf with a class or the number of a node further on.            *)
(***************************************************************************)
KdtBits(val, size) == [i \in 1 .. size |-> (val \div 2^(size - i)) % 2]
KdtSubsetBits(f, s) ==
  KdtBits(s.type, 2) \o KdtBits(s.a, f.bitno)
  \o (IF s.type = 0 THEN <<>> ELSE KdtBits(s.b, f.bitcount)) \o (IF s.type = 3 THEN s.mask ELSE <<>>)
KdtNodeHead(dt, node) ==
  LET f == dt.qfields[node.q + 1]
  IN  KdtBits(node.type, 2) \o KdtBits(node.q, dt.vquestion)
      \o CASE node.type = 1 -> <<>>
            [] node.type = 2 -> KdtBits(node.cut, f.cut)
            [] node.type = 3 -> KdtBits(Len(node.forks), f.forkcount)
                 \o FlattenSeq([i \in DOMAIN node.subsets |-> KdtSubsetBits(f, node.subsets[i])])
KdtForkSize(dt, node, i) ==
  1 + (IF node.forks[i].leaf THEN dt.vdecide ELSE dt.qfields[node.q + 1].jump)
KdtForkEnd(dt, node, i) ==
  Len(KdtNodeHead(dt, node)) + FoldLeft(LAMBDA n, j : n + KdtForkSize(dt, node, j), 0, [j \in 1 .. i |-> j])
KdtTreeBits(dt, tree) ==
  LET start == [k \in 1 .. Len(tree) |->
                  FoldLeft(LAMBDA n, j : n + KdtForkEnd(dt, tree[j], Len(tree[j].forks)), 0,
                           [j \in 1 .. k - 1 |-> j])]
      Fork(k, i) == LET to == tree[k].forks[i]
                    IN  IF to.leaf THEN <<1>> \o KdtBits(to.to, dt.vdecide)
                        ELSE <<0>> \o KdtBits(start[to.to] - (start[k] + KdtForkEnd(dt, tree[k], i)),
                                              dt.qfields[tree[k].q + 1].jump)
      Node(k) == KdtNodeHead(dt, tree[k]) \o FlattenSeq([i \in DOMAIN tree[k].forks |-> Fork(k, i)])
  IN  FlattenSeq([k \in DOMAIN tree |-> Node(k)])
KdtBytes(bits) ==
  [i \in 1 .. (Len(bits) \div 8) + 4 |->
     FoldLeft(LAMBDA v, j : (2 * v) + (IF (8 * i) - 8 + j <= Len(bits) THEN bits[(8 * i) - 8 + j] ELSE 0),
              0, <<1, 2, 3, 4, 5, 6, 7, 8>>)]
-----------------------------------------------------------------------------
(***************************************************************************)
(* The properties.                                                         *)
(***************************************************************************)
KdtHolds(s, val) ==
  CASE s.type = 0 -> val = s.a
    [] s.type = 1 -> val \in {s.a, s.b}
    [] s.type = 2 -> val \in s.a .. s.a + s.b - 1
    [] s.type = 3 -> val \in s.a .. s.a + s.b - 1 /\ s.mask[val - s.a + 1] = 1
KdtForkOf(node, val) ==
  LET hits == {i \in DOMAIN node.subsets : KdtHolds(node.subsets[i], val)}
  IN  CASE node.type = 1 -> val + 1
        [] node.type = 2 -> IF val <= node.cut THEN 1 ELSE 2
        [] node.type = 3 -> IF hits = {} THEN Len(node.forks) ELSE Min(hits)
KdtDecision(tree, vec) ==
  LET From[k \in 1 .. Len(tree)] ==
        LET i == KdtForkOf(tree[k], vec[tree[k].q + 1])
        IN  CASE i \notin DOMAIN tree[k].forks -> KdtNone
              [] i \in DOMAIN tree[k].forks /\ tree[k].forks[i].leaf -> tree[k].forks[i].to
              [] OTHER -> From[tree[k].forks[i].to]
  IN  From[1]

\* The walk over the packed bits decides what the tree they were packed from says,
\* whatever the widths of the fields: no subset, mask, branch or jump puts it off by a
\* bit (kdt_jump, kdtGetShiftVal, kdtAskTree).
KdtDecides ==
  kdt.phase \in {"decided", "done"} \/ (kdt.phase = "failed" /\ kdt.vec.ok) =>
    LET class == KdtDecision(kdt.case.tree, kdt.vec.vec)
    IN  /\ kdt.dset <=> class # KdtNone
        /\ kdt.dset => kdt.dclass = class

\* The input of a word's tree is what the comments draw: of the first four and the last
\* six graphemes each one once, the last ones first; of the nine around a grapheme the
\* ones there are, then one mark for the end of the word, then nothing
\* (picokdt_dtPosPconstructInVec, picokdt_dtG2PconstructInVec).
KdtWindow ==
  LET graph == kdt.case.input.graph
      n == Len(graph)
      At(i) == LET p == kdt.case.input.nr + i - 5
               IN  CASE p \in 1 .. n -> graph[p] [] p \in {0, n + 1} -> KdtEow [] OTHER -> KdtOutside
      Drawn(i) == IF i <= 4 THEN IF n >= 6 + i THEN graph[i] ELSE KdtOutside
                  ELSE IF n - 10 + i >= 1 THEN graph[n - 10 + i] ELSE KdtOutside
  IN  kdt.vec.asked # <<>> /\ n > 0 =>
        kdt.vec.asked = IF kdt.case.kb.type = "PosP" THEN [i \in 1 .. 10 |-> Drawn(i)]
                        ELSE [i \in 1 .. 9 |-> At(i)]

\* A tree is asked about what its comments draw, and answers what it was built to answer.
KdtSound == KdtDecides /\ KdtWindow
=============================================================================
