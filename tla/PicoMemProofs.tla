--------------------------- MODULE PicoMemProofs ---------------------------
(***************************************************************************)
(* Theorems about PicoMem: the cells tile the block, the free list is      *)
(* linked both ways and holds each free cell once, free neighbours are     *)
(* merged, a request fails only if no free cell fits, and the manager      *)
(* implements PicoAlloc, for every size of block, header and alignment.    *)
(***************************************************************************)
EXTENDS PicoMem, PicoInduction, FiniteSetTheorems, TLAPS

\* Each field is a function on the cells.
HeadersOK ==
  /\ Cells \subseteq 0 .. Block /\ {cbeg, cend} \subseteq Cells
  /\ size \in [Cells -> Int]
  /\ leftCell = [c \in Cells |-> leftCell[c]]
  /\ nextFree = [c \in Cells |-> nextFree[c]]
  /\ prevFree = [c \in Cells |-> prevFree[c]]

\* The links of a used cell are gone.
Overwritten == \A c \in Used : nextFree[c] = Data /\ prevFree[c] = Data

\* The free list leads forward: there is an order that its links follow.
Forward(rank) ==
  /\ rank \in [Cells -> Nat]
  /\ \A c \in Free \cup {cbeg} : rank[c] < rank[nextFree[c]]

Acyclic == \E rank \in [Cells -> Nat] : Forward(rank)

HInv == HeadersOK /\ Overwritten /\ Tiled /\ Linked /\ Acyclic /\ Coalesced

-----------------------------------------------------------------------------
(* The sizes of cells. *)

\* A cell has room for a header and for what was asked for.
LEMMA CellSizeBounds ==
  ASSUME NEW b \in Requests
  PROVE  /\ CellSize(b) \in Nat
         /\ CellSize(b) >= fullCellHdrSize
         /\ CellSize(b) >= b + usedCellHdrSize
<1> USE MemAssumption
<1> DEFINE m == IF b < minContSize THEN minContSize ELSE b
           x == m + PICOOS_ALIGN_SIZE - 1
<1>1. m \in Nat /\ m >= minContSize /\ m >= b
  BY DEF minContSize
<1>2. \A y \in Nat, a \in Nat \ {0} :
        (y \div a) * a \in Nat /\ (y \div a) * a > y - a
  OBVIOUS
<1>3. x \in Nat
  BY <1>1
<1> HIDE DEF m
<1>4. (x \div PICOOS_ALIGN_SIZE) * PICOOS_ALIGN_SIZE >= m
  BY <1>1, <1>2, <1>3
<1>5. (x \div PICOOS_ALIGN_SIZE) * PICOOS_ALIGN_SIZE \in Nat
  BY <1>2, <1>3
<1>6. CellSize(b) = (x \div PICOOS_ALIGN_SIZE) * PICOOS_ALIGN_SIZE + usedCellHdrSize
  BY DEF CellSize, m
<1> DEFINE r == (x \div PICOOS_ALIGN_SIZE) * PICOOS_ALIGN_SIZE
<1> HIDE DEF x, r
<1>7. r \in Nat /\ r >= m /\ CellSize(b) = r + usedCellHdrSize
  BY <1>4, <1>5, <1>6 DEF r
<1> QED
  BY <1>1, <1>7 DEF minContSize

\* Addresses and sizes are numbers.
LEMMA Numbers ==
  ASSUME HeadersOK, Tiled, NEW c \in Cells
  PROVE  /\ c \in Nat /\ c <= cend /\ cend \in Nat
         /\ size[c] \in Int /\ Extent(c) \in Nat /\ Extent(c) >= fullCellHdrSize
         /\ Right(c) \in Nat /\ Right(c) > c
<1> USE MemAssumption
<1>1. c \in Nat /\ size[c] \in Int
  BY DEF HeadersOK
<1>2. Extent(c) >= fullCellHdrSize /\ c <= cend
  BY DEF Tiled
<1>3. Extent(c) \in Nat /\ cend \in Nat
  BY <1>1 DEF Extent, cend
<1> QED
  BY <1>1, <1>2, <1>3 DEF Right

\* Where a cell that is no sentinel lies.
LEMMA Middle ==
  ASSUME HeadersOK, Tiled, NEW c \in Cells, size[c] # 0
  PROVE  /\ c \in Nat /\ c > cbeg /\ c < cend
         /\ size[c] \in Int /\ Extent(c) \in Nat /\ Right(c) \in Nat
         /\ Right(c) \in Cells /\ Right(c) > c /\ Right(c) <= cend
         /\ leftCell[Right(c)] = c
         /\ leftCell[c] \in Cells /\ leftCell[c] < c /\ leftCell[c] # cend
         /\ Right(leftCell[c]) = c
<1> USE MemAssumption
<1>1. c # cbeg /\ c # cend
  BY DEF Tiled
<1>2. Right(c) \in Cells /\ leftCell[Right(c)] = c
  BY <1>1 DEF Tiled
<1>3. leftCell[c] \in Cells /\ Right(leftCell[c]) = c
  BY <1>1 DEF Tiled
<1>4. Right(c) <= cend /\ leftCell[c] < c /\ c < cend /\ c > cbeg
  BY <1>1, <1>2, <1>3, Numbers DEF cbeg
<1> QED
  BY <1>1, <1>2, <1>3, <1>4, Numbers

\* The neighbours of a free cell in the list.
LEMMA InList ==
  ASSUME HInv, NEW c \in Free
  PROVE  /\ c \in Cells /\ c # cbeg /\ c # cend /\ size[c] \in Nat /\ size[c] > 0
         /\ Extent(c) = size[c] /\ Right(c) = c + size[c]
         /\ nextFree[c] \in Cells /\ nextFree[c] # c /\ nextFree[c] # cbeg
         /\ nextFree[c] \in Free \cup {cend} /\ prevFree[nextFree[c]] = c
         /\ prevFree[c] \in Cells /\ prevFree[c] # c /\ prevFree[c] # cend
         /\ prevFree[c] \in Free \cup {cbeg} /\ nextFree[prevFree[c]] = c
         /\ cbeg # cend
<1> USE MemAssumption
<1>1. c \in Cells /\ c # cbeg /\ c # cend /\ size[c] \in Nat /\ size[c] > 0
  BY Numbers DEF HInv, Free, Tiled
<1>2. Extent(c) = size[c] /\ Right(c) = c + size[c]
  BY <1>1 DEF Extent, Right
<1>3. /\ nextFree[c] \in Free \cup {cend} /\ prevFree[nextFree[c]] = c
      /\ prevFree[c] \in Free \cup {cbeg} /\ nextFree[prevFree[c]] = c
  BY DEF HInv, Linked
<1>4. cbeg \in Cells /\ cend \in Cells /\ Free \subseteq Cells
  BY DEF HInv, HeadersOK, Free
<1>5. cbeg \notin Free /\ cend \notin Free /\ cbeg # cend
  BY Numbers, <1>4 DEF HInv, Free, Tiled, cbeg, cend
<1>6. PICK rank \in [Cells -> Nat] : Forward(rank)
  BY DEF HInv, Acyclic
<1>7. rank[c] < rank[nextFree[c]] /\ rank[prevFree[c]] < rank[nextFree[prevFree[c]]]
  BY <1>3, <1>6 DEF Forward
<1>8. rank[c] \in Nat /\ rank[nextFree[c]] \in Nat /\ rank[prevFree[c]] \in Nat
  BY <1>1, <1>3, <1>4
<1>9. nextFree[c] # c /\ prevFree[c] # c
  BY <1>3, <1>7, <1>8
<1> QED
  BY <1>1, <1>2, <1>3, <1>4, <1>5, <1>9

-----------------------------------------------------------------------------
(* What a step does to the tiling. *)

(***************************************************************************)
(* All cells between l and r are merged into l, or there is none and l is  *)
(* just taken or freed.                                                    *)
(***************************************************************************)
LEMMA Merged ==
  ASSUME HeadersOK, Tiled, NEW l \in Cells, NEW r \in Cells,
         l # cbeg, l < r,
         Cells' = Cells \ {x \in Cells : l < x /\ x < r},
         size'[l] = r - l \/ size'[l] = l - r,
         \A x \in Cells' \ {l} : size'[x] = size[x],
         leftCell'[r] = l,
         \A x \in Cells' \ {r} : leftCell'[x] = leftCell[x]
  PROVE  /\ Tiled'
         /\ Right(l)' = r
         /\ \A x \in Cells' \ {l} : Right(x)' = Right(x)
<1> USE MemAssumption
<1>1. /\ \A x \in Cells : x \in Nat /\ x <= cend /\ Extent(x) \in Nat /\ Right(x) \in Nat
                          /\ Right(x) > x /\ Extent(x) >= fullCellHdrSize /\ size[x] \in Int
      /\ cend \in Nat /\ fullCellHdrSize \in Nat /\ fullCellHdrSize > 0
  BY Numbers
<1>2. /\ \A x \in Cells : size[x] = 0 <=> x \in {cbeg, cend}
      /\ \A x \in Cells \ {cend} : Right(x) \in Cells /\ leftCell[Right(x)] = x
      /\ \A x \in Cells \ {cbeg} : leftCell[x] \in Cells /\ Right(leftCell[x]) = x
      /\ \A x, y \in Cells : x < y => Right(x) <= y
      /\ leftCell[cbeg] = NULL
  BY DEF Tiled
<1>3. l # cend /\ r # cbeg /\ r - l >= fullCellHdrSize /\ Right(l) <= r
  <2>1. Right(l) <= r
    BY <1>2
  <2> QED
    BY <2>1, <1>1 DEF Right, cbeg
<1>4. Extent(l)' = r - l /\ Right(l)' = r
  BY <1>1, <1>3 DEF Extent, Right
<1>5. \A x \in Cells' \ {l} : Extent(x)' = Extent(x) /\ Right(x)' = Right(x)
  BY DEF Extent, Right
<1>6. /\ l \in Cells' /\ r \in Cells' /\ cbeg \in Cells' /\ cend \in Cells'
      /\ Cells' \subseteq Cells
  BY <1>1, <1>3 DEF HeadersOK, cbeg
<1>7. (\A x \in Cells : size[x] = 0 <=> x \in {cbeg, cend})'
  BY <1>1, <1>2, <1>3, <1>6
<1>8. (\A x \in Cells : Extent(x) >= fullCellHdrSize)'
  BY <1>1, <1>3, <1>4, <1>5, <1>6
<1>9. (\A x \in Cells : x <= cend)'
  BY <1>1, <1>6
<1>10. (\A x \in Cells \ {cend} : Right(x) \in Cells /\ leftCell[Right(x)] = x)'
  <2>1. SUFFICES ASSUME NEW x \in Cells', x # cend
                 PROVE  (Right(x) \in Cells /\ leftCell[Right(x)] = x)'
    OBVIOUS
  <2>2. CASE x = l
    BY <2>2, <1>4, <1>6
  <2>3. CASE x # l
    <3>1. Right(x)' = Right(x) /\ Right(x) \in Cells /\ leftCell[Right(x)] = x
      BY <2>1, <2>3, <1>2, <1>5, <1>6
    <3>2. x < l \/ r <= x
      BY <2>1, <2>3, <1>1, <1>6
    <3>3. Right(x) <= l \/ r < Right(x)
      <4>1. CASE x < l
        BY <4>1, <2>1, <1>2, <1>6
      <4>2. CASE r <= x
        <5>1. x \in Nat /\ Right(x) \in Nat /\ r \in Nat /\ x < Right(x)
          BY <1>1, <1>6, <2>1
        <5> QED
          BY <4>2, <5>1
      <4> QED
        BY <3>2, <4>1, <4>2
    <3>4. Right(x) \in Cells' /\ Right(x) # r
      BY <3>1, <3>3, <1>1
    <3>5. leftCell'[Right(x)] = x
      BY <3>1, <3>4
    <3> QED
      BY <3>1, <3>4, <3>5
  <2> QED
    BY <2>2, <2>3
<1>11. (\A x \in Cells \ {cbeg} : leftCell[x] \in Cells /\ Right(leftCell[x]) = x)'
  <2>1. SUFFICES ASSUME NEW x \in Cells', x # cbeg
                 PROVE  (leftCell[x] \in Cells /\ Right(leftCell[x]) = x)'
    OBVIOUS
  <2>2. CASE x = r
    BY <2>2, <1>4, <1>6 DEF Right, Extent
  <2>3. CASE x # r
    <3>1. PICK y \in Cells : leftCell'[x] = y /\ Right(y) = x
      BY <2>1, <2>3, <1>2, <1>6
    <3>2. ~(l <= y /\ y < r)
      <4>1. SUFFICES ASSUME l <= y, y < r PROVE FALSE
        OBVIOUS
      <4>2. x <= r /\ l < x
        BY <4>1, <3>1, <1>1, <1>2
      <4>3. x \in Cells /\ x < r
        <5>1. x \in Nat /\ r \in Nat /\ x \in Cells
          BY <1>1, <1>6, <2>1
        <5> QED
          BY <4>2, <2>3, <5>1
      <4> QED
        BY <4>2, <4>3
    <3>3. y \in Cells' /\ y # l
      BY <3>1, <3>2, <1>1
    <3>4. Right(y)' = x
      BY <3>1, <3>3, <1>5
    <3> QED
      BY <3>1, <3>3, <3>4 DEF Right, Extent
  <2> QED
    BY <2>2, <2>3
<1>12. (\A x, y \in Cells : x < y => Right(x) <= y)'
  <2>1. SUFFICES ASSUME NEW x \in Cells', NEW y \in Cells', x < y
                 PROVE  Right(x)' <= y
    OBVIOUS
  <2>2. CASE x = l
    BY <2>1, <2>2, <1>1, <1>4, <1>6
  <2>3. CASE x # l
    BY <2>1, <2>3, <1>2, <1>5, <1>6
  <2> QED
    BY <2>2, <2>3
<1>13. (leftCell[cbeg] = NULL)'
  BY <1>2, <1>3, <1>6
<1> QED
  BY <1>4, <1>5, <1>7, <1>8, <1>9, <1>10, <1>11, <1>12, <1>13 DEF Tiled

-----------------------------------------------------------------------------
(* What a step does to the free list. *)

LEMMA ListFacts ==
  ASSUME HInv
  PROVE  /\ Free \subseteq Cells /\ cbeg \in Cells /\ cend \in Cells
         /\ cbeg \notin Free /\ cend \notin Free /\ cbeg # cend
         /\ nextFree[cend] = NULL /\ prevFree[cbeg] = NULL
         /\ \A x \in Free \cup {cbeg} : nextFree[x] \in Free \cup {cend} /\ prevFree[nextFree[x]] = x
         /\ \A x \in Free \cup {cend} : prevFree[x] \in Free \cup {cbeg} /\ nextFree[prevFree[x]] = x
<1> USE MemAssumption
<1>1. Free \subseteq Cells /\ cbeg \in Cells /\ cend \in Cells
  BY DEF HInv, HeadersOK, Free
<1>2. cbeg \notin Free /\ cend \notin Free /\ cbeg # cend
  BY <1>1, Numbers DEF HInv, Free, Tiled, cbeg, cend
<1> QED
  BY <1>1, <1>2 DEF HInv, Linked

\* Cell e takes the place of cell d.
LEMMA LinksReplaced ==
  ASSUME HInv, HeadersOK', NEW d \in Free, NEW e,
         e \notin (Free \ {d}) \cup {cbeg, cend},
         e # d,
         Free' = (Free \ {d}) \cup {e},
         nextFree'[e] = nextFree[d], nextFree'[prevFree[d]] = e,
         \A x \in (Free \cup {cbeg, cend}) \ {prevFree[d], d} : nextFree'[x] = nextFree[x],
         prevFree'[e] = prevFree[d], prevFree'[nextFree[d]] = e,
         \A x \in (Free \cup {cbeg, cend}) \ {nextFree[d], d} : prevFree'[x] = prevFree[x]
  PROVE  Linked' /\ Acyclic'
<1>1. PICK p \in Cells : p = prevFree[d]
  BY InList
<1>2. PICK q \in Cells : q = nextFree[d]
  BY InList
<1>3. /\ p \in Free \cup {cbeg} /\ q \in Free \cup {cend} /\ p # d /\ q # d
      /\ p # cend /\ q # cbeg /\ d # cbeg /\ d # cend /\ d \in Cells
      /\ nextFree[p] = d /\ prevFree[q] = d
  BY InList, <1>1, <1>2
<1>4. /\ nextFree'[e] = q /\ nextFree'[p] = e
      /\ \A x \in (Free \cup {cbeg, cend}) \ {p, d} : nextFree'[x] = nextFree[x]
      /\ prevFree'[e] = p /\ prevFree'[q] = e
      /\ \A x \in (Free \cup {cbeg, cend}) \ {q, d} : prevFree'[x] = prevFree[x]
  BY <1>1, <1>2
<1>5. Linked'
  <2>1. (nextFree[cend] = NULL /\ prevFree[cbeg] = NULL)'
    BY ListFacts, <1>3, <1>4
  <2>2. (\A x \in Free \cup {cbeg} :
          nextFree[x] \in Free \cup {cend} /\ prevFree[nextFree[x]] = x)'
    BY ListFacts, <1>3, <1>4
  <2>3. (\A x \in Free \cup {cend} :
          prevFree[x] \in Free \cup {cbeg} /\ nextFree[prevFree[x]] = x)'
    BY ListFacts, <1>3, <1>4
  <2> QED
    BY <2>1, <2>2, <2>3 DEF Linked
<1>6. Acyclic'
  <2>1. PICK rank \in [Cells -> Nat] : Forward(rank)
    BY DEF HInv, Acyclic
  <2>2. Cells' \subseteq Nat /\ Free' \subseteq Cells' /\ cbeg \in Cells' /\ cend \in Cells'
    BY MemAssumption DEF HeadersOK, Free
  <2> DEFINE rank2 == [x \in Cells' |-> IF x = e THEN rank[d] ELSE IF x \in Cells THEN rank[x] ELSE 0]
  <2>3. rank2 \in [Cells' -> Nat]
    BY <1>3
  <2>4. ASSUME NEW x \in Free' \cup {cbeg}
        PROVE  rank2[x] < rank2[nextFree'[x]]
    <3>1. rank[p] < rank[d] /\ rank[d] < rank[q]
      BY <2>1, <1>2, <1>3 DEF Forward
    <3>2. e \in Cells' /\ q \in Cells' /\ p \in Cells' /\ q # e /\ p # e
      BY <2>2, <1>3
    <3>3. CASE x = e
      BY <3>1, <3>2, <3>3, <1>4
    <3>4. CASE x = p
      BY <3>1, <3>2, <3>4, <1>4
    <3>5. CASE x \notin {e, p}
      <4>1. x \in Free \cup {cbeg} /\ x # d /\ x \in Cells /\ x \in Cells'
        BY <2>2, <2>4, <3>5, <1>3, ListFacts
      <4>2. nextFree'[x] = nextFree[x] /\ rank[x] < rank[nextFree[x]]
        BY <4>1, <3>5, <1>4, <2>1 DEF Forward
      <4>3. nextFree[x] \in Free \cup {cend} /\ nextFree[x] # d
        BY <4>1, <3>5, <1>1, ListFacts
      <4>4. nextFree[x] \in Cells /\ nextFree[x] \in Cells' /\ nextFree[x] # e
        BY <4>3, <2>2, ListFacts
      <4> QED
        BY <4>1, <4>2, <4>4, <3>5
    <3> QED
      BY <3>3, <3>4, <3>5
  <2> HIDE DEF rank2
  <2> QED
    BY <2>3, <2>4 DEF Acyclic, Forward
<1> QED
  BY <1>5, <1>6

\* Cell d leaves the list.
LEMMA LinksRemoved ==
  ASSUME HInv, HeadersOK', NEW d \in Free,
         Free' = Free \ {d},
         nextFree'[prevFree[d]] = nextFree[d],
         \A x \in (Free \cup {cbeg, cend}) \ {prevFree[d], d} : nextFree'[x] = nextFree[x],
         prevFree'[nextFree[d]] = prevFree[d],
         \A x \in (Free \cup {cbeg, cend}) \ {nextFree[d], d} : prevFree'[x] = prevFree[x]
  PROVE  Linked' /\ Acyclic'
<1>1. PICK p \in Cells : p = prevFree[d]
  BY InList
<1>2. PICK q \in Cells : q = nextFree[d]
  BY InList
<1>3. /\ p \in Free \cup {cbeg} /\ q \in Free \cup {cend} /\ p # d /\ q # d
      /\ p # cend /\ q # cbeg /\ d # cbeg /\ d # cend /\ d \in Cells
      /\ nextFree[p] = d /\ prevFree[q] = d
  BY InList, <1>1, <1>2
<1>4. /\ nextFree'[p] = q
      /\ \A x \in (Free \cup {cbeg, cend}) \ {p, d} : nextFree'[x] = nextFree[x]
      /\ prevFree'[q] = p
      /\ \A x \in (Free \cup {cbeg, cend}) \ {q, d} : prevFree'[x] = prevFree[x]
  BY <1>1, <1>2
<1>5. Linked'
  <2>1. (nextFree[cend] = NULL /\ prevFree[cbeg] = NULL)'
    BY ListFacts, <1>3, <1>4
  <2>2. (\A x \in Free \cup {cbeg} :
          nextFree[x] \in Free \cup {cend} /\ prevFree[nextFree[x]] = x)'
    BY ListFacts, <1>3, <1>4
  <2>3. (\A x \in Free \cup {cend} :
          prevFree[x] \in Free \cup {cbeg} /\ nextFree[prevFree[x]] = x)'
    BY ListFacts, <1>3, <1>4
  <2> QED
    BY <2>1, <2>2, <2>3 DEF Linked
<1>6. Acyclic'
  <2>1. PICK rank \in [Cells -> Nat] : Forward(rank)
    BY DEF HInv, Acyclic
  <2>2. Cells' \subseteq Nat /\ Free' \subseteq Cells' /\ cbeg \in Cells' /\ cend \in Cells'
    BY MemAssumption DEF HeadersOK, Free
  <2> DEFINE rank2 == [x \in Cells' |-> IF x \in Cells THEN rank[x] ELSE 0]
  <2>3. rank2 \in [Cells' -> Nat]
    OBVIOUS
  <2>4. ASSUME NEW x \in Free' \cup {cbeg}
        PROVE  rank2[x] < rank2[nextFree'[x]]
    <3>1. rank[p] < rank[d] /\ rank[d] < rank[q]
      BY <2>1, <1>2, <1>3 DEF Forward
    <3>2. q \in Cells' /\ p \in Cells' /\ rank[p] \in Nat /\ rank[d] \in Nat /\ rank[q] \in Nat
      BY <2>2, <1>3
    <3>3. CASE x = p
      BY <3>1, <3>2, <3>3, <1>4
    <3>4. CASE x # p
      <4>1. x \in Free \cup {cbeg} /\ x # d /\ x \in Cells /\ x \in Cells'
        BY <2>2, <2>4, <1>3, ListFacts
      <4>2. nextFree'[x] = nextFree[x] /\ rank[x] < rank[nextFree[x]]
        BY <4>1, <3>4, <1>4, <2>1 DEF Forward
      <4>3. nextFree[x] \in Free \cup {cend} /\ nextFree[x] # d
        BY <4>1, <3>4, <1>1, ListFacts
      <4>4. nextFree[x] \in Cells /\ nextFree[x] \in Cells'
        BY <4>3, <2>2, ListFacts, <1>3
      <4> QED
        BY <4>1, <4>2, <4>4
    <3> QED
      BY <3>3, <3>4
  <2> HIDE DEF rank2
  <2> QED
    BY <2>3, <2>4 DEF Acyclic, Forward
<1> QED
  BY <1>5, <1>6

\* The links stay as they are.
LEMMA LinksKept ==
  ASSUME HInv, HeadersOK', Free' = Free,
         \A x \in Free \cup {cbeg, cend} : nextFree'[x] = nextFree[x] /\ prevFree'[x] = prevFree[x]
  PROVE  Linked' /\ Acyclic'
<1>1. Linked'
  BY ListFacts DEF Linked
<1>2. Acyclic'
  <2>1. PICK rank \in [Cells -> Nat] : Forward(rank)
    BY DEF HInv, Acyclic
  <2>2. Cells' \subseteq Nat /\ Free' \subseteq Cells' /\ cbeg \in Cells' /\ cend \in Cells'
    BY MemAssumption DEF HeadersOK, Free
  <2> DEFINE rank2 == [x \in Cells' |-> IF x \in Cells THEN rank[x] ELSE 0]
  <2>3. rank2 \in [Cells' -> Nat]
    OBVIOUS
  <2>4. ASSUME NEW x \in Free' \cup {cbeg}
        PROVE  rank2[x] < rank2[nextFree'[x]]
    <3>1. x \in Cells /\ x \in Cells' /\ nextFree[x] \in Cells /\ nextFree[x] \in Cells'
      BY <2>2, ListFacts
    <3> QED
      BY <2>1, <3>1, ListFacts DEF Forward
  <2> HIDE DEF rank2
  <2> QED
    BY <2>3, <2>4 DEF Acyclic, Forward
<1> QED
  BY <1>1, <1>2

\* Cell d becomes the first of the list.
LEMMA LinksInserted ==
  ASSUME HInv, HeadersOK', NEW d,
         d \notin Free \cup {cbeg, cend},
         Free' = Free \cup {d},
         nextFree'[cbeg] = d, nextFree'[d] = nextFree[cbeg],
         \A x \in Free \cup {cend} : nextFree'[x] = nextFree[x],
         prevFree'[nextFree[cbeg]] = d, prevFree'[d] = cbeg,
         \A x \in (Free \cup {cbeg, cend}) \ {nextFree[cbeg]} : prevFree'[x] = prevFree[x]
  PROVE  Linked' /\ Acyclic'
<1>1. PICK q \in Free \cup {cend} : q = nextFree[cbeg]
  BY ListFacts
<1>2. /\ nextFree'[d] = q /\ prevFree'[q] = d /\ prevFree[q] = cbeg /\ q # cbeg /\ q # d
      /\ \A x \in (Free \cup {cbeg, cend}) \ {q} : prevFree'[x] = prevFree[x]
  BY <1>1, ListFacts
<1>3. Linked'
  <2>1. (nextFree[cend] = NULL /\ prevFree[cbeg] = NULL)'
    BY ListFacts, <1>2
  <2>2. (\A x \in Free \cup {cbeg} :
          nextFree[x] \in Free \cup {cend} /\ prevFree[nextFree[x]] = x)'
    BY ListFacts, <1>1, <1>2
  <2>3. (\A x \in Free \cup {cend} :
          prevFree[x] \in Free \cup {cbeg} /\ nextFree[prevFree[x]] = x)'
    BY ListFacts, <1>1, <1>2
  <2> QED
    BY <2>1, <2>2, <2>3 DEF Linked
<1>4. Acyclic'
  <2>1. PICK rank \in [Cells -> Nat] : Forward(rank)
    BY DEF HInv, Acyclic
  <2>2. Cells' \subseteq Nat /\ Free' \subseteq Cells' /\ cbeg \in Cells' /\ cend \in Cells'
    BY MemAssumption DEF HeadersOK, Free
  <2> DEFINE rank2 == [x \in Cells' |->
                         IF x = cbeg THEN 0
                         ELSE IF x = d THEN 1
                         ELSE IF x \in Cells THEN rank[x] + 2 ELSE 0]
  <2>3. rank2 \in [Cells' -> Nat]
    OBVIOUS
  <2>4. ASSUME NEW x \in Free' \cup {cbeg}
        PROVE  rank2[x] < rank2[nextFree'[x]]
    <3>1. d \in Cells' /\ q \in Cells' /\ q \in Cells /\ d # cbeg
      BY <2>2, <1>1, ListFacts
    <3>2. CASE x = cbeg
      BY <3>1, <3>2, <2>2
    <3>3. CASE x = d
      BY <3>1, <3>3, <1>2
    <3>4. CASE x \notin {cbeg, d}
      <4>1. x \in Free /\ x \in Cells /\ x \in Cells'
        BY <2>2, <2>4, <3>4, ListFacts
      <4>2. nextFree'[x] = nextFree[x] /\ rank[x] < rank[nextFree[x]]
        BY <4>1, <2>1 DEF Forward
      <4>3. nextFree[x] \in Cells /\ nextFree[x] \in Cells' /\ nextFree[x] \notin {cbeg, d}
        <5>1. nextFree[x] \in Free \cup {cend}
          BY <4>1, ListFacts
        <5> QED
          BY <5>1, <2>2, ListFacts
      <4> QED
        BY <4>1, <4>2, <4>3, <3>4
    <3> QED
      BY <3>2, <3>3, <3>4
  <2> HIDE DEF rank2
  <2> QED
    BY <2>3, <2>4 DEF Acyclic, Forward
<1> QED
  BY <1>3, <1>4

-----------------------------------------------------------------------------
(* picoos_allocate *)

LEMMA SplitKeeps ==
  ASSUME HInv, NEW c \in Free, NEW n \in Nat, n >= fullCellHdrSize,
         size[c] >= n + minCellSize, Split(c, n)
  PROVE  HInv' /\ Used' = Used \cup {c} /\ size'[c] = -n /\ \A x \in Used : size'[x] = size[x]
<1> USE MemAssumption
<1>a. PICK r \in Cells : r = Right(c)
  BY InList, Middle DEF HInv
<1>b. PICK p \in Cells : p = prevFree[c]
  BY InList
<1>c. PICK q \in Cells : q = nextFree[c]
  BY InList
<1> DEFINE c2 == c + n
<1>0. /\ c \in Cells /\ c \in Nat /\ size[c] \in Nat /\ c # cbeg /\ c # cend
      /\ r = c + size[c] /\ r <= cend /\ c > cbeg /\ c < cend
      /\ c2 \in Nat /\ c < c2 /\ c2 < r /\ cend \in Nat
      /\ size[c] - n \in Nat /\ size[c] - n >= fullCellHdrSize
      /\ r = c2 + (size[c] - n) /\ p # c /\ q # c /\ r # cbeg
  BY InList, Middle, Numbers, <1>a, <1>b, <1>c DEF HInv, minCellSize
<1>1. c2 \notin Cells
  <2>1. \A d \in Cells : c < d => r <= d
    BY <1>0, <1>a DEF HInv, Tiled
  <2> QED
    BY <2>1, <1>0, Numbers DEF HInv
<1>2. /\ Cells' = Cells \cup {c2}
      /\ size'[c] = -n /\ size'[c2] = size[c] - n
      /\ \A x \in Cells \ {c} : size'[x] = size[x]
      /\ size' \in [Cells' -> Int]
  <2>1. size' = With([size EXCEPT ![c] = -n], c2, size[c] - n)
    BY DEF Split
  <2>2. size \in [Cells -> Int]
    BY DEF HInv, HeadersOK
  <2> QED
    BY <2>1, <2>2, <1>0, <1>1 DEF With, Cells
<1>3. /\ leftCell' = [x \in Cells' |-> leftCell'[x]]
      /\ leftCell'[c2] = c /\ leftCell'[r] = c2
      /\ \A x \in Cells \ {r} : leftCell'[x] = leftCell[x]
  <2>1. leftCell' = With([leftCell EXCEPT ![r] = c2], c2, c)
    BY <1>a DEF Split
  <2>2. leftCell = [x \in Cells |-> leftCell[x]]
    BY DEF HInv, HeadersOK
  <2> HIDE DEF c2
  <2> QED
    BY <2>1, <2>2, <1>0, <1>1, <1>2 DEF With
<1>4. /\ nextFree' = [x \in Cells' |-> nextFree'[x]]
      /\ nextFree'[c2] = q /\ nextFree'[p] = c2 /\ nextFree'[c] = Data
      /\ \A x \in Cells \ {p, c} : nextFree'[x] = nextFree[x]
  <2>1. nextFree' = With([nextFree EXCEPT ![p] = c2, ![c] = Data], c2, q)
    BY <1>b, <1>c DEF Split
  <2>2. nextFree = [x \in Cells |-> nextFree[x]]
    BY DEF HInv, HeadersOK
  <2> HIDE DEF c2
  <2> QED
    BY <2>1, <2>2, <1>0, <1>1, <1>2 DEF With
<1>5. /\ prevFree' = [x \in Cells' |-> prevFree'[x]]
      /\ prevFree'[c2] = p /\ prevFree'[q] = c2 /\ prevFree'[c] = Data
      /\ \A x \in Cells \ {q, c} : prevFree'[x] = prevFree[x]
  <2>1. prevFree' = With([prevFree EXCEPT ![q] = c2, ![c] = Data], c2, p)
    BY <1>b, <1>c DEF Split
  <2>2. prevFree = [x \in Cells |-> prevFree[x]]
    BY DEF HInv, HeadersOK
  <2> HIDE DEF c2
  <2> QED
    BY <2>1, <2>2, <1>0, <1>1, <1>2 DEF With
<1> HIDE DEF c2
<1>6. HeadersOK'
  <2>1. c2 <= Block
    BY <1>0 DEF cend
  <2> QED
    BY <2>1, <1>0, <1>1, <1>2, <1>3, <1>4, <1>5 DEF HInv, HeadersOK
<1>7. /\ \A x \in Cells \ {c} : x \in Cells' /\ Extent(x)' = Extent(x) /\ Right(x)' = Right(x)
      /\ Extent(c)' = n /\ Right(c)' = c2
      /\ Extent(c2)' = size[c] - n /\ Right(c2)' = r
  BY <1>0, <1>2 DEF Extent, Right, c2
<1>8. Free' = (Free \ {c}) \cup {c2} /\ Used' = Used \cup {c}
  <2>1. size'[c2] > 0 /\ size'[c] < 0 /\ c2 # c /\ ~(size'[c] > 0) /\ ~(size'[c2] < 0) /\ ~(size[c] < 0)
    BY <1>0, <1>2
  <2>2. \A x \in Cells \cup {c2} :
          /\ size'[x] > 0 <=> x = c2 \/ (x \in Cells \ {c} /\ size[x] > 0)
          /\ size'[x] < 0 <=> x = c \/ (x \in Cells /\ size[x] < 0)
    BY <2>1, <1>0, <1>1, <1>2
  <2> QED
    BY <2>2, <1>0, <1>1, <1>2 DEF Free, Used
<1>9. /\ \A x \in Cells : size[x] = 0 <=> x \in {cbeg, cend}
      /\ \A x \in Cells : Extent(x) >= fullCellHdrSize /\ x <= cend
      /\ \A x \in Cells \ {cend} : Right(x) \in Cells /\ leftCell[Right(x)] = x
      /\ \A x \in Cells \ {cbeg} : leftCell[x] \in Cells /\ Right(leftCell[x]) = x
      /\ \A x, y \in Cells : x < y => Right(x) <= y
      /\ leftCell[cbeg] = NULL
  BY DEF HInv, Tiled
<1>10. Tiled'
  <2>1. (\A x \in Cells : size[x] = 0 <=> x \in {cbeg, cend})'
    BY <1>0, <1>1, <1>2, <1>9
  <2>2. (\A x \in Cells : Extent(x) >= fullCellHdrSize)' /\ (\A x \in Cells : x <= cend)'
    BY <1>0, <1>2, <1>7, <1>9
  <2>3. (\A x \in Cells \ {cend} : Right(x) \in Cells /\ leftCell[Right(x)] = x)'
    <3>1. \A x \in Cells \ {c, cend} : Right(x) # r /\ Right(x) # c2
      BY <1>9, <1>0, <1>1, <1>a
    <3>2. SUFFICES ASSUME NEW x \in Cells \cup {c2}, x # cend
                   PROVE  Right(x)' \in Cells' /\ leftCell'[Right(x)'] = x
      BY <1>2
    <3>3. CASE x \in {c, c2}
      BY <3>3, <1>0, <1>1, <1>2, <1>3, <1>7
    <3>4. CASE x \notin {c, c2}
      <4>1. Right(x)' = Right(x) /\ Right(x) \in Cells /\ Right(x) # r /\ leftCell[Right(x)] = x
        BY <3>1, <3>2, <3>4, <1>7, <1>9
      <4> QED
        BY <4>1, <1>2, <1>3
    <3> QED
      BY <3>3, <3>4
  <2>4. (\A x \in Cells \ {cbeg} : leftCell[x] \in Cells /\ Right(leftCell[x]) = x)'
    <3>1. \A x \in Cells \ {r, cbeg} : leftCell[x] # c
      BY <1>9, <1>0, <1>a
    <3>2. SUFFICES ASSUME NEW x \in Cells \cup {c2}, x # cbeg
                   PROVE  (leftCell[x] \in Cells /\ Right(leftCell[x]) = x)'
      BY <1>2
    <3>3. CASE x \in {r, c2}
      BY <3>3, <1>0, <1>1, <1>2, <1>3, <1>7 DEF Right, Extent
    <3>4. CASE x \notin {r, c2}
      <4>1. PICK y \in Cells \ {c} : leftCell'[x] = y /\ Right(y) = x
        BY <3>1, <3>2, <3>4, <1>3, <1>9
      <4>2. Right(y)' = x /\ y \in Cells'
        BY <4>1, <1>7
      <4> QED
        BY <4>1, <4>2 DEF Right, Extent
    <3> QED
      BY <3>3, <3>4
  <2>5. (\A x, y \in Cells : x < y => Right(x) <= y)'
    <3>1. SUFFICES ASSUME NEW x \in Cells \cup {c2}, NEW y \in Cells \cup {c2}, x < y
                   PROVE  Right(x)' <= y
      BY <1>2
    <3>2. \A z \in Cells : z \in Nat /\ Right(z) \in Nat
      BY Numbers DEF HInv
    <3>3. \A z \in Cells : c < z => r <= z
      BY <1>0, <1>9, <1>a
    <3>4. CASE x = c
      BY <3>1, <3>2, <3>3, <3>4, <1>0, <1>7
    <3>5. CASE x = c2
      <4>1. y \in Cells
        BY <3>1, <3>5, <1>0
      <4>2. c < y
        BY <3>1, <3>2, <3>5, <4>1, <1>0
      <4> QED
        BY <4>1, <4>2, <3>3, <3>5, <1>7
    <3>6. CASE x \notin {c, c2} /\ y \in Cells
      BY <3>1, <3>6, <1>7, <1>9
    <3>7. CASE x \notin {c, c2} /\ y = c2
      <4>1. x \in Cells /\ x < r /\ x # c
        BY <3>1, <3>7, <3>2, <1>0
      <4>2. x < c
        <5>1. CASE c < x
          BY <5>1, <4>1, <3>2, <3>3, <1>0
        <5> QED
          BY <5>1, <4>1, <3>2, <1>0
      <4> QED
        BY <4>1, <4>2, <3>2, <3>7, <1>0, <1>7, <1>9
    <3> QED
      BY <3>1, <3>4, <3>5, <3>6, <3>7
  <2>6. (leftCell[cbeg] = NULL)'
    BY <1>0, <1>1, <1>3, <1>9, ListFacts
  <2> QED
    BY <2>1, <2>2, <2>3, <2>4, <2>5, <2>6 DEF Tiled
<1>11. Linked' /\ Acyclic'
  <2>1. /\ c2 \notin (Free \ {c}) \cup {cbeg, cend} /\ c2 # c
    BY <1>0, <1>1, ListFacts
  <2>2. \A x \in (Free \cup {cbeg, cend}) \ {p, c} : nextFree'[x] = nextFree[x]
    BY <1>4, ListFacts
  <2>3. \A x \in (Free \cup {cbeg, cend}) \ {q, c} : prevFree'[x] = prevFree[x]
    BY <1>5, ListFacts
  <2> QED
    BY <2>1, <2>2, <2>3, <1>6, <1>8, <1>4, <1>5, <1>b, <1>c, LinksReplaced
<1>12. Coalesced'
  <2>1. r \notin Free
    BY <1>a DEF HInv, Coalesced
  <2>2. \A x \in Free : Right(x) \notin Free
    BY DEF HInv, Coalesced
  <2>3. \A x \in Free \ {c} : Right(x) # c2
    BY <1>1, <1>9, <1>0 DEF Free
  <2>4. SUFFICES ASSUME NEW x \in Free' PROVE Right(x)' \notin Free'
    BY DEF Coalesced
  <2>5. CASE x = c2
    BY <2>1, <2>5, <1>0, <1>7, <1>8
  <2>6. CASE x # c2
    <3>1. x \in Free \ {c} /\ x \in Cells
      BY <2>4, <2>6, <1>8 DEF Free
    <3> QED
      BY <3>1, <2>2, <2>3, <1>7, <1>8
  <2> QED
    BY <2>5, <2>6
<1>13. Overwritten'
  <2>1. \A x \in Used : x \in Cells /\ x \notin {p, q, c}
    BY <1>b, <1>c, InList, ListFacts DEF Used, Free, HInv, Tiled
  <2> QED
    BY <2>1, <1>4, <1>5, <1>8 DEF HInv, Overwritten
<1>14. \A x \in Used : size'[x] = size[x]
  BY <1>0, <1>2 DEF Used
<1> QED
  BY <1>2, <1>6, <1>8, <1>10, <1>11, <1>12, <1>13, <1>14 DEF HInv

LEMMA TakeKeeps ==
  ASSUME HInv, NEW c \in Free, TakeWhole(c)
  PROVE  HInv' /\ Used' = Used \cup {c} /\ size'[c] = -size[c] /\ \A x \in Used : size'[x] = size[x]
<1> USE MemAssumption
<1>a. PICK r \in Cells : r = Right(c)
  BY InList, Middle DEF HInv
<1>b. PICK p \in Cells : p = prevFree[c]
  BY InList
<1>c. PICK q \in Cells : q = nextFree[c]
  BY InList
<1>0. /\ c \in Cells /\ c \in Nat /\ size[c] \in Nat /\ size[c] > 0 /\ c # cbeg
      /\ r = c + size[c] /\ c < r /\ p # c /\ q # c
  BY InList, Middle, <1>a, <1>b, <1>c DEF HInv
<1>1. /\ size' = [size EXCEPT ![c] = -size[c]]
      /\ leftCell' = leftCell
      /\ nextFree' = [nextFree EXCEPT ![p] = q, ![c] = Data]
      /\ prevFree' = [prevFree EXCEPT ![q] = p, ![c] = Data]
  BY <1>b, <1>c DEF TakeWhole
<1>2. /\ size \in [Cells -> Int]
      /\ leftCell = [x \in Cells |-> leftCell[x]]
      /\ nextFree = [x \in Cells |-> nextFree[x]]
      /\ prevFree = [x \in Cells |-> prevFree[x]]
  BY DEF HInv, HeadersOK
<1>3. /\ Cells' = Cells
      /\ size' \in [Cells -> Int] /\ size'[c] = -size[c]
      /\ \A x \in Cells \ {c} : size'[x] = size[x]
  BY <1>0, <1>1, <1>2 DEF Cells
<1>4. /\ nextFree' = [x \in Cells |-> nextFree'[x]]
      /\ nextFree'[p] = q /\ nextFree'[c] = Data
      /\ \A x \in Cells \ {p, c} : nextFree'[x] = nextFree[x]
  BY <1>0, <1>1, <1>2
<1>5. /\ prevFree' = [x \in Cells |-> prevFree'[x]]
      /\ prevFree'[q] = p /\ prevFree'[c] = Data
      /\ \A x \in Cells \ {q, c} : prevFree'[x] = prevFree[x]
  BY <1>0, <1>1, <1>2
<1>6. HeadersOK'
  BY <1>1, <1>2, <1>3, <1>4, <1>5 DEF HInv, HeadersOK
<1>7. Free' = Free \ {c} /\ Used' = Used \cup {c}
  <2>1. ~(size'[c] > 0) /\ size'[c] < 0 /\ ~(size[c] < 0)
    BY <1>0, <1>3
  <2>2. \A x \in Cells : /\ size'[x] > 0 <=> x # c /\ size[x] > 0
                         /\ size'[x] < 0 <=> x = c \/ size[x] < 0
    BY <2>1, <1>3
  <2> QED
    BY <2>2, <1>0, <1>3 DEF Free, Used
<1>8. {x \in Cells : c < x /\ x < r} = {}
  <2>1. \A x \in Cells : c < x => r <= x
    BY <1>0, <1>a DEF HInv, Tiled
  <2>2. r \in Nat /\ \A x \in Cells : x \in Nat
    BY Numbers DEF HInv
  <2>3. \A x \in Cells : ~(c < x /\ x < r)
    BY <2>1, <2>2, <1>0
  <2> QED
    BY <2>3
<1>9. Tiled' /\ \A x \in Cells' \ {c} : Right(x)' = Right(x)
  <2>1. Cells' = Cells \ {x \in Cells : c < x /\ x < r}
    BY <1>3, <1>8
  <2>2. size'[c] = r - c \/ size'[c] = c - r
    BY <1>0, <1>3
  <2>3. leftCell'[r] = c
    BY <1>0, <1>1, <1>a, Middle DEF HInv
  <2> QED
    BY <2>1, <2>2, <2>3, <1>0, <1>1, <1>3, Merged DEF HInv
<1>10. Linked' /\ Acyclic'
  <2>1. /\ \A x \in (Free \cup {cbeg, cend}) \ {p, c} : nextFree'[x] = nextFree[x]
        /\ \A x \in (Free \cup {cbeg, cend}) \ {q, c} : prevFree'[x] = prevFree[x]
    BY <1>4, <1>5, ListFacts
  <2> QED
    BY <2>1, <1>4, <1>5, <1>6, <1>7, <1>b, <1>c, LinksRemoved
<1>11. Coalesced'
  <2>1. \A x \in Free \ {c} : Right(x)' = Right(x) /\ Right(x) \notin Free
    BY <1>3, <1>9 DEF HInv, Coalesced, Free
  <2> QED
    BY <2>1, <1>7 DEF Coalesced
<1>12. Overwritten'
  <2>1. \A x \in Used : x \in Cells /\ x \notin {p, q, c}
    BY <1>b, <1>c, InList, ListFacts DEF Used, Free, HInv, Tiled
  <2> QED
    BY <2>1, <1>4, <1>5, <1>7 DEF HInv, Overwritten
<1>13. \A x \in Used : size'[x] = size[x]
  BY <1>0, <1>3 DEF Used
<1> QED
  BY <1>3, <1>6, <1>7, <1>9, <1>10, <1>11, <1>12, <1>13 DEF HInv

-----------------------------------------------------------------------------
(* picoos_deallocate *)

\* The neighbours of a used cell.
LEMMA Neighbours ==
  ASSUME HInv, NEW c \in Used
  PROVE  /\ c \in Cells /\ c # cbeg /\ c # cend /\ c \notin Free /\ c \in Nat
         /\ size[c] \in Int /\ size[c] < 0
         /\ leftCell[c] \in Cells /\ leftCell[c] # cend /\ leftCell[c] \in Nat
         /\ leftCell[c] < c /\ Right(leftCell[c]) = c
         /\ Right(c) \in Cells /\ Right(c) # cbeg /\ Right(c) = c - size[c] /\ c < Right(c)
         /\ leftCell[Right(c)] = c
<1>1. c \in Cells /\ size[c] \in Int /\ size[c] < 0 /\ size[c] # 0 /\ c \notin Free
  BY Numbers DEF HInv, Used, Free
<1>2. Extent(c) = -size[c] /\ Right(c) = c - size[c]
  BY <1>1, Middle DEF HInv, Extent, Right
<1> QED
  BY <1>1, <1>2, Middle, Numbers DEF HInv, cbeg

LEMMA MergeBothKeeps ==
  ASSUME HInv, NEW c \in Used, leftCell[c] \in Free, Right(c) \in Free, MergeBoth(c)
  PROVE  HInv' /\ Used' = Used \ {c} /\ \A x \in Used' : size'[x] = size[x]
<1> USE MemAssumption
<1>a. PICK cl \in Free : cl = leftCell[c]
  OBVIOUS
<1>b. PICK cr \in Free : cr = Right(c)
  OBVIOUS
<1>c. PICK r \in Cells : r = Right(cr)
  BY InList, Middle DEF HInv
<1>d. PICK p \in Cells : p = prevFree[cr]
  BY InList
<1>e. PICK q \in Cells : q = nextFree[cr]
  BY InList
<1>0. /\ c \in Cells /\ c \notin Free /\ c \in Nat /\ size[c] \in Int /\ size[c] < 0
      /\ cl \in Cells /\ cl # cbeg /\ cl # cend /\ cl \in Nat /\ size[cl] \in Nat /\ size[cl] > 0
      /\ cr \in Cells /\ cr # cbeg /\ cr # cend /\ cr \in Nat /\ size[cr] \in Nat /\ size[cr] > 0
      /\ c = cl + size[cl] /\ cr = c - size[c] /\ r = cr + size[cr]
      /\ p \notin {c, cr} /\ q \notin {c, cr} /\ c \notin {cbeg, cend}
  BY InList, Neighbours, Numbers, <1>a, <1>b, <1>c, <1>d, <1>e DEF HInv
<1>1. /\ size' = Without([size EXCEPT ![cl] = size[cl] - size[c] + size[cr]], {c, cr})
      /\ leftCell' = Without([leftCell EXCEPT ![r] = cl], {c, cr})
      /\ nextFree' = Without([nextFree EXCEPT ![p] = q], {c, cr})
      /\ prevFree' = Without([prevFree EXCEPT ![q] = p], {c, cr})
  BY <1>a, <1>b, <1>c, <1>d, <1>e DEF MergeBoth
<1>2. /\ size \in [Cells -> Int]
      /\ leftCell = [x \in Cells |-> leftCell[x]]
      /\ nextFree = [x \in Cells |-> nextFree[x]]
      /\ prevFree = [x \in Cells |-> prevFree[x]]
  BY DEF HInv, HeadersOK
<1>3. /\ Cells' = Cells \ {c, cr}
      /\ size' \in [Cells' -> Int] /\ size'[cl] = size[cl] - size[c] + size[cr]
      /\ \A x \in Cells' \ {cl} : size'[x] = size[x]
  BY <1>0, <1>1, <1>2 DEF Cells, Without, Restrict
<1>4. /\ leftCell' = [x \in Cells' |-> leftCell'[x]]
      /\ leftCell'[r] = cl
      /\ \A x \in Cells' \ {r} : leftCell'[x] = leftCell[x]
  BY <1>0, <1>1, <1>2, <1>3 DEF Without, Restrict
<1>5. /\ nextFree' = [x \in Cells' |-> nextFree'[x]]
      /\ nextFree'[p] = q
      /\ \A x \in Cells' \ {p} : nextFree'[x] = nextFree[x]
  BY <1>0, <1>1, <1>2, <1>3 DEF Without, Restrict
<1>6. /\ prevFree' = [x \in Cells' |-> prevFree'[x]]
      /\ prevFree'[q] = p
      /\ \A x \in Cells' \ {q} : prevFree'[x] = prevFree[x]
  BY <1>0, <1>1, <1>2, <1>3 DEF Without, Restrict
<1>7. HeadersOK'
  BY <1>0, <1>3, <1>4, <1>5, <1>6 DEF HInv, HeadersOK
<1>8. Free' = Free \ {cr} /\ Used' = Used \ {c}
  <2>1. size'[cl] > 0 /\ ~(size'[cl] < 0) /\ size[cl] > 0 /\ ~(size[cl] < 0) /\ ~(size[cr] < 0)
    BY <1>0, <1>3
  <2>2. \A x \in Cells' : (size'[x] > 0 <=> size[x] > 0) /\ (size'[x] < 0 <=> size[x] < 0)
    BY <2>1, <1>3
  <2> QED
    BY <2>1, <2>2, <1>0, <1>3 DEF Free, Used
<1>9. {x \in Cells : cl < x /\ x < r} = {c, cr}
  <2>1. \A x, y \in Cells : x < y => Right(x) <= y
    BY DEF HInv, Tiled
  <2>2. Right(cl) = c
    BY <1>a, Neighbours
  <2>3. /\ cl < c /\ c < cr /\ cr < r /\ \A x \in Cells : x \in Nat
    BY <1>0, Numbers DEF HInv
  <2>4. ASSUME NEW x \in Cells
        PROVE  /\ cl < x => c <= x
               /\ c < x => cr <= x
               /\ cr < x => r <= x
    BY <2>1, <2>2, <1>0, <1>b, <1>c
  <2>5. \A x \in Cells : cl < x /\ x < r <=> x \in {c, cr}
    BY <2>3, <2>4, <1>0
  <2> QED
    BY <2>5, <1>0
<1>10. Tiled' /\ Right(cl)' = r /\ \A x \in Cells' \ {cl} : Right(x)' = Right(x)
  <2>1. Cells' = Cells \ {x \in Cells : cl < x /\ x < r}
    BY <1>3, <1>9
  <2>2. size'[cl] = r - cl /\ cl < r
    BY <1>0, <1>3
  <2> QED
    BY <2>1, <2>2, <1>0, <1>3, <1>4, Merged DEF HInv
<1>11. Linked' /\ Acyclic'
  <2>1. /\ \A x \in (Free \cup {cbeg, cend}) \ {p, cr} : nextFree'[x] = nextFree[x]
        /\ \A x \in (Free \cup {cbeg, cend}) \ {q, cr} : prevFree'[x] = prevFree[x]
    BY <1>0, <1>3, <1>5, <1>6, ListFacts
  <2> QED
    BY <2>1, <1>5, <1>6, <1>7, <1>8, <1>d, <1>e, LinksRemoved
<1>12. Coalesced'
  <2>1. SUFFICES ASSUME NEW x \in Free' PROVE Right(x)' \notin Free'
    BY DEF Coalesced
  <2>2. \A y \in Free : Right(y) \notin Free
    BY DEF HInv, Coalesced
  <2>3. CASE x = cl
    BY <2>2, <2>3, <1>8, <1>10, <1>c
  <2>4. CASE x # cl
    <3>1. x \in Cells' \ {cl} /\ x \in Free
      BY <2>1, <2>4, <1>8 DEF Free
    <3> QED
      BY <3>1, <2>2, <1>8, <1>10
  <2> QED
    BY <2>3, <2>4
<1>13. Overwritten'
  <2>1. p \notin Used /\ q \notin Used
    BY <1>d, <1>e, InList, ListFacts DEF Used, Free, HInv, Tiled
  <2>2. Used' \subseteq Cells' /\ Used' \subseteq Used
    BY <1>8 DEF Used
  <2> QED
    BY <2>1, <2>2, <1>5, <1>6 DEF HInv, Overwritten
<1>14. \A x \in Used' : size'[x] = size[x]
  <2>1. cl \notin Used'
    BY <1>0, <1>8 DEF Used
  <2> QED
    BY <2>1, <1>3 DEF Used
<1> QED
  BY <1>7, <1>8, <1>10, <1>11, <1>12, <1>13, <1>14 DEF HInv

LEMMA MergeLeftKeeps ==
  ASSUME HInv, NEW c \in Used, leftCell[c] \in Free, Right(c) \notin Free, MergeLeft(c)
  PROVE  HInv' /\ Used' = Used \ {c} /\ \A x \in Used' : size'[x] = size[x]
<1> USE MemAssumption
<1>a. PICK cl \in Free : cl = leftCell[c]
  OBVIOUS
<1>b. PICK r \in Cells : r = Right(c)
  BY Neighbours
<1>0. /\ c \in Cells /\ c \notin Free /\ c \in Nat /\ size[c] \in Int /\ size[c] < 0
      /\ cl \in Cells /\ cl # cbeg /\ cl \in Nat /\ size[cl] \in Nat /\ size[cl] > 0
      /\ c = cl + size[cl] /\ r = c - size[c] /\ r # c /\ cl # c /\ c \notin {cbeg, cend}
  BY InList, Neighbours, Numbers, <1>a, <1>b DEF HInv
<1>1. /\ size' = Without([size EXCEPT ![cl] = size[cl] - size[c]], {c})
      /\ leftCell' = Without([leftCell EXCEPT ![r] = cl], {c})
      /\ nextFree' = Without(nextFree, {c})
      /\ prevFree' = Without(prevFree, {c})
  BY <1>a, <1>b DEF MergeLeft
<1>2. /\ size \in [Cells -> Int]
      /\ leftCell = [x \in Cells |-> leftCell[x]]
      /\ nextFree = [x \in Cells |-> nextFree[x]]
      /\ prevFree = [x \in Cells |-> prevFree[x]]
  BY DEF HInv, HeadersOK
<1>3. /\ Cells' = Cells \ {c}
      /\ size' \in [Cells' -> Int] /\ size'[cl] = size[cl] - size[c]
      /\ \A x \in Cells' \ {cl} : size'[x] = size[x]
  BY <1>0, <1>1, <1>2 DEF Cells, Without, Restrict
<1>4. /\ leftCell' = [x \in Cells' |-> leftCell'[x]]
      /\ leftCell'[r] = cl
      /\ \A x \in Cells' \ {r} : leftCell'[x] = leftCell[x]
  BY <1>0, <1>1, <1>2, <1>3 DEF Without, Restrict
<1>5. /\ nextFree' = [x \in Cells' |-> nextFree'[x]]
      /\ \A x \in Cells' : nextFree'[x] = nextFree[x]
  BY <1>0, <1>1, <1>2, <1>3 DEF Without, Restrict
<1>6. /\ prevFree' = [x \in Cells' |-> prevFree'[x]]
      /\ \A x \in Cells' : prevFree'[x] = prevFree[x]
  BY <1>0, <1>1, <1>2, <1>3 DEF Without, Restrict
<1>7. HeadersOK'
  BY <1>0, <1>3, <1>4, <1>5, <1>6 DEF HInv, HeadersOK
<1>8. Free' = Free /\ Used' = Used \ {c}
  <2>1. size'[cl] > 0 /\ ~(size'[cl] < 0) /\ size[cl] > 0 /\ ~(size[cl] < 0) /\ ~(size[c] > 0)
    BY <1>0, <1>3
  <2>2. \A x \in Cells' : (size'[x] > 0 <=> size[x] > 0) /\ (size'[x] < 0 <=> size[x] < 0)
    BY <2>1, <1>3
  <2> QED
    BY <2>1, <2>2, <1>0, <1>3 DEF Free, Used
<1>9. {x \in Cells : cl < x /\ x < r} = {c}
  <2>1. \A x, y \in Cells : x < y => Right(x) <= y
    BY DEF HInv, Tiled
  <2>2. Right(cl) = c
    BY <1>a, Neighbours
  <2>3. /\ cl < c /\ c < r /\ \A x \in Cells : x \in Nat
    BY <1>0, Numbers DEF HInv
  <2>4. ASSUME NEW x \in Cells
        PROVE  (cl < x => c <= x) /\ (c < x => r <= x)
    BY <2>1, <2>2, <1>0, <1>b
  <2>5. \A x \in Cells : cl < x /\ x < r <=> x \in {c}
    BY <2>3, <2>4, <1>0
  <2> QED
    BY <2>5, <1>0
<1>10. Tiled' /\ Right(cl)' = r /\ \A x \in Cells' \ {cl} : Right(x)' = Right(x)
  <2>1. Cells' = Cells \ {x \in Cells : cl < x /\ x < r}
    BY <1>3, <1>9
  <2>2. size'[cl] = r - cl /\ cl < r
    BY <1>0, <1>3
  <2> QED
    BY <2>1, <2>2, <1>0, <1>3, <1>4, Merged DEF HInv
<1>11. Linked' /\ Acyclic'
  <2>1. \A x \in Free \cup {cbeg, cend} : nextFree'[x] = nextFree[x] /\ prevFree'[x] = prevFree[x]
    BY <1>0, <1>3, <1>5, <1>6, ListFacts
  <2> QED
    BY <2>1, <1>7, <1>8, LinksKept
<1>12. Coalesced'
  <2>1. SUFFICES ASSUME NEW x \in Free' PROVE Right(x)' \notin Free'
    BY DEF Coalesced
  <2>2. CASE x = cl
    BY <2>2, <1>8, <1>10, <1>b
  <2>3. CASE x # cl
    <3>1. x \in Cells' \ {cl} /\ x \in Free
      BY <2>1, <2>3, <1>8 DEF Free
    <3> QED
      BY <3>1, <1>8, <1>10 DEF HInv, Coalesced
  <2> QED
    BY <2>2, <2>3
<1>13. Overwritten'
  <2>1. Used' \subseteq Cells' /\ Used' \subseteq Used
    BY <1>8 DEF Used
  <2> QED
    BY <2>1, <1>5, <1>6 DEF HInv, Overwritten
<1>14. \A x \in Used' : size'[x] = size[x]
  <2>1. cl \notin Used'
    BY <1>0, <1>8 DEF Used
  <2> QED
    BY <2>1, <1>3 DEF Used
<1> QED
  BY <1>7, <1>8, <1>10, <1>11, <1>12, <1>13, <1>14 DEF HInv

LEMMA MergeRightKeeps ==
  ASSUME HInv, NEW c \in Used, leftCell[c] \notin Free, Right(c) \in Free, MergeRight(c)
  PROVE  HInv' /\ Used' = Used \ {c} /\ \A x \in Used' : size'[x] = size[x]
<1> USE MemAssumption
<1>b. PICK cr \in Free : cr = Right(c)
  OBVIOUS
<1>c. PICK r \in Cells : r = Right(cr)
  BY InList, Middle DEF HInv
<1>d. PICK p \in Cells : p = prevFree[cr]
  BY InList
<1>e. PICK q \in Cells : q = nextFree[cr]
  BY InList
<1>0. /\ c \in Cells /\ c \notin Free /\ c \in Nat /\ size[c] \in Int /\ size[c] < 0
      /\ cr \in Cells /\ cr # cbeg /\ cr # cend /\ cr \in Nat /\ size[cr] \in Nat /\ size[cr] > 0
      /\ cr = c - size[c] /\ r = cr + size[cr] /\ r # cr
      /\ c \notin {cbeg, cend} /\ p # cr /\ q # cr /\ c # cr
  BY InList, Neighbours, Numbers, <1>b, <1>c, <1>d, <1>e DEF HInv
<1>f. p # c /\ q # c
  BY <1>0, <1>d, <1>e, InList
<1>1. /\ size' = Without([size EXCEPT ![c] = size[cr] - size[c]], {cr})
      /\ leftCell' = Without([leftCell EXCEPT ![r] = c], {cr})
      /\ nextFree' = Without([nextFree EXCEPT ![p] = c, ![c] = q], {cr})
      /\ prevFree' = Without([prevFree EXCEPT ![q] = c, ![c] = p], {cr})
  BY <1>b, <1>c, <1>d, <1>e DEF MergeRight
<1>2. /\ size \in [Cells -> Int]
      /\ leftCell = [x \in Cells |-> leftCell[x]]
      /\ nextFree = [x \in Cells |-> nextFree[x]]
      /\ prevFree = [x \in Cells |-> prevFree[x]]
  BY DEF HInv, HeadersOK
<1>3. /\ Cells' = Cells \ {cr}
      /\ size' \in [Cells' -> Int] /\ size'[c] = size[cr] - size[c]
      /\ \A x \in Cells' \ {c} : size'[x] = size[x]
  BY <1>0, <1>1, <1>2 DEF Cells, Without, Restrict
<1>4. /\ leftCell' = [x \in Cells' |-> leftCell'[x]]
      /\ leftCell'[r] = c
      /\ \A x \in Cells' \ {r} : leftCell'[x] = leftCell[x]
  BY <1>0, <1>1, <1>2, <1>3 DEF Without, Restrict
<1>5. /\ nextFree' = [x \in Cells' |-> nextFree'[x]]
      /\ nextFree'[p] = c /\ nextFree'[c] = q
      /\ \A x \in Cells' \ {p, c} : nextFree'[x] = nextFree[x]
  BY <1>0, <1>f, <1>1, <1>2, <1>3 DEF Without, Restrict
<1>6. /\ prevFree' = [x \in Cells' |-> prevFree'[x]]
      /\ prevFree'[q] = c /\ prevFree'[c] = p
      /\ \A x \in Cells' \ {q, c} : prevFree'[x] = prevFree[x]
  BY <1>0, <1>f, <1>1, <1>2, <1>3 DEF Without, Restrict
<1>7. HeadersOK'
  BY <1>0, <1>3, <1>4, <1>5, <1>6 DEF HInv, HeadersOK
<1>8. Free' = (Free \ {cr}) \cup {c} /\ Used' = Used \ {c}
  <2>1. size'[c] > 0 /\ ~(size'[c] < 0) /\ ~(size[cr] < 0)
    BY <1>0, <1>3
  <2>2. \A x \in Cells' : /\ size'[x] > 0 <=> x = c \/ size[x] > 0
                          /\ size'[x] < 0 <=> x # c /\ size[x] < 0
    BY <2>1, <1>3
  <2> QED
    BY <2>1, <2>2, <1>0, <1>3 DEF Free, Used
<1>9. {x \in Cells : c < x /\ x < r} = {cr}
  <2>1. \A x, y \in Cells : x < y => Right(x) <= y
    BY DEF HInv, Tiled
  <2>2. /\ c < cr /\ cr < r /\ \A x \in Cells : x \in Nat
    BY <1>0, Numbers DEF HInv
  <2>3. ASSUME NEW x \in Cells
        PROVE  (c < x => cr <= x) /\ (cr < x => r <= x)
    BY <2>1, <1>0, <1>b, <1>c
  <2>4. \A x \in Cells : c < x /\ x < r <=> x \in {cr}
    BY <2>2, <2>3, <1>0
  <2> QED
    BY <2>4, <1>0
<1>10. Tiled' /\ Right(c)' = r /\ \A x \in Cells' \ {c} : Right(x)' = Right(x)
  <2>1. Cells' = Cells \ {x \in Cells : c < x /\ x < r}
    BY <1>3, <1>9
  <2>2. size'[c] = r - c /\ c < r
    BY <1>0, <1>3
  <2> QED
    BY <2>1, <2>2, <1>0, <1>3, <1>4, Merged DEF HInv
<1>11. Linked' /\ Acyclic'
  <2>1. /\ \A x \in (Free \cup {cbeg, cend}) \ {p, cr} : nextFree'[x] = nextFree[x]
        /\ \A x \in (Free \cup {cbeg, cend}) \ {q, cr} : prevFree'[x] = prevFree[x]
    BY <1>0, <1>3, <1>5, <1>6, ListFacts
  <2>2. c \notin (Free \ {cr}) \cup {cbeg, cend} /\ c # cr
    BY <1>0
  <2> QED
    BY <2>1, <2>2, <1>5, <1>6, <1>7, <1>8, <1>d, <1>e, LinksReplaced
<1>12. Coalesced'
  <2>1. SUFFICES ASSUME NEW x \in Free' PROVE Right(x)' \notin Free'
    BY DEF Coalesced
  <2>2. \A y \in Free : Right(y) \notin Free
    BY DEF HInv, Coalesced
  <2>3. CASE x = c
    BY <2>2, <2>3, <1>0, <1>8, <1>10, <1>c
  <2>4. CASE x # c
    <3>1. x \in Cells' \ {c} /\ x \in Free /\ x # cend
      BY <2>1, <2>4, <1>8, ListFacts DEF Free
    <3>2. Right(x) # c
      BY <3>1, InList, Middle DEF HInv
    <3> QED
      BY <3>1, <3>2, <2>2, <1>8, <1>10
  <2> QED
    BY <2>3, <2>4
<1>13. Overwritten'
  <2>1. p \notin Used /\ q \notin Used
    BY <1>d, <1>e, InList, ListFacts DEF Used, Free, HInv, Tiled
  <2>2. Used' \subseteq Cells' /\ Used' \subseteq Used /\ c \notin Used'
    BY <1>8 DEF Used
  <2> QED
    BY <2>1, <2>2, <1>5, <1>6 DEF HInv, Overwritten
<1>14. \A x \in Used' : size'[x] = size[x]
  BY <1>3, <1>8 DEF Used
<1> QED
  BY <1>7, <1>8, <1>10, <1>11, <1>12, <1>13, <1>14 DEF HInv

LEMMA LinkKeeps ==
  ASSUME HInv, NEW c \in Used, leftCell[c] \notin Free, Right(c) \notin Free, Link(c)
  PROVE  HInv' /\ Used' = Used \ {c} /\ \A x \in Used' : size'[x] = size[x]
<1> USE MemAssumption
<1>a. PICK r \in Cells : r = Right(c)
  BY Neighbours
<1>b. PICK q \in Free \cup {cend} : q = nextFree[cbeg]
  BY ListFacts
<1>0. /\ c \in Cells /\ c \notin Free /\ c \in Nat /\ size[c] \in Int /\ size[c] < 0
      /\ r = c - size[c] /\ c # cbeg /\ c # cend /\ q # c /\ q # cbeg /\ q \in Cells
      /\ cbeg \in Cells /\ leftCell[r] = c
  BY Neighbours, ListFacts, <1>a, <1>b
<1>1. /\ size' = [size EXCEPT ![c] = -size[c]]
      /\ leftCell' = leftCell
      /\ nextFree' = [nextFree EXCEPT ![cbeg] = c, ![c] = q]
      /\ prevFree' = [prevFree EXCEPT ![q] = c, ![c] = cbeg]
  BY <1>b DEF Link
<1>2. /\ size \in [Cells -> Int]
      /\ leftCell = [x \in Cells |-> leftCell[x]]
      /\ nextFree = [x \in Cells |-> nextFree[x]]
      /\ prevFree = [x \in Cells |-> prevFree[x]]
  BY DEF HInv, HeadersOK
<1>3. /\ Cells' = Cells
      /\ size' \in [Cells -> Int] /\ size'[c] = -size[c]
      /\ \A x \in Cells \ {c} : size'[x] = size[x]
  BY <1>0, <1>1, <1>2 DEF Cells
<1>4. /\ nextFree' = [x \in Cells |-> nextFree'[x]]
      /\ nextFree'[cbeg] = c /\ nextFree'[c] = q
      /\ \A x \in Cells \ {cbeg, c} : nextFree'[x] = nextFree[x]
  BY <1>0, <1>1, <1>2
<1>5. /\ prevFree' = [x \in Cells |-> prevFree'[x]]
      /\ prevFree'[q] = c /\ prevFree'[c] = cbeg
      /\ \A x \in Cells \ {q, c} : prevFree'[x] = prevFree[x]
  BY <1>0, <1>1, <1>2
<1>6. HeadersOK'
  BY <1>1, <1>2, <1>3, <1>4, <1>5 DEF HInv, HeadersOK
<1>7. Free' = Free \cup {c} /\ Used' = Used \ {c}
  <2>1. size'[c] > 0 /\ ~(size'[c] < 0)
    BY <1>0, <1>3
  <2>2. \A x \in Cells : /\ size'[x] > 0 <=> x = c \/ size[x] > 0
                         /\ size'[x] < 0 <=> x # c /\ size[x] < 0
    BY <2>1, <1>3
  <2> QED
    BY <2>2, <1>0, <1>3 DEF Free, Used
<1>8. {x \in Cells : c < x /\ x < r} = {}
  <2>1. \A x \in Cells : c < x => r <= x
    BY <1>0, <1>a DEF HInv, Tiled
  <2>2. r \in Nat /\ \A x \in Cells : x \in Nat
    BY Numbers DEF HInv
  <2>3. \A x \in Cells : ~(c < x /\ x < r)
    BY <2>1, <2>2, <1>0
  <2> QED
    BY <2>3
<1>9. Tiled' /\ Right(c)' = r /\ \A x \in Cells' \ {c} : Right(x)' = Right(x)
  <2>1. Cells' = Cells \ {x \in Cells : c < x /\ x < r}
    BY <1>3, <1>8
  <2>2. size'[c] = r - c /\ c < r
    BY <1>0, <1>3
  <2> QED
    BY <2>1, <2>2, <1>0, <1>1, <1>3, Merged DEF HInv
<1>10. Linked' /\ Acyclic'
  <2>1. /\ c \notin Free \cup {cbeg, cend}
        /\ \A x \in Free \cup {cend} : nextFree'[x] = nextFree[x]
        /\ \A x \in (Free \cup {cbeg, cend}) \ {q} : prevFree'[x] = prevFree[x]
    BY <1>0, <1>4, <1>5, ListFacts
  <2> QED
    BY <2>1, <1>4, <1>5, <1>6, <1>7, <1>b, LinksInserted
<1>11. Coalesced'
  <2>1. SUFFICES ASSUME NEW x \in Free' PROVE Right(x)' \notin Free'
    BY DEF Coalesced
  <2>2. CASE x = c
    BY <2>2, <1>0, <1>7, <1>9, <1>a
  <2>3. CASE x # c
    <3>1. x \in Cells' \ {c} /\ x \in Free
      BY <2>1, <2>3, <1>7 DEF Free
    <3>2. Right(x) # c
      BY <3>1, InList, Middle DEF HInv
    <3> QED
      BY <3>1, <3>2, <1>7, <1>9 DEF HInv, Coalesced
  <2> QED
    BY <2>2, <2>3
<1>12. Overwritten'
  <2>1. q \notin Used /\ cbeg \notin Used
    <3>1. size[cbeg] = 0 /\ size[cend] = 0
      BY ListFacts DEF HInv, Tiled
    <3>2. q \in Free => size[q] > 0 /\ size[q] \in Int
      BY DEF Free, HInv, HeadersOK
    <3> QED
      BY <1>b, <3>1, <3>2 DEF Used
  <2>2. Used' \subseteq Cells /\ Used' \subseteq Used /\ c \notin Used'
    BY <1>7 DEF Used
  <2> QED
    BY <2>1, <2>2, <1>4, <1>5 DEF HInv, Overwritten
<1>13. \A x \in Used' : size'[x] = size[x]
  BY <1>3, <1>7 DEF Used
<1> QED
  BY <1>6, <1>7, <1>9, <1>10, <1>11, <1>12, <1>13 DEF HInv

-----------------------------------------------------------------------------
(* The invariant. *)

IInv ==
  /\ HInv
  /\ usedSize \in Int /\ maxUsedSize \in Int
  /\ adr \in 0 .. Block \cup {NULL}

LEMMA InitInvariant == Init => IInv
<1> SUFFICES ASSUME Init PROVE IInv
  OBVIOUS
<1> USE MemAssumption
<1>1. /\ cbeg \in Nat /\ cmid \in Nat /\ cend \in Nat /\ cbeg < cmid /\ cmid < cend
      /\ cmid - cbeg = fullCellHdrSize /\ cend + fullCellHdrSize = Block
      /\ cmid >= fullCellHdrSize /\ cend - cmid >= fullCellHdrSize
      /\ Block - 2 * fullCellHdrSize = cend - cmid
  BY DEF cbeg, cmid, cend
<1> DEFINE A == {cbeg, cmid, cend}
<1>2. /\ Cells = A
      /\ size[cbeg] = 0 /\ size[cend] = 0 /\ size[cmid] = cend - cmid
      /\ leftCell[cbeg] = NULL /\ leftCell[cmid] = cbeg /\ leftCell[cend] = cmid
      /\ nextFree[cbeg] = cmid /\ nextFree[cmid] = cend /\ nextFree[cend] = NULL
      /\ prevFree[cbeg] = NULL /\ prevFree[cmid] = cbeg /\ prevFree[cend] = cmid
  BY <1>1 DEF Init, Cells
<1>3. HeadersOK
  <2>1. size \in [A -> Int]
    BY <1>1 DEF Init
  <2>2. /\ leftCell = [c \in A |-> leftCell[c]]
        /\ nextFree = [c \in A |-> nextFree[c]]
        /\ prevFree = [c \in A |-> prevFree[c]]
    BY DEF Init
  <2> QED
    BY <2>1, <2>2, <1>1, <1>2 DEF HeadersOK
<1>4. Free = {cmid} /\ Used = {}
  BY <1>1, <1>2 DEF Free, Used
<1>5. Right(cbeg) = cmid /\ Right(cmid) = cend /\ Right(cend) = Block
      /\ Extent(cbeg) = fullCellHdrSize /\ Extent(cmid) = cend - cmid /\ Extent(cend) = fullCellHdrSize
  BY <1>1, <1>2 DEF Right, Extent
<1> HIDE DEF A
<1>6. Tiled
  <2>1. \A c \in Cells : c = cbeg \/ c = cmid \/ c = cend
    BY <1>2 DEF A
  <2>2. cbeg \in Cells /\ cmid \in Cells /\ cend \in Cells
    BY <1>2 DEF A
  <2>3. \A c \in Cells : size[c] = 0 <=> c \in {cbeg, cend}
    BY <2>1, <1>1, <1>2
  <2>4. \A c, d \in Cells : c < d => Right(c) <= d
    BY <2>1, <1>1, <1>5
  <2>5. \A c \in Cells : Extent(c) >= fullCellHdrSize /\ c <= cend
    BY <2>1, <1>1, <1>5
  <2>6. \A c \in Cells \ {cend} : Right(c) \in Cells /\ leftCell[Right(c)] = c
    BY <2>1, <2>2, <1>2, <1>5
  <2>7. \A c \in Cells \ {cbeg} : leftCell[c] \in Cells /\ Right(leftCell[c]) = c
    BY <2>1, <2>2, <1>2, <1>5
  <2> QED
    BY <2>3, <2>4, <2>5, <2>6, <2>7, <1>2 DEF Tiled
<1>7. Linked
  BY <1>1, <1>2, <1>4 DEF Linked
<1>8. Acyclic
  <2> DEFINE rank == [c \in Cells |-> IF c = cbeg THEN 0 ELSE IF c = cmid THEN 1 ELSE 2]
  <2>1. rank \in [Cells -> Nat]
    OBVIOUS
  <2>2. rank[cbeg] = 0 /\ rank[cmid] = 1 /\ rank[cend] = 2
    BY <1>1, <1>2 DEF A
  <2> HIDE DEF rank
  <2>3. Forward(rank)
    BY <2>1, <2>2, <1>2, <1>4 DEF Forward
  <2> QED
    BY <2>1, <2>3 DEF Acyclic
<1>9. Coalesced /\ Overwritten
  BY <1>1, <1>4, <1>5 DEF Coalesced, Overwritten
<1> QED
  BY <1>3, <1>6, <1>7, <1>8, <1>9 DEF IInv, HInv, Init

\* What picoos_allocate does, if it finds a cell.
LEMMA AllocateKeeps ==
  ASSUME IInv, NEW b \in Requests, Allocate(b)
  PROVE  /\ IInv'
         /\ \E c \in Free : /\ size[c] >= CellSize(b) /\ adr' = c + usedCellHdrSize
                            /\ Used' = Used \cup {c} /\ size'[c] = -CellSize(b)
                            /\ \A x \in Used : size'[x] = size[x]
<1> USE MemAssumption
<1> DEFINE n == CellSize(b)
<1>1. n \in Nat /\ n >= fullCellHdrSize
  BY CellSizeBounds
<1>2. PICK c \in FirstFit(n) : /\ IF size[c] = n THEN TakeWhole(c) ELSE Split(c, n)
                               /\ Counted(n)
                               /\ adr' = c + usedCellHdrSize
  BY DEF Allocate
<1>3. c \in Cells /\ Fits(c, n)
  BY DEF FirstFit
<1> HIDE DEF n
<1>4. c \in Free /\ size[c] >= n /\ c \in Nat /\ c <= cend
  BY <1>1, <1>3, Numbers DEF Fits, Free, IInv, HInv, minCellSize
<1>5. HInv' /\ Used' = Used \cup {c} /\ size'[c] = -n /\ \A x \in Used : size'[x] = size[x]
  <2>1. CASE size[c] = n
    BY <2>1, <1>2, <1>4, TakeKeeps DEF IInv
  <2>2. CASE size[c] # n
    <3>1. size[c] >= n + minCellSize
      BY <2>2, <1>3 DEF Fits
    <3> QED
      BY <2>2, <3>1, <1>1, <1>2, <1>4, SplitKeeps DEF IInv
  <2> QED
    BY <2>1, <2>2
<1>6. usedSize' \in Int /\ maxUsedSize' \in Int
  BY <1>1, <1>2 DEF Counted, IInv
<1>7. adr' \in 0 .. Block
  BY <1>2, <1>4 DEF cend
<1> QED
  BY <1>2, <1>4, <1>5, <1>6, <1>7 DEF IInv, n

LEMMA DeallocateKeeps ==
  ASSUME IInv, NEW c \in Used, Deallocate(c)
  PROVE  IInv' /\ Used' = Used \ {c} /\ \A x \in Used' : size'[x] = size[x]
<1>1. leftCell[c] \in Cells /\ Right(c) \in Cells
  BY Neighbours DEF IInv
<1>2. (IsFree(leftCell[c]) <=> leftCell[c] \in Free) /\ (IsFree(Right(c)) <=> Right(c) \in Free)
  BY <1>1 DEF IsFree, Free
<1>3. HInv' /\ Used' = Used \ {c} /\ \A x \in Used' : size'[x] = size[x]
  <2>1. CASE leftCell[c] \in Free /\ Right(c) \in Free
    BY <2>1, <1>2, MergeBothKeeps DEF Deallocate, IInv
  <2>2. CASE leftCell[c] \in Free /\ Right(c) \notin Free
    BY <2>2, <1>2, MergeLeftKeeps DEF Deallocate, IInv
  <2>3. CASE leftCell[c] \notin Free /\ Right(c) \in Free
    BY <2>3, <1>2, MergeRightKeeps DEF Deallocate, IInv
  <2>4. CASE leftCell[c] \notin Free /\ Right(c) \notin Free
    BY <2>4, <1>2, LinkKeeps DEF Deallocate, IInv
  <2> QED
    BY <2>1, <2>2, <2>3, <2>4
<1>4. size[c] \in Int
  BY Neighbours DEF IInv
<1> QED
  BY <1>3, <1>4 DEF IInv, Deallocate

\* A step that writes no header keeps what is said of them.
LEMMA HeadersKept == HInv /\ headers' = headers => HInv'
<1> SUFFICES ASSUME HInv, headers' = headers PROVE HInv'
  OBVIOUS
<1>1. UNCHANGED <<size, leftCell, nextFree, prevFree>>
  BY DEF headers
<1>2. Cells' = Cells /\ Free' = Free /\ Used' = Used
  BY <1>1 DEF Cells, Free, Used
<1>3. HeadersOK' /\ Overwritten'
  BY <1>1, <1>2 DEF HInv, HeadersOK, Overwritten
<1>4. Tiled' /\ Coalesced'
  BY <1>1, <1>2 DEF HInv, Tiled, Coalesced, Right, Extent
<1>5. Linked'
  BY <1>1, <1>2 DEF HInv, Linked
<1>6. Acyclic'
  BY <1>1, <1>2 DEF HInv, Acyclic, Forward
<1> QED
  BY <1>3, <1>4, <1>5, <1>6 DEF HInv

LEMMA NextInvariant == IInv /\ [Next]_vars => IInv'
<1> SUFFICES ASSUME IInv, [Next]_vars PROVE IInv'
  OBVIOUS
<1>1. ASSUME NEW b \in Requests, Allocate(b) PROVE IInv'
  BY <1>1, AllocateKeeps
<1>2. ASSUME NEW b \in Requests, AllocateFails(b) PROVE IInv'
  <2>1. headers' = headers /\ UNCHANGED <<usedSize, maxUsedSize>> /\ adr' = NULL
    BY <1>2 DEF AllocateFails, headers
  <2> QED
    BY <2>1, HeadersKept DEF IInv
<1>3. ASSUME NEW c \in Used, Deallocate(c) PROVE IInv'
  BY <1>3, DeallocateKeeps
<1>4. CASE UNCHANGED vars
  BY <1>4, HeadersKept DEF IInv, vars, headers
<1> QED
  BY <1>1, <1>2, <1>3, <1>4 DEF Next

\* The inductive invariant of the memory manager.
THEOREM Invariant == Spec => []IInv
<1>1. Init => IInv
  BY InitInvariant
<1>2. IInv /\ [Next]_vars => IInv'
  BY NextInvariant
<1> QED
  BY <1>1, <1>2, PTL DEF Spec

LEMMA InvariantTypes == IInv => TypeOK
<1> SUFFICES ASSUME IInv PROVE TypeOK
  OBVIOUS
<1>1. leftCell \in [Cells -> Cells \cup {NULL}]
  <2>1. \A c \in Cells : leftCell[c] \in Cells \cup {NULL}
    BY DEF IInv, HInv, Tiled
  <2> QED
    BY <2>1 DEF IInv, HInv, HeadersOK
<1>2. /\ nextFree \in [Cells -> Cells \cup {NULL, Data}]
      /\ prevFree \in [Cells -> Cells \cup {NULL, Data}]
  <2>1. \A c \in Cells : c \in Free \cup Used \cup {cbeg, cend}
    BY Numbers DEF IInv, HInv, Tiled, Free, Used
  <2>2. \A c \in Cells : /\ nextFree[c] \in Cells \cup {NULL, Data}
                         /\ prevFree[c] \in Cells \cup {NULL, Data}
    BY <2>1, ListFacts DEF IInv, HInv, Overwritten
  <2> QED
    BY <2>2 DEF IInv, HInv, HeadersOK
<1> QED
  BY <1>1, <1>2 DEF IInv, HInv, HeadersOK, TypeOK

\* The headers of the cells, and the counts, are always of their types.
THEOREM TypeCorrect == Spec => []TypeOK
  BY Invariant, InvariantTypes, PTL

\* The cells tile the block after any sequence of calls.
THEOREM CellsTile == Spec => []Tiled
<1>1. IInv => Tiled
  BY DEF IInv, HInv
<1> QED
  BY <1>1, Invariant, PTL

\* The free list is linked both ways, and only between free cells.
THEOREM ListIsLinked == Spec => []Linked
<1>1. IInv => Linked
  BY DEF IInv, HInv
<1> QED
  BY <1>1, Invariant, PTL

\* picoos_deallocate leaves no two free cells side by side.
THEOREM NeighboursAreMerged == Spec => []Coalesced
<1>1. IInv => Coalesced
  BY DEF IInv, HInv
<1> QED
  BY <1>1, Invariant, PTL

\* Whatever the order of the calls was, the memory that was given back is whole.
THEOREM BlockIsReturned == Spec => []AllReturned
<1>1. IInv => AllReturned
  <2> SUFFICES ASSUME IInv, Used = {} PROVE Free = {cmid} /\ size[cmid] = Block - 2 * fullCellHdrSize
    BY DEF AllReturned
  <2> USE MemAssumption
  <2>1. /\ cbeg \in Cells /\ cend \in Cells /\ cbeg # cend /\ size[cbeg] = 0
        /\ cbeg \notin Free /\ cend \notin Free /\ Free \subseteq Cells
    BY ListFacts DEF IInv, HInv, Tiled
  <2>2. Right(cbeg) = cmid /\ cmid \in Cells
    BY <2>1 DEF IInv, HInv, Tiled, Right, Extent, cbeg, cmid
  <2>3. \A c \in Cells : c \in Free \/ c = cbeg \/ c = cend
    BY Numbers DEF IInv, HInv, Tiled, Free, Used
  <2>4. cmid # cbeg /\ cmid # cend
    BY DEF cmid, cbeg, cend
  <2>5. cmid \in Free
    BY <2>2, <2>3, <2>4
  <2>6. Right(cmid) = cmid + size[cmid] /\ Right(cmid) \in Cells /\ Right(cmid) > cmid /\ size[cmid] \in Nat
    BY <2>5, InList, Middle DEF IInv, HInv
  <2>7. Right(cmid) = cend
    BY <2>3, <2>5, <2>6 DEF IInv, HInv, Coalesced, cmid, cbeg
  <2>8. ASSUME NEW c \in Free PROVE c = cmid
    <3>1. c \in Cells /\ c \in Nat /\ c > cbeg /\ c < cend
      BY InList, Middle DEF IInv, HInv
    <3>2. cmid <= c
      BY <2>1, <2>2, <3>1 DEF IInv, HInv, Tiled
    <3>3. cmid < c => cend <= c
      BY <2>2, <2>7, <3>1 DEF IInv, HInv, Tiled
    <3> QED
      BY <3>1, <3>2, <3>3 DEF cmid, cend
  <2>9. Free = {cmid}
    BY <2>5, <2>8
  <2>10. size[cmid] = Block - 2 * fullCellHdrSize
    BY <2>6, <2>7 DEF cend, cmid
  <2> QED
    BY <2>9, <2>10
<1> QED
  BY <1>1, Invariant, PTL

-----------------------------------------------------------------------------
(* The walk of picoos_allocate along the free list. *)

\* One step of the walk along the free list.
Successor == [v \in Cells \cup {NULL, Data} |-> IF v \in Cells THEN nextFree[v] ELSE NULL]

\* The walk exists: the recursion that defines it has a solution.
LEMMA WalkSteps ==
  ASSUME TypeOK
  PROVE  /\ Walk \in [Nat -> Cells \cup {NULL, Data}]
         /\ Walk[0] = nextFree[cbeg]
         /\ \A k \in Nat : Walk[k + 1] = IF Walk[k] \in Cells THEN nextFree[Walk[k]] ELSE NULL
<1> DEFINE V == Cells \cup {NULL, Data}
           a == nextFree[cbeg]
<1>1. Successor \in [V -> V] /\ a \in V BY DEF TypeOK, Successor
<1>11. \E w \in [Nat -> V] : w[0] = a /\ \A n \in Nat : w[n + 1] = Successor[w[n]]
  <2> HIDE DEF V, a
  <2> QED BY <1>1, IteratesExist
<1>2. PICK w \in [Nat -> V] : w[0] = a /\ \A n \in Nat : w[n + 1] = Successor[w[n]]
  BY <1>11
<1>3. \A n \in Nat : w[n + 1] = IF w[n] \in Cells THEN nextFree[w[n]] ELSE NULL
  BY <1>2 DEF Successor
<1> DEFINE Is(f) == f = [k \in Nat |->
             IF k = 0 THEN nextFree[cbeg]
             ELSE LET c == f[k - 1] IN IF c \in Cells THEN nextFree[c] ELSE NULL]
<1>4. Is(w)
  <2>1. ASSUME NEW k \in Nat
        PROVE  w[k] = IF k = 0 THEN nextFree[cbeg]
                      ELSE LET c == w[k - 1] IN IF c \in Cells THEN nextFree[c] ELSE NULL
    <3>1. CASE k = 0 BY <3>1, <1>2
    <3>2. CASE k # 0
      <4>1. k - 1 \in Nat /\ (k - 1) + 1 = k BY <3>2
      <4>2. w[k] = IF w[k - 1] \in Cells THEN nextFree[w[k - 1]] ELSE NULL
        BY <4>1, <1>3
      <4> QED BY <3>2, <4>2
    <3> QED BY <3>1, <3>2
  <2> QED BY <2>1
<1>5. Walk = CHOOSE f : Is(f) BY DEF Walk
<1>6. Is(Walk)
  <2> HIDE DEF Is
  <2> QED BY <1>4, <1>5
<1>7. Walk[0] = nextFree[cbeg] BY <1>6
<1>8. ASSUME NEW k \in Nat
      PROVE  Walk[k + 1] = IF Walk[k] \in Cells THEN nextFree[Walk[k]] ELSE NULL
  <2>1. k + 1 \in Nat /\ k + 1 # 0 /\ (k + 1) - 1 = k OBVIOUS
  <2>2. Walk[k + 1] = IF k + 1 = 0 THEN nextFree[cbeg]
                      ELSE IF Walk[(k + 1) - 1] \in Cells THEN nextFree[Walk[(k + 1) - 1]] ELSE NULL
    BY <1>6, <2>1
  <2> QED BY <2>1, <2>2
<1> HIDE DEF V
<1>9. Walk \in [Nat -> V]
  <2> DEFINE T == {k \in Nat : Walk[k] \notin V}
  <2>1. DOMAIN Walk = Nat /\ Walk = [k \in DOMAIN Walk |-> Walk[k]] BY <1>6
  <2>2. T = {}
    <3> SUFFICES ASSUME T # {} PROVE FALSE OBVIOUS
    <3>1. PICK k \in T : \A y \in T : k <= y
      <4>1. T \subseteq Nat OBVIOUS
      <4> HIDE DEF T
      <4> QED BY <4>1, LeastNumber
    <3>2. k # 0 BY <1>1, <1>7
    <3>3. k - 1 \in Nat /\ (k - 1) + 1 = k /\ k - 1 \notin T BY <3>1, <3>2
    <3>4. Walk[k] = IF Walk[k - 1] \in Cells THEN nextFree[Walk[k - 1]] ELSE NULL
      BY <1>8, <3>3
    <3>5. Walk[k] \in V BY <3>4 DEF V, TypeOK
    <3> QED BY <3>5
  <2> QED BY <2>1, <2>2
<1> QED BY <1>7, <1>8, <1>9 DEF V

\* From a free cell the walk goes on to a free cell, or to its end.
LEMMA WalkFree ==
  ASSUME HInv, TypeOK, NEW m \in Nat, \A k \in 0 .. m - 1 : Walk[k] \in Free
  PROVE  Walk[m] \in Free \cup {cend}
<1>1. CASE m = 0 BY <1>1, ListFacts, WalkSteps
<1>2. CASE m # 0
  <2>1. m - 1 \in Nat /\ (m - 1) + 1 = m /\ Walk[m - 1] \in Free BY <1>2
  <2>2. Walk[m] = nextFree[Walk[m - 1]] BY <2>1, WalkSteps, ListFacts
  <2> QED BY <2>1, <2>2, ListFacts
<1> QED BY <1>1, <1>2

\* A walk through free cells meets each of them at most once.
LEMMA WalkClimbs ==
  ASSUME HInv, TypeOK, NEW rank, Forward(rank),
         NEW m \in Nat, \A k \in 0 .. m - 1 : Walk[k] \in Free
  PROVE  \A j \in 0 .. m - 1 : \A i \in 0 .. j - 1 : rank[Walk[i]] < rank[Walk[j]]
<1> DEFINE T == {j \in 0 .. m - 1 : \E i \in 0 .. j - 1 : ~(rank[Walk[i]] < rank[Walk[j]])}
<1> SUFFICES ASSUME T # {} PROVE FALSE OBVIOUS
<1>1. PICK j \in T : \A y \in T : j <= y
  <2>1. T \subseteq Nat OBVIOUS
  <2> HIDE DEF T
  <2> QED BY <2>1, LeastNumber
<1>2. PICK i \in 0 .. j - 1 : ~(rank[Walk[i]] < rank[Walk[j]]) BY <1>1
<1>3. j - 1 \in 0 .. m - 1 /\ (j - 1) + 1 = j /\ j - 1 \in Nat /\ i \in 0 .. m - 1
  BY <1>1, <1>2
<1>4. Walk[j - 1] \in Free /\ Walk[j] = nextFree[Walk[j - 1]] BY <1>3, WalkSteps, ListFacts
<1>5. rank[Walk[j - 1]] < rank[Walk[j]] BY <1>4 DEF Forward
<1>6. /\ rank[Walk[j - 1]] \in Nat /\ rank[Walk[i]] \in Nat /\ rank[Walk[j]] \in Nat
  <2>1. Walk[j] \in Free /\ Walk[i] \in Free BY <1>1, <1>3
  <2> QED BY <1>4, <2>1, ListFacts DEF Forward
<1>7. i # j - 1 BY <1>2, <1>5
<1>8. i \in 0 .. (j - 1) - 1 BY <1>2, <1>3, <1>7
<1>9. j - 1 \notin T BY <1>1, <1>3
<1>10. rank[Walk[i]] < rank[Walk[j - 1]] BY <1>3, <1>8, <1>9
<1> QED BY <1>2, <1>5, <1>6, <1>10

LEMMA CellsFinite ==
  ASSUME TypeOK
  PROVE  /\ IsFiniteSet(Cells) /\ Cardinality(Cells) \in Nat
         /\ IsFiniteSet(Free) /\ Cardinality(Free) \in Nat
         /\ Cardinality(Free) <= Cardinality(Cells)
<1>1. Block \in Int /\ 0 \in Int /\ Cells \subseteq 0 .. Block BY MemAssumption DEF TypeOK
<1>2. IsFiniteSet(0 .. Block) BY <1>1, FS_Interval
<1>3. IsFiniteSet(Cells) BY <1>1, <1>2, FS_Subset
<1>4. Free \in SUBSET Cells BY DEF Free
<1> HIDE DEF Cells
<1> QED BY <1>3, <1>4, FS_Subset, FS_CardinalityType

\* The walk leaves the free cells, for the last sentinel.
LEMMA WalkLeaves ==
  ASSUME HInv, TypeOK
  PROVE  \E m \in Nat : Walk[m] = cend /\ \A k \in 0 .. m - 1 : Walk[k] \in Free
<1> DEFINE T == {k \in Nat : Walk[k] \notin Free}
<1>1. ASSUME T = {} PROVE FALSE
  <2>1. PICK rank \in [Cells -> Nat] : Forward(rank) BY DEF HInv, Acyclic
  <2> DEFINE N == Cardinality(Free)
             f == [k \in 0 .. N |-> Walk[k]]
  <2>2. N \in Nat /\ IsFiniteSet(Free) BY CellsFinite
  <2>3. \A k \in Nat : Walk[k] \in Free BY <1>1
  <2>4. f \in [0 .. N -> Free] BY <2>2, <2>3
  <2>5. IsFiniteSet(0 .. N) /\ Cardinality(0 .. N) = N + 1
    <3> HIDE DEF N
    <3> QED BY <2>2, FS_Interval
  <2>6. PICK x, y \in 0 .. N : x # y /\ f[x] = f[y]
    <3>1. N < Cardinality(0 .. N) BY <2>2, <2>5
    <3>2. \E x, y \in 0 .. N : x # y /\ f[x] = f[y]
      <4> HIDE DEF f
      <4> QED BY <3>1, <2>2, <2>4, <2>5, FS_PigeonHole
    <3> QED BY <3>2
  <2> HIDE DEF N
  <2>7. \A j \in 0 .. N : \A i \in 0 .. j - 1 : rank[Walk[i]] < rank[Walk[j]]
    <3> DEFINE m == N + 1
    <3>1. m \in Nat /\ m - 1 = N /\ \A k \in 0 .. m - 1 : Walk[k] \in Free BY <2>2, <2>3
    <3> HIDE DEF m
    <3>2. \A j \in 0 .. m - 1 : \A i \in 0 .. j - 1 : rank[Walk[i]] < rank[Walk[j]]
      BY <3>1, <2>1, WalkClimbs
    <3> QED BY <3>1, <3>2
  <2>8. rank[Walk[x]] \in Nat /\ Walk[x] = Walk[y]
    BY <2>1, <2>2, <2>3, <2>6, ListFacts
  <2>9. x \in 0 .. y - 1 \/ y \in 0 .. x - 1 BY <2>2, <2>6
  <2> QED BY <2>7, <2>8, <2>9
<1>2. PICK m \in T : \A y \in T : m <= y
  <2>1. T \subseteq Nat /\ T # {} BY <1>1
  <2> HIDE DEF T
  <2> QED BY <2>1, LeastNumber
<1>3. \A k \in 0 .. m - 1 : Walk[k] \in Free BY <1>2
<1> QED BY <1>2, <1>3, WalkFree

\* picoos_allocate finds every free cell once, and then the end of the list.
LEMMA ListExact == ASSUME HInv, TypeOK PROVE FreeListExact
<1>1. PICK m \in Nat : Walk[m] = cend /\ \A k \in 0 .. m - 1 : Walk[k] \in Free
  BY WalkLeaves
<1>2. PICK rank \in [Cells -> Nat] : Forward(rank) BY DEF HInv, Acyclic
<1> DEFINE Met  == {Walk[k] : k \in 0 .. m - 1}
           Lost == Free \ Met
           f    == [k \in 1 .. m |-> Walk[k - 1]]
<1>3. Met \subseteq Free BY <1>1
<1>4. ASSUME NEW c \in Lost PROVE prevFree[c] \in Lost /\ rank[prevFree[c]] < rank[c]
  <2>1. c \in Free /\ c \notin Met /\ c # cend BY ListFacts
  <2>2. prevFree[c] \in Free \cup {cbeg} /\ nextFree[prevFree[c]] = c BY <2>1, ListFacts
  <2>3. ASSUME prevFree[c] = cbeg PROVE FALSE
    <3>1. Walk[0] = c BY <2>2, <2>3, WalkSteps
    <3>2. m # 0 BY <1>1, <2>1, <3>1
    <3> QED BY <2>1, <3>1, <3>2
  <2>4. ASSUME prevFree[c] \in Met PROVE FALSE
    <3>1. PICK k \in 0 .. m - 1 : prevFree[c] = Walk[k] BY <2>4
    <3>2. Walk[k + 1] = c BY <1>1, <2>2, <3>1, WalkSteps, ListFacts
    <3>3. k + 1 # m BY <1>1, <2>1, <3>2
    <3> QED BY <2>1, <3>1, <3>2, <3>3
  <2>5. rank[prevFree[c]] < rank[c] BY <1>2, <2>2 DEF Forward
  <2> QED BY <2>2, <2>3, <2>4, <2>5
<1>5. Lost = {}
  <2> SUFFICES ASSUME Lost # {} PROVE FALSE OBVIOUS
  <2> DEFINE R == {rank[c] : c \in Lost}
  <2>1. Lost \subseteq Cells BY ListFacts
  <2> HIDE DEF Lost
  <2>2. R \subseteq Nat /\ R # {} BY <2>1
  <2>3. PICK x \in R : \A y \in R : x <= y
    <3> HIDE DEF R
    <3> QED BY <2>2, LeastNumber
  <2>4. PICK c \in Lost : x = rank[c] BY <2>3
  <2>5. rank[prevFree[c]] \in R /\ rank[prevFree[c]] < rank[c] BY <1>4, <2>4
  <2>6. rank[prevFree[c]] \in Nat /\ rank[c] \in Nat BY <2>1, <2>4, <2>5, <2>2
  <2> HIDE DEF R
  <2> QED BY <2>3, <2>4, <2>5, <2>6
<1>6. Met = Free BY <1>3, <1>5
<1>7. f \in Bijection(1 .. m, Free)
  <2>1. f \in [1 .. m -> Free]
    <3>1. \A k \in 1 .. m : k - 1 \in 0 .. m - 1 OBVIOUS
    <3> QED BY <3>1, <1>1
  <2>2. ASSUME NEW x \in 1 .. m, NEW y \in 1 .. m, x < y PROVE f[x] # f[y]
    <3>1. y - 1 \in 0 .. m - 1 /\ x - 1 \in 0 .. (y - 1) - 1 /\ x - 1 \in 0 .. m - 1 BY <2>2
    <3>2. rank[Walk[x - 1]] < rank[Walk[y - 1]] BY <3>1, <1>1, <1>2, WalkClimbs
    <3>3. rank[Walk[x - 1]] \in Nat BY <3>1, <1>1, <1>2, ListFacts
    <3> QED BY <3>2, <3>3
  <2>3. \A x, y \in 1 .. m : f[x] = f[y] => x = y
    <3> SUFFICES ASSUME NEW x \in 1 .. m, NEW y \in 1 .. m, x # y PROVE f[x] # f[y] OBVIOUS
    <3>1. x < y \/ y < x OBVIOUS
    <3> HIDE DEF f
    <3> QED BY <3>1, <2>2
  <2>4. ASSUME NEW c \in Free PROVE \E x \in 1 .. m : f[x] = c
    <3>1. PICK k \in 0 .. m - 1 : c = Walk[k] BY <1>6
    <3>2. k + 1 \in 1 .. m /\ (k + 1) - 1 = k OBVIOUS
    <3>3. f[k + 1] = c BY <3>1, <3>2
    <3> QED BY <3>2, <3>3
  <2> HIDE DEF f
  <2> QED BY <2>1, <2>3, <2>4 DEF Bijection, Injection, Surjection, IsInjective
<1>8. Cardinality(Free) = m
  <2>1. ExistsBijection(1 .. m, Free)
    <3> HIDE DEF f
    <3> QED BY <1>7 DEF ExistsBijection
  <2> QED BY <2>1, FS_CountingElements
<1>9. Walk[m + 1] = NULL BY <1>1, ListFacts, WalkSteps
<1> QED BY <1>1, <1>6, <1>8, <1>9 DEF FreeListExact

-----------------------------------------------------------------------------
(* What is handed out is aligned. *)

IsAligned(x) == \E q \in Nat : x = q * PICOOS_ALIGN_SIZE

\* The cells begin at aligned addresses; the last sentinel need not.
CellsAligned == \A c \in Cells \ {cend} : IsAligned(c)

LEMMA AlignedIff == ASSUME NEW x \in Nat PROVE IsAligned(x) <=> x % PICOOS_ALIGN_SIZE = 0
<1> USE MemAssumption
<1> DEFINE a == PICOOS_ALIGN_SIZE
<1>1. a \in Nat /\ a > 0 OBVIOUS
<1> HIDE DEF a
<1>2. x % a = x - (x \div a) * a /\ x \div a \in Nat BY <1>1
<1>3. \A q \in Nat : (q * a) % a = 0 BY <1>1
<1>4. ASSUME x % a = 0 PROVE \E q \in Nat : x = q * a
  <2> DEFINE q == x \div a
             y == q * a
  <2>1. y \in Nat BY <1>1, <1>2
  <2>2. x % a = x - y BY <1>2
  <2> HIDE DEF y
  <2>3. x = y BY <1>4, <2>1, <2>2
  <2> QED BY <1>2, <2>3 DEF y
<1> QED BY <1>3, <1>4 DEF IsAligned, a

LEMMA AlignedSum == ASSUME NEW x, NEW y, IsAligned(x), IsAligned(y) PROVE IsAligned(x + y)
<1>1. PICK p \in Nat : x = p * PICOOS_ALIGN_SIZE BY DEF IsAligned
<1>2. PICK q \in Nat : y = q * PICOOS_ALIGN_SIZE BY DEF IsAligned
<1>3. x + y = (p + q) * PICOOS_ALIGN_SIZE /\ p + q \in Nat BY <1>1, <1>2, MemAssumption
<1> QED BY <1>3 DEF IsAligned

LEMMA CellSizeAligned == ASSUME NEW b \in Requests PROVE IsAligned(CellSize(b))
<1> USE MemAssumption
<1> DEFINE m == IF b < minContSize THEN minContSize ELSE b
           q == (m + PICOOS_ALIGN_SIZE - 1) \div PICOOS_ALIGN_SIZE
<1>1. m \in Nat BY DEF minContSize
<1> HIDE DEF m
<1>2. q \in Nat BY <1>1
<1>3. CellSize(b) = q * PICOOS_ALIGN_SIZE + usedCellHdrSize BY DEF CellSize, m
<1> HIDE DEF q
<1>4. IsAligned(q * PICOOS_ALIGN_SIZE) BY <1>2 DEF IsAligned
<1>5. IsAligned(usedCellHdrSize) BY AlignedHeaders, AlignedIff
<1> QED BY <1>3, <1>4, <1>5, AlignedSum

LEMMA InitAligned == Init => CellsAligned
<1> SUFFICES ASSUME Init PROVE CellsAligned OBVIOUS
<1>1. Cells = {cbeg, cmid, cend} BY DEF Init, Cells
<1>2. IsAligned(0) BY MemAssumption DEF IsAligned
<1>3. IsAligned(fullCellHdrSize) BY AlignedHeaders, AlignedIff, MemAssumption
<1> QED BY <1>1, <1>2, <1>3 DEF CellsAligned, cbeg, cmid

\* The only cell that comes is the rest of one that was split.
LEMMA CellsCome ==
  ASSUME NEW b \in Requests, NEW c,
         IF size[c] = CellSize(b) THEN TakeWhole(c) ELSE Split(c, CellSize(b))
  PROVE  Cells' \subseteq Cells \cup {c + CellSize(b)}
<1> DEFINE n == CellSize(b)
<1>1. CASE size[c] = n BY <1>1 DEF TakeWhole, Cells
<1>2. CASE size[c] # n
  <2> DEFINE f == [size EXCEPT ![c] = -n]
  <2>1. size' = With(f, c + n, size[c] - n) BY <1>2 DEF Split
  <2>2. DOMAIN f = Cells BY DEF Cells
  <2> HIDE DEF f, n
  <2>3. DOMAIN With(f, c + n, size[c] - n) = DOMAIN f \cup {c + n} BY DEF With
  <2> QED BY <2>1, <2>2, <2>3 DEF Cells, n
<1> QED BY <1>1, <1>2

LEMMA CellsGo ==
  ASSUME NEW c, Deallocate(c)
  PROVE  Cells' \subseteq Cells
<1>1. \A f, S : DOMAIN Without(f, S) \subseteq DOMAIN f BY DEF Without, Restrict
<1>2. CASE MergeBoth(c)
  <2> DEFINE f == [size EXCEPT ![leftCell[c]] = size[leftCell[c]] - size[c] + size[Right(c)]]
  <2>1. size' = Without(f, {c, Right(c)}) BY <1>2 DEF MergeBoth
  <2>2. DOMAIN f = Cells BY DEF Cells
  <2> HIDE DEF f
  <2> QED BY <1>1, <2>1, <2>2 DEF Cells
<1>3. CASE MergeLeft(c)
  <2> DEFINE f == [size EXCEPT ![leftCell[c]] = size[leftCell[c]] - size[c]]
  <2>1. size' = Without(f, {c}) BY <1>3 DEF MergeLeft
  <2>2. DOMAIN f = Cells BY DEF Cells
  <2> HIDE DEF f
  <2> QED BY <1>1, <2>1, <2>2 DEF Cells
<1>4. CASE MergeRight(c)
  <2> DEFINE f == [size EXCEPT ![c] = size[Right(c)] - size[c]]
  <2>1. size' = Without(f, {Right(c)}) BY <1>4 DEF MergeRight
  <2>2. DOMAIN f = Cells BY DEF Cells
  <2> HIDE DEF f
  <2> QED BY <1>1, <2>1, <2>2 DEF Cells
<1>5. CASE Link(c) BY <1>5 DEF Link, Cells
<1> QED BY <1>2, <1>3, <1>4, <1>5 DEF Deallocate, IsFree

LEMMA AlignedStep == IInv /\ CellsAligned /\ Aligned /\ [Next]_vars => CellsAligned' /\ Aligned'
<1> SUFFICES ASSUME IInv, CellsAligned, Aligned, [Next]_vars
             PROVE  CellsAligned' /\ Aligned'
  OBVIOUS
<1> USE MemAssumption
<1>1. ASSUME NEW b \in Requests, Allocate(b) PROVE CellsAligned' /\ Aligned'
  <2>1. PICK c \in FirstFit(CellSize(b)) :
          /\ IF size[c] = CellSize(b) THEN TakeWhole(c) ELSE Split(c, CellSize(b))
          /\ adr' = c + usedCellHdrSize
    BY <1>1 DEF Allocate
  <2>2. c \in Free /\ c # cend
    <3>1. c \in Cells /\ Fits(c, CellSize(b)) BY DEF FirstFit
    <3>2. size[c] > 0
      BY <3>1, CellSizeBounds, Numbers DEF Fits, IInv, HInv, minCellSize
    <3> QED BY <3>1, <3>2, ListFacts DEF Free, IInv
  <2>3. c \in Nat /\ IsAligned(c) BY <2>2, Numbers, ListFacts DEF CellsAligned, IInv, HInv
  <2>4. CellsAligned'
    <3>1. Cells' \subseteq Cells \cup {c + CellSize(b)} BY <2>1, CellsCome
    <3>2. IsAligned(c + CellSize(b)) BY <2>3, CellSizeAligned, AlignedSum
    <3> QED BY <3>1, <3>2 DEF CellsAligned, IsAligned, cend
  <2>5. IsAligned(usedCellHdrSize) BY AlignedHeaders, AlignedIff
  <2>6. IsAligned(c + usedCellHdrSize) BY <2>3, <2>5, AlignedSum
  <2>7. (c + usedCellHdrSize) % PICOOS_ALIGN_SIZE = 0
    <3>1. c + usedCellHdrSize \in Nat BY <2>3
    <3> QED BY <2>6, <3>1, AlignedIff
  <2> QED BY <2>1, <2>4, <2>7 DEF Aligned
<1>2. ASSUME NEW b \in Requests, AllocateFails(b) PROVE CellsAligned' /\ Aligned'
  BY <1>2 DEF AllocateFails, headers, CellsAligned, Cells, IsAligned, Aligned, cend
<1>3. ASSUME NEW c \in Used, Deallocate(c) PROVE CellsAligned' /\ Aligned'
  <2>1. Cells' \subseteq Cells BY <1>3, CellsGo
  <2>2. adr' = NULL BY <1>3 DEF Deallocate
  <2> QED BY <2>1, <2>2 DEF CellsAligned, IsAligned, Aligned, cend
<1>4. CASE UNCHANGED vars
  BY <1>4 DEF vars, headers, CellsAligned, Cells, IsAligned, Aligned, cend
<1> QED BY <1>1, <1>2, <1>3, <1>4 DEF Next

\* For every block whose headers are aligned, and any order of the calls: the
\* walk of picoos_allocate meets each free cell once and then ends, and what
\* it hands out is aligned.
THEOREM CellsAreUsable == Spec => []CellsUsable
<1>1. Init => CellsAligned /\ Aligned BY InitAligned DEF Init, Aligned
<1>2. IInv => FreeListExact BY InvariantTypes, ListExact DEF IInv
<1>3. FreeListExact /\ Aligned => CellsUsable BY DEF CellsUsable
<1> QED BY <1>1, <1>2, <1>3, AlignedStep, Invariant, PTL DEF Spec

\* What picoos_allocate does not find by its walk is not there.
LEMMA FailMeansNone ==
  ASSUME IInv, NEW b \in Requests, AllocateFails(b), NEW c \in Free
  PROVE  ~Fits(c, CellSize(b))
<1> DEFINE n == CellSize(b)
           N == Cardinality(Free)
           T == {k \in Nat : Walk[k] \in Cells /\ Fits(Walk[k], n)}
<1> SUFFICES ASSUME Fits(c, n) PROVE FALSE OBVIOUS
<1>1. TypeOK /\ HInv BY InvariantTypes DEF IInv
<1>2. FreeListExact BY <1>1, ListExact
<1>3. N \in Nat /\ Cardinality(Cells) \in Nat /\ N <= Cardinality(Cells) BY <1>1, CellsFinite
<1>4. PICK k \in 0 .. N - 1 : Walk[k] = c BY <1>2 DEF FreeListExact
<1>5. k \in T BY <1>1, <1>3, <1>4, ListFacts
<1> HIDE DEF n, N
<1>6. PICK j \in T : \A y \in T : j <= y
  <2>1. T \subseteq Nat OBVIOUS
  <2> HIDE DEF T
  <2> QED BY <1>5, <2>1, LeastNumber
<1>7. j \in 0 .. Cardinality(Cells) BY <1>3, <1>5, <1>6
<1>8. \A i \in 0 .. j - 1 : Walk[i] \in Cells => ~Fits(Walk[i], n) BY <1>6
<1>9. Walk[j] \in FirstFit(n) BY <1>6, <1>7, <1>8 DEF FirstFit
<1> QED BY <1>9 DEF AllocateFails, n

\* For every block: NULL is the answer only if no free cell is long enough.
THEOREM FailsOnlyWhenNoneFits == Spec => FailsOnlyIfNoneFits
<1>1. IInv => \A b \in Requests : AllocateFails(b) => \A c \in Free : ~Fits(c, CellSize(b))
  BY FailMeansNone
<1>2. IInv /\ [Next]_vars =>
        [\A n \in Requests : AllocateFails(n) => \A c \in Free : ~Fits(c, CellSize(n))]_vars
  BY <1>1
<1> QED BY <1>2, Invariant, PTL DEF Spec, FailsOnlyIfNoneFits

-----------------------------------------------------------------------------
(* The refinement of PicoAlloc. *)

\* A free cell and a used one lie apart.
LEMMA RegionsApart ==
  ASSUME HInv, NEW c \in Cells, NEW n \in Nat, size[c] >= n, size[c] # 0, NEW d \in Used, c # d
  PROVE  c + n <= d \/ d - size[d] <= c
<1>1. c \in Nat /\ d \in Nat /\ d \in Cells /\ size[c] \in Int /\ size[d] \in Int /\ size[d] < 0
  BY Numbers DEF HInv, Used
<1>2. Right(d) = d - size[d] /\ Right(c) = c + size[c]
  BY <1>1 DEF Right, Extent
<1>3. CASE c < d
  BY <1>1, <1>2, <1>3 DEF HInv, Tiled
<1>4. CASE d < c
  BY <1>1, <1>2, <1>4 DEF HInv, Tiled
<1> QED
  BY <1>1, <1>3, <1>4

(***************************************************************************)
(* For every block, alignment, size of header and sequence of calls: the   *)
(* memory that picoos_allocate hands out lies inside of the block and      *)
(* apart from all other memory in use, and stays there until it is freed.  *)
(***************************************************************************)
THEOREM RegionsAreKept == Spec => AllocSpec
<1>1. Init => Alloc!Init
  <2> SUFFICES ASSUME Init PROVE Alloc!Init
    OBVIOUS
  <2>1. \A c \in {cbeg, cmid, cend} : ~(size[c] < 0)
    BY MemAssumption DEF Init, cmid
  <2>2. Used = {} /\ adr = NULL
    BY <2>1 DEF Init, Used, Cells
  <2> QED
    BY <2>2 DEF Alloc!Init, Regions
<1>2. IInv /\ [Next]_vars => [Alloc!Next]_<<Regions, adr>>
  <2> SUFFICES ASSUME IInv, [Next]_vars PROVE [Alloc!Next]_<<Regions, adr>>
    OBVIOUS
  <2> USE MemAssumption
  <2>1. ASSUME NEW b \in Requests, Allocate(b) PROVE Alloc!Grant
    <3> DEFINE n == CellSize(b)
    <3>1. PICK c \in Free : /\ size[c] >= n /\ adr' = c + usedCellHdrSize
                            /\ Used' = Used \cup {c} /\ size'[c] = -n
                            /\ \A x \in Used : size'[x] = size[x]
      BY <2>1, AllocateKeeps
    <3>2. n \in Nat /\ n >= fullCellHdrSize
      BY CellSizeBounds
    <3> HIDE DEF n
    <3> DEFINE a == c + usedCellHdrSize
               l == n - usedCellHdrSize
    <3>3. c \in Cells /\ c \in Nat /\ c + size[c] <= cend /\ size[c] \in Nat /\ size[c] # 0
      BY InList, Middle DEF IInv, HInv
    <3>4. a \in 0 .. Block /\ l \in 0 .. Block - a
      BY <3>1, <3>2, <3>3 DEF cend
    <3>5. Regions' = Regions \cup {[adr |-> a, len |-> l]}
      BY <3>1, <3>2 DEF Regions
    <3>6. ASSUME NEW s \in Regions PROVE Alloc!Apart([adr |-> a, len |-> l], s)
      <4>1. PICK d \in Used : s = [adr |-> d + usedCellHdrSize, len |-> -size[d] - usedCellHdrSize]
        BY DEF Regions
      <4>2. d \in Nat /\ size[d] \in Int /\ d # c
        BY Neighbours DEF IInv
      <4>3. c + n <= d \/ d - size[d] <= c
        BY <3>1, <3>2, <3>3, <4>2, RegionsApart DEF IInv
      <4>4. s.adr = d + usedCellHdrSize /\ s.adr + s.len = d - size[d]
        BY <4>1, <4>2
      <4>5. a + l = c + n
        BY <3>2, <3>3
      <4> QED
        BY <3>2, <3>3, <4>2, <4>3, <4>4, <4>5 DEF Alloc!Apart
    <3> QED
      BY <3>1, <3>4, <3>5, <3>6 DEF Alloc!Grant
  <2>2. ASSUME NEW b \in Requests, AllocateFails(b) PROVE Alloc!Refuse
    BY <2>2 DEF AllocateFails, headers, Alloc!Refuse, Regions, Used, Cells
  <2>3. ASSUME NEW c \in Used, Deallocate(c) PROVE Alloc!Return
    <3>1. Used' = Used \ {c} /\ (\A x \in Used' : size'[x] = size[x]) /\ adr' = NULL
      BY <2>3, DeallocateKeeps DEF Deallocate
    <3>2. PICK r \in Regions : r = [adr |-> c + usedCellHdrSize, len |-> -size[c] - usedCellHdrSize]
      BY DEF Regions
    <3>3. \A d \in Used : d \in Nat
      BY Neighbours DEF IInv
    <3>4. \A d \in Used : [adr |-> d + usedCellHdrSize, len |-> -size[d] - usedCellHdrSize] = r => d = c
      <4>1. r.adr = c + usedCellHdrSize
        BY <3>2
      <4> QED
        BY <4>1, <3>3
    <3>5. Regions' = Regions \ {r}
      BY <3>1, <3>2, <3>4 DEF Regions
    <3> QED
      BY <3>1, <3>5 DEF Alloc!Return
  <2>4. CASE UNCHANGED vars
    BY <2>4 DEF vars, headers, Regions, Used, Cells
  <2> QED
    BY <2>1, <2>2, <2>3, <2>4 DEF Next, Alloc!Next
<1> QED
  BY <1>1, <1>2, Invariant, PTL DEF Spec, AllocSpec, Alloc!Spec

(***************************************************************************)
(* For every size asked for: picoos_allocate returns the address of a      *)
(* region that is at least that long.                                      *)
(***************************************************************************)
THEOREM RegionsAreLongEnough == Spec => LongEnough
<1> DEFINE Long == \A byteSize \in Requests : Allocate(byteSize) =>
                     \E r \in Regions' : r.adr = adr' /\ byteSize <= r.len
<1>1. IInv /\ [Next]_vars => [Long]_vars
  <2> SUFFICES ASSUME IInv, NEW b \in Requests, Allocate(b)
               PROVE  \E r \in Regions' : r.adr = adr' /\ b <= r.len
    OBVIOUS
  <2> USE MemAssumption
  <2>1. PICK c \in Free : adr' = c + usedCellHdrSize /\ Used' = Used \cup {c} /\ size'[c] = -CellSize(b)
    BY AllocateKeeps
  <2>2. CellSize(b) \in Nat /\ CellSize(b) >= b + usedCellHdrSize /\ b \in Nat
    BY CellSizeBounds
  <2>3. PICK r \in Regions' : r = [adr |-> c + usedCellHdrSize, len |-> -size'[c] - usedCellHdrSize]
    BY <2>1 DEF Regions
  <2> QED
    BY <2>1, <2>2, <2>3
<1> QED
  BY <1>1, Invariant, PTL DEF Spec, LongEnough

\* The structure of the block is sound after any sequence of picoos_allocate and picoos_deallocate.
THEOREM CellsAreSound == Spec => []CellsSound
<1>1. Tiled /\ Linked /\ Coalesced /\ AllReturned => CellsSound
  BY DEF CellsSound
<1> QED
  BY <1>1, CellsTile, ListIsLinked, NeighboursAreMerged, BlockIsReturned, PTL

=============================================================================
