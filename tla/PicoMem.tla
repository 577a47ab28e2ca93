------------------------------ MODULE PicoMem ------------------------------
(***************************************************************************)
(* The memory manager (picoos.c).  A block is tiled by cells; each begins  *)
(* with a header: its size, negative while the cell is used, its left      *)
(* neighbour, and, in a free cell, the links of the free list.  The first  *)
(* and the last cell are sentinels of size 0, which also end that list.    *)
(*                                                                         *)
(* Addresses are offsets in the block.  A header is one only while its     *)
(* cell exists: the functions below have the existing cells as domain.     *)
(* The links of a used cell are overwritten by the caller's data.          *)
(***************************************************************************)
EXTENDS Integers, FiniteSets, FiniteSetsExt, Functions

CONSTANTS
  Block,              \* lastBlock->size
  PICOOS_ALIGN_SIZE,
  fullCellHdrSize,
  usedCellHdrSize,
  Requests,           \* the sizes callers ask for
  NULL,               \* the end of a list
  Data                \* the caller's data where a link was

ASSUME MemAssumption ==
  /\ PICOOS_ALIGN_SIZE \in Nat \ {0}
  /\ usedCellHdrSize \in Nat \ {0}
  /\ fullCellHdrSize \in Nat /\ fullCellHdrSize > usedCellHdrSize
  /\ Block \in Nat /\ Block >= 3 * fullCellHdrSize
  /\ Requests \subseteq Nat
  /\ NULL \notin Int /\ Data \notin Int

\* picoos_newMemoryManager rounds the size of the whole header up, and the
\* part that stays in a used cell is two words, 8 or 16 bytes.
ASSUME AlignedHeaders ==
  fullCellHdrSize % PICOOS_ALIGN_SIZE = 0 /\ usedCellHdrSize % PICOOS_ALIGN_SIZE = 0

VARIABLES
  size, leftCell, nextFree, prevFree,  \* the headers, by address of the cell
  usedSize, maxUsedSize,
  adr      \* what the last picoos_allocate returned, NULL once it is freed

headers == <<size, leftCell, nextFree, prevFree>>
vars    == <<headers, usedSize, maxUsedSize, adr>>

minContSize == fullCellHdrSize - usedCellHdrSize
minCellSize == fullCellHdrSize + PICOOS_ALIGN_SIZE

cbeg == 0
cmid == fullCellHdrSize
cend == Block - fullCellHdrSize

Cells == DOMAIN size
Free  == {c \in Cells : size[c] > 0}
Used  == {c \in Cells : size[c] < 0}

\* The bytes of cell c; a sentinel is just a header.
Extent(c) == IF size[c] > 0 THEN size[c] ELSE IF size[c] < 0 THEN -size[c] ELSE fullCellHdrSize

Right(c) == c + Extent(c)

TypeOK ==
  /\ Cells \subseteq 0 .. Block /\ {cbeg, cend} \subseteq Cells
  /\ size \in [Cells -> Int]
  /\ leftCell \in [Cells -> Cells \cup {NULL}]
  /\ nextFree \in [Cells -> Cells \cup {NULL, Data}]
  /\ prevFree \in [Cells -> Cells \cup {NULL, Data}]
  /\ usedSize \in Int /\ maxUsedSize \in Int
  /\ adr \in 0 .. Block \cup {NULL}

-----------------------------------------------------------------------------
(* Headers that come and go. *)

With(f, x, v)  == [y \in DOMAIN f \cup {x} |-> IF y = x THEN v ELSE f[y]]
Without(f, S)  == Restrict(f, DOMAIN f \ S)

-----------------------------------------------------------------------------
(* picoos_allocate *)

\* Mutation of CellSize: a cell may be too small for its links.
CellSizeBare(byteSize) ==
  ((byteSize + PICOOS_ALIGN_SIZE - 1) \div PICOOS_ALIGN_SIZE) * PICOOS_ALIGN_SIZE
    + usedCellHdrSize

\* Mutation of CellSize: the size is not rounded up.
CellSizeOdd(byteSize) ==
  (IF byteSize < minContSize THEN minContSize ELSE byteSize) + usedCellHdrSize

CellSize(byteSize) ==
  LET b == IF byteSize < minContSize THEN minContSize ELSE byteSize
  IN  ((b + PICOOS_ALIGN_SIZE - 1) \div PICOOS_ALIGN_SIZE) * PICOOS_ALIGN_SIZE
        + usedCellHdrSize

\* The cell reached from the first sentinel after k + 1 links.
Walk[k \in Nat] ==
  IF k = 0 THEN nextFree[cbeg]
  ELSE LET c == Walk[k - 1] IN IF c \in Cells THEN nextFree[c] ELSE NULL

\* Mutation of Fits: what is left over may be too small for a cell.
FitsTight(c, n) == size[c] >= n

\* Cell c is n bytes long, or long enough to be split.
Fits(c, n) == size[c] = n \/ size[c] >= n + minCellSize

\* The first cell of the list that fits, in a set; empty if there is none.
FirstFit(n) ==
  {c \in Cells :
     /\ Fits(c, n)
     /\ \E k \in 0 .. Cardinality(Cells) :
          Walk[k] = c /\ \A j \in 0 .. k - 1 : Walk[j] \in Cells => ~Fits(Walk[j], n)}

TakeWhole(c) ==
  /\ size' = [size EXCEPT ![c] = -size[c]]
  /\ nextFree' = [nextFree EXCEPT ![prevFree[c]] = nextFree[c], ![c] = Data]
  /\ prevFree' = [prevFree EXCEPT ![nextFree[c]] = prevFree[c], ![c] = Data]
  /\ UNCHANGED leftCell

\* The first n bytes of c are taken; the rest, a cell c2, has the place of c
\* in the list.
Split(c, n) ==
  LET c2 == c + n IN
  /\ size' = With([size EXCEPT ![c] = -n], c2, size[c] - n)
  /\ leftCell' = With([leftCell EXCEPT ![Right(c)] = c2], c2, c)
  /\ nextFree' = With([nextFree EXCEPT ![prevFree[c]] = c2, ![c] = Data], c2, nextFree[c])
  /\ prevFree' = With([prevFree EXCEPT ![nextFree[c]] = c2, ![c] = Data], c2, prevFree[c])

Counted(n) ==
  /\ usedSize' = usedSize + n
  /\ maxUsedSize' = IF usedSize' > maxUsedSize THEN usedSize' ELSE maxUsedSize

Allocate(byteSize) ==
  LET n == CellSize(byteSize) IN
  \E c \in FirstFit(n) :
    /\ IF size[c] = n THEN TakeWhole(c) ELSE Split(c, n)
    /\ Counted(n)
    /\ adr' = c + usedCellHdrSize

AllocateFails(byteSize) ==
  /\ FirstFit(CellSize(byteSize)) = {}
  /\ adr' = NULL
  /\ UNCHANGED <<headers, usedSize, maxUsedSize>>

-----------------------------------------------------------------------------
(* picoos_deallocate *)

\* Mutation of MergeBoth: the cell to the right stays in the list.
MergeBothLinked(c) ==
  LET cl == leftCell[c]
      cr == Right(c)
  IN
  /\ size' = Without([size EXCEPT ![cl] = size[cl] - size[c] + size[cr]], {c, cr})
  /\ leftCell' = Without([leftCell EXCEPT ![Right(cr)] = cl], {c, cr})
  /\ nextFree' = Without(nextFree, {c, cr})
  /\ prevFree' = Without(prevFree, {c, cr})

\* The cell c and the cell to its right become part of the one to its left.
MergeBoth(c) ==
  LET cl == leftCell[c]
      cr == Right(c)
  IN
  /\ size' = Without([size EXCEPT ![cl] = size[cl] - size[c] + size[cr]], {c, cr})
  /\ leftCell' = Without([leftCell EXCEPT ![Right(cr)] = cl], {c, cr})
  /\ nextFree' = Without([nextFree EXCEPT ![prevFree[cr]] = nextFree[cr]], {c, cr})
  /\ prevFree' = Without([prevFree EXCEPT ![nextFree[cr]] = prevFree[cr]], {c, cr})

\* Mutation of MergeLeft: the right neighbour is not told.
MergeLeftUntold(c) ==
  LET cl == leftCell[c] IN
  /\ size' = Without([size EXCEPT ![cl] = size[cl] - size[c]], {c})
  /\ leftCell' = Without(leftCell, {c})
  /\ nextFree' = Without(nextFree, {c})
  /\ prevFree' = Without(prevFree, {c})

\* Only the left neighbour is free.
MergeLeft(c) ==
  LET cl == leftCell[c] IN
  /\ size' = Without([size EXCEPT ![cl] = size[cl] - size[c]], {c})
  /\ leftCell' = Without([leftCell EXCEPT ![Right(c)] = cl], {c})
  /\ nextFree' = Without(nextFree, {c})
  /\ prevFree' = Without(prevFree, {c})

\* Mutation of MergeRight: the predecessor in the list keeps its link.
MergeRightHalf(c) ==
  LET cr == Right(c) IN
  /\ size' = Without([size EXCEPT ![c] = size[cr] - size[c]], {cr})
  /\ leftCell' = Without([leftCell EXCEPT ![Right(cr)] = c], {cr})
  /\ nextFree' = Without([nextFree EXCEPT ![prevFree[cr]] = nextFree[cr], ![c] = nextFree[cr]], {cr})
  /\ prevFree' = Without([prevFree EXCEPT ![nextFree[cr]] = c, ![c] = prevFree[cr]], {cr})

\* Only the right neighbour is free: c takes its place in the list.
MergeRight(c) ==
  LET cr == Right(c) IN
  /\ size' = Without([size EXCEPT ![c] = size[cr] - size[c]], {cr})
  /\ leftCell' = Without([leftCell EXCEPT ![Right(cr)] = c], {cr})
  /\ nextFree' = Without([nextFree EXCEPT ![prevFree[cr]] = c, ![c] = nextFree[cr]], {cr})
  /\ prevFree' = Without([prevFree EXCEPT ![nextFree[cr]] = c, ![c] = prevFree[cr]], {cr})

\* No neighbour is free: c becomes the first cell of the list.
Link(c) ==
  /\ size' = [size EXCEPT ![c] = -size[c]]
  /\ nextFree' = [nextFree EXCEPT ![cbeg] = c, ![c] = nextFree[cbeg]]
  /\ prevFree' = [prevFree EXCEPT ![nextFree[cbeg]] = c, ![c] = cbeg]
  /\ UNCHANGED leftCell

\* Mutation of IsFree: no neighbour is found to be free.
IsFreeNever(c) == size[c] > Block

\* Mutation of IsFree: a used neighbour is taken for a free one.
IsFreeCell(c) == size[c] # 0

IsFree(c) == size[c] > 0

Deallocate(c) ==
  /\ CASE IsFree(leftCell[c]) /\ IsFree(Right(c))   -> MergeBoth(c)
       [] IsFree(leftCell[c]) /\ ~IsFree(Right(c))  -> MergeLeft(c)
       [] ~IsFree(leftCell[c]) /\ IsFree(Right(c))  -> MergeRight(c)
       [] ~IsFree(leftCell[c]) /\ ~IsFree(Right(c)) -> Link(c)
  /\ usedSize' = usedSize + size[c]
  /\ adr' = NULL
  /\ UNCHANGED maxUsedSize

-----------------------------------------------------------------------------
\* os_init_mem_block
Init ==
  /\ size = [c \in {cbeg, cmid, cend} |-> IF c = cmid THEN Block - 2 * fullCellHdrSize ELSE 0]
  /\ leftCell = [c \in {cbeg, cmid, cend} |->
                   CASE c = cbeg -> NULL [] c = cmid -> cbeg [] c = cend -> cmid]
  /\ nextFree = [c \in {cbeg, cmid, cend} |->
                   CASE c = cbeg -> cmid [] c = cmid -> cend [] c = cend -> NULL]
  /\ prevFree = [c \in {cbeg, cmid, cend} |->
                   CASE c = cbeg -> NULL [] c = cmid -> cbeg [] c = cend -> cmid]
  /\ usedSize = 0 /\ maxUsedSize = 0
  /\ adr = NULL

Next ==
  \/ \E n \in Requests : Allocate(n) \/ AllocateFails(n)
  \/ \E c \in Used : Deallocate(c)

Spec == Init /\ [][Next]_vars

-----------------------------------------------------------------------------
(* Properties. *)

\* The contents of the used cells.
Regions == {[adr |-> c + usedCellHdrSize, len |-> -size[c] - usedCellHdrSize] : c \in Used}

(***************************************************************************)
(* The cells tile the block: each ends where the next begins, knows its    *)
(* left neighbour, and has room for a whole header.                        *)
(***************************************************************************)
Tiled ==
  /\ \A c \in Cells : size[c] = 0 <=> c \in {cbeg, cend}
  /\ \A c \in Cells : Extent(c) >= fullCellHdrSize
  /\ \A c \in Cells : c <= cend
  /\ \A c \in Cells \ {cend} : Right(c) \in Cells /\ leftCell[Right(c)] = c
  /\ \A c \in Cells \ {cbeg} : leftCell[c] \in Cells /\ Right(leftCell[c]) = c
  /\ leftCell[cbeg] = NULL
  /\ \A c, d \in Cells : c < d => Right(c) <= d

\* The links of the free list go both ways, between free cells and sentinels.
Linked ==
  /\ nextFree[cend] = NULL /\ prevFree[cbeg] = NULL
  /\ \A c \in Free \cup {cbeg} :
       nextFree[c] \in Free \cup {cend} /\ prevFree[nextFree[c]] = c
  /\ \A c \in Free \cup {cend} :
       prevFree[c] \in Free \cup {cbeg} /\ nextFree[prevFree[c]] = c

(***************************************************************************)
(* The walk along the free list meets each free cell exactly once, then    *)
(* the last sentinel, and ends: no free cell is lost, none is met again.   *)
(***************************************************************************)
FreeListExact ==
  LET n == Cardinality(Free) IN
  /\ {Walk[k] : k \in 0 .. n - 1} = Free
  /\ Walk[n] = cend /\ Walk[n + 1] = NULL

\* Two neighbours are never both free: they would have been merged.
Coalesced == \A c \in Free : Right(c) \notin Free

\* When all memory was given back, the block is one free cell, as at first.
AllReturned == Used = {} => Free = {cmid} /\ size[cmid] = Block - 2 * fullCellHdrSize

(***************************************************************************)
(* The structure of the block holds whatever the order of the calls was:   *)
(* cells that tile it, a free list linked both ways, neighbours merged.    *)
(***************************************************************************)
CellsSound == Tiled /\ Linked /\ Coalesced /\ AllReturned

\* What is handed out is aligned, if the headers are and the block is.
Aligned == adr # NULL => adr % PICOOS_ALIGN_SIZE = 0

(***************************************************************************)
(* Every cell that is free can be found again by picoos_allocate, once,    *)
(* and every cell that it found is handed out aligned.                     *)
(***************************************************************************)
CellsUsable == FreeListExact /\ Aligned

\* What picoos_allocate returns is the contents of a cell with room for byteSize bytes.
LongEnough ==
  [][\A byteSize \in Requests : Allocate(byteSize) =>
       \E r \in Regions' : r.adr = adr' /\ byteSize <= r.len]_vars

\* NULL is returned only if no free cell fits.
FailsOnlyIfNoneFits ==
  [][\A n \in Requests : AllocateFails(n) => \A c \in Free : ~Fits(c, CellSize(n))]_vars

(***************************************************************************)
(* The manager implements PicoAlloc: the contents of its used cells are    *)
(* the regions handed out.                                                 *)
(***************************************************************************)
Alloc == INSTANCE PicoAlloc WITH regions <- Regions
AllocSpec == Alloc!Spec
=============================================================================
