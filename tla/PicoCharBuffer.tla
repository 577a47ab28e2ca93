--------------------------- MODULE PicoCharBuffer ---------------------------
(***************************************************************************)
(* A char buffer (picodata.c): the byte ring between two PUs.  It is used  *)
(* in one of two ways.  The buffer an application feeds text into, and TOK *)
(* reads, holds characters (CharSpec); the others hold items, a header of  *)
(* HeadSize bytes whose last byte is the length of the contents that       *)
(* follow (ItemSpec).                                                      *)
(***************************************************************************)
EXTENDS Integers, Sequences, SequencesExt

CONSTANTS
  Size,      \* this->size
  HeadSize,  \* PICODATA_ITEM_HEADSIZE
  Byte,      \* the values of a byte that are used: a set of naturals
  Frame,     \* PICODATA_ITEM_FRAME, the type of an item of speech data
  Inputs     \* the byte sequences producers hand to picodata_cbPutItem

ASSUME CharBufferAssumption ==
  /\ Size \in Nat \ {0}
  /\ HeadSize \in Nat \ {0}
  /\ Byte \subseteq Nat
  /\ Inputs \subseteq Seq(Byte)

VARIABLES
  buf, rear, front, len,  \* the fields of picodata_char_buffer
  got,                    \* the bytes written to the caller's buffer
  result,                 \* what the last call returned
  held                    \* history: the items inside, oldest first

vars == <<buf, rear, front, len, got, result, held>>

Results == {"OK", "EOF", "UNDERFLOW", "OVERFLOW"}

TypeOK ==
  /\ buf \in [0 .. Size - 1 -> Byte]
  /\ rear \in 0 .. Size - 1 /\ front \in 0 .. Size - 1
  /\ len \in 0 .. Size
  /\ got \in Seq(Byte)
  /\ result \in Results
  /\ held \in Seq(Seq(Byte))

\* The bytes inside, oldest first.
Content == [k \in 1 .. len |-> buf[(front + k - 1) % Size]]

\* Mutation of Written: the index does not wrap around.
WrittenFlat(s) ==
  [j \in 0 .. Size - 1 |->
     IF j >= rear /\ j - rear < Len(s) THEN s[j - rear + 1] ELSE buf[j]]

\* The ring after the bytes s were put one by one at rear.
Written(s) ==
  [j \in 0 .. Size - 1 |->
     LET k == IF j >= rear THEN j - rear ELSE j - rear + Size
     IN  IF k < Len(s) THEN s[k + 1] ELSE buf[j]]

Store(s) ==
  /\ buf' = Written(s)
  /\ rear' = (rear + Len(s)) % Size
  /\ len' = len + Len(s)
  /\ UNCHANGED front

\* n bytes are read; the caller gets those after the first skip.
Fetch(n, skip) ==
  /\ front' = (front + n) % Size
  /\ len' = len - n
  /\ got' = [k \in 1 .. n - skip |-> buf[(front + skip + k - 1) % Size]]
  /\ UNCHANGED <<buf, rear>>

\* A call that leaves the buffer as it is and returns r.
Refuse(r) ==
  /\ result' = r
  /\ got' = <<>>
  /\ UNCHANGED <<buf, rear, front, len, held>>

-----------------------------------------------------------------------------
(* Characters. *)

\* Mutation of CbPutCh: the last place is used twice.
CbPutChTwice(ch) ==
  IF len <= Size
  THEN /\ Store(<<ch>>)
       /\ result' = "OK" /\ got' = <<>> /\ UNCHANGED held
  ELSE Refuse("OVERFLOW")

CbPutCh(ch) ==
  IF len < Size
  THEN /\ Store(<<ch>>)
       /\ result' = "OK" /\ got' = <<>> /\ UNCHANGED held
  ELSE Refuse("OVERFLOW")

CbGetCh ==
  IF len > 0
  THEN Fetch(1, 0) /\ result' = "OK" /\ UNCHANGED held
  ELSE Refuse("EOF")

-----------------------------------------------------------------------------
(* Items. *)

\* Mutation of ItemFits: the room left is not looked at.
FitsAnyway(n) == n <= Size

\* An item of n bytes fits into the room that is left.
ItemFits(n) == n <= Size - len

(***************************************************************************)
(* data_cbPutItem.  The first item in s is put whole or not at all; s may  *)
(* hold more than it (prStep hands over all of its output buffer) or end   *)
(* before it does.                                                         *)
(***************************************************************************)
CbPutItem(s) ==
  LET blen == s[HeadSize] + HeadSize IN
  IF Len(s) < HeadSize THEN Refuse("UNDERFLOW")
  ELSE IF ~ItemFits(blen) THEN Refuse("OVERFLOW")
  ELSE IF blen > Len(s) THEN Refuse("UNDERFLOW")
  ELSE /\ Store(SubSeq(s, 1, blen))
       /\ held' = Append(held, SubSeq(s, 1, blen))
       /\ result' = "OK" /\ got' = <<>>

\* Mutation of FrontItemSize: the length byte is looked up past the end.
FrontItemSizeFlat ==
  HeadSize + (IF front + HeadSize <= Size THEN buf[front + HeadSize - 1] ELSE 0)

\* The size the header at the front announces; the header may wrap around.
FrontItemSize == HeadSize + buf[(front + HeadSize - 1) % Size]

(***************************************************************************)
(* data_cbGetItem for a caller with room for blenmax bytes.  Speech data   *)
(* (issd) are handed over without their header, although the room is       *)
(* compared with the size of the whole item; an item that is no FRAME is   *)
(* dropped, before its completeness is looked at.                          *)
(***************************************************************************)
CbGetItem(blenmax, issd) ==
  IF len < HeadSize THEN Refuse(IF len = 0 THEN "EOF" ELSE "UNDERFLOW")
  ELSE IF issd /\ buf[front] # Frame
       THEN /\ Fetch(FrontItemSize, FrontItemSize)
            /\ held' = Tail(held) /\ result' = "OK"
  ELSE IF FrontItemSize > len THEN Refuse("UNDERFLOW")
  ELSE IF blenmax < FrontItemSize THEN Refuse("OVERFLOW")
  ELSE /\ Fetch(FrontItemSize, IF issd THEN HeadSize ELSE 0)
       /\ held' = Tail(held) /\ result' = "OK"

\* Mutation of CbReset: the front is forgotten.
CbResetRear ==
  /\ rear' = 0 /\ len' = 0
  /\ held' = <<>> /\ got' = <<>> /\ result' = "OK"
  /\ UNCHANGED <<buf, front>>

\* picodata_cbReset.  The old bytes stay where they are.
CbReset ==
  /\ rear' = 0 /\ front' = 0 /\ len' = 0
  /\ held' = <<>> /\ got' = <<>> /\ result' = "OK"
  /\ UNCHANGED buf

\* picodata_newCharBuffer; the memory is not initialized.
Init ==
  /\ buf \in [0 .. Size - 1 -> Byte]
  /\ rear = 0 /\ front = 0 /\ len = 0
  /\ got = <<>> /\ result = "OK" /\ held = <<>>

CharNext == CbReset \/ CbGetCh \/ \E ch \in Byte : CbPutCh(ch)

ItemNext ==
  \/ CbReset
  \/ \E s \in Inputs : CbPutItem(s)
  \/ \E blenmax \in 0 .. Size, issd \in BOOLEAN : CbGetItem(blenmax, issd)

CharSpec == Init /\ [][CharNext]_vars
ItemSpec == Init /\ [][ItemNext]_vars

-----------------------------------------------------------------------------
(* Properties. *)

(***************************************************************************)
(* Both uses of the ring are a bounded FIFO of bytes, wherever front and   *)
(* rear are: what is got is what was put, in order, and nothing that was   *)
(* refused is there.                                                       *)
(***************************************************************************)
Queue == INSTANCE PicoQueue WITH Capacity <- Size, queue <- Content
QueueSpec == Queue!Spec

(***************************************************************************)
(* The ring always holds a whole number of items, the ones that were put   *)
(* and not got yet, although items end anywhere in the ring and a header   *)
(* may lie across its end.                                                 *)
(***************************************************************************)
WholeItems == Content = FlattenSeq(held)

(***************************************************************************)
(* A consumer gets the oldest item whole (or its speech data), and one it  *)
(* has no room for stays: saStep, acphStep and cepStep rely on UNDERFLOW   *)
(* never being returned by picodata_cbGetItem (cepStep would spin on it).  *)
(***************************************************************************)
GetsOldest ==
  [][\A blenmax \in 0 .. Size, issd \in BOOLEAN :
       CbGetItem(blenmax, issd) =>
         /\ result' = "EOF" <=> held = <<>>
         /\ result' # "UNDERFLOW"
         /\ result' = "OVERFLOW" => held' = held /\ Len(Head(held)) > blenmax
         /\ result' = "OK" /\ got' # <<>> =>
              got' = IF issd THEN SubSeq(Head(held), HeadSize + 1, Len(Head(held)))
                             ELSE Head(held)]_vars
=============================================================================
