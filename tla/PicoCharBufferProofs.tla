------------------------ MODULE PicoCharBufferProofs ------------------------
(***************************************************************************)
(* Theorems about PicoCharBuffer, for every size of the ring and of the    *)
(* header.                                                                 *)
(***************************************************************************)
EXTENDS PicoCharBuffer, SequenceTheorems, TLAPS

-----------------------------------------------------------------------------
(* The ring. *)

\* Taking an index modulo N wraps it at most once.
LEMMA Modulo ==
  ASSUME NEW N \in Nat \ {0}, NEW x \in 0 .. N - 1, NEW k \in 0 .. N
  PROVE  (x + k) % N = IF x + k < N THEN x + k ELSE x + k - N
<1>1. CASE x + k < N
  <2>1. x + k \in 0 .. N - 1 BY <1>1
  <2> QED BY <2>1, SMT
<1>2. CASE x + k >= N
  <2>1. x + k - N \in 0 .. N - 1 BY <1>2
  <2>2. x + k = (x + k - N) + 1 * N OBVIOUS
  <2> QED BY <2>1, <2>2, SMT
<1> QED BY <1>1, <1>2

\* The part of the state that a byte queue depends on.
Ring ==
  /\ buf \in [0 .. Size - 1 -> Byte]
  /\ rear \in 0 .. Size - 1 /\ front \in 0 .. Size - 1
  /\ len \in 0 .. Size
  /\ rear = (front + len) % Size

\* The index of the k-th byte, without a modulo.
Index(k) == IF front + k - 1 < Size THEN front + k - 1 ELSE front + k - 1 - Size

\* The n bytes of ring b that start at index f are a sequence.
LEMMA BytesOfRing ==
  ASSUME NEW b \in [0 .. Size - 1 -> Byte], NEW f \in 0 .. Size - 1, NEW n \in 0 .. Size
  PROVE  /\ [k \in 1 .. n |-> b[(f + k - 1) % Size]] \in Seq(Byte)
         /\ Len([k \in 1 .. n |-> b[(f + k - 1) % Size]]) = n
<1> USE CharBufferAssumption
<1> DEFINE bytes == [k \in 1 .. n |-> b[(f + k - 1) % Size]]
<1>1. \A k \in 1 .. n : b[(f + k - 1) % Size] \in Byte
  <2> SUFFICES ASSUME NEW k \in 1 .. n PROVE b[(f + k - 1) % Size] \in Byte OBVIOUS
  <2>1. (f + k - 1) % Size \in 0 .. Size - 1 OBVIOUS
  <2> QED BY <2>1
<1>2. bytes \in [1 .. n -> Byte] BY <1>1
<1>3. n \in Nat OBVIOUS
<1>4. bytes \in Seq(Byte) /\ Len(bytes) = n BY <1>2, <1>3, SeqDef, LenProperties
<1> QED BY <1>4

LEMMA ContentAt ==
  ASSUME Ring
  PROVE  /\ Content \in Seq(Byte)
         /\ Len(Content) = len
         /\ \A k \in 1 .. Size : /\ (front + k - 1) % Size = Index(k)
                                 /\ Index(k) \in 0 .. Size - 1
         /\ \A k \in 1 .. len : Content[k] = buf[Index(k)]
<1> USE CharBufferAssumption
<1>1. \A k \in 1 .. Size : (front + k - 1) % Size = Index(k) /\ Index(k) \in 0 .. Size - 1
  <2> SUFFICES ASSUME NEW k \in 1 .. Size
               PROVE  (front + k - 1) % Size = Index(k) /\ Index(k) \in 0 .. Size - 1
    OBVIOUS
  <2>1. k - 1 \in 0 .. Size /\ front \in 0 .. Size - 1 BY DEF Ring
  <2>2. (front + (k - 1)) % Size
          = IF front + (k - 1) < Size THEN front + (k - 1) ELSE front + (k - 1) - Size
    BY <2>1, Modulo
  <2>3. front + k - 1 = front + (k - 1) BY <2>1
  <2>4. Index(k) \in 0 .. Size - 1 BY <2>1 DEF Index
  <2> QED BY <2>2, <2>3, <2>4 DEF Index
<1>2. \A k \in 1 .. len : Content[k] = buf[Index(k)] /\ Content[k] \in Byte
  BY <1>1 DEF Content, Ring
<1>3. Content \in [1 .. len -> Byte] BY <1>2 DEF Content
<1>4. len \in Nat BY DEF Ring
<1>5. Content \in Seq(Byte) /\ Len(Content) = len
  BY <1>3, <1>4, SeqDef, LenProperties
<1> QED BY <1>1, <1>2, <1>5

\* Putting the bytes s appends them.
LEMMA StoreAppends ==
  ASSUME Ring, NEW s \in Seq(Byte), Len(s) <= Size - len, Store(s)
  PROVE  Ring' /\ Content' = Content \o s
<1> USE CharBufferAssumption
<1>1. Len(s) \in 0 .. Size /\ len \in 0 .. Size /\ front \in 0 .. Size - 1
  BY DEF Ring
<1>2. rear = IF front + len < Size THEN front + len ELSE front + len - Size
  BY <1>1, Modulo DEF Ring
<1>3. len' = len + Len(s) /\ len' \in 0 .. Size /\ front' = front
  BY <1>1 DEF Store
<1>4. rear \in 0 .. Size - 1 BY DEF Ring
<1>5. rear' = IF rear + Len(s) < Size THEN rear + Len(s) ELSE rear + Len(s) - Size
  BY <1>1, <1>4, Modulo DEF Store
<1>6. (front + len') % Size
        = IF front + len' < Size THEN front + len' ELSE front + len' - Size
  BY <1>1, <1>3, Modulo
<1>7. rear' = (front' + len') % Size /\ rear' \in 0 .. Size - 1
  BY <1>1, <1>2, <1>3, <1>5, <1>6
<1>8. buf' \in [0 .. Size - 1 -> Byte]
  <2> SUFFICES ASSUME NEW j \in 0 .. Size - 1
               PROVE  Written(s)[j] \in Byte
    BY DEF Store, Written
  <2> DEFINE k == IF j >= rear THEN j - rear ELSE j - rear + Size
  <2>1. k \in Nat BY <1>4
  <2>2. CASE k < Len(s)
    <3>1. k + 1 \in 1 .. Len(s) BY <2>1, <2>2, <1>1
    <3> QED BY <3>1, <2>2, ElementOfSeq DEF Written
  <2>3. CASE ~(k < Len(s)) BY <2>3 DEF Written, Ring
  <2> QED BY <2>2, <2>3
<1>9. Ring' BY <1>1, <1>3, <1>7, <1>8 DEF Ring
<1>10. \A k \in 1 .. len : Content'[k] = Content[k]
  <2> SUFFICES ASSUME NEW k \in 1 .. len PROVE Content'[k] = Content[k] OBVIOUS
  <2>1. k \in 1 .. len' /\ k \in 1 .. Size BY <1>1, <1>3
  <2>2. Content[k] = buf[Index(k)] /\ Index(k) \in 0 .. Size - 1
    BY <2>1, ContentAt
  <2>3. Content'[k] = buf'[(front + k - 1) % Size] BY <2>1, <1>3 DEF Content
  <2>4. (front + k - 1) % Size = Index(k) BY <2>1, ContentAt
  <2>5. buf'[Index(k)] = buf[Index(k)]
    <3> DEFINE j == Index(k)
               d == IF j >= rear THEN j - rear ELSE j - rear + Size
    <3>1. d >= Len(s) BY <1>1, <1>2, <2>2 DEF Index
    <3> QED BY <3>1, <2>2, <1>1, <1>4 DEF Store, Written
  <2> QED BY <2>2, <2>3, <2>4, <2>5
<1>11. \A k \in 1 .. Len(s) : Content'[len + k] = s[k]
  <2> SUFFICES ASSUME NEW k \in 1 .. Len(s) PROVE Content'[len + k] = s[k] OBVIOUS
  <2>1. len + k \in 1 .. len' /\ len + k \in 1 .. Size BY <1>1, <1>3
  <2>2. Index(len + k) \in 0 .. Size - 1 BY <2>1, ContentAt
  <2>3. Content'[len + k] = buf'[(front + (len + k) - 1) % Size]
    BY <2>1, <1>3 DEF Content
  <2>4. (front + (len + k) - 1) % Size = Index(len + k) BY <2>1, ContentAt
  <2>5. buf'[Index(len + k)] = s[k]
    <3> DEFINE j == Index(len + k)
               d == IF j >= rear THEN j - rear ELSE j - rear + Size
    <3>1. d = k - 1 BY <1>1, <1>2, <2>2 DEF Index
    <3>2. d < Len(s) /\ d + 1 = k BY <3>1, <1>1
    <3> QED BY <3>2, <2>2 DEF Store, Written
  <2> QED BY <2>3, <2>4, <2>5
<1>12. Content \in Seq(Byte) /\ Len(Content) = len BY ContentAt
<1>13. Content' \in Seq(Byte) /\ Len(Content') = len'
  BY <1>1, <1>3, <1>8, BytesOfRing DEF Content, Ring
<1>14. Content \o s \in Seq(Byte) /\ Len(Content \o s) = len + Len(s)
  BY <1>12, ConcatProperties
<1>15. \A i \in 1 .. len + Len(s) : Content'[i] = (Content \o s)[i]
  <2> SUFFICES ASSUME NEW i \in 1 .. len + Len(s)
               PROVE  Content'[i] = (Content \o s)[i]
    OBVIOUS
  <2>1. CASE i <= len BY <2>1, <1>10, <1>12, <1>1, ConcatProperties
  <2>2. CASE i > len
    <3>1. i - len \in 1 .. Len(s) /\ len + (i - len) = i BY <2>2, <1>1
    <3>2. Content'[i] = s[i - len] BY <3>1, <1>11
    <3>3. (Content \o s)[i] = s[i - len] BY <2>2, <1>1, <1>12, ConcatProperties
    <3> QED BY <3>2, <3>3
  <2>3. i <= len \/ i > len BY <1>1
  <2> QED BY <2>1, <2>2, <2>3
<1> QED BY <1>9, <1>13, <1>14, <1>15, <1>3, SeqEqual

\* The elements m+1 to n of a sequence.
LEMMA SubSeqAt ==
  ASSUME NEW S, NEW s \in Seq(S), NEW m \in 0 .. Len(s), NEW n \in m .. Len(s)
  PROVE  /\ SubSeq(s, m + 1, n) \in Seq(S)
         /\ Len(SubSeq(s, m + 1, n)) = n - m
         /\ \A i \in 1 .. n - m : SubSeq(s, m + 1, n)[i] = s[m + i]
<1>1. m + 1 \in Int /\ n \in Int /\ \A i \in m + 1 .. n : s[i] \in S
  BY ElementOfSeq
<1>2. SubSeq(s, m + 1, n) \in Seq(S) BY <1>1, SubSeqProperties
<1>3. Len(SubSeq(s, m + 1, n)) = n - m OBVIOUS
<1>4. ASSUME NEW i \in 1 .. n - m PROVE SubSeq(s, m + 1, n)[i] = s[m + i]
  OBVIOUS
<1> QED BY <1>2, <1>3, <1>4

\* Reading n bytes removes them, and hands over those after the first skip.
LEMMA FetchRemoves ==
  ASSUME Ring, NEW n \in 0 .. len, NEW skip \in 0 .. n, Fetch(n, skip)
  PROVE  /\ Ring'
         /\ Content' = SubSeq(Content, n + 1, len)
         /\ got' = SubSeq(Content, skip + 1, n)
         /\ got' \in Seq(Byte)
<1> USE CharBufferAssumption
<1>1. len \in 0 .. Size /\ front \in 0 .. Size - 1 BY DEF Ring
<1>2. len' = len - n /\ len' \in 0 .. Size /\ rear' = rear /\ buf' = buf
  BY <1>1 DEF Fetch
<1>3. n \in 0 .. Size BY <1>1
<1>4. front' = IF front + n < Size THEN front + n ELSE front + n - Size
  BY <1>1, <1>3, Modulo DEF Fetch
<1>5. front' \in 0 .. Size - 1 BY <1>1, <1>3, <1>4
<1>6. (front' + len') % Size
        = IF front' + len' < Size THEN front' + len' ELSE front' + len' - Size
  BY <1>2, <1>5, Modulo
<1>7. rear = IF front + len < Size THEN front + len ELSE front + len - Size
  BY <1>1, Modulo DEF Ring
<1>8. rear' = (front' + len') % Size BY <1>1, <1>2, <1>3, <1>4, <1>6, <1>7
<1>9. Ring' BY <1>2, <1>5, <1>8 DEF Ring
<1>10. /\ Content \in Seq(Byte) /\ Len(Content) = len
       /\ \A k \in 1 .. Size : (front + k - 1) % Size = Index(k)
       /\ \A k \in 1 .. len : Content[k] = buf[Index(k)]
  BY ContentAt
<1>11. Content' \in Seq(Byte) /\ Len(Content') = len'
  <2>1. buf' \in [0 .. Size - 1 -> Byte] BY <1>2 DEF Ring
  <2>2. len' \in 0 .. Size BY <1>2
  <2> QED BY <2>1, <2>2, <1>5, BytesOfRing DEF Content
<1>12. \A k \in 1 .. len' : Content'[k] = Content[n + k]
  <2> SUFFICES ASSUME NEW k \in 1 .. len' PROVE Content'[k] = Content[n + k] OBVIOUS
  <2>1. k - 1 \in 0 .. Size BY <1>2
  <2>2. (front' + (k - 1)) % Size
          = IF front' + (k - 1) < Size THEN front' + (k - 1) ELSE front' + (k - 1) - Size
    BY <2>1, <1>5, Modulo
  <2>3. front' + k - 1 = front' + (k - 1) BY <1>5
  <2>4. (front' + k - 1) % Size = Index(n + k)
    BY <2>2, <2>3, <1>1, <1>2, <1>3, <1>4 DEF Index
  <2>5. n + k \in 1 .. len BY <1>1, <1>2, <1>3
  <2>6. Content'[k] = buf'[(front' + k - 1) % Size] BY DEF Content
  <2> QED BY <2>4, <2>5, <2>6, <1>2, <1>10
<1>14. /\ SubSeq(Content, n + 1, len) \in Seq(Byte)
       /\ Len(SubSeq(Content, n + 1, len)) = len - n
       /\ \A i \in 1 .. len - n : SubSeq(Content, n + 1, len)[i] = Content[n + i]
  <2>1. n \in 0 .. Len(Content) /\ len \in n .. Len(Content) BY <1>1, <1>3, <1>10
  <2>2. Content \in Seq(Byte) BY <1>10
  <2> QED BY <2>1, <2>2, SubSeqAt
<1>15. Content' = SubSeq(Content, n + 1, len)
  BY <1>2, <1>11, <1>12, <1>14, SeqEqual
<1>16. skip \in 0 .. Size /\ n - skip \in 0 .. Size BY <1>3
<1>17. \A k \in 1 .. n - skip : buf[(front + skip + k - 1) % Size] = Content[skip + k]
  <2> SUFFICES ASSUME NEW k \in 1 .. n - skip
               PROVE  buf[(front + skip + k - 1) % Size] = Content[skip + k]
    OBVIOUS
  <2>1. skip + k \in 1 .. len /\ skip + k \in 1 .. Size BY <1>1, <1>3, <1>16
  <2>2. front + skip + k - 1 = front + (skip + k) - 1 BY <1>1, <1>16
  <2> QED BY <2>1, <2>2, <1>10
<1>19. /\ SubSeq(Content, skip + 1, n) \in Seq(Byte)
       /\ Len(SubSeq(Content, skip + 1, n)) = n - skip
       /\ \A i \in 1 .. n - skip : SubSeq(Content, skip + 1, n)[i] = Content[skip + i]
  <2>1. skip \in 0 .. Len(Content) /\ n \in skip .. Len(Content)
    BY <1>1, <1>3, <1>10
  <2> QED BY <2>1, <1>10, SubSeqAt
<1>20. got' \in [1 .. n - skip -> Byte]
  <2>1. got' = [k \in 1 .. n - skip |-> buf[(front + skip + k - 1) % Size]]
    BY DEF Fetch
  <2>2. \A k \in 1 .. n - skip : Content[skip + k] \in Byte
    BY <1>1, <1>3, <1>10, <1>16, ElementOfSeq
  <2> QED BY <2>1, <2>2, <1>17
<1>21. got' \in Seq(Byte) /\ Len(got') = n - skip
  BY <1>16, <1>20, SeqDef, LenProperties
<1>22. \A k \in 1 .. n - skip : got'[k] = Content[skip + k] BY <1>17 DEF Fetch
<1>23. got' = SubSeq(Content, skip + 1, n) BY <1>19, <1>21, <1>22, SeqEqual
<1> QED BY <1>9, <1>15, <1>21, <1>23

-----------------------------------------------------------------------------
(* The four things a call may do are the four steps of PicoQueue. *)

LEMMA NothingInside ==
  ASSUME Ring, len = 0
  PROVE  Content = <<>>
BY ContentAt, EmptySeq

LEMMA StoreGrows ==
  ASSUME Ring, NEW s \in Seq(Byte), Len(s) <= Size - len, Store(s), got' = <<>>
  PROVE  Queue!Grow
<1> USE CharBufferAssumption
<1>1. Content' = Content \o s BY StoreAppends
<1>2. Content \in Seq(Byte) /\ Len(Content) = len BY ContentAt
<1>3. Len(Content') = len + Len(s) BY <1>1, <1>2, ConcatProperties
<1>4. Content' \in Seq(Byte) BY <1>1, <1>2, ConcatProperties
<1>5. len \in Nat /\ len <= Size /\ Len(s) \in Nat BY DEF Ring
<1>6. /\ SubSeq(Content', 0 + 1, len) \in Seq(Byte)
      /\ Len(SubSeq(Content', 0 + 1, len)) = len - 0
      /\ \A i \in 1 .. len - 0 : SubSeq(Content', 0 + 1, len)[i] = Content'[0 + i]
  <2>1. 0 \in 0 .. Len(Content') /\ len \in 0 .. Len(Content') BY <1>3, <1>5
  <2> QED BY <2>1, <1>4, SubSeqAt
<1>7. \A i \in 1 .. len : Content'[i] = Content[i] BY <1>1, <1>2, ConcatProperties
<1>8. Content = SubSeq(Content', 1, len)
  <2>1. \A i \in 1 .. len : SubSeq(Content', 0 + 1, len)[i] = Content[i]
    BY <1>5, <1>6, <1>7
  <2>2. Len(SubSeq(Content', 0 + 1, len)) = len BY <1>5, <1>6
  <2>3. SubSeq(Content', 0 + 1, len) = Content BY <2>1, <2>2, <1>2, <1>6, SeqEqual
  <2> QED BY <2>3
<1> QED BY <1>2, <1>3, <1>5, <1>8 DEF Queue!Grow

LEMMA FetchTakes ==
  ASSUME Ring, NEW n \in 1 .. len, NEW skip \in 0 .. n, Fetch(n, skip)
  PROVE  Queue!Remove
<1>1. n \in 0 .. len BY DEF Ring
<1>2. /\ Content' = SubSeq(Content, n + 1, len)
      /\ got' = SubSeq(Content, skip + 1, n)
  BY <1>1, FetchRemoves
<1>3. Len(Content) = len BY ContentAt
<1> QED BY <1>2, <1>3 DEF Queue!Remove

LEMMA RefuseKeeps ==
  ASSUME NEW r \in Results, Ring, Refuse(r)
  PROVE  Ring' /\ Queue!Refuse
BY DEF Refuse, Ring, Queue!Refuse, Content

LEMMA ResetEmpties ==
  ASSUME Ring, CbReset
  PROVE  Ring' /\ Queue!Reset
<1> USE CharBufferAssumption
<1>1. rear' = 0 /\ front' = 0 /\ len' = 0 /\ buf' = buf /\ got' = <<>>
  BY DEF CbReset
<1>2. Ring' BY <1>1 DEF Ring
<1>3. Content' = <<>>
  <2>1. /\ buf' \in [0 .. Size - 1 -> Byte]
        /\ front' \in 0 .. Size - 1 /\ len' \in 0 .. Size
    BY <1>2 DEF Ring
  <2>2. Content' \in Seq(Byte) /\ Len(Content') = len'
    BY <2>1, BytesOfRing DEF Content
  <2> QED BY <2>2, <1>1, EmptySeq
<1> QED BY <1>1, <1>2, <1>3 DEF Queue!Reset

LEMMA InitRing ==
  ASSUME Init
  PROVE  Ring /\ Queue!Init
<1> USE CharBufferAssumption
<1>1. Ring BY DEF Init, Ring
<1>2. Content = <<>> BY <1>1, NothingInside DEF Init
<1> QED BY <1>1, <1>2 DEF Init, Queue!Init

LEMMA IdleKeeps ==
  ASSUME UNCHANGED vars
  PROVE  UNCHANGED Queue!queueVars /\ (Ring => Ring')
BY DEF vars, Queue!queueVars, Content, Ring

-----------------------------------------------------------------------------
(* The ring used for characters. *)

LEMMA CharStep ==
  ASSUME Ring, CharNext
  PROVE  Ring' /\ Queue!Next
<1> USE CharBufferAssumption
<1>1. CASE CbReset BY <1>1, ResetEmpties DEF Queue!Next
<1>2. CASE CbGetCh
  <2>1. CASE len > 0
    <3>1. Fetch(1, 0) BY <1>2, <2>1 DEF CbGetCh
    <3>2. 1 \in 1 .. len /\ 1 \in 0 .. len /\ 0 \in 0 .. 1 BY <2>1 DEF Ring
    <3>3. Ring' BY <3>1, <3>2, FetchRemoves
    <3>4. Queue!Remove BY <3>1, <3>2, FetchTakes
    <3> QED BY <3>3, <3>4 DEF Queue!Next
  <2>2. CASE ~(len > 0)
    <3>1. Refuse("EOF") BY <1>2, <2>2 DEF CbGetCh
    <3> QED BY <3>1, RefuseKeeps DEF Queue!Next, Results
  <2> QED BY <2>1, <2>2
<1>3. ASSUME NEW ch \in Byte, CbPutCh(ch) PROVE Ring' /\ Queue!Next
  <2>1. CASE len < Size
    <3>1. Store(<<ch>>) /\ got' = <<>> BY <1>3, <2>1 DEF CbPutCh
    <3>2. <<ch>> \in Seq(Byte) /\ Len(<<ch>>) <= Size - len BY <2>1 DEF Ring
    <3>3. Ring' BY <3>1, <3>2, StoreAppends
    <3>4. Queue!Grow BY <3>1, <3>2, StoreGrows
    <3> QED BY <3>3, <3>4 DEF Queue!Next
  <2>2. CASE ~(len < Size)
    <3>1. Refuse("OVERFLOW") BY <1>3, <2>2 DEF CbPutCh
    <3> QED BY <3>1, RefuseKeeps DEF Queue!Next, Results
  <2> QED BY <2>1, <2>2
<1> QED BY <1>1, <1>2, <1>3 DEF CharNext

(***************************************************************************)
(* The ring of characters implements a bounded queue: picodata_cbGetCh     *)
(* returns the characters picodata_cbPutCh accepted, once and in order.    *)
(***************************************************************************)
THEOREM CharsAreQueued == CharSpec => QueueSpec
<1>1. Init => Ring /\ Queue!Init BY InitRing
<1>2. Ring /\ [CharNext]_vars => Ring' /\ [Queue!Next]_(Queue!queueVars)
  BY CharStep, IdleKeeps
<1> QED BY <1>1, <1>2, PTL DEF CharSpec, QueueSpec, Queue!Spec

-----------------------------------------------------------------------------
(* The ring used for items. *)

\* at[i] bytes lie before the i-th item of held, and each item has the bytes
\* and the size that its header announces.
FramedAt(at) ==
  /\ at \in [1 .. Len(held) + 1 -> 0 .. len]
  /\ at[1] = 0 /\ at[Len(held) + 1] = len
  /\ \A i, j \in 1 .. Len(held) + 1 : i <= j => at[i] <= at[j]
  /\ \A i \in 1 .. Len(held) :
       /\ Len(held[i]) >= HeadSize
       /\ held[i][HeadSize] + HeadSize = Len(held[i])
       /\ at[i + 1] = at[i] + Len(held[i])
       /\ \A k \in 1 .. Len(held[i]) : Content[at[i] + k] = held[i][k]

Framed == held \in Seq(Seq(Byte)) /\ \E at : FramedAt(at)

ItemInv == TypeOK /\ Ring /\ Framed

LEMMA NothingFramed ==
  ASSUME len = 0, held = <<>>
  PROVE  Framed
<1> DEFINE at == [i \in 1 .. 1 |-> 0]
<1>1. Len(held) + 1 = 1 /\ held \in Seq(Seq(Byte)) OBVIOUS
<1>2. FramedAt(at) BY <1>1 DEF FramedAt
<1> QED BY <1>1, <1>2 DEF Framed

\* The oldest item lies at the front, and the header there is its header.
LEMMA Oldest ==
  ASSUME Ring, Framed
  PROVE  /\ len = 0 <=> held = <<>>
         /\ held # <<>> =>
              /\ Head(held) \in Seq(Byte)
              /\ Len(Head(held)) \in HeadSize .. len
              /\ FrontItemSize = Len(Head(held))
              /\ \A k \in 1 .. Len(Head(held)) : Content[k] = Head(held)[k]
<1> USE CharBufferAssumption
<1>1. PICK at : FramedAt(at) BY DEF Framed
<1>2. held \in Seq(Seq(Byte)) /\ len \in 0 .. Size BY DEF Framed, Ring
<1>3. CASE held = <<>>
  <2>1. Len(held) + 1 = 1 BY <1>3
  <2>2. len = 0 BY <1>1, <2>1 DEF FramedAt
  <2> QED BY <1>3, <2>2
<1>4. CASE held # <<>>
  <2>1. Len(held) \in Nat /\ Len(held) > 0 BY <1>2, <1>4, EmptySeq, LenProperties
  <2>2. 1 \in 1 .. Len(held) /\ 2 \in 1 .. Len(held) + 1 BY <2>1
  <2>3. held[1] = Head(held) /\ held[1] \in Seq(Byte) BY <1>2, <2>2, ElementOfSeq
  <2>4. Len(held[1]) \in Nat BY <2>3, LenProperties
  <2>5. /\ Len(held[1]) >= HeadSize
        /\ held[1][HeadSize] + HeadSize = Len(held[1])
        /\ at[1 + 1] = at[1] + Len(held[1])
        /\ \A k \in 1 .. Len(held[1]) : Content[at[1] + k] = held[1][k]
    BY <1>1, <2>2 DEF FramedAt
  <2>6. at[1] = 0 /\ at[2] \in 0 .. len BY <1>1, <2>2 DEF FramedAt
  <2>7. at[2] = Len(held[1]) BY <2>4, <2>5, <2>6
  <2>8. Len(held[1]) \in HeadSize .. len BY <2>4, <2>5, <2>6, <2>7
  <2>9. \A k \in 1 .. Len(held[1]) : Content[k] = held[1][k]
    <3> SUFFICES ASSUME NEW k \in 1 .. Len(held[1]) PROVE Content[k] = held[1][k] OBVIOUS
    <3>1. at[1] + k = k BY <2>6
    <3> QED BY <2>5, <3>1
  <2>10. HeadSize \in 1 .. Len(held[1]) /\ HeadSize \in 1 .. len /\ HeadSize \in 1 .. Size
    BY <1>2, <2>8
  <2>11. buf[(front + HeadSize - 1) % Size] = Content[HeadSize]
    BY <2>10, ContentAt
  <2>12. FrontItemSize = Len(held[1])
    <3>1. held[1][HeadSize] \in Nat BY <2>3, <2>10, ElementOfSeq
    <3>2. buf[(front + HeadSize - 1) % Size] = held[1][HeadSize]
      BY <2>9, <2>10, <2>11
    <3> QED BY <2>5, <3>1, <3>2 DEF FrontItemSize
  <2>13. len # 0 BY <1>2, <2>8
  <2> QED BY <1>4, <2>3, <2>8, <2>9, <2>12, <2>13
<1> QED BY <1>3, <1>4

\* A stored item is framed after the others.
LEMMA PutFrames ==
  ASSUME Ring, Framed, NEW s \in Seq(Byte), Len(s) <= Size - len, Store(s),
         Len(s) >= HeadSize, s[HeadSize] + HeadSize = Len(s),
         held' = Append(held, s)
  PROVE  Framed'
<1> USE CharBufferAssumption
<1>1. PICK at : FramedAt(at) BY DEF Framed
<1>2. held \in Seq(Seq(Byte)) /\ len \in 0 .. Size /\ Len(held) \in Nat
  BY LenProperties DEF Framed, Ring
<1>3. /\ held' \in Seq(Seq(Byte))
      /\ Len(held') = Len(held) + 1
      /\ \A i \in 1 .. Len(held) : held'[i] = held[i]
      /\ held'[Len(held) + 1] = s
  BY <1>2, AppendProperties
<1>4. len' = len + Len(s) /\ Len(s) \in Nat BY DEF Store
<1>5. Content' = Content \o s BY StoreAppends
<1>6. Content \in Seq(Byte) /\ Len(Content) = len BY ContentAt
<1>7. /\ \A k \in 1 .. len : Content'[k] = Content[k]
      /\ \A k \in 1 .. Len(s) : Content'[len + k] = s[k]
  <2>1. \A k \in 1 .. len : Content'[k] = Content[k] BY <1>5, <1>6, ConcatProperties
  <2>2. ASSUME NEW k \in 1 .. Len(s) PROVE Content'[len + k] = s[k]
    <3>1. len + k \in 1 .. len + Len(s) /\ len + k > len /\ (len + k) - len = k
      BY <1>2, <1>4
    <3>2. (Content \o s)[len + k] = s[(len + k) - len]
      BY <3>1, <1>2, <1>6, ConcatProperties
    <3> QED BY <3>1, <3>2, <1>5
  <2> QED BY <2>1, <2>2
<1>13. PICK after : after = [i \in 1 .. Len(held) + 2 |->
                             IF i <= Len(held) + 1 THEN at[i] ELSE len + Len(s)]
  OBVIOUS
<1>8. /\ at \in [1 .. Len(held) + 1 -> 0 .. len]
      /\ at[1] = 0 /\ at[Len(held) + 1] = len
      /\ \A i, j \in 1 .. Len(held) + 1 : i <= j => at[i] <= at[j]
  BY <1>1 DEF FramedAt
<1>9. /\ \A i \in 1 .. Len(held) + 1 : after[i] = at[i]
      /\ after[Len(held) + 2] = len'
  BY <1>2, <1>4, <1>13
<1>10. /\ \A i \in 1 .. Len(held) + 2 : after[i] \in 0 .. len'
       /\ \A i \in 1 .. Len(held) + 1 : at[i] \in 0 .. len
  <2>1. \A i \in 1 .. Len(held) + 1 : at[i] \in 0 .. len BY <1>8
  <2>2. ASSUME NEW i \in 1 .. Len(held) + 2 PROVE after[i] \in 0 .. len'
    <3>1. CASE i \in 1 .. Len(held) + 1
      <4>1. after[i] = at[i] /\ at[i] \in 0 .. len BY <3>1, <2>1, <1>9
      <4> QED BY <4>1, <1>2, <1>4
    <3>2. CASE i = Len(held) + 2 BY <3>2, <1>2, <1>4, <1>9
    <3>3. i \in 1 .. Len(held) + 1 \/ i = Len(held) + 2 BY <1>2
    <3> QED BY <3>1, <3>2, <3>3
  <2> QED BY <2>1, <2>2
<1>14. after \in [1 .. Len(held') + 1 -> 0 .. len']
  <2>1. Len(held') + 1 = Len(held) + 2 BY <1>2, <1>3
  <2> QED BY <2>1, <1>10, <1>13
<1>15. after[1] = 0 /\ after[Len(held') + 1] = len'
  <2>1. 1 \in 1 .. Len(held) + 1 /\ Len(held') + 1 = Len(held) + 2 BY <1>2, <1>3
  <2> QED BY <2>1, <1>8, <1>9
<1>16. ASSUME NEW i \in 1 .. Len(held') + 1, NEW j \in 1 .. Len(held') + 1, i <= j
       PROVE  after[i] <= after[j]
  <2>1. Len(held') + 1 = Len(held) + 2 BY <1>2, <1>3
  <2>2. CASE j \in 1 .. Len(held) + 1
    <3>1. i \in 1 .. Len(held) + 1 BY <1>16, <2>1, <2>2, <1>2
    <3> QED BY <3>1, <2>2, <1>8, <1>9, <1>16
  <2>3. CASE j = Len(held) + 2
    <3>1. after[j] = len' /\ after[i] \in 0 .. len' BY <2>1, <2>3, <1>9, <1>10
    <3> QED BY <3>1
  <2>4. j \in 1 .. Len(held) + 1 \/ j = Len(held) + 2 BY <2>1, <1>2
  <2> QED BY <2>2, <2>3, <2>4
<1>11. ASSUME NEW i \in 1 .. Len(held')
       PROVE  /\ Len(held'[i]) >= HeadSize
              /\ held'[i][HeadSize] + HeadSize = Len(held'[i])
              /\ after[i + 1] = after[i] + Len(held'[i])
              /\ \A k \in 1 .. Len(held'[i]) : Content'[after[i] + k] = held'[i][k]
  <2>1. CASE i <= Len(held)
    <3>1. i \in 1 .. Len(held) /\ held'[i] = held[i] BY <2>1, <1>3
    <3>2. i \in 1 .. Len(held) + 1 /\ i + 1 \in 1 .. Len(held) + 1 BY <3>1, <1>2
    <3>3. after[i] = at[i] /\ after[i + 1] = at[i + 1] BY <3>2, <1>9
    <3>4. /\ Len(held[i]) >= HeadSize
          /\ held[i][HeadSize] + HeadSize = Len(held[i])
          /\ at[i + 1] = at[i] + Len(held[i])
          /\ \A k \in 1 .. Len(held[i]) : Content[at[i] + k] = held[i][k]
      BY <1>1, <3>1 DEF FramedAt
    <3>5. at[i] \in 0 .. len /\ at[i + 1] \in 0 .. len BY <1>10, <3>2
    <3>6. held[i] \in Seq(Byte) BY <3>1, <1>2, ElementOfSeq
    <3>7. Len(held[i]) \in Nat BY <3>6, LenProperties
    <3>8. ASSUME NEW k \in 1 .. Len(held[i]) PROVE Content'[at[i] + k] = held[i][k]
      <4>1. at[i + 1] = at[i] + Len(held[i]) BY <3>4
      <4>2. len \in Nat BY <1>2
      <4>3. at[i] + k \in 1 .. len BY <3>5, <3>7, <4>1, <4>2, SMTT(20)
      <4> QED BY <4>3, <1>7, <3>4
    <3> QED BY <3>1, <3>3, <3>4, <3>8
  <2>2. CASE i = Len(held) + 1
    <3>1. held'[i] = s BY <2>2, <1>3
    <3>2. after[i] = len /\ after[i + 1] = len + Len(s)
      <4>1. i \in 1 .. Len(held) + 1 /\ i + 1 = Len(held) + 2 BY <2>2, <1>2
      <4> QED BY <4>1, <2>2, <1>4, <1>8, <1>9
    <3> QED BY <3>1, <3>2, <1>7
  <2>3. i <= Len(held) \/ i = Len(held) + 1 BY <1>2, <1>3
  <2> QED BY <2>1, <2>2, <2>3
<1>12. FramedAt(after)' BY <1>11, <1>14, <1>15, <1>16 DEF FramedAt
<1> QED BY <1>3, <1>12 DEF Framed

\* When the oldest item is taken the others are framed as before.
LEMMA GetFrames ==
  ASSUME Ring, Framed, held # <<>>, NEW skip \in 0 .. FrontItemSize,
         Fetch(FrontItemSize, skip), held' = Tail(held)
  PROVE  Framed'
<1> USE CharBufferAssumption
<1>1. PICK at : FramedAt(at) BY DEF Framed
<1>2. held \in Seq(Seq(Byte)) /\ len \in 0 .. Size BY DEF Framed, Ring
<1> DEFINE n == FrontItemSize
<1>3. n = Len(Head(held)) /\ n \in HeadSize .. len /\ n \in 0 .. len BY Oldest
<1>4. Content' = SubSeq(Content, n + 1, len) BY <1>3, FetchRemoves
<1>5. len' = len - n /\ len' \in 0 .. Size BY <1>2, <1>3 DEF Fetch
<1>6. Content \in Seq(Byte) /\ Len(Content) = len BY ContentAt
<1>7. \A k \in 1 .. len' : Content'[k] = Content[n + k]
  <2>1. n \in 0 .. Len(Content) /\ len \in n .. Len(Content) BY <1>2, <1>3, <1>6
  <2>2. \A i \in 1 .. len - n : SubSeq(Content, n + 1, len)[i] = Content[n + i]
    BY <2>1, <1>6, SubSeqAt
  <2> QED BY <2>2, <1>4, <1>5
<1>8. Len(held) \in Nat /\ Len(held) > 0 BY <1>2, EmptySeq, LenProperties
<1>9. /\ held' \in Seq(Seq(Byte))
      /\ Len(held') = Len(held) - 1
      /\ \A i \in 1 .. Len(held) - 1 : held'[i] = held[i + 1]
  BY <1>2, HeadTailProperties
<1>10. /\ at \in [1 .. Len(held) + 1 -> 0 .. len]
       /\ at[1] = 0 /\ at[Len(held) + 1] = len
       /\ \A i, j \in 1 .. Len(held) + 1 : i <= j => at[i] <= at[j]
       /\ \A i \in 1 .. Len(held) :
            /\ Len(held[i]) >= HeadSize
            /\ held[i][HeadSize] + HeadSize = Len(held[i])
            /\ at[i + 1] = at[i] + Len(held[i])
            /\ \A k \in 1 .. Len(held[i]) : Content[at[i] + k] = held[i][k]
  BY <1>1 DEF FramedAt
<1>11. at[2] = n
  <2>1. 1 \in 1 .. Len(held) /\ held[1] = Head(held) BY <1>8
  <2>2. at[1 + 1] = at[1] + Len(held[1]) BY <2>1, <1>10
  <2> QED BY <2>1, <2>2, <1>3, <1>10
<1>12. PICK after : after = [i \in 1 .. Len(held) |-> at[i + 1] - n] OBVIOUS
<1>13. \A i \in 1 .. Len(held) : /\ i + 1 \in 1 .. Len(held) + 1
                                 /\ after[i] = at[i + 1] - n
                                 /\ at[i + 1] \in n .. len
                                 /\ after[i] \in 0 .. len'
  <2> SUFFICES ASSUME NEW i \in 1 .. Len(held)
               PROVE  /\ i + 1 \in 1 .. Len(held) + 1
                      /\ after[i] = at[i + 1] - n
                      /\ at[i + 1] \in n .. len
                      /\ after[i] \in 0 .. len'
    OBVIOUS
  <2>1. i + 1 \in 1 .. Len(held) + 1 /\ 2 \in 1 .. Len(held) + 1 /\ 2 <= i + 1
    BY <1>8
  <2>2. after[i] = at[i + 1] - n BY <1>12
  <2>3. at[i + 1] \in 0 .. len /\ at[2] <= at[i + 1] BY <2>1, <1>10
  <2>4. at[i + 1] \in n .. len BY <2>3, <1>2, <1>3, <1>11
  <2>5. after[i] \in 0 .. len'
    <3>1. len' = len - n /\ len \in Nat /\ n \in Nat BY <1>2, <1>3, <1>5
    <3> QED BY <3>1, <2>2, <2>4
  <2> QED BY <2>1, <2>2, <2>4, <2>5
<1>14. Len(held') + 1 = Len(held) BY <1>8, <1>9
<1>15. after \in [1 .. Len(held') + 1 -> 0 .. len'] BY <1>12, <1>13, <1>14
<1>16. after[1] = 0 /\ after[Len(held') + 1] = len'
  <2>1. 1 \in 1 .. Len(held) /\ Len(held) \in 1 .. Len(held) BY <1>8
  <2>2. after[1] = at[1 + 1] - n /\ after[Len(held)] = at[Len(held) + 1] - n
    BY <2>1, <1>13
  <2> QED BY <2>2, <1>2, <1>3, <1>5, <1>10, <1>11, <1>14
<1>17. ASSUME NEW i \in 1 .. Len(held') + 1, NEW j \in 1 .. Len(held') + 1, i <= j
       PROVE  after[i] <= after[j]
  <2>1. i \in 1 .. Len(held) /\ j \in 1 .. Len(held) BY <1>14
  <2>2. /\ i + 1 \in 1 .. Len(held) + 1 /\ j + 1 \in 1 .. Len(held) + 1
        /\ after[i] = at[i + 1] - n /\ after[j] = at[j + 1] - n
        /\ at[i + 1] \in n .. len /\ at[j + 1] \in n .. len
    BY <2>1, <1>13
  <2>3. at[i + 1] <= at[j + 1]
    <3>1. i + 1 <= j + 1 BY <1>17, <1>8
    <3> QED BY <3>1, <2>2, <1>10
  <2> QED BY <2>2, <2>3, <1>2, <1>3, SMTT(20)
<1>18. ASSUME NEW i \in 1 .. Len(held')
       PROVE  /\ Len(held'[i]) >= HeadSize
              /\ held'[i][HeadSize] + HeadSize = Len(held'[i])
              /\ after[i + 1] = after[i] + Len(held'[i])
              /\ \A k \in 1 .. Len(held'[i]) : Content'[after[i] + k] = held'[i][k]
  <2>1. /\ i \in 1 .. Len(held) /\ i + 1 \in 1 .. Len(held)
        /\ held'[i] = held[i + 1]
    BY <1>8, <1>9
  <2>2. /\ Len(held[i + 1]) >= HeadSize
        /\ held[i + 1][HeadSize] + HeadSize = Len(held[i + 1])
        /\ at[(i + 1) + 1] = at[i + 1] + Len(held[i + 1])
        /\ \A k \in 1 .. Len(held[i + 1]) : Content[at[i + 1] + k] = held[i + 1][k]
    BY <2>1, <1>10
  <2>3. /\ after[i] = at[i + 1] - n /\ after[i + 1] = at[(i + 1) + 1] - n
        /\ at[i + 1] \in n .. len /\ at[(i + 1) + 1] \in n .. len
    BY <2>1, <1>13
  <2>4. held[i + 1] \in Seq(Byte) BY <2>1, <1>2, ElementOfSeq
  <2>5. Len(held[i + 1]) \in Nat BY <2>4, LenProperties
  <2>6. after[i + 1] = after[i] + Len(held[i + 1]) BY <2>2, <2>3, <2>5, <1>2, <1>3, SMTT(20)
  <2>7. ASSUME NEW k \in 1 .. Len(held[i + 1])
        PROVE  Content'[after[i] + k] = held[i + 1][k]
    <3>2. len' = len - n /\ len \in Nat /\ n \in Nat BY <1>2, <1>3, <1>5
    <3>3. at[(i + 1) + 1] = at[i + 1] + Len(held[i + 1]) BY <2>2
    <3>4. at[i + 1] \in n .. len /\ after[i] = at[i + 1] - n BY <2>3
    <3>5. at[i + 1] + Len(held[i + 1]) <= len BY <2>3, <3>3
    <3>6. n + (after[i] + k) = at[i + 1] + k BY <3>2, <3>4
    <3>7. after[i] + k >= 1 BY <3>2, <3>4
    <3>8. after[i] + k <= len - n BY <2>5, <3>2, <3>4, <3>5
    <3>1. after[i] + k \in 1 .. len' /\ n + (after[i] + k) = at[i + 1] + k
      BY <3>2, <3>4, <3>6, <3>7, <3>8
    <3> QED BY <3>1, <2>2, <1>7
  <2> QED BY <2>1, <2>2, <2>6, <2>7
<1>19. FramedAt(after)' BY <1>15, <1>16, <1>17, <1>18 DEF FramedAt
<1> QED BY <1>9, <1>19 DEF Framed

LEMMA TypeFromRing ==
  ASSUME Ring, got \in Seq(Byte), result \in Results, held \in Seq(Seq(Byte))
  PROVE  TypeOK
BY DEF Ring, TypeOK

LEMMA RefuseItem ==
  ASSUME ItemInv, NEW r \in Results, Refuse(r)
  PROVE  ItemInv' /\ Queue!Next
<1>1. Ring' /\ Queue!Refuse BY RefuseKeeps DEF ItemInv
<1>2. Framed'
  <2>1. PICK at : FramedAt(at) BY DEF ItemInv, Framed
  <2>2. FramedAt(at)' BY <2>1 DEF FramedAt, Refuse, Content
  <2>3. held' = held BY DEF Refuse
  <2> QED BY <2>2, <2>3 DEF ItemInv, Framed
<1>3. TypeOK'
  <2>1. got' = <<>> /\ <<>> \in Seq(Byte) BY DEF Refuse
  <2> QED BY <2>1 DEF Refuse, ItemInv, TypeOK
<1> QED BY <1>1, <1>2, <1>3 DEF ItemInv, Queue!Next

LEMMA PutItem ==
  ASSUME ItemInv, NEW s \in Inputs, CbPutItem(s)
  PROVE  ItemInv' /\ Queue!Next
<1> USE CharBufferAssumption
<1> DEFINE blen == s[HeadSize] + HeadSize
           item == SubSeq(s, 1, blen)
<1>1. s \in Seq(Byte) /\ Ring /\ Framed /\ TypeOK BY DEF ItemInv
<1>2. CASE Len(s) < HeadSize
  <2>1. Refuse("UNDERFLOW") BY <1>2 DEF CbPutItem
  <2> QED BY <2>1, RefuseItem DEF Results
<1>3. CASE ~(Len(s) < HeadSize) /\ ~ItemFits(blen)
  <2>1. Refuse("OVERFLOW") BY <1>3 DEF CbPutItem
  <2> QED BY <2>1, RefuseItem DEF Results
<1>4. CASE ~(Len(s) < HeadSize) /\ ItemFits(blen) /\ blen > Len(s)
  <2>1. Refuse("UNDERFLOW") BY <1>4 DEF CbPutItem
  <2> QED BY <2>1, RefuseItem DEF Results
<1>5. CASE ~(Len(s) < HeadSize) /\ ItemFits(blen) /\ ~(blen > Len(s))
  <2>1. /\ Store(item) /\ held' = Append(held, item)
        /\ result' = "OK" /\ got' = <<>>
    BY <1>5 DEF CbPutItem
  <2>2. Len(s) \in Nat BY <1>1, LenProperties
  <2>3. HeadSize \in 1 .. Len(s) BY <1>5, <2>2
  <2>4. s[HeadSize] \in Nat BY <1>1, <2>3, ElementOfSeq
  <2>5. blen \in HeadSize .. Len(s) BY <1>5, <2>2, <2>4
  <2>6. 0 \in 0 .. Len(s) /\ blen \in 0 .. Len(s) BY <2>2, <2>5
  <2>7. /\ SubSeq(s, 0 + 1, blen) \in Seq(Byte)
        /\ Len(SubSeq(s, 0 + 1, blen)) = blen - 0
        /\ \A i \in 1 .. blen - 0 : SubSeq(s, 0 + 1, blen)[i] = s[0 + i]
    BY <2>6, <1>1, SubSeqAt
  <2>8. item \in Seq(Byte) /\ Len(item) = blen BY <2>5, <2>7
  <2>9. item[HeadSize] = s[HeadSize]
    <3>1. HeadSize \in 1 .. blen - 0 BY <2>5
    <3>2. SubSeq(s, 0 + 1, blen)[HeadSize] = s[0 + HeadSize] BY <3>1, <2>7
    <3>3. 0 + 1 = 1 /\ 0 + HeadSize = HeadSize OBVIOUS
    <3> QED BY <3>2, <3>3, Zenon
  <2>10. /\ Len(item) <= Size - len /\ Len(item) >= HeadSize
         /\ item[HeadSize] + HeadSize = Len(item)
    BY <1>5, <2>5, <2>8, <2>9 DEF ItemFits
  <2> HIDE DEF item
  <2>11. Ring' BY <1>1, <2>1, <2>8, <2>10, StoreAppends
  <2>12. Queue!Grow BY <1>1, <2>1, <2>8, <2>10, StoreGrows
  <2>13. Framed' BY <1>1, <2>1, <2>8, <2>10, PutFrames
  <2>14. TypeOK'
    <3>1. got' \in Seq(Byte) /\ result' \in Results BY <2>1 DEF Results
    <3> QED BY <3>1, <2>11, <2>13 DEF Framed, Ring, TypeOK
  <2> QED BY <2>11, <2>12, <2>13, <2>14 DEF ItemInv, Queue!Next
<1> QED BY <1>2, <1>3, <1>4, <1>5

\* Taking the oldest item, or a part of it.
LEMMA TakeOldest ==
  ASSUME ItemInv, held # <<>>, NEW skip \in 0 .. FrontItemSize,
         Fetch(FrontItemSize, skip), held' = Tail(held), result' = "OK"
  PROVE  ItemInv' /\ Queue!Next
<1> USE CharBufferAssumption
<1>1. Ring /\ Framed BY DEF ItemInv
<1>2. FrontItemSize \in HeadSize .. len BY <1>1, Oldest
<1>3. FrontItemSize \in 0 .. len /\ FrontItemSize \in 1 .. len BY <1>2
<1>4. Ring' /\ got' \in Seq(Byte) BY <1>1, <1>3, FetchRemoves
<1>5. Queue!Remove BY <1>1, <1>3, FetchTakes
<1>6. Framed' BY <1>1, GetFrames
<1>7. TypeOK' BY <1>4, <1>6 DEF Framed, Ring, TypeOK, Results
<1> QED BY <1>4, <1>5, <1>6, <1>7 DEF ItemInv, Queue!Next

LEMMA GetItem ==
  ASSUME ItemInv, NEW blenmax \in 0 .. Size, NEW issd \in BOOLEAN,
         CbGetItem(blenmax, issd)
  PROVE  ItemInv' /\ Queue!Next
<1> USE CharBufferAssumption
<1>1. Ring /\ Framed BY DEF ItemInv
<1>2. CASE len < HeadSize
  <2>1. Refuse(IF len = 0 THEN "EOF" ELSE "UNDERFLOW") BY <1>2 DEF CbGetItem
  <2> QED BY <2>1, RefuseItem DEF Results
<1>3. CASE ~(len < HeadSize)
  <2>1. held # <<>> BY <1>1, <1>3, Oldest
  <2>2. FrontItemSize \in HeadSize .. len BY <1>1, <2>1, Oldest
  <2>3. CASE issd /\ buf[front] # Frame
    <3>1. /\ Fetch(FrontItemSize, FrontItemSize)
          /\ held' = Tail(held) /\ result' = "OK"
      BY <1>3, <2>3 DEF CbGetItem
    <3>2. FrontItemSize \in 0 .. FrontItemSize BY <2>2
    <3> QED BY <2>1, <3>1, <3>2, TakeOldest
  <2>4. CASE ~(issd /\ buf[front] # Frame) /\ FrontItemSize > len
    <3>1. Refuse("UNDERFLOW") BY <1>3, <2>4 DEF CbGetItem
    <3> QED BY <3>1, RefuseItem DEF Results
  <2>5. CASE ~(issd /\ buf[front] # Frame) /\ ~(FrontItemSize > len) /\ blenmax < FrontItemSize
    <3>1. Refuse("OVERFLOW") BY <1>3, <2>5 DEF CbGetItem
    <3> QED BY <3>1, RefuseItem DEF Results
  <2>6. CASE ~(issd /\ buf[front] # Frame) /\ ~(FrontItemSize > len) /\ ~(blenmax < FrontItemSize)
    <3>1. /\ Fetch(FrontItemSize, IF issd THEN HeadSize ELSE 0)
          /\ held' = Tail(held) /\ result' = "OK"
      BY <1>3, <2>6 DEF CbGetItem
    <3>2. (IF issd THEN HeadSize ELSE 0) \in 0 .. FrontItemSize BY <2>2
    <3> QED BY <2>1, <3>1, <3>2, TakeOldest
  <2> QED BY <2>3, <2>4, <2>5, <2>6
<1> QED BY <1>2, <1>3

LEMMA ItemStep ==
  ASSUME ItemInv, ItemNext
  PROVE  ItemInv' /\ Queue!Next
<1>1. CASE CbReset
  <2>1. Ring' /\ Queue!Reset BY <1>1, ResetEmpties DEF ItemInv
  <2>2. /\ len' = 0 /\ held' = <<>> /\ got' = <<>> /\ result' = "OK"
    BY <1>1 DEF CbReset
  <2>3. Framed'
    <3>1. PICK at : at = [i \in 1 .. 1 |-> 0] OBVIOUS
    <3>2. Len(held') + 1 = 1 /\ held' \in Seq(Seq(Byte)) BY <2>2
    <3>3. FramedAt(at)' BY <2>2, <3>1, <3>2 DEF FramedAt
    <3> QED BY <3>2, <3>3 DEF Framed
  <2>4. TypeOK'
    <3>1. got' \in Seq(Byte) /\ result' \in Results BY <2>2 DEF Results
    <3> QED BY <2>1, <2>3, <3>1 DEF Framed, Ring, TypeOK
  <2> QED BY <2>1, <2>3, <2>4 DEF ItemInv, Queue!Next
<1>2. ASSUME NEW s \in Inputs, CbPutItem(s) PROVE ItemInv' /\ Queue!Next
  BY <1>2, PutItem
<1>3. ASSUME NEW blenmax \in 0 .. Size, NEW issd \in BOOLEAN, CbGetItem(blenmax, issd)
      PROVE  ItemInv' /\ Queue!Next
  BY <1>3, GetItem
<1> QED BY <1>1, <1>2, <1>3 DEF ItemNext

LEMMA ItemIdle ==
  ASSUME ItemInv, UNCHANGED vars
  PROVE  ItemInv' /\ UNCHANGED Queue!queueVars
<1>1. /\ buf' = buf /\ rear' = rear /\ front' = front /\ len' = len
      /\ got' = got /\ result' = result /\ held' = held
  BY DEF vars
<1>2. Framed'
  <2>1. PICK at : FramedAt(at) BY DEF ItemInv, Framed
  <2>2. Content' = Content BY <1>1 DEF Content
  <2>3. FramedAt(at)' BY <2>1, <2>2, <1>1 DEF FramedAt
  <2> QED BY <2>3, <1>1 DEF ItemInv, Framed
<1> QED BY <1>1, <1>2 DEF ItemInv, TypeOK, Ring, Queue!queueVars, Content

LEMMA ItemInit ==
  ASSUME Init
  PROVE  ItemInv /\ Queue!Init
<1>1. Ring /\ Queue!Init BY InitRing
<1>2. Framed BY NothingFramed DEF Init
<1>3. got \in Seq(Byte) /\ result \in Results BY DEF Init, Results
<1>4. TypeOK BY <1>1, <1>2, <1>3, TypeFromRing DEF Framed
<1> QED BY <1>1, <1>2, <1>4 DEF ItemInv

\* The invariant of the ring of items, for every size of ring and header.
THEOREM ItemInvariant == ItemSpec => []ItemInv
<1>1. ItemInv /\ [ItemNext]_vars => ItemInv' BY ItemStep, ItemIdle
<1> QED BY <1>1, ItemInit, PTL DEF ItemSpec

\* Every reachable state of a ring of items is well typed: picodata_cbPutItem
\* and data_cbGetItem keep front, rear and len inside the ring.
THEOREM ItemTypes == ItemSpec => []TypeOK
BY ItemInvariant, PTL DEF ItemInv

(***************************************************************************)
(* The ring of items implements a bounded queue of bytes, wherever items   *)
(* and their headers lie across its end.                                   *)
(***************************************************************************)
THEOREM ItemsAreQueued == ItemSpec => QueueSpec
<1>1. ItemInv /\ [ItemNext]_vars => [Queue!Next]_(Queue!queueVars)
  BY ItemStep, ItemIdle
<1> QED BY <1>1, ItemInit, ItemInvariant, PTL DEF ItemSpec, QueueSpec, Queue!Spec

(***************************************************************************)
(* picodata_cbGetItem and picodata_cbGetSpeechData hand over the oldest    *)
(* item, whole or without its header; UNDERFLOW is never returned, and an  *)
(* item is refused only for want of room in the caller's buffer.           *)
(***************************************************************************)
THEOREM OldestIsGot == ItemSpec => GetsOldest
<1> USE CharBufferAssumption
<1> DEFINE Gets(blenmax, issd) ==
             /\ result' = "EOF" <=> held = <<>>
             /\ result' # "UNDERFLOW"
             /\ result' = "OVERFLOW" => held' = held /\ Len(Head(held)) > blenmax
             /\ result' = "OK" /\ got' # <<>> =>
                  got' = IF issd THEN SubSeq(Head(held), HeadSize + 1, Len(Head(held)))
                                 ELSE Head(held)
<1>1. ASSUME ItemInv, NEW blenmax \in 0 .. Size, NEW issd \in BOOLEAN,
             CbGetItem(blenmax, issd)
      PROVE  Gets(blenmax, issd)
  <2>1. Ring /\ Framed BY <1>1 DEF ItemInv
  <2>2. CASE len < HeadSize
    <3>1. held = <<>> /\ len = 0 BY <2>1, <2>2, Oldest DEF Ring
    <3>2. Refuse("EOF") BY <1>1, <2>2, <3>1 DEF CbGetItem
    <3> QED BY <3>1, <3>2 DEF Refuse
  <2>3. CASE ~(len < HeadSize)
    <3> DEFINE n == FrontItemSize
    <3>1. /\ held # <<>> /\ Head(held) \in Seq(Byte)
          /\ n = Len(Head(held)) /\ n \in HeadSize .. len
          /\ \A k \in 1 .. n : Content[k] = Head(held)[k]
      BY <2>1, <2>3, Oldest
    <3>2. Content \in Seq(Byte) /\ Len(Content) = len BY <2>1, ContentAt
    <3>6. ~(FrontItemSize > len) BY <2>1, <3>1 DEF Ring
    <3>3. CASE issd /\ buf[front] # Frame
      <4>1. Fetch(n, n) /\ result' = "OK" BY <1>1, <2>3, <3>3 DEF CbGetItem
      <4>2. n \in 0 .. len /\ n \in 0 .. n BY <3>1
      <4>3. got' = SubSeq(Content, n + 1, n) BY <2>1, <4>1, <4>2, FetchRemoves
      <4>4. got' = <<>> BY <3>1, <4>3
      <4> QED BY <3>1, <4>1, <4>4
    <3>4. CASE ~(issd /\ buf[front] # Frame) /\ blenmax < n
      <4>1. Refuse("OVERFLOW") BY <1>1, <2>3, <3>4, <3>6 DEF CbGetItem
      <4> QED BY <3>1, <3>4, <4>1 DEF Refuse
    <3>5. CASE ~(issd /\ buf[front] # Frame) /\ ~(blenmax < n)
      <4> DEFINE skip == IF issd THEN HeadSize ELSE 0
      <4>1. Fetch(n, skip) /\ result' = "OK" BY <1>1, <2>3, <3>5, <3>6 DEF CbGetItem
      <4>2. n \in 0 .. len /\ skip \in 0 .. n /\ n \in Nat BY <3>1
      <4>3. got' = SubSeq(Content, skip + 1, n) BY <2>1, <4>1, <4>2, FetchRemoves
      <4>4. SubSeq(Content, skip + 1, n) = SubSeq(Head(held), skip + 1, n)
        <5>1. /\ skip \in 0 .. Len(Content) /\ n \in skip .. Len(Content)
              /\ skip \in 0 .. Len(Head(held)) /\ n \in skip .. Len(Head(held))
          BY <3>1, <3>2, <4>2
        <5>2. /\ SubSeq(Content, skip + 1, n) \in Seq(Byte)
              /\ Len(SubSeq(Content, skip + 1, n)) = n - skip
              /\ \A i \in 1 .. n - skip : SubSeq(Content, skip + 1, n)[i] = Content[skip + i]
          BY <3>2, <5>1, SubSeqAt
        <5>5. Head(held) \in Seq(Byte) BY <3>1
        <5>3. /\ SubSeq(Head(held), skip + 1, n) \in Seq(Byte)
              /\ Len(SubSeq(Head(held), skip + 1, n)) = n - skip
              /\ \A i \in 1 .. n - skip :
                   SubSeq(Head(held), skip + 1, n)[i] = Head(held)[skip + i]
          BY <5>1, <5>5, SubSeqAt
        <5>4. \A i \in 1 .. n - skip : Content[skip + i] = Head(held)[skip + i]
          BY <3>1, <4>2
        <5> QED BY <5>2, <5>3, <5>4, SeqEqual
      <4>5. ~issd => SubSeq(Head(held), 1, n) = Head(held)
        <5>1. n = Len(Head(held)) /\ Head(held) \in Seq(Byte) BY <3>1
        <5> QED BY <5>1, SubSeqFull
      <4>6. got' = SubSeq(Head(held), skip + 1, n) BY <4>3, <4>4
      <4>7. CASE issd
        <5>1. got' = SubSeq(Head(held), HeadSize + 1, Len(Head(held)))
          BY <4>6, <4>7, <3>1
        <5> QED BY <3>1, <4>1, <4>7, <5>1
      <4>8. CASE ~issd
        <5>1. skip + 1 = 1 BY <4>8
        <5>2. got' = Head(held) BY <4>5, <4>6, <4>8, <5>1
        <5> QED BY <3>1, <4>1, <4>8, <5>2
      <4> QED BY <4>7, <4>8
    <3> QED BY <3>3, <3>4, <3>5
  <2> QED BY <2>2, <2>3
<1>2. ItemInv => \A blenmax \in 0 .. Size, issd \in BOOLEAN :
                   CbGetItem(blenmax, issd) => Gets(blenmax, issd)
  BY <1>1
<1> QED BY <1>2, ItemInvariant, PTL DEF GetsOldest

=============================================================================
