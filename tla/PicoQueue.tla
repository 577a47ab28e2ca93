----------------------------- MODULE PicoQueue -----------------------------
(***************************************************************************)
(* What a char buffer promises the two PUs it joins: a bounded queue of    *)
(* bytes.  Bytes are appended at one end; a consumer takes some from the   *)
(* other end and gets them, or the last of them when it skips a header.    *)
(***************************************************************************)
EXTENDS Integers, Sequences

CONSTANT Capacity

VARIABLES
  queue,  \* the bytes inside, oldest first
  got     \* the bytes the last call handed to its caller

queueVars == <<queue, got>>

Init == queue = <<>> /\ got = <<>>

Grow ==
  /\ Len(queue) <= Len(queue') /\ Len(queue') <= Capacity
  /\ queue = SubSeq(queue', 1, Len(queue))
  /\ got' = <<>>

Remove ==
  \E n \in 1 .. Len(queue) : \E skipped \in 0 .. n :
    /\ queue' = SubSeq(queue, n + 1, Len(queue))
    /\ got' = SubSeq(queue, skipped + 1, n)

Refuse == queue' = queue /\ got' = <<>>

Reset == queue' = <<>> /\ got' = <<>>

Next == Grow \/ Remove \/ Refuse \/ Reset

Spec == Init /\ [][Next]_queueVars
=============================================================================
