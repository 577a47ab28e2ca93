------------------------------ MODULE PicoPipe ------------------------------
(***************************************************************************)
(* What a Pico engine promises its caller, with its stages left out: text  *)
(* goes in at one end and comes out at the other, in order and once.  An   *)
(* item of the type "other" may vanish on the way, an answer ERROR may     *)
(* have cost one item of any type, and once between two resets the engine  *)
(* may break down and lose more.  A reset empties the engine, and IDLE is  *)
(* answered only when nothing that was flushed is left inside.             *)
(***************************************************************************)
EXTENDS Integers, Sequences, SequencesExt, PicoSeq

CONSTANT Types

VARIABLES
  pending,   \* the items inside the engine, oldest first
  broken,    \* whether it has broken down since the last reset
  accepted,  \* how many items were accepted since the last reset
  answer     \* what the last call answered

pipeVars == <<pending, broken, accepted, answer>>

Init == pending = <<>> /\ broken = FALSE /\ accepted = 0 /\ answer = "NONE"

Accept ==
  /\ \E ty \in Types :
       pending' = Append(pending, [n |-> accepted + 1, type |-> ty])
  /\ accepted' = accepted + 1
  /\ answer' = "NONE"
  /\ UNCHANGED broken

\* What may be left of s when one item at most, of these types, is lost.
Thinned(s, types) ==
  {s} \cup {RemoveAt(s, k) : k \in {j \in 1 .. Len(s) : s[j].type \in types}}

\* The answers to a caller when q is left: one item is handed over, or none.
Answered(q) ==
  \/ pending' = q /\ answer' \in {"BUSY", "ERROR"}
  \/ q # <<>> /\ pending' = Tail(q) /\ answer' = "BUSY"
  \/ /\ pending' = q /\ answer' = "IDLE"
     /\ \A k \in 1 .. Len(q) : q[k].type # "flush"

Deliver ==
  /\ \E q \in Thinned(pending, IF answer' = "ERROR" THEN Types ELSE {"other"}) : Answered(q)
  /\ UNCHANGED <<broken, accepted>>

Break ==
  /\ ~broken
  /\ broken' = TRUE
  /\ \E q \in Survivors(pending) : Answered(q)
  /\ UNCHANGED accepted

Reset == pending' = <<>> /\ broken' = FALSE /\ accepted' = 0 /\ answer' = "NONE"

Next == Accept \/ Deliver \/ Break \/ Reset

Spec == Init /\ [][Next]_pipeVars
=============================================================================
