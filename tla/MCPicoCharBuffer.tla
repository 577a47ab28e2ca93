-------------------------- MODULE MCPicoCharBuffer --------------------------
(* Instances of PicoCharBuffer small enough for TLC: headers of two bytes,   *)
(* type and length, and contents of at most one byte.  A behaviour uses      *)
(* either a ring of items or one of characters.                              *)
EXTENDS PicoCharBuffer

\* Every sequence of at most four bytes: no item, a cut one, one, or two.
InputsMax4 == UNION {[1 .. n -> Byte] : n \in 0 .. 4}

VARIABLES use, chBuf, chRear, chFront, chLen, chGot, chResult, chHeld

Chars == INSTANCE PicoCharBuffer WITH buf <- chBuf, rear <- chRear, front <- chFront,
           len <- chLen, got <- chGot, result <- chResult, held <- chHeld

chVars == <<chBuf, chRear, chFront, chLen, chGot, chResult, chHeld>>

MCInit ==
  /\ use \in {"items", "chars"}
  /\ Init /\ Chars!Init
  /\ use = "items" => \A j \in DOMAIN chBuf : chBuf[j] = Frame
  /\ use = "chars" => \A j \in DOMAIN buf : buf[j] = Frame

MCNext ==
  \/ use = "items" /\ ItemNext /\ UNCHANGED <<use, chVars>>
  \/ use = "chars" /\ Chars!CharNext /\ UNCHANGED <<use, vars>>

MCSpec == MCInit /\ [][MCNext]_<<use, vars, chVars>>

(***************************************************************************)
(* The ring of characters that picoctrl_engFeedText fills and tokStep      *)
(* empties is a bounded FIFO, too (QueueSpec, for the other ring).         *)
(***************************************************************************)
CharQueueSpec == Chars!QueueSpec
=============================================================================
