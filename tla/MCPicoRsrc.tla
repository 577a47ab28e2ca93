----------------------------- MODULE MCPicoRsrc -----------------------------
(* Instances of PicoRsrc for TLC. *)
EXTENDS PicoRsrc, TLC

CONSTANTS h1, h2, h3, ta, sg, ta2, none

MCHandles == {h1, h2, h3}

\* Two files that make up a voice, one with a knowledge base that the default resource has, too,
\* and a file with the name of the first.
MCFiles == {ta, sg, ta2}
MCOneFile == {ta}
MCNameOf == [f \in Sources |-> CASE f = none -> "default" [] f = sg -> "sg" [] OTHER -> "ta"]
MCNames == {"default", "ta", "sg"}
MCKbIds == {"ids", "dur", "lex"}
MCKbsOf == [f \in Sources |->
  CASE f = none -> {"ids"} [] f = ta -> {"dur"} [] f = sg -> {"ids", "lex"} [] f = ta2 -> {}]

Symmetric == Permutations(MCHandles)
=============================================================================
