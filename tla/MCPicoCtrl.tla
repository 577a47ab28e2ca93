----------------------------- MODULE MCPicoCtrl -----------------------------
(* Instances of PicoCtrl small enough for TLC. *)
EXTENDS PicoCtrl

\* The head of the chain of the engine: tokenizer, preprocessor, word
\* analysis, sentence analysis.
KindFront == (0 :> "drain") @@ (1 :> "budget") @@ (2 :> "single") @@ (3 :> "phrase")

\* A preprocessor, a phrase collector and the signal generator.
KindPhrase == (0 :> "budget") @@ (1 :> "phrase") @@ (2 :> "staged")

\* Capacities one and two alternate.
CapMixed == [j \in 0 .. NumPU |-> IF j % 2 = 0 THEN 1 ELSE 2]
=============================================================================
