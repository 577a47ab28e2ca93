------------------------------- MODULE PicoSeq -------------------------------
(***************************************************************************)
(* Parts of a sequence.                                                    *)
(***************************************************************************)
EXTENDS Integers, SequencesExt

\* The elements of seq at these places, in their order: SelectSeq with a set for the test.
ElementsAt(seq, places) ==
  FlattenSeq([k \in 1 .. Len(seq) |-> IF k \in places THEN <<seq[k]>> ELSE <<>>])

\* The ways to choose m of n places, in their order.
Rising(m, n) == {f \in [1 .. m -> 1 .. n] : \A a, b \in 1 .. m : a < b => f[a] < f[b]}

\* What may be left of seq when some of its elements are lost.
Survivors(seq) ==
  UNION {{[a \in 1 .. m |-> seq[f[a]]] : f \in Rising(m, Len(seq))} : m \in 0 .. Len(seq)}
=============================================================================
