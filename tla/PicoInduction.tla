--------------------------- MODULE PicoInduction ---------------------------
(***************************************************************************)
(* Induction for the proofs of the other modules: the least element of a   *)
(* set of numbers, the functions that a recursion defines, sums over       *)
(* finite sets as MapThenSumSet computes them, what FlattenSeq makes of a  *)
(* sequence of sequences, and the parts of a sequence.                     *)
(***************************************************************************)
EXTENDS PicoSeq, FiniteSets, FiniteSetTheorems, SequenceTheorems, WellFoundedInduction,
        TLAPS

\* What stands in for induction: a set of numbers has a least one.
LEMMA LeastNumber ==
  ASSUME NEW T, T \subseteq Nat, T # {}
  PROVE  \E x \in T : \A y \in T : x <= y
<1> DEFINE R == OpToRel(<, Nat)
<1>1. \E x \in T : \A y \in T : ~(<<y, x>> \in R)
  <2> HIDE DEF R
  <2>1. IsWellFoundedOn(R, Nat) BY NatLessThanWellFounded DEF R
  <2> QED BY <2>1, WFMin, Zenon
<1>2. PICK x \in T : \A y \in T : ~(<<y, x>> \in R) BY <1>1
<1>3. ASSUME NEW y \in T PROVE x <= y
  <2>1. x \in Nat /\ y \in Nat OBVIOUS
  <2>2. y < x => <<y, x>> \in R BY <2>1 DEF OpToRel
  <2>3. ~(<<y, x>> \in R) BY <1>2
  <2> HIDE DEF R
  <2>4. ~(y < x) BY <2>2, <2>3
  <2> QED BY <2>1, <2>4
<1> QED BY <1>3

\* A function on the numbers is defined by its first value and by a step.
LEMMA IteratesExist ==
  ASSUME NEW V, NEW a \in V, NEW F \in [V -> V]
  PROVE  \E W \in [Nat -> V] : W[0] = a /\ \A n \in Nat : W[n + 1] = F[W[n]]
<1> DEFINE P(g, n) == g[0] = a /\ \A i \in 0 .. n - 1 : g[i + 1] = F[g[i]]
           T == {n \in Nat : ~\E g \in [Nat -> V] : P(g, n)}
<1>1. T = {}
  <2> SUFFICES ASSUME T # {} PROVE FALSE OBVIOUS
  <2>1. PICK m \in T : \A y \in T : m <= y
    <3>1. T \subseteq Nat OBVIOUS
    <3> HIDE DEF T
    <3> QED BY <3>1, LeastNumber
  <2>2. m # 0
    <3>1. P([i \in Nat |-> a], 0) OBVIOUS
    <3>2. [i \in Nat |-> a] \in [Nat -> V] OBVIOUS
    <3> QED BY <3>1, <3>2
  <2>3. m - 1 \in Nat /\ m - 1 \notin T BY <2>1, <2>2
  <2>4. PICK g \in [Nat -> V] : P(g, m - 1) BY <2>3
  <2> DEFINE h == [g EXCEPT ![m] = F[g[m - 1]]]
  <2>5. h \in [Nat -> V] /\ \A i \in 0 .. m - 1 : h[i] = g[i] BY <2>3
  <2>6. h[m] = F[g[m - 1]] /\ h[0] = a BY <2>1, <2>3, <2>4
  <2>7. ASSUME NEW i \in 0 .. m - 1 PROVE h[i + 1] = F[h[i]]
    <3>1. CASE i = m - 1
      <4>1. i + 1 = m /\ h[i] = g[i] BY <3>1, <2>3, <2>5
      <4> HIDE DEF h
      <4> QED BY <3>1, <4>1, <2>6
    <3>2. CASE i # m - 1
      <4>1. i \in 0 .. (m - 1) - 1 /\ i + 1 \in 0 .. m - 1 BY <3>2, <2>3
      <4>2. g[i + 1] = F[g[i]] BY <4>1, <2>4
      <4> HIDE DEF h
      <4> QED BY <4>1, <4>2, <2>5
    <3> QED BY <3>1, <3>2
  <2>8. P(h, m) BY <2>6, <2>7
  <2> HIDE DEF h, P
  <2> QED BY <2>5, <2>8
<1>2. \A n \in Nat : \E g \in [Nat -> V] : P(g, n) BY <1>1
<1> DEFINE G(n) == CHOOSE g \in [Nat -> V] : P(g, n)
           w == [n \in Nat |-> G(n)[n]]
<1>3. \A n \in Nat : G(n) \in [Nat -> V] /\ P(G(n), n)
  <2> HIDE DEF P
  <2> QED BY <1>2
\* Two of them agree where both are defined.
<1>4. \A n \in Nat : \A m \in n .. n + 1 : \A i \in 0 .. n : G(m)[i] = G(n)[i]
  <2> SUFFICES ASSUME NEW n \in Nat, NEW m \in n .. n + 1
               PROVE  \A i \in 0 .. n : G(m)[i] = G(n)[i]
    OBVIOUS
  <2>1. m \in Nat OBVIOUS
  <2> DEFINE D == {i \in 0 .. n : G(m)[i] # G(n)[i]}
  <2>2. P(G(n), n) /\ P(G(m), m) BY <1>3, <2>1
  <2> HIDE DEF G
  <2> SUFFICES ASSUME D # {} PROVE FALSE OBVIOUS
  <2>3. PICK d \in D : \A y \in D : d <= y
    <3>1. D \subseteq Nat OBVIOUS
    <3> HIDE DEF D
    <3> QED BY <3>1, LeastNumber
  <2>4. d # 0 BY <2>2
  <2>5. d - 1 \in 0 .. n - 1 /\ d - 1 \in 0 .. m - 1 /\ (d - 1) + 1 = d BY <2>3, <2>4
  <2>6. G(m)[d - 1] = G(n)[d - 1] BY <2>3, <2>5
  <2>7. G(m)[d] = F[G(m)[d - 1]] /\ G(n)[d] = F[G(n)[d - 1]] BY <2>2, <2>5
  <2> QED BY <2>6, <2>7
<1>5. w \in [Nat -> V]
  <2> HIDE DEF G
  <2> QED BY <1>3
<1>6. w[0] = a BY <1>3
<1>7. ASSUME NEW n \in Nat PROVE w[n + 1] = F[w[n]]
  <2>1. n + 1 \in Nat /\ n + 1 \in n .. n + 1 /\ n \in 0 .. (n + 1) - 1 OBVIOUS
  <2>2. G(n + 1)[n + 1] = F[G(n + 1)[n]] BY <2>1, <1>3
  <2>3. G(n + 1)[n] = G(n)[n]
    <3> HIDE DEF G
    <3> QED BY <2>1, <1>4
  <2> HIDE DEF G
  <2> QED BY <2>1, <2>2, <2>3
<1> HIDE DEF w
<1> QED BY <1>5, <1>6, <1>7

\* The greatest and the least of a set of numbers.
LEMMA MaxOf ==
  ASSUME NEW n \in Nat, NEW s \in SUBSET (1 .. n), s # {}
  PROVE  Max(s) \in s /\ \A y \in s : y <= Max(s)
<1> DEFINE T == {n - x : x \in s}
<1>0. \A x \in s : x \in Int /\ n - x \in Nat OBVIOUS
<1>1. T \subseteq Nat /\ T # {} BY <1>0
<1>2. PICK z \in T : \A y \in T : z <= y
  <2> HIDE DEF T
  <2> QED BY <1>1, LeastNumber
<1>3. PICK x \in s : z = n - x BY <1>2
<1>4. ASSUME NEW y \in s PROVE x >= y
  <2>1. z <= n - y BY <1>2
  <2> QED BY <1>0, <1>3, <2>1
<1> QED BY <1>4 DEF Max

LEMMA MinOf ==
  ASSUME NEW s \in SUBSET Nat, s # {}
  PROVE  Min(s) \in s /\ \A y \in s : Min(s) <= y
<1>1. \E x \in s : \A y \in s : x <= y BY LeastNumber
<1> QED BY <1>1 DEF Min
-----------------------------------------------------------------------------
(* Sequences of anything. *)

Listed(s) == \E n \in Nat : s = [i \in 1 .. n |-> s[i]]

LEMMA ListedLen ==
  ASSUME NEW s, Listed(s)
  PROVE  /\ Len(s) \in Nat /\ DOMAIN s = 1 .. Len(s) /\ s \in Seq({s[i] : i \in DOMAIN s})
         /\ s = <<>> <=> Len(s) = 0
<1>1. PICK n \in Nat : s = [i \in 1 .. n |-> s[i]] BY DEF Listed
<1>2. DOMAIN s = 1 .. n BY <1>1
<1> DEFINE R == {s[i] : i \in DOMAIN s}
<1>3. s \in [1 .. n -> R] BY <1>1, <1>2
<1>4. s \in Seq(R) BY <1>3
<1> HIDE DEF R
<1>5. Len(s) = n BY <1>2, <1>4
<1> QED BY <1>2, <1>4, <1>5 DEF R

LEMMA ListedEmpty == Listed(<<>>)
<1>1. <<>> = [i \in 1 .. 0 |-> <<>>[i]] OBVIOUS
<1> QED BY <1>1 DEF Listed

\* A sequence of known elements is one of the values it has at its places.
LEMMA ListedSeq ==
  ASSUME NEW R, NEW t \in Seq(R), NEW n \in Nat, Len(t) = n
  PROVE  Listed(t)
<1>1. DOMAIN t = 1 .. n /\ t \in [1 .. n -> R] OBVIOUS
<1>2. t = [i \in 1 .. n |-> t[i]] BY <1>1
<1> QED BY <1>2 DEF Listed

LEMMA ListedIn ==
  ASSUME NEW s, Listed(s), NEW R, \A i \in DOMAIN s : s[i] \in R
  PROVE  s \in Seq(R)
<1>1. PICK n \in Nat : s = [i \in 1 .. n |-> s[i]] BY DEF Listed
<1>2. DOMAIN s = 1 .. n BY <1>1
<1>3. s \in [1 .. n -> R] BY <1>1, <1>2
<1> QED BY <1>3

LEMMA ListedAppend ==
  ASSUME NEW s, Listed(s), NEW e
  PROVE  /\ Listed(Append(s, e)) /\ Len(Append(s, e)) = Len(s) + 1
         /\ \A i \in 1 .. Len(s) : Append(s, e)[i] = s[i]
         /\ Append(s, e)[Len(s) + 1] = e
<1> DEFINE R == {s[i] : i \in DOMAIN s} \cup {e}
           t == Append(s, e)
<1>1. Len(s) \in Nat /\ DOMAIN s = 1 .. Len(s) BY ListedLen
<1>2. s \in Seq(R)
  <2>1. \A i \in DOMAIN s : s[i] \in R OBVIOUS
  <2> HIDE DEF R
  <2> QED BY <2>1, ListedIn
<1>3. e \in R OBVIOUS
<1> HIDE DEF R
<1>4. t \in Seq(R) /\ Len(t) = Len(s) + 1 /\ Len(s) + 1 \in Nat BY <1>1, <1>2, <1>3
<1>5. \A i \in 1 .. Len(s) : t[i] = s[i] BY <1>1, <1>2, <1>3
<1>6. t[Len(s) + 1] = e BY <1>1, <1>2, <1>3
<1>7. Listed(t)
  <2> HIDE DEF t
  <2> QED BY <1>4, ListedSeq
<1> QED BY <1>4, <1>5, <1>6, <1>7

LEMMA ListedTail ==
  ASSUME NEW s, Listed(s), s # <<>>
  PROVE  /\ Listed(Tail(s)) /\ Len(Tail(s)) = Len(s) - 1
         /\ \A i \in 1 .. Len(s) - 1 : Tail(s)[i] = s[i + 1]
         /\ Head(s) = s[1]
<1> DEFINE R == {s[i] : i \in DOMAIN s}
           t == Tail(s)
<1>1. Len(s) \in Nat /\ DOMAIN s = 1 .. Len(s) /\ s \in Seq(R) BY ListedLen
<1> HIDE DEF R
<1>2. t \in Seq(R) /\ Len(t) = Len(s) - 1 /\ Len(s) - 1 \in Nat BY <1>1
<1>3. \A i \in 1 .. Len(s) - 1 : t[i] = s[i + 1] BY <1>1
<1>4. Listed(t)
  <2> HIDE DEF t
  <2> QED BY <1>2, ListedSeq
<1>5. Head(s) = s[1] BY <1>1
<1> QED BY <1>2, <1>3, <1>4, <1>5

\* The first of a sequence that is not empty.
LEMMA ListedHead ==
  ASSUME NEW s, Listed(s), s # <<>>
  PROVE  Len(s) \in Nat \ {0} /\ 1 \in 1 .. Len(s) /\ Head(s) = s[1]
<1>1. Len(s) \in Nat /\ Len(s) # 0 BY ListedLen
<1>2. Head(s) = s[1] BY ListedTail
<1> QED BY <1>1, <1>2

\* One sequence behind another.
LEMMA ListedJoin ==
  ASSUME NEW s, Listed(s), NEW t, Listed(t)
  PROVE  /\ Listed(s \o t) /\ Len(s \o t) = Len(s) + Len(t)
         /\ \A k \in 1 .. Len(s) + Len(t) :
              (s \o t)[k] = IF k <= Len(s) THEN s[k] ELSE t[k - Len(s)]
<1> PICK R : R = {s[k] : k \in DOMAIN s} \cup {t[k] : k \in DOMAIN t} OBVIOUS
<1>1. s \in Seq(R) /\ t \in Seq(R)
  <2>1. \A k \in DOMAIN s : s[k] \in R OBVIOUS
  <2>2. \A k \in DOMAIN t : t[k] \in R OBVIOUS
  <2> QED BY <2>1, <2>2, ListedIn
<1> PICK u : u = s \o t OBVIOUS
<1>2. PICK m \in Nat : m = Len(s) BY ListedLen
<1>3. PICK n \in Nat : n = Len(t) BY ListedLen
<1>4. /\ u \in Seq(R) /\ Len(u) = m + n
      /\ \A k \in 1 .. m + n : u[k] = IF k <= m THEN s[k] ELSE t[k - m]
  BY <1>1, <1>2, <1>3
<1>5. Listed(u)
  <2>1. m + n \in Nat OBVIOUS
  <2> QED BY ONLY <1>4, <2>1, ListedSeq
<1> QED BY <1>2, <1>3, <1>4, <1>5

LEMMA ListedOne == ASSUME NEW a PROVE Listed(<<a>>) /\ Len(<<a>>) = 1 /\ <<a>>[1] = a
<1>1. <<a>> = [i \in 1 .. 1 |-> <<a>>[i]] OBVIOUS
<1> QED BY <1>1 DEF Listed

LEMMA ListedTwo ==
  ASSUME NEW a, NEW b
  PROVE  Listed(<<a, b>>) /\ Len(<<a, b>>) = 2 /\ <<a, b>>[1] = a /\ <<a, b>>[2] = b
<1>1. <<a, b>> = [i \in 1 .. 2 |-> <<a, b>>[i]] OBVIOUS
<1> QED BY <1>1 DEF Listed

LEMMA ListedRing ==
  ASSUME NEW n \in Nat, NEW a
  PROVE  Listed([i \in 1 .. n |-> a]) /\ Len([i \in 1 .. n |-> a]) = n
<1> DEFINE t == [i \in 1 .. n |-> a]
<1>1. t \in Seq({a}) /\ Len(t) = n OBVIOUS
<1> HIDE DEF t
<1>2. Listed(t) BY <1>1, ListedSeq
<1> QED BY <1>1, <1>2 DEF t
-----------------------------------------------------------------------------
(* Sums. *)

\* Every nonempty set of finite sets has a smallest one.
LEMMA SmallestSet ==
  ASSUME NEW T, T # {}, \A s \in T : IsFiniteSet(s)
  PROVE  \E s \in T : \A t \in T : Cardinality(s) <= Cardinality(t)
<1> DEFINE C == {Cardinality(s) : s \in T}
<1>1. C \subseteq Nat /\ C # {} BY FS_CardinalityType
<1>2. PICK x \in C : \A y \in C : x <= y
  <2> HIDE DEF C
  <2> QED BY <1>1, LeastNumber
<1>3. PICK s \in T : x = Cardinality(s) BY <1>2
<1>4. \A t \in T : Cardinality(t) \in C OBVIOUS
<1> QED BY <1>2, <1>3, <1>4

\* The element that a sum over s begins with.
First(s) == CHOOSE x \in s : TRUE

\* f has the sum of w over each subset of U, one element after the other.
IsSum(f, w, U) ==
  f = [s \in SUBSET U |-> IF s = {} THEN 0 ELSE w[First(s)] + f[s \ {First(s)}]]

LEMMA Smaller ==
  ASSUME NEW s, IsFiniteSet(s), NEW x \in s
  PROVE  /\ IsFiniteSet(s \ {x}) /\ Cardinality(s \ {x}) = Cardinality(s) - 1
         /\ Cardinality(s) \in Nat \ {0}
<1>1. IsFiniteSet(s \ {x}) /\ Cardinality(s \ {x}) = Cardinality(s) - 1
  BY FS_RemoveElement
<1>2. Cardinality(s) \in Nat /\ Cardinality(s \ {x}) \in Nat BY <1>1, FS_CardinalityType
<1> QED BY <1>1, <1>2

LEMMA SumExists ==
  ASSUME NEW U, IsFiniteSet(U), NEW w, \A x \in U : w[x] \in Int
  PROVE  \E f : IsSum(f, w, U)
<1> DEFINE next(g) == [s \in SUBSET U |-> IF s = {} THEN 0 ELSE w[First(s)] + g[s \ {First(s)}]]
<1>zero. PICK Fns : Fns = [SUBSET U -> Int] OBVIOUS
<1>b. PICK Nxt : Nxt = [g \in Fns |-> next(g)] OBVIOUS
<1>c. PICK zero : zero = [s \in SUBSET U |-> 0] OBVIOUS
<1>1. \A s \in SUBSET U : s # {} => First(s) \in s BY DEF First
<1>2. zero \in Fns BY <1>zero, <1>c
<1>3. Nxt \in [Fns -> Fns]
  <2>1. ASSUME NEW g \in Fns PROVE next(g) \in Fns
    <3>1. \A s \in SUBSET U : s # {} => w[First(s)] \in Int /\ g[s \ {First(s)}] \in Int
      BY <1>1, <1>zero
    <3> QED BY <3>1, <1>zero
  <2> HIDE DEF next
  <2> QED BY <2>1, <1>b
<1>4. PICK W \in [Nat -> Fns] : W[0] = zero /\ \A n \in Nat : W[n + 1] = Nxt[W[n]]
  <2> HIDE DEF next
  <2>1. \E W \in [Nat -> Fns] : W[0] = zero /\ \A n \in Nat : W[n + 1] = Nxt[W[n]]
    BY <1>2, <1>3, IteratesExist
  <2> QED BY <2>1
<1> DEFINE f == [s \in SUBSET U |-> W[Cardinality(s)][s]]
<1>5. ASSUME NEW s \in SUBSET U
      PROVE  f[s] = IF s = {} THEN 0 ELSE w[First(s)] + f[s \ {First(s)}]
  <2>1. IsFiniteSet(s) BY FS_Subset
  <2>2. CASE s = {}
    <3>1. Cardinality(s) = 0 BY <2>2, FS_EmptySet
    <3>2. f[s] = zero[s] /\ zero[s] = 0 BY <3>1, <1>4, <1>c
    <3> HIDE DEF f
    <3> QED BY <2>2, <3>2
  <2>3. CASE s # {}
    <3> DEFINE x == First(s)
               c == Cardinality(s) - 1
    <3>1. x \in s BY <1>1, <2>3
    <3>2. Cardinality(s \ {x}) = c /\ c \in Nat /\ c + 1 = Cardinality(s)
      <4> HIDE DEF x
      <4>1. Cardinality(s \ {x}) = Cardinality(s) - 1 /\ Cardinality(s) \in Nat \ {0}
        BY <2>1, <3>1, Smaller
      <4> QED BY <4>1
    <3>3. s \ {x} \in SUBSET U OBVIOUS
    <3> HIDE DEF c
    <3>4. W[c] \in Fns /\ W[c + 1] = Nxt[W[c]] BY <1>4, <3>2
    <3>5. Nxt[W[c]] = next(W[c])
      <4> HIDE DEF next
      <4> QED BY <3>4, <1>b
    <3>6. next(W[c])[s] = w[x] + W[c][s \ {x}] BY <2>3
    <3>7. f[s] = W[c + 1][s] /\ f[s \ {x}] = W[c][s \ {x}] BY <3>2, <3>3
    <3> HIDE DEF f, next, x
    <3> QED BY <2>3, <3>4, <3>5, <3>6, <3>7 DEF x
  <2> QED BY <2>2, <2>3
<1>6. f = [s \in SUBSET U |-> f[s]] OBVIOUS
<1> HIDE DEF f
<1> QED BY <1>5, <1>6 DEF IsSum

LEMMA SumStep ==
  ASSUME NEW U, NEW w, NEW f, IsSum(f, w, U), NEW s \in SUBSET U
  PROVE  f[s] = IF s = {} THEN 0 ELSE w[First(s)] + f[s \ {First(s)}]
BY DEF IsSum

LEMMA SumType ==
  ASSUME NEW U, IsFiniteSet(U), NEW w, \A x \in U : w[x] \in Int, NEW f, IsSum(f, w, U)
  PROVE  \A s \in SUBSET U : f[s] \in Int
<1> DEFINE T == {s \in SUBSET U : f[s] \notin Int}
<1> SUFFICES ASSUME T # {} PROVE FALSE OBVIOUS
<1>1. \A s \in SUBSET U : IsFiniteSet(s) BY FS_Subset
<1>2. PICK s \in T : \A t \in T : Cardinality(s) <= Cardinality(t)
  <2>1. \A s \in T : IsFiniteSet(s) BY <1>1
  <2> HIDE DEF T
  <2> QED BY <2>1, SmallestSet
<1>9. s \in SUBSET U OBVIOUS
<1>3. f[s] = IF s = {} THEN 0 ELSE w[First(s)] + f[s \ {First(s)}] BY <1>9 DEF IsSum
<1>4. s # {} BY <1>3
<1>5. First(s) \in s BY <1>4 DEF First
<1>6. Cardinality(s \ {First(s)}) = Cardinality(s) - 1 /\ Cardinality(s) \in Nat
  BY <1>1, <1>5, Smaller
<1>7. s \ {First(s)} \notin T BY <1>2, <1>6
<1>8. f[s \ {First(s)}] \in Int /\ w[First(s)] \in Int BY <1>5, <1>7
<1> QED BY <1>3, <1>4, <1>8

\* The sum does not depend on the element that it begins with.
LEMMA SumRemove ==
  ASSUME NEW U, IsFiniteSet(U), NEW w, \A x \in U : w[x] \in Int, NEW f, IsSum(f, w, U)
  PROVE  \A s \in SUBSET U : \A y \in s : f[s] = w[y] + f[s \ {y}]
<1> DEFINE T == {s \in SUBSET U : \E y \in s : f[s] # w[y] + f[s \ {y}]}
<1> SUFFICES ASSUME T # {} PROVE FALSE OBVIOUS
<1>1. \A s \in SUBSET U : IsFiniteSet(s) BY FS_Subset
<1>2. PICK s \in T : \A t \in T : Cardinality(s) <= Cardinality(t)
  <2>1. \A s \in T : IsFiniteSet(s) BY <1>1
  <2> HIDE DEF T
  <2> QED BY <2>1, SmallestSet
<1>3. PICK y \in s : f[s] # w[y] + f[s \ {y}] BY <1>2
<1> DEFINE x == First(s)
<1>11. s \in SUBSET U /\ s # {} BY <1>3
<1>12. x \in s BY <1>11 DEF First
<1>13. f[s] = w[x] + f[s \ {x}] BY <1>11 DEF IsSum
<1>4. x \in s /\ f[s] = w[x] + f[s \ {x}] BY <1>12, <1>13
<1>5. x # y BY <1>3, <1>4
<1> HIDE DEF x
<1>14. \A t \in T : Cardinality(t) \in Nat BY <1>1, FS_CardinalityType
<1>6. /\ Cardinality(s \ {x}) = Cardinality(s) - 1 /\ Cardinality(s \ {y}) = Cardinality(s) - 1
      /\ Cardinality(s) \in Nat
  BY <1>1, <1>4, Smaller
<1>7. s \ {x} \notin T /\ s \ {y} \notin T
  <2>1. \A t \in T : Cardinality(t) > Cardinality(s) - 1 BY <1>2, <1>6, <1>14
  <2> HIDE DEF T
  <2> QED BY <1>6, <2>1
<1> DEFINE r == s \ {x, y}
<1>8. y \in s \ {x} /\ x \in s \ {y} /\ (s \ {x}) \ {y} = r /\ (s \ {y}) \ {x} = r
  BY <1>4, <1>5
<1>9. f[s \ {x}] = w[y] + f[r] /\ f[s \ {y}] = w[x] + f[r] BY <1>7, <1>8
<1>10. w[x] \in Int /\ w[y] \in Int /\ f[r] \in Int BY <1>4, SumType
<1> HIDE DEF r
<1> QED BY <1>3, <1>4, <1>9, <1>10

\* Sums over the same set agree, whatever larger set they are computed for.
LEMMA SumUnique ==
  ASSUME NEW U, IsFiniteSet(U), NEW w, NEW f, IsSum(f, w, U),
         NEW V, NEW z, NEW g, IsSum(g, z, V),
         U \subseteq V, \A x \in U : w[x] = z[x]
  PROVE  \A s \in SUBSET U : f[s] = g[s]
<1> DEFINE T == {s \in SUBSET U : f[s] # g[s]}
<1> SUFFICES ASSUME T # {} PROVE FALSE OBVIOUS
<1>1. \A s \in SUBSET U : IsFiniteSet(s) BY FS_Subset
<1>2. PICK s \in T : \A t \in T : Cardinality(s) <= Cardinality(t)
  <2>1. \A s \in T : IsFiniteSet(s) BY <1>1
  <2> HIDE DEF T
  <2> QED BY <2>1, SmallestSet
<1>3. /\ f[s] = IF s = {} THEN 0 ELSE w[First(s)] + f[s \ {First(s)}]
      /\ g[s] = IF s = {} THEN 0 ELSE z[First(s)] + g[s \ {First(s)}]
  BY SumStep
<1>4. s # {} BY <1>2, <1>3
<1>5. First(s) \in s BY <1>4 DEF First
<1>6. Cardinality(s \ {First(s)}) = Cardinality(s) - 1 /\ Cardinality(s) \in Nat
  BY <1>1, <1>5, Smaller
<1>7. s \ {First(s)} \notin T BY <1>2, <1>6
<1> QED BY <1>2, <1>3, <1>4, <1>5, <1>7
-----------------------------------------------------------------------------
(* Sequences of sequences, one behind the other. *)

\* W[k] is what the first k of the n sequences in P make.
Flat(W, P, n, S) ==
  /\ W \in [0 .. n -> Seq(S)] /\ W[0] = <<>>
  /\ \A k \in 1 .. n : W[k] = W[k - 1] \o P[k]

LEMMA FlatExists ==
  ASSUME NEW S, NEW n \in Nat, NEW P, \A k \in 1 .. n : P[k] \in Seq(S)
  PROVE  \E W : Flat(W, P, n, S)
<1> DEFINE next(v) == [at |-> v.at + 1,
                       made |-> IF v.at + 1 \in 1 .. n THEN v.made \o P[v.at + 1] ELSE v.made]
<1>1. PICK V : V = [at : Nat, made : Seq(S)] OBVIOUS
<1>2. PICK a : a = [at |-> 0, made |-> <<>>] OBVIOUS
<1>3. PICK F : F = [v \in V |-> next(v)] OBVIOUS
<1>4. a \in V BY <1>1, <1>2, EmptySeq
<1>5. ASSUME NEW v \in V PROVE next(v) \in V
  <2>1. v.at \in Nat /\ v.made \in Seq(S) BY <1>1
  <2>2. v.at + 1 \in 1 .. n => v.made \o P[v.at + 1] \in Seq(S) BY <2>1, ConcatProperties
  <2> QED BY <1>1, <2>1, <2>2
<1> HIDE DEF next
<1>6. F \in [V -> V] BY <1>3, <1>5
<1>7. PICK G \in [Nat -> V] : G[0] = a /\ \A k \in Nat : G[k + 1] = F[G[k]]
  <2>1. \E G \in [Nat -> V] : G[0] = a /\ \A k \in Nat : G[k + 1] = F[G[k]]
    BY <1>4, <1>6, IteratesExist
  <2> QED BY <2>1
<1>8. \A k \in Nat : G[k + 1] = next(G[k]) BY <1>3, <1>7
<1>9. \A k \in Nat : G[k].at = k
  <2> DEFINE T == {k \in Nat : G[k].at # k}
  <2> SUFFICES ASSUME T # {} PROVE FALSE OBVIOUS
  <2>1. PICK m \in T : \A y \in T : m <= y
    <3>1. T \subseteq Nat OBVIOUS
    <3> HIDE DEF T
    <3> QED BY <3>1, LeastNumber
  <2>2. m # 0 BY <1>2, <1>7
  <2>3. m - 1 \in Nat /\ (m - 1) + 1 = m /\ m - 1 \notin T BY <2>1, <2>2
  <2>4. G[m] = next(G[m - 1]) BY <1>8, <2>3
  <2>5. G[m].at = G[m - 1].at + 1 BY <2>4 DEF next
  <2> QED BY <2>3, <2>5
<1> DEFINE W == [k \in 0 .. n |-> G[k].made]
<1>10. W \in [0 .. n -> Seq(S)] /\ W[0] = <<>>
  <2>1. \A k \in Nat : G[k].made \in Seq(S) BY <1>1, <1>7
  <2>2. 0 \in 0 .. n /\ \A k \in 0 .. n : k \in Nat OBVIOUS
  <2>3. G[0].made = <<>> BY <1>2, <1>7
  <2> QED BY <2>1, <2>2, <2>3
<1>11. ASSUME NEW k \in 1 .. n PROVE W[k] = W[k - 1] \o P[k]
  <2>1. k - 1 \in Nat /\ (k - 1) + 1 = k /\ k - 1 \in 0 .. n /\ k \in 0 .. n OBVIOUS
  <2>2. G[k] = next(G[k - 1]) /\ G[k - 1].at = k - 1 BY <1>8, <1>9, <2>1
  <2>4. G[k - 1].at + 1 = k BY <2>1, <2>2
  <2>5. G[k].made = IF G[k - 1].at + 1 \in 1 .. n THEN G[k - 1].made \o P[G[k - 1].at + 1]
                    ELSE G[k - 1].made
    <3> PICK g : g = G[k - 1] OBVIOUS
    <3>1. next(g).made = IF g.at + 1 \in 1 .. n THEN g.made \o P[g.at + 1] ELSE g.made BY DEF next
    <3> QED BY <2>2, <3>1
  <2>3. G[k].made = G[k - 1].made \o P[k] BY <2>4, <2>5
  <2> QED BY <2>1, <2>3
<1> HIDE DEF W
<1> QED BY <1>10, <1>11 DEF Flat

\* FlattenSeq computes the same, whatever function its recursion chooses.
LEMMA FlattenIs ==
  ASSUME NEW S, NEW P, Len(P) \in Nat \ {0}, NEW W, Flat(W, P, Len(P), S),
         \A k \in 1 .. Len(P) : P[k] \in Seq(S)
  PROVE  FlattenSeq(P) = W[Len(P)]
<1> DEFINE Is(f) == f = [i \in 1 .. Len(P) |-> IF i = 1 THEN P[i] ELSE f[i - 1] \o P[i]]
           g == [i \in 1 .. Len(P) |-> W[i]]
<1>1. ASSUME NEW i \in 1 .. Len(P) PROVE g[i] = IF i = 1 THEN P[i] ELSE g[i - 1] \o P[i]
  <2>1. W[i] = W[i - 1] \o P[i] /\ W[0] = <<>> BY DEF Flat
  <2>2. CASE i = 1
    <3>1. i - 1 = 0 /\ P[i] \in Seq(S) BY <2>2
    <3>2. <<>> \o P[i] = P[i] BY <3>1, ConcatEmptySeq
    <3> QED BY <2>1, <2>2, <3>1, <3>2
  <2>3. CASE i # 1
    <3>1. i - 1 \in 1 .. Len(P) BY <2>3
    <3> QED BY <2>1, <2>3, <3>1
  <2> QED BY <2>2, <2>3
<1>2. g = [i \in 1 .. Len(P) |-> g[i]] OBVIOUS
<1> HIDE DEF g
<1>3. Is(g) BY <1>1, <1>2
<1>4. ASSUME NEW f, Is(f) PROVE f = g
  <2> DEFINE T == {i \in 1 .. Len(P) : f[i] # g[i]}
  <2>1. f = [i \in 1 .. Len(P) |-> f[i]]
        /\ \A i \in 1 .. Len(P) : f[i] = IF i = 1 THEN P[i] ELSE f[i - 1] \o P[i]
    <3>1. DOMAIN f = 1 .. Len(P) BY <1>4
    <3>2. f = [i \in DOMAIN f |-> f[i]] BY <1>4
    <3>3. ASSUME NEW i \in 1 .. Len(P) PROVE f[i] = IF i = 1 THEN P[i] ELSE f[i - 1] \o P[i]
      <4> PICK h : h = f OBVIOUS
      <4>1. f = [j \in 1 .. Len(P) |-> IF j = 1 THEN P[j] ELSE h[j - 1] \o P[j]] BY <1>4
      <4>2. f[i] = IF i = 1 THEN P[i] ELSE h[i - 1] \o P[i] BY <4>1
      <4> QED BY <4>2
    <3> HIDE DEF Is
    <3> QED BY <3>1, <3>2, <3>3
  <2> HIDE DEF Is
  <2>2. T = {}
    <3> SUFFICES ASSUME T # {} PROVE FALSE OBVIOUS
    <3>1. PICK m \in T : \A y \in T : m <= y
      <4>1. T \subseteq Nat OBVIOUS
      <4> HIDE DEF T
      <4> QED BY <4>1, LeastNumber
    <3>2. m # 1 BY <1>1, <2>1
    <3>3. m - 1 \in 1 .. Len(P) /\ m - 1 \notin T BY <3>1, <3>2
    <3>4. f[m - 1] = g[m - 1] BY <3>3
    <3> QED BY <1>1, <2>1, <3>2, <3>4
  <2> QED BY <1>2, <2>1, <2>2
<1>5. (CHOOSE f : Is(f)) = g
  <2>1. Is(CHOOSE f : Is(f)) BY <1>3
  <2> HIDE DEF Is
  <2> QED BY <1>4, <2>1
<1>6. FlattenSeq(P) = (CHOOSE f : Is(f))[Len(P)] BY DEF FlattenSeq
<1>7. g[Len(P)] = W[Len(P)] BY DEF g
<1> HIDE DEF Is
<1> QED BY <1>5, <1>6, <1>7

FlatBoth(W, P, V, Q, n, S) == Flat(W, P, n, S) /\ Flat(V, Q, n, S)
Agree(P, Q, m, n) == \A k \in m + 1 .. n : P[k] = Q[k]
SeqsOf(P, n, S) == \A k \in 1 .. n : P[k] \in Seq(S)

\* W and V go on in the same way from m to n.
SameSuffix(W, V, m, n, S) == \E B \in Seq(S) : W[n] = W[m] \o B /\ V[n] = V[m] \o B

LEMMA FlatPrefix ==
  ASSUME NEW S, NEW n \in Nat, NEW P, NEW Q, NEW W, NEW V, FlatBoth(W, P, V, Q, n, S),
         NEW m \in 0 .. n, Agree(P, Q, 0, m)
  PROVE  W[m] = V[m]
<1>0. Flat(W, P, n, S) /\ Flat(V, Q, n, S) /\ \A k \in 1 .. m : P[k] = Q[k]
  BY DEF FlatBoth, Agree
<1> USE <1>0
<1> DEFINE T == {k \in 0 .. m : W[k] # V[k]}
<1> SUFFICES ASSUME T # {} PROVE FALSE OBVIOUS
<1>1. PICK k \in T : \A y \in T : k <= y
  <2>1. T \subseteq Nat OBVIOUS
  <2> HIDE DEF T
  <2> QED BY <2>1, LeastNumber
<1>2. k # 0 BY DEF Flat
<1>3. k - 1 \in 0 .. m /\ k - 1 \notin T /\ k \in 1 .. m /\ k \in 1 .. n BY <1>1, <1>2
<1>4. W[k - 1] = V[k - 1] BY <1>3
<1> QED BY <1>3, <1>4 DEF Flat

LEMMA Regroup == ASSUME NEW S PROVE \A s, t, u \in Seq(S) : (s \o t) \o u = s \o (t \o u)
<1>1. ASSUME NEW s \in Seq(S), NEW t \in Seq(S), NEW u \in Seq(S)
      PROVE  (s \o t) \o u = s \o (t \o u)
  BY ConcatAssociative
<1> QED BY <1>1

LEMMA FlatSuffix ==
  ASSUME NEW S, NEW n \in Nat, NEW P, NEW Q, NEW W, NEW V, FlatBoth(W, P, V, Q, n, S),
         SeqsOf(P, n, S), NEW m \in 0 .. n, Agree(P, Q, m, n)
  PROVE  SameSuffix(W, V, m, n, S)
<1>0. /\ Flat(W, P, n, S) /\ Flat(V, Q, n, S)
      /\ \A k \in m + 1 .. n : P[k] = Q[k]
      /\ \A k \in 1 .. n : P[k] \in Seq(S)
  BY DEF FlatBoth, Agree, SeqsOf
<1> USE <1>0
<1> DEFINE Same(k) == \E B \in Seq(S) : W[k] = W[m] \o B /\ V[k] = V[m] \o B
           T == {k \in m .. n : ~Same(k)}
<1>1. \A k \in 0 .. n : W[k] \in Seq(S) /\ V[k] \in Seq(S) BY DEF Flat
<1>2. T = {}
  <2> SUFFICES ASSUME T # {} PROVE FALSE OBVIOUS
  <2>1. PICK k \in T : \A y \in T : k <= y
    <3>1. T \subseteq Nat OBVIOUS
    <3> HIDE DEF T
    <3> QED BY <3>1, LeastNumber
  <2>2. k # m
    <3>1. Same(m)
      <4>1. <<>> \in Seq(S) /\ W[m] \o <<>> = W[m] /\ V[m] \o <<>> = V[m]
        BY <1>1, EmptySeq, ConcatEmptySeq
      <4> QED BY <4>1
    <3> HIDE DEF Same
    <3> QED BY <3>1
  <2>10. k \in m .. n OBVIOUS
  <2>11. k - 1 \in m .. n /\ k \in 1 .. n /\ k \in m + 1 .. n /\ ~(k <= k - 1) BY <2>2, <2>10
  <2>3. k - 1 \in m .. n /\ k - 1 \notin T /\ k \in 1 .. n /\ k \in m + 1 .. n
    <3> HIDE DEF T
    <3> QED BY <2>1, <2>11
  <2>4. Same(k - 1)
    <3> HIDE DEF Same
    <3> QED BY <2>3
  <2>5. PICK B \in Seq(S) : W[k - 1] = W[m] \o B /\ V[k - 1] = V[m] \o B BY <2>4
  <2>6. W[k] = W[k - 1] \o P[k] /\ V[k] = V[k - 1] \o P[k] /\ P[k] \in Seq(S) BY <2>3 DEF Flat
  <2>7. B \o P[k] \in Seq(S) BY <2>6, ConcatProperties
  <2>8. (W[m] \o B) \o P[k] = W[m] \o (B \o P[k]) /\ (V[m] \o B) \o P[k] = V[m] \o (B \o P[k])
    <3>1. W[m] \in Seq(S) /\ V[m] \in Seq(S) /\ P[k] \in Seq(S) BY <1>1, <2>6
    <3>2. \A s, t, u \in Seq(S) : (s \o t) \o u = s \o (t \o u) BY ONLY Regroup
    <3> QED BY <3>1, <3>2, Zenon
  <2>9. Same(k) BY <2>5, <2>6, <2>7, <2>8
  <2> HIDE DEF Same
  <2> QED BY <2>9
<1>3. Same(n)
  <2> HIDE DEF Same
  <2> QED BY <1>2
<1> QED BY <1>3 DEF SameSuffix

\* Nothing is made of sequences that are empty.
LEMMA FlatEmpty ==
  ASSUME NEW S, NEW n \in Nat, NEW P, NEW W, Flat(W, P, n, S), \A k \in 1 .. n : P[k] = <<>>
  PROVE  W[n] = <<>>
<1> DEFINE T == {k \in 0 .. n : W[k] # <<>>}
<1> SUFFICES ASSUME T # {} PROVE FALSE OBVIOUS
<1>1. PICK k \in T : \A y \in T : k <= y
  <2>1. T \subseteq Nat OBVIOUS
  <2> HIDE DEF T
  <2> QED BY <2>1, LeastNumber
<1>2. k # 0 BY DEF Flat
<1>3. k - 1 \in 0 .. n /\ k - 1 \notin T /\ k \in 1 .. n BY <1>1, <1>2
<1>4. W[k] = <<>> \o <<>> BY <1>3 DEF Flat
<1>5. <<>> \o <<>> = <<>> BY EmptySeq, ConcatEmptySeq
<1> QED BY <1>4, <1>5

\* What is in the whole is in one of its parts.
FromPart(P, n, x) == \E k \in 1 .. n : \E j \in 1 .. Len(P[k]) : x = P[k][j]

LEMMA FlatElement ==
  ASSUME NEW S, NEW n \in Nat, NEW P, NEW W, Flat(W, P, n, S), SeqsOf(P, n, S)
  PROVE  \A i \in 1 .. Len(W[n]) : FromPart(P, n, W[n][i])
<1> SUFFICES ASSUME NEW i \in 1 .. Len(W[n])
             PROVE  \E k \in 1 .. n : \E j \in 1 .. Len(P[k]) : W[n][i] = P[k][j]
  BY DEF FromPart
<1> USE DEF SeqsOf
<1> PICK x : x = W[n][i] OBVIOUS
<1> DEFINE T == {k \in 0 .. n : \E j \in 1 .. Len(W[k]) : W[k][j] = x}
<1>1. n \in T OBVIOUS
<1>2. PICK k \in T : \A y \in T : k <= y
  <2>1. T \subseteq Nat OBVIOUS
  <2> HIDE DEF T
  <2> QED BY <1>1, <2>1, LeastNumber
<1>3. k # 0
  <2>1. Len(<<>>) = 0 OBVIOUS
  <2> QED BY <2>1 DEF Flat
<1>4. k - 1 \in 0 .. n /\ k - 1 \notin T /\ k \in 1 .. n BY <1>2, <1>3
<1>5. W[k] = W[k - 1] \o P[k] /\ W[k - 1] \in Seq(S) /\ P[k] \in Seq(S) BY <1>4 DEF Flat
<1>6. PICK j \in 1 .. Len(W[k]) : W[k][j] = x BY <1>2
<1>7. /\ Len(W[k]) = Len(W[k - 1]) + Len(P[k]) /\ Len(W[k - 1]) \in Nat /\ Len(P[k]) \in Nat
      /\ W[k][j] = IF j <= Len(W[k - 1]) THEN W[k - 1][j] ELSE P[k][j - Len(W[k - 1])]
  <2>1. /\ Len(W[k - 1] \o P[k]) = Len(W[k - 1]) + Len(P[k])
        /\ \A l \in 1 .. Len(W[k - 1]) + Len(P[k]) : (W[k - 1] \o P[k])[l] =
              IF l <= Len(W[k - 1]) THEN W[k - 1][l] ELSE P[k][l - Len(W[k - 1])]
    BY <1>5, ConcatProperties
  <2> QED BY <1>5, <2>1, LenProperties
<1> PICK a, b : a = Len(W[k - 1]) /\ b = Len(P[k]) OBVIOUS
<1>10. j \in 1 .. a + b /\ a \in Nat /\ b \in Nat BY <1>6, <1>7
<1>8. ~(j <= a)
  <2>1. ~\E l \in 1 .. a : W[k - 1][l] = x BY <1>4
  <2> QED BY <1>6, <1>7, <1>10, <2>1
<1>9. j - a \in 1 .. b /\ P[k][j - a] = x
  <2>3. \A u, v \in Nat : \A l \in 1 .. u + v : ~(l <= u) => l - u \in 1 .. v OBVIOUS
  <2>1. j - a \in 1 .. b BY <1>8, <1>10, <2>3
  <2>2. W[k][j] = P[k][j - a] BY <1>7, <1>8
  <2> QED BY <1>6, <2>1, <2>2
<1> QED BY <1>4, <1>9

\* One sequence more, and what is made of it is added behind.
LEMMA FlattenNext ==
  ASSUME NEW S, NEW n \in Nat, NEW P, \A k \in 1 .. n + 1 : P[k] \in Seq(S)
  PROVE  /\ FlattenSeq([k \in 1 .. n + 1 |-> P[k]]) = FlattenSeq([k \in 1 .. n |-> P[k]]) \o P[n + 1]
         /\ FlattenSeq([k \in 1 .. n |-> P[k]]) \in Seq(S)
<1> DEFINE Q(m) == [k \in 1 .. m |-> P[k]]
<1>1. PICK W : Flat(W, P, n + 1, S) BY FlatExists
<1>2. ASSUME NEW m \in 0 .. n + 1 PROVE FlattenSeq(Q(m)) = W[m]
  <2>1. m \in Nat /\ Q(m) \in Seq(Seq(S)) /\ Len(Q(m)) = m
    <3>1. m \in Nat /\ \A k \in 1 .. m : P[k] \in Seq(S) OBVIOUS
    <3> QED BY <3>1
  <2>2. CASE m = 0
    <3>1. Len(Q(m)) = 0 /\ Q(m) = <<>> BY <2>1, <2>2
    <3>2. FlattenSeq(Q(m)) = Q(m) BY <3>1 DEF FlattenSeq
    <3> QED BY <1>1, <2>2, <3>1, <3>2 DEF Flat
  <2>3. CASE m # 0
    <3> DEFINE V == [k \in 0 .. m |-> W[k]]
    <3>1. Flat(V, Q(m), m, S)
      <4>1. V \in [0 .. m -> Seq(S)] /\ V[0] = <<>> BY <1>1, <2>1 DEF Flat
      <4>2. ASSUME NEW k \in 1 .. m PROVE V[k] = V[k - 1] \o Q(m)[k]
        <5>1. k \in 1 .. n + 1 /\ k - 1 \in 0 .. m /\ k \in 0 .. m BY <2>1
        <5>2. W[k] = W[k - 1] \o P[k] BY <1>1, <5>1 DEF Flat
        <5> QED BY <5>1, <5>2
      <4> HIDE DEF V, Q
      <4> QED BY <4>1, <4>2 DEF Flat
    <3>2. \A k \in 1 .. m : Q(m)[k] \in Seq(S) BY <2>1
    <3>3. V[m] = W[m] BY <2>1
    <3> HIDE DEF Q, V
    <3>4. FlattenSeq(Q(m)) = V[m] BY <2>1, <2>3, <3>1, <3>2, FlattenIs
    <3> QED BY <3>3, <3>4
  <2> QED BY <2>2, <2>3
<1> HIDE DEF Q
<1>3. n \in 0 .. n + 1 /\ n + 1 \in 0 .. n + 1 OBVIOUS
<1>4. W[n + 1] = W[n] \o P[n + 1] /\ W[n] \in Seq(S)
  <2>1. n + 1 \in 1 .. n + 1 /\ (n + 1) - 1 = n OBVIOUS
  <2> QED BY <1>1, <1>3, <2>1 DEF Flat
<1> QED BY <1>2, <1>3, <1>4 DEF Q

\* The parts that ElementsAt puts together.
AtParts(s, P) == [k \in 1 .. Len(s) |-> IF k \in P THEN <<s[k]>> ELSE <<>>]

LEMMA ElementsNone == ASSUME NEW P PROVE ElementsAt(<<>>, P) = <<>>
<1>1. Len(<<>>) = 0 OBVIOUS
<1>2. AtParts(<<>>, P) = <<>>
  <2>1. AtParts(<<>>, P) = [k \in 1 .. 0 |-> IF k \in P THEN << <<>>[k] >> ELSE <<>>] BY <1>1 DEF AtParts
  <2> QED BY <2>1
<1>3. FlattenSeq(<<>>) = <<>> BY <1>1 DEF FlattenSeq
<1> QED BY <1>2, <1>3 DEF ElementsAt, AtParts

\* Only the elements at these places matter.
LEMMA ElementsSame ==
  ASSUME NEW s, NEW t, NEW P, NEW Q, Len(s) = Len(t),
         \A k \in 1 .. Len(s) : s[k] = t[k] /\ (k \in P <=> k \in Q)
  PROVE  ElementsAt(s, P) = ElementsAt(t, Q)
<1>1. AtParts(s, P) = AtParts(t, Q) BY DEF AtParts
<1> QED BY <1>1 DEF ElementsAt, AtParts

LEMMA ElementsType ==
  ASSUME NEW R, NEW s \in Seq(R), NEW P
  PROVE  ElementsAt(s, P) \in Seq(R)
<1>1. PICK n \in Nat : n = Len(s) OBVIOUS
<1>2. PICK p : p = [k \in 1 .. n + 1 |-> IF k \in P /\ k <= n THEN <<s[k]>> ELSE <<>>] OBVIOUS
<1>3. ASSUME NEW k \in 1 .. n + 1 PROVE p[k] \in Seq(R)
  <2>1. k <= n => s[k] \in R /\ <<s[k]>> \in Seq(R)
    <3>1. k <= n => k \in 1 .. n OBVIOUS
    <3> QED BY <1>1, <3>1
  <2>2. <<>> \in Seq(R) OBVIOUS
  <2> QED BY <1>2, <2>1, <2>2
<1>4. FlattenSeq([k \in 1 .. n |-> p[k]]) \in Seq(R) BY <1>3, FlattenNext
<1>5. [k \in 1 .. n |-> p[k]] = [k \in 1 .. Len(s) |-> IF k \in P THEN <<s[k]>> ELSE <<>>]
  BY <1>1, <1>2
<1> QED BY <1>4, <1>5 DEF ElementsAt

LEMMA ElementsNext ==
  ASSUME NEW R, NEW s \in Seq(R), NEW e \in R, NEW P
  PROVE  /\ ElementsAt(s, P) \in Seq(R)
         /\ ElementsAt(Append(s, e), P) = IF Len(s) + 1 \in P THEN Append(ElementsAt(s, P), e)
                                          ELSE ElementsAt(s, P)
<1>1. PICK t : t = Append(s, e) OBVIOUS
<1>2. PICK n \in Nat : n = Len(s) OBVIOUS
<1>3. t \in Seq(R) /\ Len(t) = n + 1 /\ t[n + 1] = e /\ \A k \in 1 .. n : t[k] = s[k] BY <1>1, <1>2
<1>4. PICK p : p = AtParts(t, P) OBVIOUS
<1>5. \A k \in 1 .. n + 1 : p[k] = IF k \in P THEN <<t[k]>> ELSE <<>> BY <1>3, <1>4 DEF AtParts
<1>6. ASSUME NEW k \in 1 .. n + 1 PROVE p[k] \in Seq(R)
  <2>1. t[k] \in R BY <1>3
  <2>2. <<t[k]>> \in Seq(R) /\ <<>> \in Seq(R) BY <2>1
  <2> QED BY <1>5, <2>2
<1>7. /\ FlattenSeq([k \in 1 .. n + 1 |-> p[k]]) = FlattenSeq([k \in 1 .. n |-> p[k]]) \o p[n + 1]
      /\ FlattenSeq([k \in 1 .. n |-> p[k]]) \in Seq(R)
  BY <1>6, FlattenNext
<1>8. AtParts(t, P) = [k \in 1 .. n + 1 |-> p[k]] BY <1>3, <1>5 DEF AtParts
<1>9. AtParts(s, P) = [k \in 1 .. n |-> p[k]]
  <2>1. \A k \in 1 .. n : k \in 1 .. n + 1 BY <1>2
  <2> QED BY <1>2, <1>3, <1>5, <2>1 DEF AtParts
<1>10. ElementsAt(t, P) = ElementsAt(s, P) \o p[n + 1] BY <1>7, <1>8, <1>9 DEF ElementsAt, AtParts
<1>11. ElementsAt(s, P) \in Seq(R) BY <1>7, <1>9 DEF ElementsAt, AtParts
<1>12. PICK a \in Seq(R) : a = ElementsAt(s, P) BY <1>11
<1>13. p[n + 1] = IF n + 1 \in P THEN <<e>> ELSE <<>> BY <1>2, <1>3, <1>5
<1>14. a \o <<e>> = Append(a, e) /\ a \o <<>> = a OBVIOUS
<1> QED BY <1>1, <1>2, <1>10, <1>11, <1>12, <1>13, <1>14

LEMMA ElementsGrow ==
  ASSUME NEW s, Listed(s), NEW e, NEW P
  PROVE  /\ Listed(ElementsAt(s, P)) /\ Len(ElementsAt(s, P)) \in Nat
         /\ ElementsAt(Append(s, e), P) = IF Len(s) + 1 \in P THEN Append(ElementsAt(s, P), e)
                                          ELSE ElementsAt(s, P)
<1>1. PICK R : R = {s[i] : i \in DOMAIN s} \cup {e} OBVIOUS
<1>2. e \in R /\ \A i \in DOMAIN s : s[i] \in R BY <1>1
<1>3. s \in Seq(R) BY <1>2, ListedIn
<1>4. PICK a : a = ElementsAt(s, P) OBVIOUS
<1>5. /\ a \in Seq(R)
      /\ ElementsAt(Append(s, e), P) = IF Len(s) + 1 \in P THEN Append(a, e) ELSE a
  BY <1>2, <1>3, <1>4, ElementsNext
<1>6. PICK n \in Nat : n = Len(a) BY <1>5
<1>7. Listed(a) BY <1>5, <1>6, ListedSeq
<1> QED BY <1>4, <1>5, <1>6, <1>7

\* The first m of a sequence, and one more.
LEMMA FirstNext ==
  ASSUME NEW R, NEW t \in Seq(R), NEW m \in Nat, m + 1 <= Len(t)
  PROVE  /\ SubSeq(t, 1, m) \in Seq(R) /\ Len(SubSeq(t, 1, m)) = m /\ t[m + 1] \in R
         /\ SubSeq(t, 1, m + 1) = Append(SubSeq(t, 1, m), t[m + 1])
<1>1. PICK a : a = SubSeq(t, 1, m) OBVIOUS
<1>2. a \in Seq(R) /\ Len(a) = m /\ \A k \in 1 .. m : a[k] = t[k] BY <1>1
<1>3. t[m + 1] \in R OBVIOUS
<1>4. PICK b : b = SubSeq(t, 1, m + 1) OBVIOUS
<1>5. b \in Seq(R) /\ Len(b) = m + 1 /\ \A k \in 1 .. m + 1 : b[k] = t[k] BY <1>4
<1>6. PICK c : c = Append(a, t[m + 1]) OBVIOUS
<1>7. c \in Seq(R) /\ Len(c) = m + 1 /\ c[m + 1] = t[m + 1] /\ \A k \in 1 .. m : c[k] = a[k] BY <1>2, <1>3, <1>6
<1>8. \A k \in 1 .. m + 1 : b[k] = c[k]
  <2> TAKE k \in 1 .. m + 1
  <2>1. CASE k = m + 1 BY <1>5, <1>7, <2>1
  <2>2. CASE k # m + 1
    <3>1. k \in 1 .. m BY <2>2
    <3> QED BY <1>2, <1>5, <1>7, <3>1
  <2> QED BY <2>1, <2>2
<1>9. b = c BY ONLY <1>5, <1>7, <1>8, m \in Nat, SeqEqual
<1> QED BY <1>1, <1>2, <1>3, <1>4, <1>6, <1>9

\* What is taken out of two sequences, one behind the other.
LEMMA ElementsJoin ==
  ASSUME NEW R, NEW s \in Seq(R), NEW t \in Seq(R), NEW P, NEW Q,
         \A k \in 1 .. Len(t) : k \in Q <=> Len(s) + k \in P
  PROVE  /\ ElementsAt(s, P) \in Seq(R) /\ ElementsAt(t, Q) \in Seq(R)
         /\ ElementsAt(s \o t, P) = ElementsAt(s, P) \o ElementsAt(t, Q)
<1>1. \A k \in 1 .. Len(t) : k \in Q <=> Len(s) + k \in P OBVIOUS
<1> DEFINE Of(m) == SubSeq(t, 1, m)
           Fits(m) == /\ ElementsAt(s, P) \in Seq(R) /\ ElementsAt(Of(m), Q) \in Seq(R)
                      /\ ElementsAt(s \o Of(m), P) = ElementsAt(s, P) \o ElementsAt(Of(m), Q)
           Fails == {m \in Nat : m <= Len(t) /\ ~Fits(m)}
<1>2. Fails = {}
  <2> SUFFICES ASSUME Fails # {} PROVE FALSE OBVIOUS
  <2>1. PICK m \in Fails : \A y \in Fails : m <= y
    <3>1. Fails \subseteq Nat OBVIOUS
    <3> HIDE DEF Fails
    <3> QED BY <3>1, LeastNumber
  <2>2. m # 0
    <3>1. Of(0) = <<>> /\ s \o <<>> = s OBVIOUS
    <3>2. ElementsAt(s, P) \in Seq(R) BY ElementsType
    <3>3. PICK a \in Seq(R) : a = ElementsAt(s, P) BY <3>2
    <3>4. a \o <<>> = a /\ <<>> \in Seq(R) OBVIOUS
    <3>5. Fits(0) BY <3>1, <3>3, <3>4, ElementsNone
    <3> HIDE DEF Fits
    <3> QED BY <3>5
  <2>3. PICK n \in Nat : n = m - 1 BY <2>2
  <2>4. m = n + 1 /\ n + 1 <= Len(t) /\ n < m BY <2>3
  <2>5. Fits(n)
    <3> HIDE DEF Fits
    <3> QED BY <2>1, <2>4
  <2>6. PICK u : u = Of(n) OBVIOUS
  <2>7. PICK e : e = t[n + 1] OBVIOUS
  <2>8. u \in Seq(R) /\ Len(u) = n /\ e \in R /\ Of(m) = Append(u, e) BY <2>4, <2>6, <2>7, FirstNext
  <2>9. PICK v : v = s \o u OBVIOUS
  <2>10. v \in Seq(R) BY <2>8, <2>9
  <2>19. Len(v) = Len(s) + n BY <2>8, <2>9
  <2>11. s \o Append(u, e) = Append(v, e) BY <2>8, <2>9
  <2>12. /\ ElementsAt(Append(v, e), P) = IF Len(v) + 1 \in P THEN Append(ElementsAt(v, P), e)
                                          ELSE ElementsAt(v, P)
    BY ONLY <2>8, <2>10, ElementsNext
  <2>13. /\ ElementsAt(u, Q) \in Seq(R)
         /\ ElementsAt(Append(u, e), Q) = IF Len(u) + 1 \in Q THEN Append(ElementsAt(u, Q), e)
                                          ELSE ElementsAt(u, Q)
    BY ONLY <2>8, ElementsNext
  <2>14. Len(v) + 1 \in P <=> Len(u) + 1 \in Q
    <3>1. PICK l \in Nat : l = Len(s) OBVIOUS
    <3>2. Len(v) + 1 = l + (n + 1) /\ Len(u) + 1 = n + 1 /\ n + 1 \in 1 .. Len(t) BY <2>4, <2>8, <2>19, <3>1
    <3> QED BY <1>1, <3>1, <3>2
  <2>15. PICK a, b : a = ElementsAt(s, P) /\ b = ElementsAt(u, Q) OBVIOUS
  <2>16. a \in Seq(R) /\ b \in Seq(R) /\ ElementsAt(v, P) = a \o b BY <2>5, <2>6, <2>9, <2>13, <2>15
  <2>20. a \in Seq(R) /\ b \in Seq(R) /\ e \in R BY <2>8, <2>16
  <2>21. PICK f : f = <<e>> OBVIOUS
  <2>22. f \in Seq(R) BY <2>20, <2>21
  <2>23. a \o b \in Seq(R) BY ONLY <2>20
  <2>24. Append(b, e) = b \o f BY ONLY <2>20, <2>21, AppendIsConcat
  <2>25. Append(a \o b, e) = (a \o b) \o f BY ONLY <2>20, <2>21, <2>23, AppendIsConcat
  <2>26. (a \o b) \o f = a \o (b \o f)
    <3>1. \A x, y, z \in Seq(R) : (x \o y) \o z = x \o (y \o z) BY ONLY Regroup
    <3> QED BY ONLY <2>20, <2>22, <3>1
  <2>27. Append(b, e) \in Seq(R) BY ONLY <2>20
  <2>17. Append(b, e) \in Seq(R) /\ Append(a \o b, e) = a \o Append(b, e)
    BY ONLY <2>24, <2>25, <2>26, <2>27
  <2>18. Fits(m) BY <2>8, <2>11, <2>12, <2>13, <2>14, <2>15, <2>16, <2>17
  <2> HIDE DEF Fits
  <2> QED BY <2>18
<1>3. Fits(Len(t)) /\ Of(Len(t)) = t
  <2>1. Len(t) \in Nat /\ Of(Len(t)) = t OBVIOUS
  <2> HIDE DEF Fits
  <2> QED BY <1>2, <2>1
<1> QED BY <1>1, <1>3

\* The places themselves, from left to right.
PlacesRise(W, n, P) ==
  /\ W \in Seq(1 .. n)
  /\ \A i, j \in 1 .. Len(W) : i < j => W[i] < W[j]
  /\ \A x \in 1 .. n : x \in P <=> \E j \in 1 .. Len(W) : W[j] = x

LEMMA PlacesUp ==
  ASSUME NEW n \in Nat, NEW P, NEW W, W = ElementsAt([k \in 1 .. n |-> k], P)
  PROVE  PlacesRise(W, n, P)
<1> DEFINE Of(m) == [k \in 1 .. m |-> k]
           Climbs(w) == \A i, j \in 1 .. Len(w) : i < j => w[i] < w[j]
           Reaches(w, m) == \A x \in 1 .. m : x \in P <=> \E j \in 1 .. Len(w) : w[j] = x
           Fits(m) == LET w == ElementsAt(Of(m), P) IN w \in Seq(1 .. m) /\ Climbs(w) /\ Reaches(w, m)
           Fails == {m \in Nat : m <= n /\ ~Fits(m)}
<1>1. Fails = {}
  <2> SUFFICES ASSUME Fails # {} PROVE FALSE OBVIOUS
  <2>1. PICK m \in Fails : \A y \in Fails : m <= y
    <3>1. Fails \subseteq Nat OBVIOUS
    <3> HIDE DEF Fails
    <3> QED BY <3>1, LeastNumber
  <2>2. m # 0
    <3>1. Of(0) = <<>> /\ <<>> \in Seq(1 .. 0) /\ Len(<<>>) = 0 OBVIOUS
    <3>2. Climbs(<<>>) /\ Reaches(<<>>, 0) OBVIOUS
    <3> HIDE DEF Of, Climbs, Reaches
    <3>3. Fits(0) BY <3>1, <3>2, ElementsNone
    <3> HIDE DEF Fits
    <3> QED BY <3>3
  <2>3. PICK l \in Nat : m = l + 1 /\ l <= n /\ l < m
    <3>1. m - 1 \in Nat /\ m = (m - 1) + 1 /\ m - 1 <= n /\ m - 1 < m BY <2>2
    <3> QED BY <3>1
  <2>4. Fits(l)
    <3> HIDE DEF Fits
    <3> QED BY <2>1, <2>3
  <2>5. PICK s : s = Of(l) OBVIOUS
  <2>6. PICK w : w = ElementsAt(s, P) OBVIOUS
  <2>7. w \in Seq(1 .. l) /\ Climbs(w) /\ Reaches(w, l)
    <3> HIDE DEF Climbs, Reaches
    <3> QED BY <2>4, <2>5, <2>6
  <2>8. s \in Seq(1 .. m) /\ Len(s) = l /\ m \in 1 .. m BY <2>3, <2>5
  <2>9. Of(m) = Append(s, m)
    <3>1. PICK t : t = Append(s, m) OBVIOUS
    <3>2. t \in Seq(1 .. m) /\ Len(t) = m /\ t[m] = m /\ \A k \in 1 .. l : t[k] = k BY <2>3, <2>5, <2>8, <3>1
    <3>3. \A k \in 1 .. m : t[k] = k
      <4> TAKE k \in 1 .. m
      <4>1. k = m \/ k \in 1 .. l BY <2>3
      <4> QED BY <3>2, <4>1
    <3>4. t = [k \in 1 .. m |-> t[k]] BY <3>2
    <3> QED BY <3>1, <3>3, <3>4
  <2>10. ElementsAt(Of(m), P) = IF m \in P THEN Append(w, m) ELSE w
    <3> HIDE DEF Of
    <3>1. ElementsAt(Append(s, m), P) = IF Len(s) + 1 \in P THEN Append(ElementsAt(s, P), m) ELSE ElementsAt(s, P)
      BY ONLY <2>8, ElementsNext
    <3> QED BY <2>3, <2>6, <2>8, <2>9, <3>1
  <2>11. \A x \in 1 .. m : x = m \/ x \in 1 .. l BY <2>3
  <2>12. PICK c \in Nat : c = Len(w) BY <2>7
  <2>13. \A j \in 1 .. c : w[j] \in 1 .. l BY <2>7, <2>12
  <2>14. \A x \in 1 .. l : x \in Nat /\ x < m /\ x \in 1 .. m BY <2>3
  <2>17. w \in Seq(1 .. m)
    <3>1. Listed(w) /\ DOMAIN w = 1 .. c BY <2>7, <2>12, ListedSeq
    <3>2. \A j \in DOMAIN w : w[j] \in 1 .. m BY <2>13, <2>14, <3>1
    <3> QED BY <3>1, <3>2, ListedIn
  <2>18. \A j \in 1 .. c : w[j] # m
    <3> TAKE j \in 1 .. c
    <3>1. w[j] \in Nat /\ w[j] < m BY <2>13, <2>14
    <3> QED BY <3>1
  <2>15. CASE m \in P
    <3>1. PICK v : v = Append(w, m) OBVIOUS
    <3>2. v \in Seq(1 .. m) /\ Len(v) = c + 1 /\ v[c + 1] = m /\ \A j \in 1 .. c : v[j] = w[j]
      BY <2>8, <2>12, <2>17, <3>1
    <3>3. Climbs(v)
      <4> SUFFICES ASSUME NEW i \in 1 .. c + 1, NEW j \in 1 .. c + 1, i < j PROVE v[i] < v[j] BY <3>2
      <4>1. i \in 1 .. c OBVIOUS
      <4>2. CASE j = c + 1 BY <2>13, <2>14, <3>2, <4>1, <4>2
      <4>3. CASE j # c + 1
        <5>1. j \in 1 .. c BY <4>3
        <5> QED BY <2>7, <2>12, <3>2, <4>1, <5>1
      <4> QED BY <4>2, <4>3
    <3>4. Reaches(v, m)
      <4> SUFFICES ASSUME NEW x \in 1 .. m PROVE x \in P <=> \E j \in 1 .. c + 1 : v[j] = x BY <3>2
      <4>1. CASE x = m
        <5>1. c + 1 \in 1 .. c + 1 OBVIOUS
        <5> QED BY <2>15, <3>2, <4>1, <5>1
      <4>2. CASE x # m
        <5>1. x \in 1 .. l BY <2>11, <4>2
        <5>2. x \in P <=> \E j \in 1 .. c : w[j] = x BY <2>7, <2>12, <5>1
        <5>3. \A j \in 1 .. c + 1 : j = c + 1 \/ j \in 1 .. c BY <2>12
        <5>4. \A j \in 1 .. c : j \in 1 .. c + 1 BY <2>12
        <5> QED BY <3>2, <4>2, <5>2, <5>3, <5>4
      <4> QED BY <4>1, <4>2
    <3> HIDE DEF Climbs, Reaches
    <3>5. Fits(m) BY <2>10, <2>15, <3>1, <3>2, <3>3, <3>4
    <3> HIDE DEF Fits
    <3> QED BY <3>5
  <2>16. CASE m \notin P
    <3>2. Reaches(w, m)
      <4> SUFFICES ASSUME NEW x \in 1 .. m PROVE x \in P <=> \E j \in 1 .. c : w[j] = x BY <2>12
      <4>1. CASE x = m BY <2>16, <2>18, <4>1
      <4>2. CASE x # m
        <5>1. x \in 1 .. l BY <2>11, <4>2
        <5> QED BY <2>7, <2>12, <5>1
      <4> QED BY <4>1, <4>2
    <3> HIDE DEF Climbs, Reaches
    <3>3. Fits(m) BY <2>7, <2>10, <2>16, <2>17, <3>2
    <3> HIDE DEF Fits
    <3> QED BY <3>3
  <2> QED BY <2>15, <2>16
<1>2. Fits(n)
  <2> HIDE DEF Fits
  <2> QED BY <1>1
<1> QED BY <1>2 DEF PlacesRise

LEMMA FlattenNothing == ASSUME NEW P PROVE FlattenSeq([k \in 1 .. 0 |-> P[k]]) = <<>>
<1>1. [k \in 1 .. 0 |-> P[k]] = <<>> /\ Len(<<>>) = 0 OBVIOUS
<1> QED BY <1>1 DEF FlattenSeq

\* B are the first n of P, and A starts with a in front of them.
FirstAre(B, n, P) == B = [k \in 1 .. n |-> P[k]]
InFront(A, a, n, P) == A = [k \in 1 .. n + 1 |-> IF k = 1 THEN a ELSE P[k - 1]]
FlatFront(A, a, B) == FlattenSeq(A) = a \o FlattenSeq(B)
\* One sequence more in front of the others.
LEMMA FlattenFront ==
  ASSUME NEW S, NEW n \in Nat, NEW P, NEW a \in Seq(S), NEW A, NEW B,
         \A k \in 1 .. n : P[k] \in Seq(S), InFront(A, a, n, P), FirstAre(B, n, P)
  PROVE  FlatFront(A, a, B)
<1>1. PICK Q : Q = [k \in 1 .. n + 1 |-> IF k = 1 THEN a ELSE P[k - 1]] OBVIOUS
<1>2. \A k \in 1 .. n + 1 : Q[k] \in Seq(S)
  <2> TAKE k \in 1 .. n + 1
  <2>1. k # 1 => k - 1 \in 1 .. n OBVIOUS
  <2> QED BY <1>1, <2>1
<1> DEFINE Of(m) == FlattenSeq([k \in 1 .. m |-> P[k]])
           More(m) == FlattenSeq([k \in 1 .. m |-> Q[k]])
           Fails == {m \in Nat : m <= n /\ More(m + 1) # a \o Of(m)}
<1>3. Fails = {}
  <2> SUFFICES ASSUME Fails # {} PROVE FALSE OBVIOUS
  <2>1. PICK m \in Fails : \A y \in Fails : m <= y
    <3>1. Fails \subseteq Nat OBVIOUS
    <3> HIDE DEF Fails
    <3> QED BY <3>1, LeastNumber
  <2>2. \A j \in 1 .. m + 1 : Q[j] \in Seq(S)
    <3>1. \A j \in 1 .. m + 1 : j \in 1 .. n + 1 OBVIOUS
    <3> QED BY <1>2, <3>1
  <2>3. More(m + 1) = More(m) \o Q[m + 1] /\ More(m) \in Seq(S)
    <3>1. m \in Nat OBVIOUS
    <3> QED BY ONLY <2>2, <3>1, FlattenNext
  <2>4. m # 0
    <3>1. More(0) = <<>> /\ Of(0) = <<>> BY FlattenNothing
    <3>2. Q[1] = a BY <1>1
    <3>3. <<>> \o a = a /\ a \o <<>> = a OBVIOUS
    <3> HIDE DEF More, Of
    <3>4. m = 0 => More(m + 1) = a \o Of(m)
      <4> SUFFICES ASSUME m = 0 PROVE More(1) = a \o Of(0) OBVIOUS
      <4>1. More(0 + 1) = More(0) \o Q[0 + 1] BY <2>3
      <4> QED BY <3>1, <3>2, <3>3, <4>1
    <3> QED BY <2>1, <3>4
  <2>5. PICK l \in Nat : m = l + 1 /\ l <= n /\ l < m /\ m <= n
    <3>1. m - 1 \in Nat /\ m = (m - 1) + 1 /\ m - 1 <= n /\ m - 1 < m BY <2>4
    <3> QED BY <3>1
  <2>6. More(l + 1) = a \o Of(l)
    <3> HIDE DEF More, Of
    <3> QED BY <2>1, <2>5
  <2>7. /\ Of(l + 1) = Of(l) \o P[l + 1] /\ Of(l) \in Seq(S)
    <3>1. \A j \in 1 .. l + 1 : P[j] \in Seq(S)
      <4>1. \A j \in 1 .. l + 1 : j \in 1 .. n BY <2>5
      <4> QED BY <4>1
    <3> QED BY ONLY <3>1, l \in Nat, FlattenNext
  <2>8. Q[m + 1] = P[l + 1] /\ P[l + 1] \in Seq(S)
    <3>1. m + 1 \in 1 .. n + 1 /\ m + 1 # 1 /\ (m + 1) - 1 = l + 1 /\ l + 1 \in 1 .. n BY <2>5
    <3> QED BY <1>1, <3>1
  <2> HIDE DEF More, Of
  <2>9. (a \o Of(l)) \o P[l + 1] = a \o (Of(l) \o P[l + 1])
    <3> PICK o, p : o = Of(l) /\ p = P[l + 1] OBVIOUS
    <3>1. a \in Seq(S) /\ o \in Seq(S) /\ p \in Seq(S) BY <2>7, <2>8
    <3>2. (a \o o) \o p = a \o (o \o p) BY ONLY <3>1, Regroup
    <3> QED BY <3>2
  <2>10. More(m + 1) = a \o Of(m) BY <2>3, <2>5, <2>6, <2>7, <2>8, <2>9
  <2> QED BY <2>10
<1> HIDE DEF Fails
<1>4. More(n + 1) = a \o Of(n)
  <2> HIDE DEF More, Of
  <2>1. n \notin Fails BY <1>3
  <2>2. n \in Nat /\ n <= n OBVIOUS
  <2> QED BY ONLY <2>1, <2>2 DEF Fails
<1>5. [k \in 1 .. n + 1 |-> Q[k]] = A BY <1>1 DEF InFront
<1> QED BY <1>4, <1>5 DEF FirstAre, FlatFront

\* The first m elements.
LEMMA FirstOf ==
  ASSUME NEW R, NEW t \in Seq(R), NEW m \in Nat, m <= Len(t)
  PROVE  /\ SubSeq(t, 1, m) \in Seq(R) /\ Len(SubSeq(t, 1, m)) = m
         /\ \A k \in 1 .. m : SubSeq(t, 1, m)[k] = t[k]
<1>1. 1 \in 1 .. Len(t) + 1 /\ m \in 1 - 1 .. Len(t) OBVIOUS
<1> QED BY <1>1, SubSeqProperties

\* A part of a sequence.
LEMMA PartOf ==
  ASSUME NEW R, NEW s \in Seq(R), NEW a \in Nat \ {0}, NEW b \in Nat, b <= Len(s)
  PROVE  /\ SubSeq(s, a, b) \in Seq(R) /\ Len(SubSeq(s, a, b)) = IF a <= b THEN b - a + 1 ELSE 0
         /\ \A i \in 1 .. b - a + 1 : SubSeq(s, a, b)[i] = s[a + i - 1]
<1>1. a \in Int /\ b \in Int OBVIOUS
<1>2. ASSUME NEW i \in a .. b PROVE s[i] \in R
  <2>1. i \in 1 .. Len(s) BY <1>1
  <2> QED BY <2>1
<1> QED BY <1>1, <1>2, SubSeqProperties

\* What starts a sequence, element by element.
Leads(s, t) == Listed(s) /\ Listed(t) /\ Len(s) <= Len(t) /\ \A k \in 1 .. Len(s) : s[k] = t[k]
LEMMA LeadsOn == ASSUME NEW s, NEW t, NEW u, Leads(s, t), Leads(t, u) PROVE Leads(s, u)
<1>1. Len(s) \in Nat /\ Len(t) \in Nat /\ Len(u) \in Nat BY ListedLen DEF Leads
<1>2. Len(s) <= Len(t) /\ Len(t) <= Len(u) BY DEF Leads
<1>3. \A k \in 1 .. Len(s) : k \in 1 .. Len(t) BY ONLY <1>1, <1>2
<1>4. Len(s) <= Len(u) BY ONLY <1>1, <1>2
<1> QED BY <1>3, <1>4 DEF Leads

\* What starts b starts it behind w too.
LEMMA LeadsJoin ==
  ASSUME NEW w, Listed(w), NEW a, NEW b, Leads(a, b)
  PROVE  Leads(w \o a, w \o b)
<1> PICK s, t : s = w \o a /\ t = w \o b OBVIOUS
<1> PICK l, m, n : l = Len(w) /\ m = Len(a) /\ n = Len(b) OBVIOUS
<1>1. Listed(a) /\ Listed(b) /\ m <= n /\ \A k \in 1 .. m : a[k] = b[k] BY DEF Leads
<1>2. l \in Nat /\ m \in Nat /\ n \in Nat BY <1>1, ListedLen
<1>3. Listed(s) /\ Len(s) = l + m /\ \A k \in 1 .. l + m : s[k] = IF k <= l THEN w[k] ELSE a[k - l]
  <2>1. /\ Listed(w \o a) /\ Len(w \o a) = Len(w) + Len(a)
        /\ \A k \in 1 .. Len(w) + Len(a) : (w \o a)[k] = IF k <= Len(w) THEN w[k] ELSE a[k - Len(w)]
    BY ONLY Listed(w), <1>1, ListedJoin
  <2> QED BY ONLY <2>1, s = w \o a, l = Len(w), m = Len(a)
<1>4. Listed(t) /\ Len(t) = l + n /\ \A k \in 1 .. l + n : t[k] = IF k <= l THEN w[k] ELSE b[k - l]
  <2>1. /\ Listed(w \o b) /\ Len(w \o b) = Len(w) + Len(b)
        /\ \A k \in 1 .. Len(w) + Len(b) : (w \o b)[k] = IF k <= Len(w) THEN w[k] ELSE b[k - Len(w)]
    BY ONLY Listed(w), <1>1, ListedJoin
  <2> QED BY ONLY <2>1, t = w \o b, l = Len(w), n = Len(b)
<1>5. l + m <= l + n BY <1>1, <1>2
<1>6. ASSUME NEW k \in 1 .. l + m PROVE s[k] = t[k]
  <2>1. k \in 1 .. l + n /\ (~(k <= l) => k - l \in 1 .. m) BY <1>1, <1>2
  <2> QED BY <1>1, <1>3, <1>4, <2>1
<1> QED BY <1>3, <1>4, <1>5, <1>6 DEF Leads

\* A sequence starts whatever it is continued to.
LEMMA LeadsMore ==
  ASSUME NEW w, Listed(w), NEW b, Listed(b)
  PROVE  Leads(w, w \o b) /\ Leads(w, w)
<1>1. Len(<<>>) = 0 /\ Listed(<<>>) /\ Len(b) \in Nat /\ Len(w) \in Nat BY ListedEmpty, ListedLen
<1>2. Leads(<<>>, b) BY <1>1 DEF Leads
<1>3. Leads(w \o <<>>, w \o b) BY <1>2, LeadsJoin
<1>4. w \o <<>> = w
  <2>1. PICK R : w \in Seq(R) BY ListedLen
  <2> QED BY <2>1
<1>5. Leads(w, w) BY <1>1 DEF Leads
<1> QED BY <1>3, <1>4, <1>5

LEMMA PrefixIs == ASSUME NEW s, NEW t, Leads(s, t) PROVE IsPrefix(s, t)
<1>0. Listed(s) /\ Listed(t) /\ Len(s) <= Len(t) /\ \A k \in 1 .. Len(s) : s[k] = t[k] BY DEF Leads
<1>1. PICK m \in Nat : s = [k \in 1 .. m |-> s[k]] BY <1>0 DEF Listed
<1>2. PICK n \in Nat : t = [k \in 1 .. n |-> t[k]] BY <1>0 DEF Listed
<1>3. Len(s) = m /\ Len(t) = n BY <1>1, <1>2
<1>4. PICK a, b : a = SubSeq(s, 1, m) /\ b = SubSeq(t, 1, m) OBVIOUS
<1>5. ASSUME m <= n
      PROVE  a = [k \in 1 .. m |-> s[k]] /\ b = [k \in 1 .. m |-> t[k]]
  <2>1. PICK R : R = {s[k] : k \in 1 .. m} \cup {t[k] : k \in 1 .. n} OBVIOUS
  <2>2. s \in Seq(R) /\ t \in Seq(R)
    <3>1. \A k \in 1 .. m : s[k] \in R BY <2>1
    <3>2. \A k \in 1 .. n : t[k] \in R BY <2>1
    <3> QED BY <1>1, <1>2, <3>1, <3>2
  <2>3. /\ a \in Seq(R) /\ Len(a) = m /\ \A k \in 1 .. m : a[k] = s[k]
        /\ b \in Seq(R) /\ Len(b) = m /\ \A k \in 1 .. m : b[k] = t[k]
    BY <1>3, <1>4, <1>5, <2>2, FirstOf
  <2> QED BY <2>3
<1>6. m <= n => (a = b <=> \A k \in 1 .. m : s[k] = t[k])
  <2> HAVE m <= n
  <2>1. a = [k \in 1 .. m |-> s[k]] /\ b = [k \in 1 .. m |-> t[k]] BY <1>5
  <2>2. (\A k \in 1 .. m : s[k] = t[k]) => a = b BY <2>1
  <2>3. a = b => \A k \in 1 .. m : a[k] = b[k] OBVIOUS
  <2>4. \A k \in 1 .. m : a[k] = s[k] /\ b[k] = t[k] BY <2>1
  <2> QED BY <2>2, <2>3, <2>4
<1> QED BY <1>0, <1>3, <1>4, <1>6 DEF IsPrefix

\* The elements of the first part of a sequence.
LEMMA ElementsPrefix ==
  ASSUME NEW u, Listed(u), NEW m \in 0 .. Len(u), NEW v, v = [k \in 1 .. m |-> u[k]],
         NEW P, NEW Q, \A k \in 1 .. m : k \in P <=> k \in Q
  PROVE  Leads(ElementsAt(v, Q), ElementsAt(u, P))
<1>1. PICK n \in Nat : u = [k \in 1 .. n |-> u[k]] BY DEF Listed
<1>2. Len(u) = n /\ m \in Nat /\ m <= n BY <1>1
<1> PICK R : R = {u[k] : k \in 1 .. n} OBVIOUS
<1> PICK t : t = [k \in 1 .. n - m |-> u[m + k]] OBVIOUS
<1>3. v \in Seq(R) /\ Len(v) = m
  <2>1. \A k \in 1 .. m : u[k] \in R BY <1>2
  <2> QED BY <1>2, <2>1
<1>4. t \in Seq(R) /\ Len(t) = n - m
  <2>1. \A k \in 1 .. n - m : m + k \in 1 .. n BY <1>2
  <2>2. \A k \in 1 .. n - m : u[m + k] \in R BY <2>1
  <2>3. n - m \in Nat BY <1>2
  <2> QED BY <2>2, <2>3
<1>5. u = v \o t
  <2>1. v \o t \in Seq(R) /\ Len(v \o t) = n BY <1>2, <1>3, <1>4
  <2>2. \A k \in 1 .. n : (v \o t)[k] = u[k] BY <1>2, <1>3, <1>4
  <2> QED BY <1>1, <2>1, <2>2
<1> PICK N : N = {k \in 1 .. Len(t) : Len(v) + k \in P} OBVIOUS
<1> PICK a, b : a = ElementsAt(v, P) /\ b = ElementsAt(t, N) OBVIOUS
<1>6. a \in Seq(R) /\ b \in Seq(R) /\ ElementsAt(v \o t, P) = a \o b
  <2>1. v \in Seq(R) BY <1>3
  <2>2. t \in Seq(R) BY <1>4
  <2>3. \A k \in 1 .. Len(t) : k \in N <=> Len(v) + k \in P OBVIOUS
  <2>4. /\ ElementsAt(v, P) \in Seq(R) /\ ElementsAt(t, N) \in Seq(R)
        /\ ElementsAt(v \o t, P) = ElementsAt(v, P) \o ElementsAt(t, N)
    <3>1. ElementsAt(v, P) \in Seq(R) BY ONLY <2>1, <2>2, <2>3, ElementsJoin
    <3>2. ElementsAt(t, N) \in Seq(R) BY ONLY <2>1, <2>2, <2>3, ElementsJoin
    <3>3. ElementsAt(v \o t, P) = ElementsAt(v, P) \o ElementsAt(t, N)
      BY ONLY <2>1, <2>2, <2>3, ElementsJoin
    <3> QED BY ONLY <3>1, <3>2, <3>3
  <2> QED BY ONLY <2>4, a = ElementsAt(v, P), b = ElementsAt(t, N)
<1>7. ElementsAt(v, Q) = a
  <2>1. \A k \in 1 .. Len(v) : v[k] = v[k] /\ (k \in Q <=> k \in P) BY <1>3
  <2>2. ElementsAt(v, Q) = ElementsAt(v, P) BY ONLY <2>1, ElementsSame
  <2> QED BY <2>2
<1>8. a \o b \in Seq(R) /\ Len(a) <= Len(a \o b) /\ \A k \in 1 .. Len(a) : (a \o b)[k] = a[k]
  BY ONLY <1>6
<1>9. Listed(a) /\ Listed(a \o b)
  <2>1. \A z \in Seq(R) : Listed(z)
    <3> TAKE z \in Seq(R)
    <3> PICK l \in Nat : l = Len(z) OBVIOUS
    <3> QED BY ONLY z \in Seq(R), l \in Nat, l = Len(z), ListedSeq
  <2> QED BY ONLY <1>6, <1>8, <2>1
<1> QED BY <1>5, <1>6, <1>7, <1>8, <1>9 DEF Leads

\* Two sequences are the same when their elements are.
LEMMA ListedSame ==
  ASSUME NEW s, Listed(s), NEW t, Listed(t), Len(s) = Len(t), \A k \in 1 .. Len(s) : s[k] = t[k]
  PROVE  s = t
<1>1. PICK m \in Nat : s = [k \in 1 .. m |-> s[k]] BY DEF Listed
<1>2. PICK n \in Nat : t = [k \in 1 .. n |-> t[k]] BY DEF Listed
<1>3. Len(s) = m /\ Len(t) = n BY <1>1, <1>2
<1> QED BY <1>1, <1>2, <1>3

\* One more in front of a sequence.
Fronted(e, s) == [k \in 1 .. Len(s) + 1 |-> IF k = 1 THEN e ELSE s[k - 1]]
LEMMA ReverseListed ==
  ASSUME NEW s, Listed(s)
  PROVE  Listed(Reverse(s)) /\ Len(Reverse(s)) = Len(s)
<1> PICK n \in Nat : n = Len(s) BY ListedLen
<1> PICK r : r = Reverse(s) OBVIOUS
<1>1. r = [k \in 1 .. n |-> s[(n - k) + 1]] BY DEF Reverse
<1>2. r = [k \in 1 .. n |-> r[k]] BY <1>1
<1>3. Len(r) = n BY <1>1
<1> QED BY <1>2, <1>3 DEF Listed

LEMMA ReverseNext ==
  ASSUME NEW s, Listed(s), NEW e
  PROVE  Reverse(Append(s, e)) = Fronted(e, Reverse(s))
<1> PICK n \in Nat : n = Len(s) BY ListedLen
<1> PICK t : t = Append(s, e) OBVIOUS
<1>1. Len(t) = n + 1 /\ t[n + 1] = e /\ \A k \in 1 .. n : t[k] = s[k] BY ListedAppend
<1>2. Reverse(t) = [k \in 1 .. n + 1 |-> t[((n + 1) - k) + 1]] BY <1>1 DEF Reverse
<1>3. Reverse(s) = [k \in 1 .. n |-> s[(n - k) + 1]] BY DEF Reverse
<1>4. Len(Reverse(s)) = n BY ReverseListed
<1>5. \A k \in 1 .. n + 1 : t[((n + 1) - k) + 1] = IF k = 1 THEN e ELSE Reverse(s)[k - 1]
  <2> TAKE k \in 1 .. n + 1
  <2>1. CASE k = 1 BY <1>1, <2>1
  <2>2. CASE k # 1
    <3>1. k - 1 \in 1 .. n /\ ((n + 1) - k) + 1 \in 1 .. n /\ ((n + 1) - k) + 1 = (n - (k - 1)) + 1
      BY <2>2
    <3>2. Reverse(s)[k - 1] = s[(n - (k - 1)) + 1] BY <1>3, <3>1
    <3> QED BY <1>1, <2>2, <3>1, <3>2
  <2> QED BY <2>1, <2>2
<1> QED BY <1>2, <1>4, <1>5 DEF Fronted

\* What was asked before, when it is asked once more.
LEMMA FirstOfMore ==
  ASSUME NEW s, Listed(s), NEW e
  PROVE  /\ \A k \in 1 .. Len(s) : SubSeq(Append(s, e), 1, k - 1) = SubSeq(s, 1, k - 1)
         /\ SubSeq(Append(s, e), 1, (Len(s) + 1) - 1) = s
<1> PICK t : t = Append(s, e) OBVIOUS
<1> PICK n \in Nat : n = Len(s) BY ListedLen
<1> PICK R : R = {s[k] : k \in DOMAIN s} \cup {e} OBVIOUS
<1>1. s \in Seq(R) /\ e \in R
  <2>1. \A k \in DOMAIN s : s[k] \in R OBVIOUS
  <2> QED BY <2>1, ListedIn
<1>2. t \in Seq(R) /\ Len(t) = n + 1 /\ \A k \in 1 .. n : t[k] = s[k] BY <1>1
<1>3. ASSUME NEW m \in Nat, m <= n PROVE SubSeq(t, 1, m) = SubSeq(s, 1, m)
  <2> PICK a, b : a = SubSeq(t, 1, m) /\ b = SubSeq(s, 1, m) OBVIOUS
  <2>1. a \in Seq(R) /\ Len(a) = m /\ \A k \in 1 .. m : a[k] = t[k]
    <3>1. m <= Len(t) BY <1>2, <1>3
    <3> QED BY ONLY <1>2, <3>1, m \in Nat, a = SubSeq(t, 1, m), FirstOf
  <2>2. b \in Seq(R) /\ Len(b) = m /\ \A k \in 1 .. m : b[k] = s[k]
    <3>1. m <= Len(s) BY <1>3
    <3> QED BY ONLY <1>1, <3>1, m \in Nat, b = SubSeq(s, 1, m), FirstOf
  <2>3. \A k \in 1 .. m : a[k] = b[k]
    <3>1. \A k \in 1 .. m : k \in 1 .. n BY <1>3
    <3> QED BY <1>2, <2>1, <2>2, <3>1
  <2>4. a = b BY ONLY <2>1, <2>2, <2>3, SeqEqual
  <2> QED BY <2>4
<1>4. \A k \in 1 .. n : k - 1 \in Nat /\ k - 1 <= n OBVIOUS
<1>5. SubSeq(s, 1, n) = s
  <2> PICK b : b = SubSeq(s, 1, n) OBVIOUS
  <2>1. b \in Seq(R) /\ Len(b) = n /\ \A k \in 1 .. n : b[k] = s[k]
    <3>1. n <= Len(s) OBVIOUS
    <3> QED BY ONLY <1>1, <3>1, n \in Nat, b = SubSeq(s, 1, n), FirstOf
  <2>2. b = s BY ONLY <1>1, <2>1, n = Len(s), SeqEqual
  <2> QED BY <2>2
<1>6. (n + 1) - 1 = n /\ n <= n OBVIOUS
<1> QED BY <1>3, <1>4, <1>5, <1>6
=============================================================================
