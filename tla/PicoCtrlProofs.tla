--------------------------- MODULE PicoCtrlProofs ---------------------------
(***************************************************************************)
(* Proofs about the scheduling of PicoCtrl, for any number of PUs, any     *)
(* kinds, capacities and bounds.                                           *)
(***************************************************************************)
EXTENDS PicoCtrl, PicoInduction, SequenceTheorems, WellFoundedInduction, TLAPS

(* Facts about sequences. *)

LEMMA TakeProperties ==
  ASSUME NEW S, NEW s \in Seq(S), NEW k \in Nat, k <= Len(s)
  PROVE  /\ Take(s, k) \in Seq(S)
         /\ Len(Take(s, k)) = k
         /\ \A i \in 1 .. k : Take(s, k)[i] = s[i]
  BY SubSeqProperties, ElementOfSeq, LenProperties DEF Take

LEMMA DropProperties ==
  ASSUME NEW S, NEW s \in Seq(S), NEW k \in Nat, k <= Len(s)
  PROVE  /\ Drop(s, k) \in Seq(S)
         /\ Len(Drop(s, k)) + k = Len(s)
         /\ \A i \in 1 .. Len(s) - k : Drop(s, k)[i] = s[i + k]
  BY SubSeqProperties, ElementOfSeq, LenProperties DEF Drop

LEMMA DropNone ==
  ASSUME NEW S, NEW s \in Seq(S)
  PROVE  Drop(s, 0) = s
  <1>1. Len(s) \in Nat
    BY LenProperties
  <1>2. /\ Drop(s, 0) \in Seq(S) /\ Len(Drop(s, 0)) = Len(s)
        /\ \A i \in 1 .. Len(s) : Drop(s, 0)[i] = s[i]
    BY <1>1, SubSeqProperties DEF Drop
  <1>3. QED BY <1>2, SeqEqual

LEMMA EmptyIffLenZero ==
  ASSUME NEW S, NEW s \in Seq(S)
  PROVE  s = <<>> <=> Len(s) = 0
  BY EmptySeq, LenProperties

LEMMA NoLengthIsEmpty ==
  ASSUME NEW S, NEW s \in Seq(S), Len(s) <= 0
  PROVE  s = <<>>
  BY EmptyIffLenZero, LenProperties

LEMMA EmptyHasNoFlush == ~HasFlush(<<>>)
  BY EmptySeq DEF HasFlush

-----------------------------------------------------------------------------
(* What the internal buffers of PU j may hold between two steps. *)
StashOK(j, ph, s) ==
  /\ Kind[j] \in {"single", "staged"} => Len(s) <= 1
  /\ Kind[j] \in {"single", "staged"} => (ph = "collect" <=> s = <<>>)
  /\ Kind[j] = "phrase" /\ ph = "collect" => ~HasFlush(s)

StashInv == \A j \in PUs : StashOK(j, phase[j], stash[j])

Outcomes == [in : Seq(Item), stash : Seq(Item), out : Seq(Item), phase : Phases,
             status : Statuses, reported : Nat]

(***************************************************************************)
(* What control relies on in a step of PU c: it is IDLE only when its      *)
(* input is exhausted and it must deliver nothing more, and output it does *)
(* not report through *numBytesOutput is output it could not complete.     *)
(***************************************************************************)
Contract(c, o) ==
  /\ o \in Outcomes
  /\ o.status = "IDLE" => /\ o.in = <<>> /\ o.phase = "collect"
                          /\ ~HasFlush(o.stash)
  /\ o.reported = 0 /\ o.status # "OUT_FULL" => o.out = cb[c + 1]
  /\ StashOK(c, o.phase, o.stash)

LEMMA OutcomeIn ==
  ASSUME NEW a \in Seq(Item), NEW b \in Seq(Item), NEW c \in Seq(Item),
         NEW ph \in Phases, NEW s \in Statuses, NEW x \in Nat
  PROVE  [in |-> a, stash |-> b, out |-> c, phase |-> ph, status |-> s, reported |-> x]
           \in Outcomes
  BY Zenon DEF Outcomes

LEMMA BufferTypes ==
  ASSUME TypeOK, NEW i \in PUs
  PROVE  /\ cb[i] \in Seq(Item) /\ cb[i + 1] \in Seq(Item) /\ stash[i] \in Seq(Item)
         /\ Len(cb[i]) \in Nat /\ Len(stash[i]) \in Nat
         /\ Len(cb[i + 1]) \in Nat /\ Room(i) \in Int
         /\ phase[i] \in Phases /\ Kind[i] \in Kinds
<1>1. i \in 0 .. NumPU /\ i + 1 \in 0 .. NumPU BY CtrlAssumption DEF PUs
<1>2. cb[i] \in Seq(Item) /\ cb[i + 1] \in Seq(Item) /\ stash[i] \in Seq(Item)
  BY <1>1 DEF TypeOK
<1>3. /\ Len(cb[i]) \in Nat /\ Len(stash[i]) \in Nat /\ Len(cb[i + 1]) \in Nat
  BY <1>2, LenProperties
<1>4. CbCap[i + 1] \in Nat BY <1>1, CtrlAssumption
<1>5. Room(i) \in Int BY <1>3, <1>4 DEF Room
<1>6. phase[i] \in Phases /\ Kind[i] \in Kinds BY CtrlAssumption DEF TypeOK
<1> QED BY <1>2, <1>3, <1>5, <1>6

(* What PU i keeps after it took t items and put e items. *)
Kept(i, t, e) == Drop(stash[i] \o Take(cb[i], t), e)

LEMMA KeptProperties ==
  ASSUME TypeOK, NEW i \in PUs, NEW t \in Nat, t <= Len(cb[i]),
         NEW e \in Nat, e <= Len(stash[i]) + t
  PROVE  /\ Kept(i, t, e) \in Seq(Item)
         /\ Len(Kept(i, t, e)) + e = Len(stash[i]) + t
         /\ Take(stash[i] \o Take(cb[i], t), e) \in Seq(Item)
         /\ Len(Take(stash[i] \o Take(cb[i], t), e)) <= e
  <1> DEFINE taken == Take(cb[i], t)
             held == stash[i] \o taken
  <1>1. /\ cb[i] \in Seq(Item) /\ stash[i] \in Seq(Item)
        /\ Len(cb[i]) \in Nat /\ Len(stash[i]) \in Nat
    BY BufferTypes
  <1>2. /\ taken \in Seq(Item) /\ Len(taken) = t
        /\ \A k \in 1 .. t : taken[k] = cb[i][k]
    BY <1>1, TakeProperties
  <1>3. /\ held \in Seq(Item) /\ Len(held) = Len(stash[i]) + t
        /\ \A k \in 1 .. Len(stash[i]) + t :
              held[k] = IF k <= Len(stash[i]) THEN stash[i][k] ELSE taken[k - Len(stash[i])]
    <2> HIDE DEF taken
    <2>1. QED BY <1>1, <1>2, ConcatProperties
  <1>4. /\ Drop(held, e) \in Seq(Item) /\ Len(Drop(held, e)) + e = Len(held)
        /\ \A k \in 1 .. Len(held) - e : Drop(held, e)[k] = held[k + e]
        /\ Take(held, e) \in Seq(Item) /\ Len(Take(held, e)) <= e
    <2> HIDE DEF held
    <2>1. /\ Drop(held, e) \in Seq(Item) /\ Len(Drop(held, e)) + e = Len(held)
          /\ \A k \in 1 .. Len(held) - e : Drop(held, e)[k] = held[k + e]
      BY <1>3, <1>1, DropProperties
    <2>2. Take(held, e) \in Seq(Item) /\ Len(Take(held, e)) <= e
      BY <1>3, <1>1, TakeProperties
    <2>3. QED BY <2>1, <2>2
  <1>5. Kept(i, t, e) = Drop(held, e)
    BY DEF Kept
  <1>6. QED BY <1>3, <1>4, <1>5

LEMMA OutcomeProperties ==
  ASSUME TypeOK, NEW i \in PUs, NEW t \in Nat, t <= Len(cb[i]),
         NEW e \in Nat, e <= Len(stash[i]) + t,
         NEW ph \in Phases, NEW s \in Statuses, NEW b \in Nat,
         NEW o, o = Outcome(i, t, e, ph, s, b)
  PROVE  /\ o \in Outcomes
         /\ o.phase = ph /\ o.status = s /\ o.reported = b
         /\ o.stash = Kept(i, t, e)
         /\ t = Len(cb[i]) => o.in = <<>>
         /\ e = 0 => o.out = cb[i + 1]
  <1> DEFINE sent == Take(stash[i] \o Take(cb[i], t), e)
  <1>1. /\ cb[i] \in Seq(Item) /\ cb[i + 1] \in Seq(Item)
    BY BufferTypes
  <1>2. o = [in |-> Drop(cb[i], t), stash |-> Kept(i, t, e), out |-> cb[i + 1] \o sent,
             phase |-> ph, status |-> s, reported |-> b]
    BY DEF Outcome, Kept
  <1>3. Kept(i, t, e) \in Seq(Item) /\ sent \in Seq(Item) /\ Len(sent) <= e
    BY KeptProperties
  <1> HIDE DEF sent
  <1>4. Drop(cb[i], t) \in Seq(Item) /\ Len(Drop(cb[i], t)) + t = Len(cb[i])
    BY <1>1, DropProperties
  <1>5. t = Len(cb[i]) => Drop(cb[i], t) = <<>>
    <2> HIDE DEF Outcomes
    <2>1. HAVE t = Len(cb[i])
    <2>2. Len(Drop(cb[i], t)) + t <= t
      BY <1>4, <2>1
    <2>3. Len(Drop(cb[i], t)) <= 0
      BY <2>2, <1>4, LenProperties
    <2>4. QED BY <1>4, <2>3, NoLengthIsEmpty
  <1>6. e = 0 => cb[i + 1] \o sent = cb[i + 1]
    <2>1. e = 0 => sent = <<>>
      BY <1>3, NoLengthIsEmpty
    <2>2. QED BY <1>1, <2>1, ConcatEmptySeq
  <1>7. cb[i + 1] \o sent \in Seq(Item)
    BY <1>1, <1>3, ConcatProperties
  <1>8. [in |-> Drop(cb[i], t), stash |-> Kept(i, t, e), out |-> cb[i + 1] \o sent,
         phase |-> ph, status |-> s, reported |-> b] \in Outcomes
    BY <1>3, <1>4, <1>7, OutcomeIn
  <1>9. QED BY <1>2, <1>5, <1>6, <1>8

LEMMA FieldTypes ==
  ASSUME NEW o \in Outcomes
  PROVE  /\ o.in \in Seq(Item) /\ o.stash \in Seq(Item) /\ o.out \in Seq(Item)
         /\ o.phase \in Phases /\ o.status \in Statuses /\ o.reported \in Nat
  BY DEF Outcomes

(* An outcome obeys the contract as soon as its ingredients do. *)
LEMMA ContractOf ==
  ASSUME TypeOK, NEW i \in PUs, NEW t \in Nat, t <= Len(cb[i]),
         NEW e \in Nat, e <= Len(stash[i]) + t,
         NEW ph \in Phases, NEW s \in Statuses, NEW b \in Nat,
         NEW o, o = Outcome(i, t, e, ph, s, b),
         s = "IDLE" => t = Len(cb[i]) /\ ph = "collect" /\ ~HasFlush(Kept(i, t, e)),
         b > 0 \/ s = "OUT_FULL" \/ e = 0,
         StashOK(i, ph, Kept(i, t, e))
  PROVE  Contract(i, o)
  <1>1. /\ o \in Outcomes
        /\ o.phase = ph /\ o.status = s /\ o.reported = b
        /\ o.stash = Kept(i, t, e)
        /\ t = Len(cb[i]) => o.in = <<>>
        /\ e = 0 => o.out = cb[i + 1]
    BY OutcomeProperties
  <1>2. o.reported = 0 /\ o.status # "OUT_FULL" => o.out = cb[i + 1]
    BY <1>1, SMT
  <1>3. o.status = "IDLE" => o.in = <<>> /\ o.phase = "collect" /\ ~HasFlush(o.stash)
    BY <1>1, Zenon
  <1>4. StashOK(i, o.phase, o.stash)
    BY <1>1, Zenon
  <1>5. QED BY <1>1, <1>2, <1>3, <1>4, Zenon DEF Contract

(* Every step of tokStep and prStep obeys the contract. *)
LEMMA StreamContract ==
  ASSUME TypeOK, NEW i \in PUs, Kind[i] \in {"drain", "budget"},
         NEW o \in StreamStep(i)
  PROVE  Contract(i, o)
  <1>1. PICK t \in 0 .. Len(cb[i]), e \in 0 .. Room(i), s \in {"IDLE", "BUSY", "OUT_FULL"} :
          /\ o = Outcome(i, t, e, "collect", s, IF s = "OUT_FULL" THEN 0 ELSE e)
          /\ StreamMayEnd(i, t, e, s)
    BY DEF StreamStep
  <1> DEFINE n == IF s = "OUT_FULL" THEN 0 ELSE e
  <1>2. /\ t \in Nat /\ t <= Len(cb[i]) /\ e \in Nat /\ e <= Len(stash[i]) + t
        /\ n \in Nat /\ (n > 0 \/ s = "OUT_FULL" \/ e = 0)
        /\ "collect" \in Phases /\ s \in Statuses
    BY <1>1, BufferTypes DEF StreamMayEnd, Phases, Statuses
  <1>3. o = Outcome(i, t, e, "collect", s, n)
    BY <1>1
  <1> HIDE DEF n
  <1>4. s = "IDLE" => t = Len(cb[i]) /\ "collect" = "collect" /\ ~HasFlush(Kept(i, t, e))
    BY <1>1 DEF StreamMayEnd, Kept
  <1>5. StashOK(i, "collect", Kept(i, t, e))
    BY DEF StashOK
  <1>6. QED BY <1>2, <1>3, <1>4, <1>5, ContractOf

LEMMA LengthNotEmpty ==
  ASSUME NEW S, NEW s \in Seq(S), 1 <= Len(s)
  PROVE  s # <<>>
  BY EmptyIffLenZero

(* What is left when nothing may be left. *)
LEMMA KeptNothing ==
  ASSUME TypeOK, NEW i \in PUs, NEW t \in Nat, t <= Len(cb[i]),
         NEW e \in Nat, e <= Len(stash[i]) + t, Len(stash[i]) + t <= e
  PROVE  Kept(i, t, e) = <<>>
  <1>1. /\ Kept(i, t, e) \in Seq(Item)
        /\ Len(Kept(i, t, e)) + e = Len(stash[i]) + t
    BY KeptProperties
  <1>2. Len(Kept(i, t, e)) <= 0
    <2>1. Len(Kept(i, t, e)) \in Nat /\ Len(stash[i]) \in Nat
      BY <1>1, BufferTypes, LenProperties
    <2>2. QED BY <1>1, <2>1
  <1>3. QED BY <1>1, <1>2, NoLengthIsEmpty

(* What is left when something must be. *)
LEMMA KeptSomething ==
  ASSUME TypeOK, NEW i \in PUs, NEW t \in Nat, t <= Len(cb[i]),
         NEW e \in Nat, e < Len(stash[i]) + t
  PROVE  Kept(i, t, e) # <<>>
  <1>1. e <= Len(stash[i]) + t
    BY BufferTypes
  <1>2. /\ Kept(i, t, e) \in Seq(Item)
        /\ Len(Kept(i, t, e)) + e = Len(stash[i]) + t
    BY <1>1, KeptProperties
  <1>3. 1 <= Len(Kept(i, t, e))
    <2>1. Len(Kept(i, t, e)) \in Nat /\ Len(stash[i]) \in Nat
      BY <1>2, BufferTypes, LenProperties
    <2>2. QED BY <1>2, <2>1
  <1>4. QED BY <1>2, <1>3, LengthNotEmpty

(* At most one item is left when at most one was there. *)
LEMMA KeptOne ==
  ASSUME TypeOK, NEW i \in PUs, NEW t \in Nat, t <= Len(cb[i]),
         NEW e \in Nat, e <= Len(stash[i]) + t, Len(stash[i]) + t <= 1
  PROVE  Len(Kept(i, t, e)) <= 1
  <1>1. /\ Kept(i, t, e) \in Seq(Item)
        /\ Len(Kept(i, t, e)) + e = Len(stash[i]) + t
    BY KeptProperties
  <1>2. Len(Kept(i, t, e)) \in Nat /\ Len(stash[i]) \in Nat
    BY <1>1, BufferTypes, LenProperties
  <1>3. QED BY <1>1, <1>2

(* A PU that takes t items and puts none holds them after what it held. *)
LEMMA KeptTaken ==
  ASSUME TypeOK, NEW i \in PUs, NEW t \in Nat, t <= Len(cb[i])
  PROVE  /\ Kept(i, t, 0) \in Seq(Item)
         /\ Len(Kept(i, t, 0)) = Len(stash[i]) + t
         /\ \A k \in 1 .. Len(stash[i]) + t :
              Kept(i, t, 0)[k] = IF k <= Len(stash[i])
                                 THEN stash[i][k] ELSE cb[i][k - Len(stash[i])]
  <1> DEFINE taken == Take(cb[i], t)
             held == stash[i] \o taken
  <1>1. /\ cb[i] \in Seq(Item) /\ stash[i] \in Seq(Item)
        /\ Len(cb[i]) \in Nat /\ Len(stash[i]) \in Nat
    BY BufferTypes
  <1>2. /\ taken \in Seq(Item) /\ Len(taken) = t
        /\ \A k \in 1 .. t : taken[k] = cb[i][k]
    BY <1>1, TakeProperties
  <1>3. /\ held \in Seq(Item) /\ Len(held) = Len(stash[i]) + t
        /\ \A k \in 1 .. Len(stash[i]) + t :
              held[k] = IF k <= Len(stash[i]) THEN stash[i][k] ELSE taken[k - Len(stash[i])]
    <2> HIDE DEF taken
    <2>1. QED BY <1>1, <1>2, ConcatProperties
  <1>4. Kept(i, t, 0) = held
    <2>1. Kept(i, t, 0) = Drop(held, 0)
      BY DEF Kept
    <2> HIDE DEF held
    <2>2. QED BY <1>3, <2>1, DropNone
  <1>5. ASSUME NEW k \in 1 .. Len(stash[i]) + t
        PROVE  held[k] = IF k <= Len(stash[i]) THEN stash[i][k] ELSE cb[i][k - Len(stash[i])]
    <2> HIDE DEF held, taken
    <2>1. CASE k <= Len(stash[i])
      BY <1>3, <2>1
    <2>2. CASE ~(k <= Len(stash[i]))
      <3>1. k - Len(stash[i]) \in 1 .. t
        BY <1>1, <2>2
      <3>2. held[k] = taken[k - Len(stash[i])]
        BY <1>3, <2>2
      <3>3. QED BY <1>2, <2>2, <3>1, <3>2
    <2>3. QED BY <2>1, <2>2
  <1> HIDE DEF held, taken
  <1>6. QED BY <1>3, <1>4, <1>5

(* A PU that neither takes nor puts keeps what it has. *)
LEMMA KeptAll ==
  ASSUME TypeOK, NEW i \in PUs
  PROVE  Kept(i, 0, 0) = stash[i]
  <1>1. /\ stash[i] \in Seq(Item) /\ Len(stash[i]) \in Nat /\ 0 <= Len(cb[i])
    BY BufferTypes
  <1>2. /\ Kept(i, 0, 0) \in Seq(Item)
        /\ Len(Kept(i, 0, 0)) = Len(stash[i]) + 0
        /\ \A k \in 1 .. Len(stash[i]) + 0 :
             Kept(i, 0, 0)[k] = IF k <= Len(stash[i])
                                THEN stash[i][k] ELSE cb[i][k - Len(stash[i])]
    BY <1>1, KeptTaken
  <1>3. /\ Len(Kept(i, 0, 0)) = Len(stash[i])
        /\ \A k \in 1 .. Len(Kept(i, 0, 0)) : Kept(i, 0, 0)[k] = stash[i][k]
    BY <1>1, <1>2
  <1>4. QED BY <1>1, <1>2, <1>3, SeqEqual

(* Collecting items that are no flushes leaves no flush behind. *)
LEMMA KeptNoFlush ==
  ASSUME TypeOK, NEW i \in PUs, NEW t \in Nat, t <= Len(cb[i]),
         ~HasFlush(stash[i]), \A k \in 1 .. t : cb[i][k].type # "flush"
  PROVE  ~HasFlush(Kept(i, t, 0))
  <1>1. /\ stash[i] \in Seq(Item) /\ Len(stash[i]) \in Nat
    BY BufferTypes
  <1>2. /\ Kept(i, t, 0) \in Seq(Item)
        /\ Len(Kept(i, t, 0)) = Len(stash[i]) + t
        /\ \A k \in 1 .. Len(stash[i]) + t :
             Kept(i, t, 0)[k] = IF k <= Len(stash[i])
                                THEN stash[i][k] ELSE cb[i][k - Len(stash[i])]
    BY KeptTaken
  <1>3. SUFFICES ASSUME NEW k \in 1 .. Len(Kept(i, t, 0))
                 PROVE  Kept(i, t, 0)[k].type # "flush"
    BY DEF HasFlush
  <1>4. k \in 1 .. Len(stash[i]) + t
    BY <1>1, <1>2
  <1>5. CASE k <= Len(stash[i])
    <2>1. Kept(i, t, 0)[k] = stash[i][k]
      BY <1>1, <1>2, <1>4, <1>5
    <2>2. QED BY <1>1, <1>4, <1>5, <2>1 DEF HasFlush
  <1>6. CASE ~(k <= Len(stash[i]))
    <2>1. Kept(i, t, 0)[k] = cb[i][k - Len(stash[i])]
      BY <1>1, <1>2, <1>4, <1>6
    <2>2. k - Len(stash[i]) \in 1 .. t
      BY <1>1, <1>4, <1>6
    <2>3. QED BY <2>1, <2>2
  <1>7. QED BY <1>5, <1>6

(* What is left when the last item of what a PU holds is lost. *)
LostTheLast(i, t, s, o) ==
  /\ o \in Outcomes
  /\ o.phase = "collect" /\ o.status = s /\ o.reported = 0 /\ o.out = cb[i + 1]
  /\ Len(o.stash) = Len(stash[i]) + t - 1
  /\ \A k \in 1 .. Len(stash[i]) + t - 1 :
       o.stash[k] = IF k <= Len(stash[i]) THEN stash[i][k] ELSE cb[i][k - Len(stash[i])]

LEMMA LosesProperties ==
  ASSUME TypeOK, NEW i \in PUs, NEW t \in Nat, t <= Len(cb[i]), 1 <= Len(stash[i]) + t,
         NEW s \in Statuses, NEW o, o = Loses(i, t, s)
  PROVE  LostTheLast(i, t, s, o)
  <1> DEFINE p == Outcome(i, t, 0, "collect", s, 0)
             h == Kept(i, t, 0)
             n == Len(stash[i]) + t
  <1>1. n \in Nat /\ n - 1 \in Nat /\ 0 <= n /\ "collect" \in Phases
    BY BufferTypes DEF Phases
  <1>2. /\ h \in Seq(Item) /\ Len(h) = n
        /\ \A k \in 1 .. n :
             h[k] = IF k <= Len(stash[i]) THEN stash[i][k] ELSE cb[i][k - Len(stash[i])]
    BY KeptTaken
  <1>3. /\ p \in Outcomes /\ p.phase = "collect" /\ p.status = s /\ p.reported = 0
        /\ p.stash = h /\ p.out = cb[i + 1]
    BY <1>1, OutcomeProperties
  <1>4. o = [p EXCEPT !.stash = Take(p.stash, Len(p.stash) - 1)]
    BY DEF Loses
  <1> HIDE DEF p, h, n
  <1>5. /\ Take(h, n - 1) \in Seq(Item) /\ Len(Take(h, n - 1)) = n - 1
        /\ \A k \in 1 .. n - 1 : Take(h, n - 1)[k] = h[k]
    <2> PICK u \in Nat : u = n - 1
      BY <1>1
    <2>1. u <= Len(h)
      BY <1>1, <1>2
    <2>2. Take(h, u) \in Seq(Item) /\ Len(Take(h, u)) = u /\ \A k \in 1 .. u : Take(h, u)[k] = h[k]
      BY ONLY <1>2, <2>1, u \in Nat, TakeProperties
    <2>3. QED BY <2>2
  <1>6. o = [p EXCEPT !.stash = Take(h, n - 1)]
    BY <1>2, <1>3, <1>4
  <1>7. /\ o \in Outcomes /\ o.stash = Take(h, n - 1)
        /\ o.phase = p.phase /\ o.status = p.status /\ o.reported = p.reported /\ o.out = p.out
    BY <1>3, <1>5, <1>6 DEF Outcomes
  <1>8. \A k \in 1 .. n - 1 :
          o.stash[k] = IF k <= Len(stash[i]) THEN stash[i][k] ELSE cb[i][k - Len(stash[i])]
    BY <1>1, <1>2, <1>5, <1>7
  <1>9. Len(o.stash) = Len(stash[i]) + t - 1
    BY <1>5, <1>7 DEF n
  <1>10. \A k \in 1 .. Len(stash[i]) + t - 1 :
           o.stash[k] = IF k <= Len(stash[i]) THEN stash[i][k] ELSE cb[i][k - Len(stash[i])]
    BY <1>8 DEF n
  <1>11. QED BY <1>3, <1>7, <1>9, <1>10 DEF LostTheLast

LEMMA LosesContract ==
  ASSUME TypeOK, NEW i \in PUs, NEW t \in Nat, t <= Len(cb[i]), 1 <= Len(stash[i]) + t,
         NEW s \in Statuses \ {"IDLE"}, NEW o, o = Loses(i, t, s),
         StashOK(i, "collect", o.stash)
  PROVE  Contract(i, o)
  <1>0. LostTheLast(i, t, s, o)
    BY LosesProperties
  <1>1. /\ o \in Outcomes
        /\ o.phase = "collect" /\ o.status = s /\ o.reported = 0 /\ o.out = cb[i + 1]
    BY <1>0 DEF LostTheLast
  <1>2. QED BY <1>1 DEF Contract

(* The only item is lost. *)
LEMMA LosesOne ==
  ASSUME TypeOK, NEW i \in PUs, NEW t \in Nat, t <= Len(cb[i]), Len(stash[i]) + t = 1,
         NEW s \in Statuses \ {"IDLE"}, NEW o, o = Loses(i, t, s)
  PROVE  Contract(i, o)
  <1>0. LostTheLast(i, t, s, o)
    BY BufferTypes, LosesProperties
  <1>1. o \in Outcomes /\ Len(o.stash) = 0
    BY <1>0 DEF LostTheLast
  <1>2. o.stash \in Seq(Item)
    BY <1>1, FieldTypes
  <1>3. o.stash = <<>>
    BY <1>1, <1>2, EmptyIffLenZero
  <1>4. StashOK(i, "collect", o.stash)
    BY <1>3, EmptySeq, EmptyHasNoFlush DEF StashOK
  <1>5. QED BY <1>4, LosesContract

(* Losing the last of them, other than that no flushes, leaves no flush behind. *)
LEMMA LosesNoFlush ==
  ASSUME TypeOK, NEW i \in PUs, NEW t \in Nat, t + 1 <= Len(cb[i]),
         ~HasFlush(stash[i]), \A k \in 1 .. t : cb[i][k].type # "flush",
         NEW s \in Statuses, NEW o, o = Loses(i, t + 1, s)
  PROVE  ~HasFlush(o.stash)
  <1> PICK l : l = Len(stash[i])
    OBVIOUS
  <1>0. l \in Nat
    BY BufferTypes
  <1>1. t + 1 \in Nat /\ 1 <= l + (t + 1) /\ l + (t + 1) - 1 = l + t
    BY ONLY <1>0, t \in Nat
  <1>2. /\ Len(o.stash) = l + t
        /\ \A k \in 1 .. l + t :
             o.stash[k] = IF k <= l THEN stash[i][k] ELSE cb[i][k - l]
    <2> PICK u \in Nat : u = t + 1
      BY <1>1
    <2>1. u <= Len(cb[i]) /\ 1 <= Len(stash[i]) + u /\ o = Loses(i, u, s)
      BY <1>1
    <2>2. /\ Len(o.stash) = Len(stash[i]) + u - 1
          /\ \A k \in 1 .. Len(stash[i]) + u - 1 :
               o.stash[k] = IF k <= Len(stash[i]) THEN stash[i][k] ELSE cb[i][k - Len(stash[i])]
      <3>1. LostTheLast(i, u, s, o)
        BY ONLY <2>1, TypeOK, i \in PUs, u \in Nat, s \in Statuses, LosesProperties
      <3>2. QED BY <3>1 DEF LostTheLast
    <2>3. l + u - 1 = l + t
      BY <1>1
    <2>4. QED BY <2>2, <2>3
  <1>3. SUFFICES ASSUME NEW k \in 1 .. Len(o.stash) PROVE o.stash[k].type # "flush"
    BY DEF HasFlush
  <1>4. k \in 1 .. l + t
    BY <1>2
  <1>5. CASE k <= l
    <2>1. o.stash[k] = stash[i][k]
      BY <1>2, <1>4, <1>5
    <2>2. QED BY <1>0, <1>4, <1>5, <2>1 DEF HasFlush
  <1>6. CASE ~(k <= l)
    <2>1. o.stash[k] = cb[i][k - l] /\ k - l \in 1 .. t
      BY <1>0, <1>2, <1>4, <1>6
    <2>2. QED BY <2>1
  <1>7. QED BY <1>5, <1>6

(* waStep obeys the contract. *)
LEMMA SingleContract ==
  ASSUME TypeOK, StashInv, NEW i \in PUs, Kind[i] = "single", NEW o \in SingleStep(i)
  PROVE  Contract(i, o)
  <1>1. /\ Len(stash[i]) <= 1 /\ cb[i] \in Seq(Item) /\ stash[i] \in Seq(Item)
        /\ Len(stash[i]) \in Nat /\ Len(cb[i]) \in Nat
        /\ stash[i] = <<>> => Len(stash[i]) <= 0
        /\ cb[i] # <<>> => 1 <= Len(cb[i])
        /\ stash[i] # <<>> => 1 <= Len(stash[i])
        /\ cb[i] = <<>> => Len(cb[i]) = 0
    BY BufferTypes, EmptyIffLenZero DEF StashInv, StashOK
  <1>2. {"collect", "feed"} \subseteq Phases /\ {"IDLE", "BUSY", "OUT_FULL"} \subseteq Statuses
    BY DEF Phases, Statuses
  <1>3. StashOK(i, "collect", <<>>)
    BY EmptySeq, EmptyHasNoFlush DEF StashOK
  <1>4. CASE stash[i] = <<>> /\ cb[i] = <<>>
    <2>1. o = Outcome(i, 0, 0, "collect", "IDLE", 0)
      BY <1>4 DEF SingleStep
    <2>2. Kept(i, 0, 0) = <<>>
      BY <1>1, <1>4, KeptNothing
    <2>3. QED BY <1>1, <1>2, <1>3, <1>4, <2>1, <2>2, EmptyHasNoFlush, ContractOf
  <1>5. CASE stash[i] = <<>> /\ cb[i] # <<>> /\ Head(cb[i]).type = "other"
    <2>1. o = Loses(i, 1, "BUSY")
      BY <1>5 DEF SingleStep
    <2>2. 1 \in Nat /\ 1 <= Len(cb[i]) /\ Len(stash[i]) + 1 = 1 /\ "BUSY" \in Statuses \ {"IDLE"}
      BY <1>1, <1>2, <1>5
    <2>3. QED BY <2>1, <2>2, LosesOne
  <1>6. CASE ~(stash[i] = <<>> /\ cb[i] = <<>>)
             /\ ~(stash[i] = <<>> /\ Head(cb[i]).type = "other")
    <2> DEFINE t == IF stash[i] = <<>> THEN 1 ELSE 0
    <2>1. t \in Nat /\ t <= Len(cb[i]) /\ Len(stash[i]) + t <= 1 /\ 1 <= Len(stash[i]) + t
      <3>1. CASE stash[i] = <<>>
        <4>1. t = 1
          BY <3>1
        <4>2. QED BY <1>1, <1>6, <3>1, <4>1
      <3>2. CASE stash[i] # <<>>
        <4>1. t = 0
          BY <3>2
        <4>2. QED BY <1>1, <3>2, <4>1
      <3>3. QED BY <3>1, <3>2
    <2>2. o = IF Room(i) > 0 THEN Outcome(i, t, 1, "collect", "BUSY", 1)
                             ELSE Outcome(i, t, 0, "feed", "OUT_FULL", 0)
      BY <1>6 DEF SingleStep
    <2> HIDE DEF t
    <2>3. CASE Room(i) > 0
      <3>1. o = Outcome(i, t, 1, "collect", "BUSY", 1)
        BY <2>2, <2>3
      <3>2. Kept(i, t, 1) = <<>>
        BY <2>1, KeptNothing
      <3>3. QED BY <1>2, <1>3, <2>1, <3>1, <3>2, ContractOf
    <2>4. CASE ~(Room(i) > 0)
      <3>1. o = Outcome(i, t, 0, "feed", "OUT_FULL", 0)
        BY <2>2, <2>4
      <3>2. Len(Kept(i, t, 0)) <= 1 /\ Kept(i, t, 0) # <<>>
        BY <1>1, <2>1, KeptOne, KeptSomething
      <3>3. StashOK(i, "feed", Kept(i, t, 0))
        BY <3>2 DEF StashOK
      <3>4. QED BY <1>1, <1>2, <2>1, <3>1, <3>3, ContractOf
    <2>5. QED BY <2>3, <2>4
  <1>7. QED BY <1>4, <1>5, <1>6

(* Collecting a phrase obeys the contract. *)
LEMMA PhraseCollectContract ==
  ASSUME TypeOK, StashInv, NEW i \in PUs, Kind[i] = "phrase", phase[i] = "collect",
         NEW o \in PhraseCollect(i)
  PROVE  Contract(i, o)
  <1> DEFINE complete(t) == \/ t > 0 /\ EndsPhrase(cb[i][t])
                            \/ Len(stash[i]) + t >= StashCap
  <1>1. PICK t \in 0 .. Len(cb[i]) :
          /\ \A k \in 0 .. t - 1 : ~complete(k)
          /\ \/ o = Outcome(i, t, 0, "process", "ATOMIC", 0)
             \/ /\ o = Outcome(i, t, 0, "collect", "IDLE", 0)
                /\ t = Len(cb[i]) /\ ~complete(t)
    BY DEF PhraseCollect
  <1>2. /\ t \in Nat /\ t <= Len(cb[i]) /\ 0 <= Len(stash[i]) + t
        /\ {"collect", "process"} \subseteq Phases /\ {"IDLE", "ATOMIC"} \subseteq Statuses
    BY <1>1, BufferTypes DEF Phases, Statuses
  <1>3. CASE o = Outcome(i, t, 0, "process", "ATOMIC", 0)
    <2>1. StashOK(i, "process", Kept(i, t, 0))
      BY DEF StashOK
    <2>2. QED BY <1>2, <1>3, <2>1, ContractOf
  <1>4. CASE /\ o = Outcome(i, t, 0, "collect", "IDLE", 0)
             /\ t = Len(cb[i]) /\ ~complete(t)
    <2>1. \A k \in 1 .. t : cb[i][k].type # "flush"
      <3>1. TAKE k \in 1 .. t
      <3>2. ~complete(k) /\ k > 0
        <4>1. CASE k = t
          <5>1. ~complete(t)
            BY <1>4
          <5>2. k > 0
            BY <1>2
          <5> HIDE DEF complete
          <5>3. QED BY <4>1, <5>1, <5>2
        <4>2. CASE k # t
          BY <1>1, <1>2, <4>2
        <4>3. QED BY <4>1, <4>2
      <3>3. ~EndsPhrase(cb[i][k])
        BY <3>2
      <3>4. QED BY <3>3 DEF EndsPhrase
    <2>2. ~HasFlush(stash[i])
      BY DEF StashInv, StashOK
    <2>3. ~HasFlush(Kept(i, t, 0))
      BY <1>2, <2>1, <2>2, KeptNoFlush
    <2>4. StashOK(i, "collect", Kept(i, t, 0))
      BY <2>3 DEF StashOK
    <2>5. QED BY <1>2, <1>4, <2>3, <2>4, ContractOf
  <1>5. QED BY <1>1, <1>3, <1>4

(* Feeding a phrase obeys the contract. *)
LEMMA PhraseFeedContract ==
  ASSUME TypeOK, NEW i \in PUs, Kind[i] = "phrase", NEW o \in PhraseFeed(i)
  PROVE  Contract(i, o)
  <1>1. /\ 0 <= Len(cb[i]) /\ Len(stash[i]) \in Nat /\ Room(i) \in Int
        /\ {"collect", "feed"} \subseteq Phases
        /\ {"BUSY", "ATOMIC", "OUT_FULL"} \subseteq Statuses
    BY BufferTypes DEF Phases, Statuses
  <1>2. StashOK(i, "collect", <<>>)
    BY <1>1, EmptySeq, EmptyHasNoFlush DEF StashOK
  <1>3. CASE \E e \in 0 .. Room(i) : /\ e = Len(stash[i])
                                     /\ o = Outcome(i, 0, e, "collect", "BUSY", e)
    <2>1. PICK e \in 0 .. Room(i) : /\ e = Len(stash[i])
                                    /\ o = Outcome(i, 0, e, "collect", "BUSY", e)
      BY <1>3
    <2>2. /\ e \in Nat /\ e <= Len(stash[i]) + 0 /\ Len(stash[i]) + 0 <= e
          /\ e > 0 \/ "BUSY" = "OUT_FULL" \/ e = 0
      BY <1>1, <2>1
    <2>3. Kept(i, 0, e) = <<>>
      BY <1>1, <2>2, KeptNothing
    <2>4. StashOK(i, "collect", Kept(i, 0, e))
      BY <1>2, <2>3
    <2>5. QED BY <1>1, <2>1, <2>2, <2>4, ContractOf
  <1>4. CASE \E e \in 0 .. Room(i), s \in {"OUT_FULL", "ATOMIC"} :
               /\ e < Len(stash[i])
               /\ o = Outcome(i, 0, e, "feed", s, e)
    <2>1. PICK e \in 0 .. Room(i), s \in {"OUT_FULL", "ATOMIC"} :
               /\ e < Len(stash[i])
               /\ o = Outcome(i, 0, e, "feed", s, e)
      BY <1>4
    <2>2. e \in Nat /\ e <= Len(stash[i]) + 0
      BY <1>1, <2>1
    <2>3. StashOK(i, "feed", Kept(i, 0, e))
      BY <1>1 DEF StashOK
    <2>4. QED BY <1>1, <2>1, <2>2, <2>3, ContractOf
  <1>5. QED BY <1>1, <1>3, <1>4 DEF PhraseFeed

(* saStep and acphStep obey the contract. *)
LEMMA PhraseContract ==
  ASSUME TypeOK, StashInv, NEW i \in PUs, Kind[i] = "phrase", NEW o \in PhraseStep(i)
  PROVE  Contract(i, o)
  <1>1. CASE phase[i] = "collect"
    BY <1>1, PhraseCollectContract DEF PhraseStep
  <1>2. CASE phase[i] = "feed" \/ (phase[i] = "process" /\ o \in PhraseFeed(i))
    BY <1>2, PhraseFeedContract DEF PhraseStep
  <1>3. CASE phase[i] = "process" /\ o = Outcome(i, 0, 0, "feed", "ATOMIC", 0)
    <2>1. /\ 0 <= Len(cb[i]) /\ 0 <= Len(stash[i]) + 0
          /\ "feed" \in Phases /\ "ATOMIC" \in Statuses
      BY BufferTypes DEF Phases, Statuses
    <2>2. StashOK(i, "feed", Kept(i, 0, 0))
      BY DEF StashOK
    <2>3. QED BY <1>3, <2>1, <2>2, ContractOf
  <1>4. QED BY <1>1, <1>2, <1>3, BufferTypes DEF PhraseStep, Phases

(* sigStep obeys the contract. *)
LEMMA StagedContract ==
  ASSUME TypeOK, StashInv, NEW i \in PUs, Kind[i] = "staged", NEW o \in StagedStep(i)
  PROVE  Contract(i, o)
  <1>1. /\ Len(stash[i]) <= 1 /\ cb[i] \in Seq(Item) /\ stash[i] \in Seq(Item)
        /\ Len(stash[i]) \in Nat /\ Len(cb[i]) \in Nat
        /\ phase[i] = "collect" => Len(stash[i]) <= 0
        /\ phase[i] # "collect" => 1 <= Len(stash[i])
        /\ cb[i] # <<>> => 1 <= Len(cb[i])
        /\ cb[i] = <<>> => Len(cb[i]) = 0
    BY BufferTypes, EmptyIffLenZero DEF StashInv, StashOK
  <1>2. Phases = {"collect", "process", "feed"} /\ {"IDLE", "BUSY", "ATOMIC", "OUT_FULL"} \subseteq Statuses
    BY DEF Phases, Statuses
  <1>3. StashOK(i, "collect", <<>>)
    BY EmptySeq, EmptyHasNoFlush DEF StashOK
  <1>4. CASE phase[i] = "collect" /\ cb[i] = <<>>
    <2>1. o = Outcome(i, 0, 0, "collect", "IDLE", 0)
      BY <1>4 DEF StagedStep
    <2>2. Kept(i, 0, 0) = <<>>
      BY <1>1, <1>4, KeptNothing
    <2>3. QED BY <1>1, <1>2, <1>3, <1>4, <2>1, <2>2, EmptyHasNoFlush, ContractOf
  <1>8. CASE phase[i] = "collect" /\ cb[i] # <<>> /\ Head(cb[i]).type = "other"
    <2>1. o = Loses(i, 1, "BUSY")
      BY <1>8 DEF StagedStep
    <2>2. 1 \in Nat /\ 1 <= Len(cb[i]) /\ Len(stash[i]) + 1 = 1 /\ "BUSY" \in Statuses \ {"IDLE"}
      BY <1>1, <1>2, <1>8
    <2>3. QED BY <2>1, <2>2, LosesOne
  <1>5. CASE phase[i] = "collect" /\ cb[i] # <<>> /\ Head(cb[i]).type # "other"
    <2>1. o = Outcome(i, 1, 0, "process", "ATOMIC", 0)
      BY <1>5 DEF StagedStep
    <2>2. Kept(i, 1, 0) # <<>> /\ Len(Kept(i, 1, 0)) <= 1
      BY <1>1, <1>5, KeptSomething, KeptOne
    <2>3. StashOK(i, "process", Kept(i, 1, 0))
      BY <2>2 DEF StashOK
    <2>4. QED BY <1>1, <1>2, <1>5, <2>1, <2>3, ContractOf
  <1>6. CASE phase[i] # "collect"
    <2>1. Kept(i, 0, 0) # <<>> /\ Len(Kept(i, 0, 0)) <= 1
      BY <1>1, <1>6, KeptSomething, KeptOne
    <2>2. StashOK(i, "feed", Kept(i, 0, 0))
      BY <2>1 DEF StashOK
    <2>3. CASE o = Outcome(i, 0, 0, "feed", "BUSY", 0)
      BY <1>1, <1>2, <2>2, <2>3, ContractOf
    <2>4. CASE o = Outcome(i, 0, 0, "feed", "OUT_FULL", 0)
      BY <1>1, <1>2, <2>2, <2>4, ContractOf
    <2>5. CASE o = Outcome(i, 0, 1, "collect", "BUSY", 1)
      <3>1. Kept(i, 0, 1) = <<>>
        BY <1>1, <1>6, KeptNothing
      <3>2. QED BY <1>1, <1>2, <1>3, <1>6, <2>5, <3>1, ContractOf
    <2>6. QED BY <1>2, <1>6, <2>3, <2>4, <2>5, BufferTypes DEF StagedStep
  <1>7. QED BY <1>4, <1>5, <1>6, <1>8

(* A step that fails obeys the contract. *)
LEMMA CollectFailsContract ==
  ASSUME TypeOK, StashInv, NEW i \in PUs, Kind[i] = "phrase", phase[i] = "collect",
         NEW o \in CollectFails(i)
  PROVE  Contract(i, o)
  <1>1. PICK t \in 0 .. Len(cb[i]) :
          /\ \A k \in 0 .. t : ~(k > 0 /\ EndsPhrase(cb[i][k]))
          /\ \/ o = Outcome(i, t, 0, "collect", "ERROR", 0)
             \/ t < Len(cb[i]) /\ o = Loses(i, t + 1, "ERROR")
    BY DEF CollectFails
  <1>2. /\ t \in Nat /\ t <= Len(cb[i]) /\ 0 <= Len(stash[i]) + t
        /\ Len(stash[i]) \in Nat /\ Len(cb[i]) \in Nat
        /\ "collect" \in Phases /\ "ERROR" \in Statuses \ {"IDLE"}
    BY <1>1, BufferTypes DEF Phases, Statuses
  <1>3. \A k \in 1 .. t : cb[i][k].type # "flush"
    BY <1>1, <1>2 DEF EndsPhrase
  <1>4. ~HasFlush(stash[i])
    BY DEF StashInv, StashOK
  <1>5. CASE o = Outcome(i, t, 0, "collect", "ERROR", 0)
    <2>1. ~HasFlush(Kept(i, t, 0))
      BY <1>2, <1>3, <1>4, KeptNoFlush
    <2>2. StashOK(i, "collect", Kept(i, t, 0))
      BY <2>1 DEF StashOK
    <2>3. QED BY <1>2, <1>5, <2>2, ContractOf
  <1>6. CASE t < Len(cb[i]) /\ o = Loses(i, t + 1, "ERROR")
    <2>1. t + 1 \in Nat /\ t + 1 <= Len(cb[i]) /\ 1 <= Len(stash[i]) + (t + 1)
      BY <1>2, <1>6
    <2>2. ~HasFlush(o.stash)
      BY <1>2, <1>3, <1>4, <1>6, <2>1, LosesNoFlush
    <2>3. StashOK(i, "collect", o.stash)
      BY <2>2 DEF StashOK
    <2>4. QED BY <1>2, <1>6, <2>1, <2>3, LosesContract
  <1>7. QED BY <1>1, <1>5, <1>6

LEMMA FailedContract ==
  ASSUME TypeOK, StashInv, NEW i \in PUs, NEW o \in FailedStep(i)
  PROVE  Contract(i, o)
  <1>1. /\ 0 <= Len(cb[i]) /\ Len(stash[i]) \in Nat /\ 0 <= Len(stash[i]) + 0
        /\ Len(cb[i]) \in Nat /\ Room(i) \in Int
        /\ phase[i] \in Phases /\ "ERROR" \in Statuses \ {"IDLE"}
        /\ {"collect", "process", "feed"} = Phases
    BY BufferTypes DEF Statuses, Phases
  <1>2. CASE Kind[i] \in {"single", "staged"}
    <2>1. /\ Len(stash[i]) <= 1
          /\ phase[i] = "collect" => Len(stash[i]) = 0
          /\ phase[i] # "collect" => Len(stash[i]) = 1
          /\ cb[i] # <<>> => 1 <= Len(cb[i])
      <3>1. cb[i] \in Seq(Item) /\ stash[i] \in Seq(Item)
        BY BufferTypes
      <3>2. Len(stash[i]) <= 1 /\ (phase[i] = "collect" <=> stash[i] = <<>>)
        BY <1>2 DEF StashInv, StashOK
      <3>3. (stash[i] = <<>> <=> Len(stash[i]) = 0) /\ (cb[i] = <<>> <=> Len(cb[i]) = 0)
        BY <3>1, EmptyIffLenZero
      <3>4. \A n \in Nat : (n <= 1 /\ n # 0 => n = 1) /\ (n # 0 => 1 <= n)
        OBVIOUS
      <3>5. Len(stash[i]) \in Nat /\ Len(cb[i]) \in Nat
        BY <1>1
      <3>6. QED BY ONLY <3>2, <3>3, <3>4, <3>5, Zenon
    <2>2. CASE o = Outcome(i, 0, 0, phase[i], "ERROR", 0)
      <3>1. StashOK(i, phase[i], Kept(i, 0, 0))
        BY KeptAll DEF StashInv
      <3>2. QED BY <1>1, <2>2, <3>1, ContractOf
    <2>3. CASE phase[i] = "collect" /\ cb[i] # <<>> /\ o = Outcome(i, 1, 0, "process", "ERROR", 0)
      <3>1. 1 \in Nat /\ 1 <= Len(cb[i]) /\ 0 <= Len(stash[i]) + 1
            /\ 0 < Len(stash[i]) + 1 /\ Len(stash[i]) + 1 <= 1
        BY <1>1, <2>1, <2>3
      <3>2. Kept(i, 1, 0) # <<>> /\ Len(Kept(i, 1, 0)) <= 1
        BY <3>1, KeptSomething, KeptOne
      <3>3. StashOK(i, "process", Kept(i, 1, 0))
        BY <1>2, <3>2 DEF StashOK
      <3>4. QED BY <1>1, <2>3, <3>1, <3>3, ContractOf
    <2>4. CASE phase[i] = "collect" /\ cb[i] # <<>> /\ o = Loses(i, 1, "ERROR")
      <3>1. 1 \in Nat /\ 1 <= Len(cb[i]) /\ Len(stash[i]) + 1 = 1
        BY <1>1, <2>1, <2>4
      <3>2. QED BY <1>1, <2>4, <3>1, LosesOne
    <2>5. CASE phase[i] # "collect" /\ o = Loses(i, 0, "ERROR")
      <3>1. 0 \in Nat /\ 0 <= Len(cb[i]) /\ Len(stash[i]) + 0 = 1
        BY <1>1, <2>1, <2>5
      <3>2. QED BY <1>1, <2>5, <3>1, LosesOne
    <2>6. QED BY <1>2, <2>2, <2>3, <2>4, <2>5 DEF FailedStep
  <1>3. CASE Kind[i] = "budget"
    <2>1. PICK t \in 0 .. Len(cb[i]), e \in 0 .. Room(i) :
            /\ o = Outcome(i, t, e, phase[i], "ERROR", e)
            /\ 0 <= Len(stash[i]) + t - e
      BY <1>3 DEF FailedStep
    <2>2. /\ t \in Nat /\ t <= Len(cb[i]) /\ e \in Nat /\ e <= Len(stash[i]) + t
          /\ (e > 0 \/ e = 0)
      BY <1>1, <2>1
    <2>3. StashOK(i, phase[i], Kept(i, t, e))
      BY <1>3 DEF StashOK
    <2>4. QED BY <1>1, <2>1, <2>2, <2>3, ContractOf
  <1>4. CASE Kind[i] = "phrase" /\ phase[i] # "collect"
    <2>1. PICK e \in 0 .. Room(i) : /\ e < Len(stash[i])
                                    /\ o = Outcome(i, 0, e, phase[i], "ERROR", e)
      BY <1>4 DEF FailedStep
    <2>2. e \in Nat /\ e <= Len(stash[i]) + 0 /\ (e > 0 \/ e = 0)
      BY <1>1, <2>1
    <2>3. StashOK(i, phase[i], Kept(i, 0, e))
      BY <1>4 DEF StashOK
    <2>4. QED BY <1>1, <2>1, <2>2, <2>3, ContractOf
  <1>5. CASE Kind[i] = "phrase" /\ phase[i] = "collect"
    <2>1. o \in CollectFails(i)
      BY <1>5 DEF FailedStep
    <2>2. QED BY <1>5, <2>1, CollectFailsContract
  <1>6. CASE Kind[i] = "drain"
    BY <1>6 DEF FailedStep
  <1>7. QED BY <1>2, <1>3, <1>4, <1>5, <1>6, BufferTypes DEF Kinds

(* prStep without memory obeys the contract. *)
LEMMA BrokenContract ==
  ASSUME TypeOK, NEW i \in PUs, Kind[i] = "budget", NEW o \in BrokenStep(i)
  PROVE  Contract(i, o)
  <1>1. /\ 0 <= Len(cb[i]) /\ 0 <= Len(stash[i]) + 0
        /\ "collect" \in Phases /\ "ERROR" \in Statuses
    BY BufferTypes DEF Phases, Statuses
  <1>2. PICK r \in {0, 1} : o = Outcome(i, 0, 0, "collect", "ERROR", r)
    BY DEF BrokenStep
  <1>3. StashOK(i, "collect", Kept(i, 0, 0))
    BY DEF StashOK
  <1>4. QED BY <1>1, <1>2, <1>3, ContractOf

(* What survives is a part of what there was, in its order. *)
LEMMA SurvivorsAre ==
  ASSUME NEW S, NEW s \in Seq(S), NEW q \in Survivors(s)
  PROVE  \E m \in 0 .. Len(s) : \E f \in [1 .. m -> 1 .. Len(s)] :
           /\ \A a, b \in 1 .. m : a < b => f[a] < f[b]
           /\ q \in Seq(S) /\ Len(q) = m
           /\ \A a \in 1 .. m : q[a] = s[f[a]]
  <1>0. PICK m \in 0 .. Len(s) : \E f \in Rising(m, Len(s)) : q = [a \in 1 .. m |-> s[f[a]]]
    BY DEF Survivors
  <1>1. PICK f \in Rising(m, Len(s)) : q = [a \in 1 .. m |-> s[f[a]]]
    BY <1>0
  <1>2. /\ f \in [1 .. m -> 1 .. Len(s)] /\ Len(s) \in Nat /\ m \in Nat
        /\ \A a, b \in 1 .. m : a < b => f[a] < f[b]
    BY <1>1, LenProperties DEF Rising
  <1>3. \A a \in 1 .. m : s[f[a]] \in S
    BY <1>2, ElementOfSeq
  <1>4. q \in Seq(S) /\ Len(q) = m
    <2>1. q \in [1 .. m -> S]
      BY <1>1, <1>3
    <2>2. QED BY <1>2, <2>1
  <1>5. QED BY <1>1, <1>2, <1>4

(* The step in which it runs out of memory does. *)
LEMMA OverrunContract ==
  ASSUME TypeOK, NEW i \in PUs, Kind[i] = "budget", NEW o \in OverrunStep(i)
  PROVE  Contract(i, o)
  <1>1. PICK t \in 0 .. Len(cb[i]), e \in 0 .. Room(i) :
          \E q \in Survivors(stash[i] \o Take(cb[i], t)) :
            \E s \in {"IDLE", "BUSY", "OUT_FULL", "ERROR"} :
              o = Overrun(i, t, e, q, s) /\ OverrunMayEnd(i, t, e, q, s)
    BY DEF OverrunStep
  <1>2. PICK q \in Survivors(stash[i] \o Take(cb[i], t)),
             s \in {"IDLE", "BUSY", "OUT_FULL", "ERROR"} :
              o = Overrun(i, t, e, q, s) /\ OverrunMayEnd(i, t, e, q, s)
    BY <1>1
  <1>3. /\ cb[i] \in Seq(Item) /\ cb[i + 1] \in Seq(Item) /\ stash[i] \in Seq(Item)
        /\ t \in Nat /\ t <= Len(cb[i]) /\ e \in Nat /\ e <= Len(q)
        /\ "collect" \in Phases /\ s \in Statuses
    BY <1>1, <1>2, BufferTypes DEF OverrunMayEnd, Phases, Statuses
  <1>4. Take(cb[i], t) \in Seq(Item)
    BY <1>3, TakeProperties
  <1>5. stash[i] \o Take(cb[i], t) \in Seq(Item)
    BY <1>3, <1>4, ConcatProperties
  <1>6. q \in Seq(Item)
    BY <1>5, SurvivorsAre
  <1> DEFINE n == IF s = "OUT_FULL" THEN 0 ELSE e
  <1>7. /\ Drop(cb[i], t) \in Seq(Item) /\ Len(Drop(cb[i], t)) + t = Len(cb[i])
        /\ Drop(q, e) \in Seq(Item) /\ Take(q, e) \in Seq(Item) /\ Len(Take(q, e)) = e
    BY <1>3, <1>6, TakeProperties, DropProperties
  <1>8. cb[i + 1] \o Take(q, e) \in Seq(Item) /\ n \in Nat
    BY <1>3, <1>7, ConcatProperties
  <1>9. o = [in |-> Drop(cb[i], t), stash |-> Drop(q, e), out |-> cb[i + 1] \o Take(q, e),
             phase |-> "collect", status |-> s, reported |-> n]
    BY <1>2 DEF Overrun
  <1> HIDE DEF n
  <1>10. o \in Outcomes
    BY <1>3, <1>7, <1>8, <1>9, OutcomeIn
  <1>11. o.status = "IDLE" => o.in = <<>> /\ o.phase = "collect" /\ ~HasFlush(o.stash)
    <2>1. HAVE o.status = "IDLE"
    <2>2. s = "IDLE"
      BY <1>9, <2>1
    <2>3. t = Len(cb[i]) /\ ~HasFlush(Drop(q, e))
      BY <1>2, <2>2 DEF OverrunMayEnd
    <2>4. Len(Drop(cb[i], t)) <= 0
      <3>1. Len(Drop(cb[i], t)) \in Nat
        BY <1>7, LenProperties
      <3>2. Len(Drop(cb[i], t)) + t = t /\ t \in Nat
        BY <1>3, <1>7, <2>3
      <3>3. QED BY ONLY <3>1, <3>2
    <2>5. Drop(cb[i], t) = <<>>
      BY <1>7, <2>4, NoLengthIsEmpty
    <2>6. QED BY <1>9, <2>3, <2>5
  <1>12. o.reported = 0 /\ o.status # "OUT_FULL" => o.out = cb[i + 1]
    <2>1. HAVE o.reported = 0 /\ o.status # "OUT_FULL"
    <2>2. e = 0
      BY <1>9, <2>1 DEF n
    <2>3. Take(q, e) = <<>>
      BY <1>7, <2>2, EmptyIffLenZero
    <2>4. QED BY <1>3, <1>9, <2>3, ConcatEmptySeq
  <1>13. StashOK(i, o.phase, o.stash)
    BY DEF StashOK
  <1>14. QED BY <1>10, <1>11, <1>12, <1>13 DEF Contract

\* The outcomes of a step of PU c.
StepOf(c) ==
  Step(c) \cup FailedStep(c) \cup IF Kind[c] = "budget" THEN OverrunStep(c) ELSE {}

LEMMA StepContract ==
  ASSUME TypeOK, StashInv, NEW i \in PUs, NEW o \in StepOf(i)
  PROVE  Contract(i, o)
  <1>1. Kind[i] \in Kinds
    BY BufferTypes
  <1>2. CASE o \in FailedStep(i)
    BY <1>2, FailedContract
  <1>3. CASE o \in Step(i)
    BY <1>1, <1>3, StreamContract, SingleContract, PhraseContract, StagedContract, BrokenContract
    DEF Step, Kinds
  <1>4. CASE Kind[i] = "budget" /\ o \in OverrunStep(i)
    BY <1>4, OverrunContract
  <1>5. QED BY <1>2, <1>3, <1>4 DEF StepOf

-----------------------------------------------------------------------------
(* Scheduling. *)

LEMMA MaximumExists ==
  ASSUME NEW c \in Nat, NEW S, S \subseteq 0 .. c, S # {}
  PROVE  \E k \in S : \A j \in S : j <= k
  <1> DEFINE T == {c - k : k \in S}
             R == OpToRel(<, Nat)
  <1>1. T \subseteq Nat /\ T # {}
    <2>1. \A k \in S : c - k \in Nat
      OBVIOUS
    <2>2. PICK k \in S : TRUE
      OBVIOUS
    <2>3. c - k \in T
      BY <2>2
    <2>4. QED BY <2>1, <2>3
  <1>2. \E x \in T : \A y \in T : ~(<<y, x>> \in R)
    <2> HIDE DEF T, R
    <2>1. IsWellFoundedOn(R, Nat)
      BY NatLessThanWellFounded DEF R
    <2>2. QED BY <1>1, <2>1, WFMin, Zenon
  <1>3. PICK x \in T : \A y \in T : ~(<<y, x>> \in R)
    BY <1>2
  <1>4. ASSUME NEW y \in T PROVE x <= y
    <2>1. x \in Nat /\ y \in Nat
      BY <1>1, <1>3
    <2>2. y < x => <<y, x>> \in R
      BY <2>1 DEF OpToRel
    <2>3. ~(<<y, x>> \in R)
      BY <1>3
    <2> HIDE DEF R, T
    <2>4. ~(y < x)
      BY <2>2, <2>3
    <2>5. QED BY <2>1, <2>4
  <1>5. PICK k \in S : x = c - k
    BY <1>3
  <1>6. ASSUME NEW j \in S PROVE j <= k
    <2>1. c - j \in T
      OBVIOUS
    <2>2. x <= c - j
      BY <1>4, <2>1
    <2>3. QED BY <1>5, <2>2
  <1>7. QED BY <1>6

LEMMA NonIdleAboveProperties ==
  ASSUME NEW c \in Nat, NEW st
  PROVE  LET k == NonIdleAbove(c, st) IN
         /\ k \in 0 .. c
         /\ k = 0 \/ st[k] # "IDLE"
         /\ \A j \in k + 1 .. c : st[j] = "IDLE"
  <1> DEFINE S == {k \in 0 .. c : k = 0 \/ st[k] # "IDLE"}
  <1>1. S \subseteq 0 .. c /\ 0 \in S
    OBVIOUS
  <1>2. PICK k \in S : \A j \in S : j <= k
    BY <1>1, MaximumExists
  <1>3. /\ k \in 0 .. c
        /\ k = 0 \/ st[k] # "IDLE"
        /\ \A j \in k + 1 .. c : st[j] = "IDLE"
    <2>1. ASSUME NEW j \in k + 1 .. c, st[j] # "IDLE" PROVE FALSE
      <3>1. j \in S
        BY <1>2, <2>1
      <3>2. QED BY <1>2, <2>1, <3>1
    <2>2. QED BY <1>2, <2>1
  <1>4. QED BY <1>3 DEF NonIdleAbove

(* Where control goes after outcome o of PU c, one case per status. *)
ScheduleCase(c, o, st, m) ==
  \/ /\ o.status \in {"ATOMIC", "ERROR"}
     /\ m.cur = c /\ m.status = st /\ m.result = o.status
  \/ /\ o.status \in {"BUSY", "IDLE"} /\ c + 1 \in PUs /\ st[c + 1] = "BUSY"
     /\ m.cur = c + 1 /\ m.status = st /\ m.result = "BUSY"
  \/ /\ o.status = "BUSY" /\ (c + 1 \in PUs => st[c + 1] # "BUSY")
     /\ m.cur = c /\ m.status = st /\ m.result = "BUSY"
  \/ /\ o.status = "IDLE" /\ (c + 1 \in PUs => st[c + 1] # "BUSY")
     /\ c = 0 /\ m.cur = 0 /\ m.status = st /\ m.result = "IDLE"
  \/ /\ o.status = "IDLE" /\ (c + 1 \in PUs => st[c + 1] # "BUSY")
     /\ c # 0 /\ m.cur = NonIdleAbove(c, st)
     /\ m.status = [st EXCEPT ![NonIdleAbove(c, st)] = "BUSY"]
     /\ m.result = "BUSY"
  \/ /\ o.status = "OUT_FULL" /\ c + 1 \in PUs
     /\ m.cur = c + 1 /\ m.status = [st EXCEPT ![c + 1] = "BUSY"]
     /\ m.result = "BUSY"
  \/ /\ o.status = "OUT_FULL" /\ c + 1 \notin PUs
     /\ m.cur = c /\ m.status = st /\ m.result = "OUT_FULL"

LEMMA ScheduleCases ==
  ASSUME NEW c \in PUs, NEW o, o.status \in Statuses
  PROVE  ScheduleCase(c, o, Recorded(c, o), Schedule(c, o))
  <1>1. CASE o.status = "ATOMIC"
    BY <1>1 DEF Schedule, ScheduleCase
  <1>2. CASE o.status = "BUSY"
    BY <1>2 DEF Schedule, ScheduleCase
  <1>3. CASE o.status = "IDLE"
    BY <1>3 DEF Schedule, ScheduleCase
  <1>4. CASE o.status = "OUT_FULL"
    BY <1>4 DEF Schedule, ScheduleCase
  <1>5. CASE o.status = "ERROR"
    BY <1>5 DEF Schedule, ScheduleCase
  <1>6. QED BY <1>1, <1>2, <1>3, <1>4, <1>5 DEF Statuses

(* The state of the PUs, but not yet where control is, after the step of PU c. *)
LEMMA FetchBuffers ==
  ASSUME TypeOK, NEW o, Contract(curPU, o), NEW fits \in BOOLEAN, Fetch(curPU, o, fits)
  PROVE  /\ cb' \in [0 .. NumPU -> Seq(Item)]
         /\ stash' \in [PUs -> Seq(Item)] /\ phase' \in [PUs -> Phases]
         /\ \A j \in PUs : /\ phase'[j] = IF j = curPU THEN o.phase ELSE phase[j]
                           /\ stash'[j] = IF j = curPU THEN o.stash ELSE stash[j]
         /\ \A j \in PUs : cb'[j] = IF j = curPU THEN o.in
                                    ELSE IF j = curPU + 1 THEN o.out ELSE cb[j]
         /\ answer' = "IDLE" =>
              /\ Schedule(curPU, o).result = "IDLE"
              /\ cb'[NumPU] = <<>>
         /\ answer' \in Answers
  <1> DEFINE stepped == [cb EXCEPT ![curPU] = o.in, ![curPU + 1] = o.out]
             last == stepped[NumPU]
             res == Schedule(curPU, o).result
             got == res # "ERROR" /\ last # <<>> /\ fits
  <1>1. /\ curPU \in PUs /\ cb \in [0 .. NumPU -> Seq(Item)]
        /\ stash \in [PUs -> Seq(Item)] /\ phase \in [PUs -> Phases]
        /\ o.in \in Seq(Item) /\ o.out \in Seq(Item) /\ o.stash \in Seq(Item)
        /\ o.phase \in Phases /\ NumPU \in Nat \ {0}
    BY CtrlAssumption, FieldTypes DEF TypeOK, Contract
  <1>2. /\ stash' = [stash EXCEPT ![curPU] = o.stash]
        /\ phase' = [phase EXCEPT ![curPU] = o.phase]
        /\ cb' = IF got THEN [stepped EXCEPT ![NumPU] = Tail(last)] ELSE stepped
        /\ answer' = IF res = "ERROR" \/ (last # <<>> /\ ~fits) THEN "ERROR"
                     ELSE IF res = "IDLE" /\ last = <<>> THEN "IDLE" ELSE "BUSY"
    BY DEF Fetch, Answer
  <1>3. /\ stepped \in [0 .. NumPU -> Seq(Item)]
        /\ \A j \in PUs : stepped[j] = IF j = curPU THEN o.in
                                       ELSE IF j = curPU + 1 THEN o.out ELSE cb[j]
    <2>1. /\ curPU \in 0 .. NumPU /\ curPU + 1 \in 0 .. NumPU
          /\ PUs \subseteq 0 .. NumPU /\ curPU + 1 # curPU
      BY <1>1 DEF PUs
    <2>2. stepped \in [0 .. NumPU -> Seq(Item)]
      BY <1>1, <2>1
    <2>3. ASSUME NEW j \in PUs
          PROVE  stepped[j] = IF j = curPU THEN o.in
                              ELSE IF j = curPU + 1 THEN o.out ELSE cb[j]
      BY <1>1, <2>1
    <2>4. QED BY <2>2, <2>3
  <1>4. last \in Seq(Item) /\ (last # <<>> => Tail(last) \in Seq(Item))
    <2> HIDE DEF stepped
    <2>1. last \in Seq(Item)
      BY <1>1, <1>3
    <2> HIDE DEF last
    <2>2. QED BY <2>1, HeadTailProperties
  <1> HIDE DEF stepped, res
  <1>5. /\ cb' \in [0 .. NumPU -> Seq(Item)]
        /\ \A j \in PUs : cb'[j] = stepped[j]
    BY <1>1, <1>2, <1>3, <1>4 DEF PUs
  <1>6. answer' \in Answers
    BY <1>2 DEF Answers
  <1>7. answer' = "IDLE" => res = "IDLE" /\ cb'[NumPU] = <<>>
    <2>1. HAVE answer' = "IDLE"
    <2>2. res = "IDLE" /\ last = <<>>
      BY <1>2, <2>1
    <2>3. cb' = stepped
      BY <1>2, <2>2
    <2>4. QED BY <2>2, <2>3
  <1>8. /\ stash' \in [PUs -> Seq(Item)] /\ phase' \in [PUs -> Phases]
        /\ \A j \in PUs : /\ phase'[j] = IF j = curPU THEN o.phase ELSE phase[j]
                          /\ stash'[j] = IF j = curPU THEN o.stash ELSE stash[j]
    BY <1>1, <1>2
  <1>9. QED BY <1>3, <1>5, <1>6, <1>7, <1>8 DEF res

(***************************************************************************)
(* The invariant: what control knows about the PUs around the current one. *)
(* BelowDrained and IdleSound are what the callers see of it, WorkTracked  *)
(* is what makes it inductive.                                             *)
(***************************************************************************)
IInv == /\ TypeOK /\ StashInv /\ WorkTracked
        /\ BelowIdleUntilReset /\ BelowDrained /\ IdleSound

LEMMA RecordedProperties ==
  ASSUME TypeOK, NEW c \in PUs, NEW o \in Outcomes
  PROVE  /\ Recorded(c, o) \in [PUs -> Statuses]
         /\ Recorded(c, o)[c] = o.status
         /\ \A j \in PUs : j # c /\ j # c + 1 => Recorded(c, o)[j] = procStatus[j]
         /\ c + 1 \in PUs =>
              Recorded(c, o)[c + 1] = IF o.reported > 0 THEN "BUSY" ELSE procStatus[c + 1]
  BY FieldTypes DEF TypeOK, PUs, Recorded, Statuses

(* Which PUs have nothing to do after the step of the current one. *)
LEMMA FetchQuiet ==
  ASSUME TypeOK, WorkTracked, NEW c \in PUs, c = curPU, NEW o, Contract(c, o),
         NEW fits \in BOOLEAN, Fetch(c, o, fits), NEW st, st = Recorded(c, o)
  PROVE  /\ \A j \in PUs : j > c + 1 => Quiet(j)'
         /\ c + 1 \in PUs /\ st[c + 1] # "BUSY" /\ o.status # "OUT_FULL"
              => Quiet(c + 1)'
         /\ o.status = "IDLE" => Quiet(c)'
         /\ \A j \in PUs : 0 < j /\ j < c /\ st[j] = "IDLE" => Quiet(j)'
  <1>1. /\ \A j \in PUs : /\ phase'[j] = IF j = c THEN o.phase ELSE phase[j]
                          /\ stash'[j] = IF j = c THEN o.stash ELSE stash[j]
        /\ \A j \in PUs : cb'[j] = IF j = c THEN o.in
                                   ELSE IF j = c + 1 THEN o.out ELSE cb[j]
    BY FetchBuffers
  <1>2. /\ c \in PUs /\ c \in Nat /\ PUs \subseteq Nat
        /\ o \in Outcomes /\ o.reported \in Nat
    BY CtrlAssumption, FieldTypes DEF TypeOK, PUs, Contract
  <1>3. /\ \A j \in PUs : j # c /\ j # c + 1 => st[j] = procStatus[j]
        /\ c + 1 \in PUs =>
              st[c + 1] = IF o.reported > 0 THEN "BUSY" ELSE procStatus[c + 1]
    BY <1>2, RecordedProperties
  <1>4. ASSUME NEW j \in PUs, j # c, j # c + 1, Quiet(j) PROVE Quiet(j)'
    BY <1>1, <1>4 DEF Quiet
  <1>5. \A j \in PUs : j > c + 1 => Quiet(j)'
    <2>1. TAKE j \in PUs
    <2>2. HAVE j > c + 1
    <2>3. j # c /\ j # c + 1
      BY <1>2, <2>2
    <2>4. QED BY <1>4, <2>2, <2>3 DEF WorkTracked
  <1>6. c + 1 \in PUs /\ st[c + 1] # "BUSY" /\ o.status # "OUT_FULL"
          => Quiet(c + 1)'
    <2>1. HAVE c + 1 \in PUs /\ st[c + 1] # "BUSY" /\ o.status # "OUT_FULL"
    <2>2. o.reported = 0 /\ procStatus[c + 1] # "BUSY"
      BY <1>2, <1>3, <2>1
    <2>3. Quiet(c + 1)
      BY <2>1, <2>2 DEF WorkTracked
    <2>4. o.out = cb[c + 1]
      BY <2>1, <2>2 DEF Contract
    <2>5. c + 1 # c
      BY <1>2
    <2>6. cb'[c + 1] = cb[c + 1] /\ phase'[c + 1] = phase[c + 1]
          /\ stash'[c + 1] = stash[c + 1]
      BY <1>1, <2>1, <2>4, <2>5
    <2>7. QED BY <2>3, <2>6 DEF Quiet
  <1>7. o.status = "IDLE" => Quiet(c)'
    <2>1. HAVE o.status = "IDLE"
    <2>2. o.in = <<>> /\ o.phase = "collect" /\ ~HasFlush(o.stash)
      BY <2>1 DEF Contract
    <2>3. cb'[c] = o.in /\ phase'[c] = o.phase /\ stash'[c] = o.stash
      BY <1>1, <1>2
    <2>4. cb'[c] = <<>> /\ phase'[c] = "collect" /\ ~HasFlush(stash'[c])
      BY <2>2, <2>3
    <2>5. QED BY <2>4 DEF Quiet
  <1>8. \A j \in PUs : 0 < j /\ j < c /\ st[j] = "IDLE" => Quiet(j)'
    <2>1. TAKE j \in PUs
    <2>2. HAVE 0 < j /\ j < c /\ st[j] = "IDLE"
    <2>3. j # c /\ j # c + 1
      BY <1>2, <2>2
    <2>4. procStatus[j] = "IDLE"
      BY <1>3, <2>2, <2>3
    <2>5. Quiet(j)
      BY <2>2, <2>4 DEF WorkTracked
    <2>6. QED BY <1>4, <2>3, <2>5
  <1>9. QED BY <1>5, <1>6, <1>7, <1>8

(* Control moves so that it keeps knowing where the work is. *)
LEMMA FetchTracked ==
  ASSUME TypeOK, WorkTracked, BelowIdleUntilReset, NEW c \in PUs, c = curPU,
         NEW o, Contract(c, o), NEW fits \in BOOLEAN, Fetch(c, o, fits), resets' = resets
  PROVE  /\ curPU' \in PUs /\ procStatus' \in [PUs -> Statuses]
         /\ WorkTracked' /\ BelowDrained' /\ BelowIdleUntilReset'
         /\ Schedule(c, o).result = "IDLE" => \A j \in PUs : Quiet(j)'
  <1> DEFINE st == Recorded(c, o)
             m == Schedule(c, o)
  <1>1. /\ c \in Nat /\ PUs \subseteq Nat /\ NumPU \in Nat /\ PUs = 0 .. NumPU - 1
        /\ o \in Outcomes /\ o.status \in Statuses
        /\ curPU' = m.cur /\ procStatus' = m.status
    BY CtrlAssumption, FieldTypes DEF PUs, Contract, Fetch
  <1>2. /\ st \in [PUs -> Statuses] /\ st[c] = o.status
        /\ \A j \in PUs : j # c /\ j # c + 1 => st[j] = procStatus[j]
        /\ c + 1 \in PUs =>
             st[c + 1] = IF o.reported > 0 THEN "BUSY" ELSE procStatus[c + 1]
    BY <1>1, RecordedProperties
  <1>3. /\ \A j \in PUs : j > c + 1 => Quiet(j)'
        /\ c + 1 \in PUs /\ st[c + 1] # "BUSY" /\ o.status # "OUT_FULL" => Quiet(c + 1)'
        /\ o.status = "IDLE" => Quiet(c)'
        /\ \A j \in PUs : 0 < j /\ j < c /\ st[j] = "IDLE" => Quiet(j)'
    <2> HIDE DEF m
    <2>1. st = Recorded(c, o)
      OBVIOUS
    <2> HIDE DEF st
    <2>2. QED BY <2>1, FetchQuiet
  <1>4. resets = 0 => /\ \A j \in PUs : j > c + 1 => st[j] = "IDLE"
                      /\ c + 1 \in PUs => st[c + 1] \in {"IDLE", "BUSY"}
    <2> HIDE DEF st, m
    <2>1. HAVE resets = 0
    <2>2. \A j \in c + 1 .. NumPU - 1 :
            procStatus[j] = "IDLE" \/ (j = c + 1 /\ procStatus[j] = "BUSY")
      BY <2>1 DEF BelowIdleUntilReset, BelowIdle
    <2>3. \A j \in PUs : j > c + 1 => st[j] = "IDLE"
      BY <1>1, <1>2, <2>2
    <2>4. c + 1 \in PUs => procStatus[c + 1] \in {"IDLE", "BUSY"}
      BY <1>1, <2>2
    <2>5. QED BY <1>1, <1>2, <2>3, <2>4
  <1> DEFINE Goal == /\ curPU' \in PUs /\ procStatus' \in [PUs -> Statuses]
                     /\ WorkTracked' /\ BelowDrained' /\ BelowIdleUntilReset'
                     /\ m.result = "IDLE" => \A j \in PUs : Quiet(j)'
  <1> SUFFICES Goal
    OBVIOUS
  <1>5. CASE /\ o.status \in {"ATOMIC", "ERROR"}
             /\ m.cur = c /\ m.status = st /\ m.result = o.status
    <2> HIDE DEF st, m
    <2>1. curPU' = c /\ procStatus' = st /\ st[c] \in {"ATOMIC", "ERROR"}
      BY <1>1, <1>2, <1>5
    <2>2. WorkTracked'
      BY <1>1, <1>3, <1>5, <2>1 DEF WorkTracked
    <2>3. BelowDrained'
      BY <2>1 DEF BelowDrained
    <2>4. BelowIdleUntilReset'
      BY <1>1, <1>2, <1>4, <2>1 DEF BelowIdleUntilReset, BelowIdle
    <2>5. QED BY <1>2, <1>5, <2>1, <2>2, <2>3, <2>4
  <1>6. CASE /\ o.status \in {"BUSY", "IDLE"} /\ c + 1 \in PUs /\ st[c + 1] = "BUSY"
             /\ m.cur = c + 1 /\ m.status = st /\ m.result = "BUSY"
    <2> HIDE DEF st, m
    <2>1. curPU' = c + 1 /\ procStatus' = st
      BY <1>1, <1>6
    <2>2. WorkTracked'
      BY <1>1, <1>2, <1>3, <1>6, <2>1 DEF WorkTracked
    <2>3. BelowDrained'
      BY <1>1, <1>3, <2>1 DEF BelowDrained
    <2>4. BelowIdleUntilReset'
      BY <1>1, <1>2, <1>4, <2>1 DEF BelowIdleUntilReset, BelowIdle
    <2>5. QED BY <1>2, <1>6, <2>1, <2>2, <2>3, <2>4
  <1>7. CASE /\ o.status = "BUSY" /\ (c + 1 \in PUs => st[c + 1] # "BUSY")
             /\ m.cur = c /\ m.status = st /\ m.result = "BUSY"
    <2> HIDE DEF st, m
    <2>1. curPU' = c /\ procStatus' = st
      BY <1>1, <1>7
    <2>2. WorkTracked'
      BY <1>1, <1>3, <1>7, <2>1 DEF WorkTracked
    <2>3. BelowDrained'
      BY <1>1, <1>3, <1>7, <2>1 DEF BelowDrained
    <2>4. BelowIdleUntilReset'
      BY <1>1, <1>2, <1>4, <2>1 DEF BelowIdleUntilReset, BelowIdle
    <2>5. QED BY <1>2, <1>7, <2>1, <2>2, <2>3, <2>4
  <1>8. CASE /\ o.status = "IDLE" /\ (c + 1 \in PUs => st[c + 1] # "BUSY")
             /\ c = 0 /\ m.cur = 0 /\ m.status = st /\ m.result = "IDLE"
    <2> HIDE DEF st, m
    <2>1. curPU' = c /\ procStatus' = st
      BY <1>1, <1>8
    <2>2. \A j \in PUs : Quiet(j)'
      BY <1>1, <1>3, <1>8
    <2>3. WorkTracked' /\ BelowDrained'
      BY <1>1, <2>1, <2>2 DEF WorkTracked, BelowDrained
    <2>4. BelowIdleUntilReset'
      BY <1>1, <1>2, <1>4, <2>1 DEF BelowIdleUntilReset, BelowIdle
    <2>5. QED BY <1>2, <2>1, <2>2, <2>3, <2>4
  <1>9. CASE /\ o.status = "IDLE" /\ (c + 1 \in PUs => st[c + 1] # "BUSY")
             /\ c # 0 /\ m.cur = NonIdleAbove(c, st)
             /\ m.status = [st EXCEPT ![NonIdleAbove(c, st)] = "BUSY"]
             /\ m.result = "BUSY"
    <2> HIDE DEF st, m
    <2> DEFINE k == NonIdleAbove(c, st)
    <2>1. /\ k \in 0 .. c /\ (k = 0 \/ st[k] # "IDLE")
          /\ \A j \in k + 1 .. c : st[j] = "IDLE"
      BY <1>1, NonIdleAboveProperties
    <2>2. curPU' = k /\ procStatus' = [st EXCEPT ![k] = "BUSY"]
      BY <1>1, <1>9
    <2> HIDE DEF k
    <2>3. k \in PUs /\ k \in Nat
      BY <1>1, <2>1
    <2>4. \A j \in PUs : j > k => Quiet(j)'
      BY <1>1, <1>2, <1>3, <1>9, <2>1, <2>3
    <2>5. \A j \in PUs : 0 < j /\ j < k /\ procStatus'[j] = "IDLE" => Quiet(j)'
      BY <1>1, <1>2, <1>3, <2>1, <2>2, <2>3
    <2>6. WorkTracked' /\ BelowDrained'
      BY <1>1, <2>2, <2>3, <2>4, <2>5 DEF WorkTracked, BelowDrained
    <2>7. BelowIdleUntilReset'
      BY <1>1, <1>2, <1>4, <1>9, <2>1, <2>2, <2>3 DEF BelowIdleUntilReset, BelowIdle
    <2>8. procStatus' \in [PUs -> Statuses]
      BY <1>2, <2>2 DEF Statuses
    <2>9. QED BY <1>9, <2>2, <2>3, <2>6, <2>7, <2>8
  <1>10. CASE /\ o.status = "OUT_FULL" /\ c + 1 \in PUs
              /\ m.cur = c + 1 /\ m.status = [st EXCEPT ![c + 1] = "BUSY"]
              /\ m.result = "BUSY"
    <2> HIDE DEF st, m
    <2>1. curPU' = c + 1 /\ procStatus' = [st EXCEPT ![c + 1] = "BUSY"]
      BY <1>1, <1>10
    <2>2. \A j \in PUs : 0 < j /\ j < c + 1 /\ procStatus'[j] = "IDLE" => Quiet(j)'
      BY <1>1, <1>2, <1>3, <1>10, <2>1
    <2>3. \A j \in PUs : j > c + 1 => Quiet(j)'
      BY <1>3
    <2>4. WorkTracked' /\ BelowDrained'
      BY <1>1, <2>1, <2>2, <2>3 DEF WorkTracked, BelowDrained
    <2>5. BelowIdleUntilReset'
      BY <1>1, <1>2, <1>4, <2>1 DEF BelowIdleUntilReset, BelowIdle
    <2>6. procStatus' \in [PUs -> Statuses]
      BY <1>2, <2>1 DEF Statuses
    <2>7. QED BY <1>10, <2>1, <2>4, <2>5, <2>6
  <1>11. CASE /\ o.status = "OUT_FULL" /\ c + 1 \notin PUs
              /\ m.cur = c /\ m.status = st /\ m.result = "OUT_FULL"
    <2> HIDE DEF st, m
    <2>1. curPU' = c /\ procStatus' = st
      BY <1>1, <1>11
    <2>2. \A j \in PUs : j <= c
      BY <1>1, <1>11
    <2>3. WorkTracked' /\ BelowDrained'
      BY <1>1, <1>2, <1>3, <1>11, <2>1, <2>2 DEF WorkTracked, BelowDrained
    <2>4. BelowIdleUntilReset'
      BY <1>1, <1>2, <1>4, <2>1, <2>2 DEF BelowIdleUntilReset, BelowIdle
    <2>5. QED BY <1>2, <1>11, <2>1, <2>3, <2>4
  <1>12. ScheduleCase(c, o, st, m)
    BY <1>1, ScheduleCases
  <1> HIDE DEF st, m, Goal
  <1>13. QED
    BY <1>5, <1>6, <1>7, <1>8, <1>9, <1>10, <1>11, <1>12 DEF ScheduleCase

-----------------------------------------------------------------------------
(* The invariance proofs. *)

LEMMA InitInvariant == Init => IInv
  <1> SUFFICES ASSUME Init PROVE IInv
    OBVIOUS
  <1>1. /\ NumPU \in Nat \ {0} /\ 0 \in PUs
        /\ <<>> \in Seq(Item) /\ Len(<<>>) = 0
    BY CtrlAssumption, EmptySeq DEF PUs
  <1>2. TypeOK
    BY <1>1 DEF Init, TypeOK, Statuses, Phases, Answers
  <1>3. \A j \in PUs : Quiet(j)
    BY <1>1, EmptyHasNoFlush DEF Init, Quiet, PUs
  <1>4. StashInv
    BY <1>1, EmptyHasNoFlush DEF Init, StashInv, StashOK
  <1>5. WorkTracked /\ BelowDrained
    BY <1>1, <1>3 DEF WorkTracked, BelowDrained, Init, PUs
  <1>6. BelowIdleUntilReset /\ IdleSound
    BY <1>1 DEF BelowIdleUntilReset, BelowIdle, IdleSound, Init, PUs
  <1>7. QED BY <1>2, <1>4, <1>5, <1>6 DEF IInv

LEMMA FetchInvariant ==
  ASSUME IInv, NEW o \in StepOf(curPU), NEW fits \in BOOLEAN, Fetch(curPU, o, fits),
         fed' = fed, resets' = resets, errors' \in Nat, outOfMemory' \in BOOLEAN
  PROVE  IInv'
  <1>1. /\ TypeOK /\ StashInv /\ WorkTracked /\ BelowIdleUntilReset
        /\ curPU \in PUs
    BY DEF IInv, TypeOK
  <1>2. Contract(curPU, o)
    BY <1>1, StepContract
  <1>3. /\ curPU' \in PUs /\ procStatus' \in [PUs -> Statuses]
        /\ WorkTracked' /\ BelowDrained' /\ BelowIdleUntilReset'
        /\ Schedule(curPU, o).result = "IDLE" => \A j \in PUs : Quiet(j)'
    BY <1>1, <1>2, FetchTracked
  <1>4. /\ cb' \in [0 .. NumPU -> Seq(Item)]
        /\ stash' \in [PUs -> Seq(Item)] /\ phase' \in [PUs -> Phases]
        /\ \A j \in PUs : /\ phase'[j] = IF j = curPU THEN o.phase ELSE phase[j]
                          /\ stash'[j] = IF j = curPU THEN o.stash ELSE stash[j]
        /\ answer' = "IDLE" =>
             /\ Schedule(curPU, o).result = "IDLE"
             /\ cb'[NumPU] = <<>>
        /\ answer' \in Answers
    BY <1>1, <1>2, FetchBuffers
  <1>10. spent' \in [PUs -> Nat]
    BY <1>1 DEF Fetch, TypeOK
  <1>5. TypeOK'
    BY <1>1, <1>3, <1>4, <1>10 DEF TypeOK
  <1>6. ASSUME NEW j \in PUs PROVE StashOK(j, phase'[j], stash'[j])
    <2>1. CASE j = curPU
      BY <1>2, <1>4, <2>1 DEF Contract
    <2>2. CASE j # curPU
      BY <1>1, <1>4, <2>2 DEF StashInv
    <2>3. QED BY <2>1, <2>2
  <1>7. StashInv'
    BY <1>6 DEF StashInv, StashOK
  <1>8. IdleSound'
    BY <1>3, <1>4 DEF IdleSound
  <1>9. QED BY <1>3, <1>5, <1>7, <1>8 DEF IInv

LEMMA NextInvariant == IInv /\ [Next]_vars => IInv'
  <1> SUFFICES ASSUME IInv, [Next]_vars PROVE IInv'
    OBVIOUS
  <1>1. /\ TypeOK /\ StashInv /\ WorkTracked /\ BelowIdleUntilReset /\ BelowDrained
        /\ IdleSound /\ NumPU \in Nat \ {0} /\ PUs = 0 .. NumPU - 1
        /\ curPU \in PUs
    BY CtrlAssumption DEF IInv, TypeOK, PUs
  <1>2. ASSUME NEW fits \in BOOLEAN, GetData(fits) PROVE IInv'
    <2>1. PICK o \in StepOf(curPU) : Fetch(curPU, o, fits)
      BY <1>2 DEF GetData, StepOf
    <2>2. fed' = fed /\ resets' = resets /\ errors' \in Nat /\ outOfMemory' \in BOOLEAN
      BY <1>1, <1>2 DEF GetData, TypeOK
    <2>3. QED BY <2>1, <2>2, FetchInvariant
  <1>3. CASE GetDataFails
    <2>1. PICK o \in StepOf(curPU) : Fetch(curPU, o, TRUE)
      BY <1>3 DEF GetDataFails, StepOf
    <2>2. fed' = fed /\ resets' = resets /\ errors' \in Nat /\ outOfMemory' \in BOOLEAN
      BY <1>1, <1>3 DEF GetDataFails, TypeOK
    <2>3. QED BY <2>1, <2>2, FetchInvariant
  <1>8. ASSUME NEW fits \in BOOLEAN, RunsOutOfMemory(fits) PROVE IInv'
    <2>1. PICK o \in StepOf(curPU) : Fetch(curPU, o, fits)
      BY <1>8 DEF RunsOutOfMemory, StepOf
    <2>2. fed' = fed /\ resets' = resets /\ errors' \in Nat /\ outOfMemory' \in BOOLEAN
      BY <1>1, <1>8 DEF RunsOutOfMemory, TypeOK
    <2>3. QED BY <2>1, <2>2, FetchInvariant
  <1>4. ASSUME NEW ty \in Types, FeedText(ty) PROVE IInv'
    <2>1. /\ cb' = [cb EXCEPT ![0] = Append(@, [n |-> fed + 1, type |-> ty])]
          /\ fed' = fed + 1 /\ answer' = "NONE"
          /\ UNCHANGED <<curPU, procStatus, stash, phase, spent, outOfMemory, resets, errors>>
      BY <1>4 DEF FeedText
    <2>2. [n |-> fed + 1, type |-> ty] \in Item
      BY <1>1 DEF TypeOK, Item
    <2>3. Append(cb[0], [n |-> fed + 1, type |-> ty]) \in Seq(Item)
      BY <1>1, <2>2, AppendProperties DEF TypeOK
    <2>4. /\ cb' \in [0 .. NumPU -> Seq(Item)]
          /\ \A j \in PUs : j # 0 => cb'[j] = cb[j]
      BY <1>1, <2>1, <2>3 DEF TypeOK
    <2>5. TypeOK'
      BY <1>1, <2>1, <2>4 DEF TypeOK, Answers
    <2>6. StashInv' /\ BelowIdleUntilReset' /\ IdleSound'
      BY <1>1, <2>1 DEF StashInv, BelowIdleUntilReset, BelowIdle, IdleSound
    <2>7. \A j \in PUs : j # 0 /\ Quiet(j) => Quiet(j)'
      BY <2>1, <2>4 DEF Quiet
    <2>8. WorkTracked'
      BY <1>1, <2>1, <2>7 DEF WorkTracked
    <2>9. BelowDrained'
      BY <1>1, <2>1, <2>7 DEF BelowDrained
    <2>10. QED BY <2>5, <2>6, <2>8, <2>9 DEF IInv
  <1>5. CASE EngReset
    <2>1. /\ curPU' = 0 /\ cb' = [j \in 0 .. NumPU |-> <<>>]
          /\ stash' = [j \in PUs |-> <<>>] /\ phase' = [j \in PUs |-> "collect"]
          /\ spent' = [j \in PUs |-> 0] /\ outOfMemory' = FALSE
          /\ resets' = resets + 1 /\ fed' = 0 /\ answer' = "NONE"
          /\ UNCHANGED <<procStatus, errors>>
      BY <1>5 DEF EngReset
    <2>2. <<>> \in Seq(Item) /\ Len(<<>>) = 0
      BY EmptySeq
    <2>9. /\ spent' \in [PUs -> Nat] /\ outOfMemory' \in BOOLEAN
          /\ cb' \in [0 .. NumPU -> Seq(Item)] /\ stash' \in [PUs -> Seq(Item)]
          /\ phase' \in [PUs -> Phases]
      BY <2>1, <2>2 DEF Phases
    <2>3. TypeOK'
      <3>1. /\ curPU' \in PUs /\ procStatus' \in [PUs -> Statuses] /\ answer' \in Answers
            /\ fed' \in Nat /\ resets' \in Nat /\ errors' \in Nat
        BY <1>1, <2>1 DEF TypeOK, Answers
      <3>2. QED BY ONLY <2>9, <3>1 DEF TypeOK
    <2>4. \A j \in PUs : Quiet(j)'
      BY <1>1, <2>1, EmptyHasNoFlush DEF Quiet
    <2>5. StashInv'
      BY <2>1, <2>2, EmptyHasNoFlush DEF StashInv, StashOK
    <2>6. WorkTracked' /\ BelowDrained'
      BY <1>1, <2>1, <2>4 DEF WorkTracked, BelowDrained
    <2>7. BelowIdleUntilReset' /\ IdleSound'
      BY <1>1, <2>1 DEF BelowIdleUntilReset, IdleSound, TypeOK
    <2>8. QED BY <2>3, <2>5, <2>6, <2>7 DEF IInv
  <1>6. CASE UNCHANGED vars
    BY <1>1, <1>6 DEF vars, IInv, TypeOK, StashInv, WorkTracked, BelowIdleUntilReset,
                      BelowIdle, BelowDrained, IdleSound, Quiet
  <1>7. QED BY <1>2, <1>3, <1>4, <1>5, <1>6, <1>8 DEF Next

LEMMA Invariance == Spec => []IInv
  BY InitInvariant, NextInvariant, PTL DEF Spec

(* The variables keep their types, whatever the PUs do. *)
THEOREM TypeCorrect == Spec => []TypeOK
  BY Invariance, PTL DEF IInv

(***************************************************************************)
(* pico_getData answers IDLE only when every char buffer is empty and no   *)
(* PU holds a flush (ctrlStep, picoctrl_engFetchOutputItemBytes).          *)
(***************************************************************************)
THEOREM IdleIsSound == Spec => []IdleSound
  BY Invariance, PTL DEF IInv

(***************************************************************************)
(* ctrlStep always knows where the work is: it never goes past, or leaves  *)
(* behind as IDLE, a PU that has something to do.                          *)
(***************************************************************************)
THEOREM ControlTracksWork == Spec => []WorkTracked
  BY Invariance, PTL DEF IInv

(***************************************************************************)
(* A PU that is not in the middle of an ATOMIC sequence is stepped by      *)
(* ctrlStep only when all the PUs after it are drained.                    *)
(***************************************************************************)
THEOREM SteppedWhenDrained == Spec => []BelowDrained
  BY Invariance, PTL DEF IInv

(***************************************************************************)
(* The rule at the head of ctrlStep, "the PUs after curPU are idle but     *)
(* possibly the next", holds in every engine that was never reset.         *)
(***************************************************************************)
THEOREM HeadRule == Spec => []BelowIdleUntilReset
  BY Invariance, PTL DEF IInv

(***************************************************************************)
(* The three together: what ctrlStep's choice of the next PU relies on.    *)
(***************************************************************************)
THEOREM ControlIsSound == Spec => []ControlSound
<1>1. BelowIdleUntilReset /\ BelowDrained /\ WorkTracked => ControlSound
  BY DEF ControlSound
<1> QED BY <1>1, HeadRule, SteppedWhenDrained, ControlTracksWork, PTL
-----------------------------------------------------------------------------
(***************************************************************************)
(* The chain as one queue.                                                 *)
(***************************************************************************)

\* s without the item at k.
LEMMA RemoveProperties ==
  ASSUME NEW S, NEW s \in Seq(S), NEW k \in 1 .. Len(s)
  PROVE  /\ RemoveAt(s, k) \in Seq(S) /\ Len(RemoveAt(s, k)) = Len(s) - 1
         /\ \A i \in 1 .. Len(s) - 1 : RemoveAt(s, k)[i] = IF i < k THEN s[i] ELSE s[i + 1]
<1>1. Len(s) \in Nat /\ k \in Nat \ {0} /\ k <= Len(s) BY LenProperties
<1> DEFINE a == SubSeq(s, 1, k - 1)
           b == SubSeq(s, k + 1, Len(s))
<1>2. /\ a \in Seq(S) /\ Len(a) = k - 1
      /\ \A i \in 1 .. k - 1 : a[i] = s[i]
  <2>1. \A i \in 1 .. k - 1 : s[i] \in S BY <1>1, ElementOfSeq
  <2>2. /\ a \in Seq(S) /\ Len(a) = IF 1 <= k - 1 THEN (k - 1) - 1 + 1 ELSE 0
        /\ \A i \in 1 .. (k - 1) - 1 + 1 : a[i] = s[1 + i - 1]
    BY <1>1, <2>1, SubSeqProperties
  <2> HIDE DEF a
  <2> QED BY <1>1, <2>2
<1>3. /\ b \in Seq(S) /\ Len(b) = Len(s) - k
      /\ \A i \in 1 .. Len(s) - k : b[i] = s[k + i]
  <2>1. \A i \in k + 1 .. Len(s) : s[i] \in S BY <1>1, ElementOfSeq
  <2>2. /\ b \in Seq(S) /\ Len(b) = IF k + 1 <= Len(s) THEN Len(s) - (k + 1) + 1 ELSE 0
        /\ \A i \in 1 .. Len(s) - (k + 1) + 1 : b[i] = s[(k + 1) + i - 1]
    BY <1>1, <2>1, SubSeqProperties
  <2> HIDE DEF b
  <2> QED BY <1>1, <2>2
<1>4. RemoveAt(s, k) = a \o b BY DEF RemoveAt
<1> HIDE DEF a, b
<1>5. /\ a \o b \in Seq(S) /\ Len(a \o b) = Len(s) - 1
      /\ \A i \in 1 .. Len(s) - 1 : (a \o b)[i] = IF i <= k - 1 THEN a[i] ELSE b[i - (k - 1)]
  <2>1. /\ a \o b \in Seq(S) /\ Len(a \o b) = Len(a) + Len(b)
        /\ \A i \in 1 .. Len(a) + Len(b) : (a \o b)[i] = IF i <= Len(a) THEN a[i] ELSE b[i - Len(a)]
    BY <1>2, <1>3, ConcatProperties
  <2>2. Len(a) + Len(b) = Len(s) - 1 BY <1>1, <1>2, <1>3
  <2> QED BY <1>2, <2>1, <2>2
<1>6. ASSUME NEW i \in 1 .. Len(s) - 1
      PROVE  (a \o b)[i] = IF i < k THEN s[i] ELSE s[i + 1]
  <2>1. CASE i < k
    <3>1. i \in 1 .. k - 1 /\ i <= k - 1 BY <1>1, <2>1
    <3> QED BY <1>2, <1>5, <2>1, <3>1
  <2>2. CASE ~(i < k)
    <3>1. ~(i <= k - 1) /\ i - (k - 1) \in 1 .. Len(s) - k /\ k + (i - (k - 1)) = i + 1 BY <1>1, <2>2
    <3> QED BY <1>3, <1>5, <2>2, <3>1
  <2> QED BY <2>1, <2>2
<1> QED BY <1>4, <1>5, <1>6

\* An item is removed from a queue where it is removed from one of its parts.
LEMMA RemoveBehind ==
  ASSUME NEW S, NEW a \in Seq(S), NEW v \in Seq(S), NEW k \in 1 .. Len(v)
  PROVE  /\ Len(a) + k \in 1 .. Len(a \o v) /\ (a \o v)[Len(a) + k] = v[k]
         /\ a \o RemoveAt(v, k) = RemoveAt(a \o v, Len(a) + k)
<1> PICK m, n : m = Len(a) /\ n = Len(v) OBVIOUS
<1>1. m \in Nat /\ n \in Nat /\ k \in Nat \ {0} /\ k <= n BY LenProperties
<1>2. /\ a \o v \in Seq(S) /\ Len(a \o v) = m + n
      /\ \A i \in 1 .. m + n : (a \o v)[i] = IF i <= m THEN a[i] ELSE v[i - m]
  BY ConcatProperties
<1>3. m + k \in 1 .. m + n /\ ~(m + k <= m) /\ (m + k) - m = k BY <1>1
<1>4. /\ RemoveAt(v, k) \in Seq(S) /\ Len(RemoveAt(v, k)) = n - 1
      /\ \A i \in 1 .. n - 1 : RemoveAt(v, k)[i] = IF i < k THEN v[i] ELSE v[i + 1]
  BY RemoveProperties
<1> PICK r : r = RemoveAt(v, k) OBVIOUS
<1>5. /\ a \o r \in Seq(S) /\ Len(a \o r) = m + (n - 1)
      /\ \A i \in 1 .. m + (n - 1) : (a \o r)[i] = IF i <= m THEN a[i] ELSE r[i - m]
  <2>1. r \in Seq(S) BY <1>4
  <2>2. /\ a \o r \in Seq(S) /\ Len(a \o r) = Len(a) + Len(r)
        /\ \A i \in 1 .. Len(a) + Len(r) : (a \o r)[i] = IF i <= Len(a) THEN a[i] ELSE r[i - Len(a)]
    BY <2>1, ConcatProperties
  <2>3. Len(a) = m /\ Len(r) = n - 1 BY <1>4
  <2> QED BY <2>2, <2>3
<1> PICK w : w = a \o v OBVIOUS
<1>6. /\ RemoveAt(w, m + k) \in Seq(S) /\ Len(RemoveAt(w, m + k)) = m + n - 1
      /\ \A i \in 1 .. m + n - 1 : RemoveAt(w, m + k)[i] = IF i < m + k THEN w[i] ELSE w[i + 1]
  <2>1. w \in Seq(S) BY <1>2
  <2>2. Len(w) = m + n BY <1>2
  <2> PICK l \in 1 .. Len(w) : l = m + k BY <1>3, <2>2
  <2>3. l \in 1 .. Len(w) OBVIOUS
  <2>4. /\ RemoveAt(w, l) \in Seq(S) /\ Len(RemoveAt(w, l)) = Len(w) - 1
        /\ \A i \in 1 .. Len(w) - 1 : RemoveAt(w, l)[i] = IF i < l THEN w[i] ELSE w[i + 1]
    BY ONLY <2>1, <2>3, RemoveProperties
  <2> PICK z : z = RemoveAt(w, l) OBVIOUS
  <2>5. z \in Seq(S) /\ Len(z) = Len(w) - 1 BY <2>4
  <2>6. \A i \in 1 .. Len(w) - 1 : z[i] = IF i < l THEN w[i] ELSE w[i + 1] BY <2>4
  <2>7. RemoveAt(w, m + k) = z /\ l = m + k OBVIOUS
  <2> QED BY ONLY <1>1, <2>2, <2>5, <2>6, <2>7
<1>7. ASSUME NEW i \in 1 .. m + (n - 1) PROVE (a \o r)[i] = RemoveAt(w, m + k)[i]
  <2>1. i \in 1 .. m + n /\ i \in 1 .. m + n - 1 /\ i + 1 \in 1 .. m + n BY <1>1
  <2>2. CASE i <= m
    <3>1. i < m + k BY <1>1, <2>2
    <3>2. w[i] = a[i] BY <1>2, <2>1, <2>2
    <3> QED BY <1>5, <1>6, <2>1, <2>2, <3>1, <3>2
  <2>3. CASE ~(i <= m)
    <3>1. i - m \in 1 .. n - 1 /\ (i < m + k <=> i - m < k) /\ ~(i + 1 <= m) /\ (i + 1) - m = (i - m) + 1
      BY <1>1, <2>3
    <3>2. (a \o r)[i] = IF i - m < k THEN v[i - m] ELSE v[(i - m) + 1] BY <1>4, <1>5, <2>3, <3>1
    <3>3. w[i] = v[i - m] /\ w[i + 1] = v[(i - m) + 1] BY <1>2, <2>1, <2>3, <3>1
    <3> QED BY <1>6, <2>1, <3>1, <3>2, <3>3
  <2> QED BY <2>2, <2>3
<1>8. m + (n - 1) = m + n - 1 BY <1>1
<1>9. a \o r = RemoveAt(w, m + k) BY <1>5, <1>6, <1>7, <1>8, SeqEqual
<1> QED BY <1>2, <1>3, <1>9

LEMMA RemoveBefore ==
  ASSUME NEW S, NEW v \in Seq(S), NEW b \in Seq(S), NEW k \in 1 .. Len(v)
  PROVE  /\ k \in 1 .. Len(v \o b) /\ (v \o b)[k] = v[k]
         /\ RemoveAt(v, k) \o b = RemoveAt(v \o b, k)
<1> PICK m, n : m = Len(b) /\ n = Len(v) OBVIOUS
<1>1. m \in Nat /\ n \in Nat /\ k \in Nat \ {0} /\ k <= n BY LenProperties
<1>2. /\ v \o b \in Seq(S) /\ Len(v \o b) = n + m
      /\ \A i \in 1 .. n + m : (v \o b)[i] = IF i <= n THEN v[i] ELSE b[i - n]
  BY ConcatProperties
<1>3. k \in 1 .. n + m BY <1>1
<1>4. /\ RemoveAt(v, k) \in Seq(S) /\ Len(RemoveAt(v, k)) = n - 1
      /\ \A i \in 1 .. n - 1 : RemoveAt(v, k)[i] = IF i < k THEN v[i] ELSE v[i + 1]
  BY RemoveProperties
<1> PICK r : r = RemoveAt(v, k) OBVIOUS
<1>5. /\ r \o b \in Seq(S) /\ Len(r \o b) = (n - 1) + m
      /\ \A i \in 1 .. (n - 1) + m : (r \o b)[i] = IF i <= n - 1 THEN r[i] ELSE b[i - (n - 1)]
  <2>1. r \in Seq(S) BY <1>4
  <2>2. /\ r \o b \in Seq(S) /\ Len(r \o b) = Len(r) + Len(b)
        /\ \A i \in 1 .. Len(r) + Len(b) : (r \o b)[i] = IF i <= Len(r) THEN r[i] ELSE b[i - Len(r)]
    BY <2>1, ConcatProperties
  <2>3. Len(b) = m /\ Len(r) = n - 1 BY <1>4
  <2> QED BY <2>2, <2>3
<1> PICK w : w = v \o b OBVIOUS
<1>6. /\ RemoveAt(w, k) \in Seq(S) /\ Len(RemoveAt(w, k)) = n + m - 1
      /\ \A i \in 1 .. n + m - 1 : RemoveAt(w, k)[i] = IF i < k THEN w[i] ELSE w[i + 1]
  <2>1. w \in Seq(S) BY <1>2
  <2>2. Len(w) = n + m BY <1>2
  <2> PICK l \in 1 .. Len(w) : l = k BY <1>3, <2>2
  <2>3. l \in 1 .. Len(w) OBVIOUS
  <2>4. /\ RemoveAt(w, l) \in Seq(S) /\ Len(RemoveAt(w, l)) = Len(w) - 1
        /\ \A i \in 1 .. Len(w) - 1 : RemoveAt(w, l)[i] = IF i < l THEN w[i] ELSE w[i + 1]
    BY ONLY <2>1, <2>3, RemoveProperties
  <2> PICK z : z = RemoveAt(w, l) OBVIOUS
  <2>5. z \in Seq(S) /\ Len(z) = Len(w) - 1 BY <2>4
  <2>6. \A i \in 1 .. Len(w) - 1 : z[i] = IF i < l THEN w[i] ELSE w[i + 1] BY <2>4
  <2>7. RemoveAt(w, k) = z /\ l = k OBVIOUS
  <2> QED BY ONLY <1>1, <2>2, <2>5, <2>6, <2>7
<1>7. ASSUME NEW i \in 1 .. (n - 1) + m PROVE (r \o b)[i] = RemoveAt(w, k)[i]
  <2>1. i \in 1 .. n + m /\ i \in 1 .. n + m - 1 /\ i + 1 \in 1 .. n + m BY <1>1
  <2>2. CASE i <= n - 1
    <3>1. i \in 1 .. n - 1 /\ i <= n /\ i + 1 <= n BY <1>1, <2>2
    <3>2. w[i] = v[i] /\ w[i + 1] = v[i + 1] BY <1>2, <2>1, <3>1
    <3> QED BY <1>4, <1>5, <1>6, <2>1, <2>2, <3>1, <3>2
  <2>3. CASE ~(i <= n - 1)
    <3>1. ~(i < k) /\ ~(i + 1 <= n) /\ (i + 1) - n = i - (n - 1) BY <1>1, <2>3
    <3>2. w[i + 1] = b[i - (n - 1)] BY <1>2, <2>1, <3>1
    <3> QED BY <1>5, <1>6, <2>1, <2>3, <3>1, <3>2
  <2> QED BY <2>2, <2>3
<1>8. (n - 1) + m = n + m - 1 BY <1>1
<1>9. r \o b = RemoveAt(w, k) BY <1>5, <1>6, <1>7, <1>8, SeqEqual
<1>10. (v \o b)[k] = v[k] BY <1>1, <1>2, <1>3
<1> QED BY <1>2, <1>3, <1>9, <1>10

LEMMA ThinnedIs ==
  ASSUME NEW s, NEW T
  PROVE  Pipe!Thinned(s, T) = {s} \cup {RemoveAt(s, k) : k \in {j \in 1 .. Len(s) : s[j].type \in T}}
<1>1. \A k : Pipe!RemoveAt(s, k) = RemoveAt(s, k) BY DEF Pipe!RemoveAt, RemoveAt
<1>2. Pipe!Thinned(s, T)
        = {s} \cup {Pipe!RemoveAt(s, k) : k \in {j \in 1 .. Len(s) : s[j].type \in T}}
  BY DEF Pipe!Thinned
<1> QED BY <1>1, <1>2

\* What is thinned in the middle is thinned.
LEMMA ThinnedInside ==
  ASSUME NEW S, NEW T, NEW a \in Seq(S), NEW v \in Seq(S), NEW b \in Seq(S),
         NEW q \in Pipe!Thinned(v, T)
  PROVE  (a \o q) \o b \in Pipe!Thinned((a \o v) \o b, T)
<1>1. CASE q = v BY <1>1 DEF Pipe!Thinned
<1>2. CASE q # v
  <2>1. PICK k \in {j \in 1 .. Len(v) : v[j].type \in T} : q = RemoveAt(v, k)
    BY <1>2, ThinnedIs
  <2>2. a \o v \in Seq(S) BY ConcatProperties
  <2> PICK w, l : w = a \o v /\ l = Len(a) + k OBVIOUS
  <2>3. w \in Seq(S) /\ l \in 1 .. Len(w) /\ w[l] = v[k] /\ a \o q = RemoveAt(w, l)
    BY <2>1, <2>2, RemoveBehind
  <2>4. l \in 1 .. Len(w \o b) /\ (w \o b)[l] = w[l] /\ RemoveAt(w, l) \o b = RemoveAt(w \o b, l)
    BY <2>3, RemoveBefore
  <2>5. (w \o b)[l].type \in T BY <2>1, <2>3, <2>4
  <2>6. l \in {j \in 1 .. Len(w \o b) : (w \o b)[j].type \in T} BY <2>4, <2>5
  <2>7. RemoveAt(w \o b, l) \in Pipe!Thinned(w \o b, T) BY <2>6, ThinnedIs
  <2> QED BY <2>3, <2>4, <2>7
<1> QED BY <1>1, <1>2

LEMMA SurvivorsIs == ASSUME NEW s PROVE Pipe!Survivors(s) = Survivors(s)
BY DEF Pipe!Survivors, Survivors, Pipe!Rising, Rising

\* What is chosen in its order survives.
LEMMA Survives ==
  ASSUME NEW S, NEW s \in Seq(S), NEW q \in Seq(S), NEW f \in [1 .. Len(q) -> 1 .. Len(s)],
         Len(q) <= Len(s),
         \A i, j \in 1 .. Len(q) : i < j => f[i] < f[j],
         \A i \in 1 .. Len(q) : q[i] = s[f[i]]
  PROVE  q \in Survivors(s)
<1> PICK m : m = Len(q) OBVIOUS
<1>1. m \in 0 .. Len(s) BY LenProperties
<1>2. f \in Rising(m, Len(s)) BY DEF Rising
<1>3. q = [i \in 1 .. m |-> s[f[i]]]
  <2>1. DOMAIN q = 1 .. m BY LenProperties
  <2>2. q = [i \in DOMAIN q |-> q[i]] OBVIOUS
  <2> QED BY <2>1, <2>2
<1> QED BY <1>1, <1>2, <1>3 DEF Survivors

LEMMA AllSurvive ==
  ASSUME NEW S, NEW s \in Seq(S)
  PROVE  s \in Survivors(s)
<1>1. Len(s) \in Nat BY LenProperties
<1> DEFINE f == [i \in 1 .. Len(s) |-> i]
<1>2. /\ f \in [1 .. Len(s) -> 1 .. Len(s)]
      /\ \A i, j \in 1 .. Len(s) : i < j => f[i] < f[j]
      /\ \A i \in 1 .. Len(s) : s[i] = s[f[i]]
  OBVIOUS
<1> HIDE DEF f
<1> QED BY <1>1, <1>2, Survives

\* What survives in the middle survives.
LEMMA SurvivorsInside ==
  ASSUME NEW S, NEW a \in Seq(S), NEW v \in Seq(S), NEW b \in Seq(S), NEW q \in Survivors(v)
  PROVE  (a \o q) \o b \in Survivors((a \o v) \o b)
<1>1. PICK m \in 0 .. Len(v) : \E f \in [1 .. m -> 1 .. Len(v)] :
        /\ \A i, j \in 1 .. m : i < j => f[i] < f[j]
        /\ q \in Seq(S) /\ Len(q) = m
        /\ \A i \in 1 .. m : q[i] = v[f[i]]
  BY SurvivorsAre
<1>2. PICK f \in [1 .. m -> 1 .. Len(v)] :
        /\ \A i, j \in 1 .. m : i < j => f[i] < f[j]
        /\ q \in Seq(S) /\ Len(q) = m
        /\ \A i \in 1 .. m : q[i] = v[f[i]]
  BY <1>1
<1> PICK x, y, z : x = Len(a) /\ y = Len(v) /\ z = Len(b) OBVIOUS
<1>3. x \in Nat /\ y \in Nat /\ z \in Nat /\ m \in Nat /\ m <= y BY <1>1, LenProperties
<1>4. /\ a \o v \in Seq(S) /\ Len(a \o v) = x + y
      /\ \A i \in 1 .. x + y : (a \o v)[i] = IF i <= x THEN a[i] ELSE v[i - x]
  BY ConcatProperties
<1>5. /\ a \o q \in Seq(S) /\ Len(a \o q) = x + m
      /\ \A i \in 1 .. x + m : (a \o q)[i] = IF i <= x THEN a[i] ELSE q[i - x]
  BY <1>2, ConcatProperties
<1> PICK u, w : u = a \o v /\ w = a \o q OBVIOUS
<1>6. /\ u \o b \in Seq(S) /\ Len(u \o b) = (x + y) + z
      /\ \A i \in 1 .. (x + y) + z : (u \o b)[i] = IF i <= x + y THEN u[i] ELSE b[i - (x + y)]
  <2>1. u \in Seq(S) /\ Len(u) = x + y BY <1>4
  <2> QED BY <2>1, ConcatProperties
<1>7. /\ w \o b \in Seq(S) /\ Len(w \o b) = (x + m) + z
      /\ \A i \in 1 .. (x + m) + z : (w \o b)[i] = IF i <= x + m THEN w[i] ELSE b[i - (x + m)]
  <2>1. w \in Seq(S) /\ Len(w) = x + m BY <1>5
  <2>2. /\ w \o b \in Seq(S) /\ Len(w \o b) = Len(w) + Len(b)
        /\ \A i \in 1 .. Len(w) + Len(b) :
             (w \o b)[i] = IF i <= Len(w) THEN w[i] ELSE b[i - Len(w)]
    BY ONLY <2>1, b \in Seq(S), ConcatProperties
  <2> QED BY ONLY <2>1, <2>2, z = Len(b)
<1> PICK s, t : s = u \o b /\ t = w \o b OBVIOUS
<1> DEFINE g == [i \in 1 .. (x + m) + z |->
                   IF i <= x THEN i ELSE IF i <= x + m THEN x + f[i - x] ELSE i + (y - m)]
<1>8. ASSUME NEW i \in 1 .. (x + m) + z
      PROVE  /\ i <= x => g[i] = i
             /\ i > x /\ i <= x + m => i - x \in 1 .. m /\ f[i - x] \in 1 .. y /\ g[i] = x + f[i - x]
             /\ i > x + m => g[i] = i + (y - m)
  <2>1. i > x /\ i <= x + m => i - x \in 1 .. m BY <1>3
  <2>2. i > x /\ i <= x + m => f[i - x] \in 1 .. y BY <2>1
  <2>3. (i > x + m => ~(i <= x + m) /\ ~(i <= x)) /\ (i > x => ~(i <= x)) BY <1>3
  <2> QED BY <2>1, <2>2, <2>3
<1>9. g \in [1 .. (x + m) + z -> 1 .. (x + y) + z]
  <2>1. DOMAIN g = 1 .. (x + m) + z OBVIOUS
  <2>2. g = [i \in 1 .. (x + m) + z |-> g[i]] OBVIOUS
  <2> HIDE DEF g
  <2>3. ASSUME NEW i \in 1 .. (x + m) + z PROVE g[i] \in 1 .. (x + y) + z
    <3>1. CASE i <= x BY <1>3, <1>8, <3>1
    <3>2. CASE i > x /\ i <= x + m
      <4> PICK k : k = f[i - x] OBVIOUS
      <4>1. k \in 1 .. y /\ g[i] = x + k BY <1>8, <3>2
      <4>2. x + k \in 1 .. (x + y) + z BY ONLY <1>3, <4>1
      <4> QED BY <4>1, <4>2
    <3>3. CASE i > x + m
      <4>1. g[i] = i + (y - m) BY <1>8, <3>3
      <4> QED BY <1>3, <3>3, <4>1
    <3> QED BY <1>3, <3>1, <3>2, <3>3
  <2> QED BY <2>2, <2>3
<1>10. ASSUME NEW i \in 1 .. (x + m) + z, NEW j \in 1 .. (x + m) + z, i < j
       PROVE  g[i] < g[j]
  <2> HIDE DEF g
  <2>1. i \in Nat /\ j \in Nat OBVIOUS
  <2>2. CASE j <= x
    <3>1. i <= x BY <1>3, <1>10, <2>1, <2>2
    <3>2. g[i] = i /\ g[j] = j BY <1>8, <2>2, <3>1
    <3> QED BY <1>10, <3>2
  <2>3. CASE j > x /\ j <= x + m
    <3>1. j - x \in 1 .. m /\ f[j - x] \in 1 .. y /\ g[j] = x + f[j - x] BY <1>8, <2>3
    <3>2. CASE i <= x
      <4>1. g[i] = i BY <1>8, <3>2
      <4> QED BY <1>3, <2>1, <3>1, <3>2, <4>1
    <3>3. CASE i > x
      <4>1. i <= x + m BY <1>3, <1>10, <2>1, <2>3
      <4>2. i - x \in 1 .. m /\ f[i - x] \in 1 .. y /\ g[i] = x + f[i - x] BY <1>8, <3>3, <4>1
      <4>3. i - x < j - x BY <1>3, <1>10, <2>1
      <4>4. f[i - x] < f[j - x] BY <1>2, <3>1, <4>2, <4>3
      <4> QED BY <1>3, <3>1, <4>2, <4>4
    <3> QED BY <1>3, <2>1, <3>2, <3>3
  <2>4. CASE j > x + m
    <3>1. g[j] = j + (y - m) BY <1>8, <2>4
    <3>2. CASE i <= x
      <4>1. g[i] = i BY <1>8, <3>2
      <4> QED BY <1>3, <1>10, <2>1, <3>1, <4>1
    <3>3. CASE i > x /\ i <= x + m
      <4>1. f[i - x] \in 1 .. y /\ g[i] = x + f[i - x] BY <1>8, <3>3
      <4> QED BY <1>3, <2>1, <2>4, <3>1, <4>1
    <3>4. CASE i > x + m
      <4>1. g[i] = i + (y - m) BY <1>8, <3>4
      <4> QED BY <1>3, <1>10, <2>1, <3>1, <4>1
    <3> QED BY <1>3, <2>1, <3>2, <3>3, <3>4
  <2> QED BY <1>3, <2>1, <2>2, <2>3, <2>4
<1>11. ASSUME NEW i \in 1 .. (x + m) + z PROVE t[i] = s[g[i]]
  <2> HIDE DEF g
  <2>1. CASE i <= x
    <3>1. g[i] = i BY <1>8, <2>1
    <3>2. i \in 1 .. x + m /\ i \in 1 .. x + y /\ i \in 1 .. (x + y) + z /\ i <= x + m /\ i <= x + y
      BY <1>3, <2>1
    <3>3. t[i] = w[i] /\ w[i] = a[i] BY <1>5, <1>7, <2>1, <3>2
    <3>4. s[i] = u[i] /\ u[i] = a[i] BY <1>4, <1>6, <2>1, <3>2
    <3> QED BY <3>1, <3>3, <3>4
  <2>2. CASE i > x /\ i <= x + m
    <3>1. i - x \in 1 .. m /\ f[i - x] \in 1 .. y /\ g[i] = x + f[i - x] BY <1>8, <2>2
    <3> PICK k : k = f[i - x] OBVIOUS
    <3>2. /\ i \in 1 .. x + m /\ ~(i <= x) /\ x + k \in 1 .. x + y /\ ~(x + k <= x)
          /\ (x + k) - x = k /\ x + k \in 1 .. (x + y) + z /\ x + k <= x + y
      <4>1. k \in 1 .. y BY <3>1
      <4> QED BY ONLY <1>3, <2>2, <4>1, i \in 1 .. (x + m) + z
    <3>3. t[i] = w[i] /\ w[i] = q[i - x] BY <1>5, <1>7, <2>2, <3>2
    <3>4. s[x + k] = u[x + k] /\ u[x + k] = v[k] BY <1>4, <1>6, <3>2
    <3>5. q[i - x] = v[k] BY <1>2, <3>1
    <3> QED BY <3>1, <3>3, <3>4, <3>5
  <2>3. CASE i > x + m
    <3>1. g[i] = i + (y - m) BY <1>8, <2>3
    <3> PICK l : l = i + (y - m) OBVIOUS
    <3>2. ~(i <= x + m) /\ l \in 1 .. (x + y) + z /\ ~(l <= x + y) /\ l - (x + y) = i - (x + m)
      BY <1>3, <2>3
    <3>3. t[i] = b[i - (x + m)] BY <1>7, <3>2
    <3>4. s[l] = b[l - (x + y)] BY <1>6, <3>2
    <3> QED BY <3>1, <3>2, <3>3, <3>4
  <2>4. i <= x \/ (i > x /\ i <= x + m) \/ i > x + m BY ONLY <1>3, i \in 1 .. (x + m) + z
  <2> QED BY <2>1, <2>2, <2>3, <2>4
<1> HIDE DEF g
<1>12. /\ s \in Seq(S) /\ t \in Seq(S) /\ Len(t) = (x + m) + z /\ Len(s) = (x + y) + z
       /\ Len(t) <= Len(s)
  BY <1>3, <1>6, <1>7
<1>13. t \in Survivors(s) BY ONLY <1>9, <1>10, <1>11, <1>12, Survives
<1> QED BY <1>13

\* What the chain holds, part by part, from its output to its input.
PartsOf(b, s) ==
  [k \in 1 .. NumPU + 1 |-> IF k = 1 THEN b[NumPU] ELSE s[NumPU + 1 - k] \o b[NumPU + 1 - k]]

Whole(b, s) == FlattenSeq(PartsOf(b, s))

Buffers == [0 .. NumPU -> Seq(Item)]
Stashes == [PUs -> Seq(Item)]

LEMMA PartsProperties ==
  ASSUME NEW b \in Buffers, NEW s \in Stashes
  PROVE  /\ NumPU + 1 \in Nat \ {0} /\ Len(PartsOf(b, s)) = NumPU + 1
         /\ \A k \in 1 .. NumPU + 1 : PartsOf(b, s)[k] \in Seq(Item)
         /\ PartsOf(b, s)[1] = b[NumPU]
         /\ \A j \in PUs : PartsOf(b, s)[(NumPU + 1) - j] = s[j] \o b[j]
<1>1. NumPU \in Nat \ {0} /\ PUs = 0 .. NumPU - 1 BY CtrlAssumption DEF PUs
<1>2. Len(PartsOf(b, s)) = NumPU + 1 BY <1>1 DEF PartsOf
<1>3. PartsOf(b, s)[1] = b[NumPU] /\ b[NumPU] \in Seq(Item) BY <1>1 DEF PartsOf, Buffers
<1>4. ASSUME NEW j \in PUs
      PROVE  PartsOf(b, s)[(NumPU + 1) - j] = s[j] \o b[j] /\ s[j] \o b[j] \in Seq(Item)
  <2>1. /\ (NumPU + 1) - j \in 1 .. NumPU + 1 /\ (NumPU + 1) - j # 1
        /\ NumPU + 1 - ((NumPU + 1) - j) = j /\ j \in 0 .. NumPU
    BY <1>1
  <2>2. s[j] \in Seq(Item) /\ b[j] \in Seq(Item) BY <2>1 DEF Buffers, Stashes
  <2> QED BY <2>1, <2>2, ConcatProperties DEF PartsOf
<1>5. ASSUME NEW k \in 1 .. NumPU + 1 PROVE PartsOf(b, s)[k] \in Seq(Item)
  <2>1. CASE k = 1 BY <1>3, <2>1
  <2>2. CASE k # 1
    <3>1. (NumPU + 1) - k \in PUs /\ (NumPU + 1) - ((NumPU + 1) - k) = k BY <1>1, <2>2
    <3> PICK j \in PUs : j = (NumPU + 1) - k BY <3>1
    <3> QED BY <1>4, <3>1
  <2> QED BY <2>1, <2>2
<1>6. NumPU + 1 \in Nat \ {0} BY <1>1
<1> HIDE DEF PartsOf
<1> QED BY <1>2, <1>3, <1>4, <1>5, <1>6

\* P has the parts of the chain, and W what the first of them make.
HasParts(P, W, n, b, s) ==
  /\ n = NumPU + 1 /\ Flat(W, P, n, Item) /\ Whole(b, s) = W[n]
  /\ \A k \in 1 .. n : P[k] \in Seq(Item)
  /\ P[1] = b[NumPU]
  /\ \A j \in PUs : P[n - j] = s[j] \o b[j]

LEMMA WholeIs ==
  ASSUME NEW b \in Buffers, NEW s \in Stashes
  PROVE  \E P, W : HasParts(P, W, NumPU + 1, b, s)
<1>1. /\ NumPU + 1 \in Nat \ {0} /\ Len(PartsOf(b, s)) = NumPU + 1
      /\ \A k \in 1 .. NumPU + 1 : PartsOf(b, s)[k] \in Seq(Item)
  BY PartsProperties
<1> PICK P : P = PartsOf(b, s) OBVIOUS
<1> PICK n : n = NumPU + 1 OBVIOUS
<1>2. n \in Nat /\ Len(P) = n /\ Len(P) \in Nat \ {0} /\ \A k \in 1 .. n : P[k] \in Seq(Item)
  BY <1>1
<1>3. PICK W : Flat(W, P, n, Item) BY <1>2, FlatExists
<1>4. Flat(W, P, Len(P), Item) /\ \A k \in 1 .. Len(P) : P[k] \in Seq(Item) BY <1>2, <1>3
<1>5. FlattenSeq(P) = W[Len(P)] BY <1>2, <1>4, FlattenIs
<1>6. Whole(b, s) = W[n] BY <1>2, <1>5 DEF Whole
<1>7. P[1] = b[NumPU] /\ \A j \in PUs : P[n - j] = s[j] \o b[j]
  <2>1. /\ PartsOf(b, s)[1] = b[NumPU]
        /\ \A j \in PUs : PartsOf(b, s)[(NumPU + 1) - j] = s[j] \o b[j]
    BY PartsProperties
  <2> QED BY <2>1
<1>8. HasParts(P, W, n, b, s) BY <1>2, <1>3, <1>6, <1>7 DEF HasParts
<1> QED BY <1>8

LEMMA Regrouped == \A s, t, u \in Seq(Item) : (s \o t) \o u = s \o (t \o u)
BY Regroup

\* One stretch of w, v, has become l.
Becomes(w, v, w2, l) ==
  \E A, B \in Seq(Item) : w = (A \o v) \o B /\ w2 = (A \o l) \o B

\* PU c sends something down, and keeps the rest of what it had and took.
LEMMA WholeMoves ==
  ASSUME NEW b \in Buffers, NEW s \in Stashes, NEW c \in PUs, NEW x \in Seq(Item),
         NEW y \in Seq(Item), NEW sent \in Seq(Item),
         NEW b2, b2 = [b EXCEPT ![c] = x, ![c + 1] = b[c + 1] \o sent],
         NEW s2, s2 = [s EXCEPT ![c] = y]
  PROVE  Becomes(Whole(b, s), s[c] \o b[c], Whole(b2, s2), sent \o (y \o x))
<1>1. /\ NumPU \in Nat \ {0} /\ c \in 0 .. NumPU - 1 /\ PUs = 0 .. NumPU - 1
      /\ c \in 0 .. NumPU /\ c + 1 \in 0 .. NumPU /\ c + 1 # c
  BY CtrlAssumption DEF PUs
<1>2. b[c] \in Seq(Item) /\ b[c + 1] \in Seq(Item) /\ s[c] \in Seq(Item)
  BY <1>1 DEF Buffers, Stashes
<1>3. b[c + 1] \o sent \in Seq(Item) /\ y \o x \in Seq(Item) /\ sent \o (y \o x) \in Seq(Item)
      /\ s[c] \o b[c] \in Seq(Item)
  BY <1>2, ConcatProperties
<1>4. /\ b2 \in Buffers /\ s2 \in Stashes /\ b2[c] = x /\ b2[c + 1] = b[c + 1] \o sent /\ s2[c] = y
      /\ \A j \in 0 .. NumPU : j # c /\ j # c + 1 => b2[j] = b[j]
      /\ \A j \in PUs : j # c => s2[j] = s[j]
  BY <1>1, <1>3 DEF Buffers, Stashes
<1> PICK n, a : n = NumPU + 1 /\ a = NumPU - 1 - c OBVIOUS
<1>20. PICK P, W : HasParts(P, W, n, b, s) BY WholeIs
<1>21. PICK Q, V : HasParts(Q, V, n, b2, s2) BY <1>4, WholeIs
<1>5. /\ Flat(W, P, n, Item) /\ Whole(b, s) = W[n]
      /\ Flat(V, Q, n, Item) /\ Whole(b2, s2) = V[n]
  BY <1>20, <1>21 DEF HasParts
<1>6. /\ n \in Nat /\ a \in 0 .. n /\ a + 1 \in 1 .. n /\ a + 2 \in 1 .. n /\ a + 2 \in 0 .. n
      /\ (a + 1) - 1 = a /\ (a + 2) - 1 = a + 1 /\ a + 2 = n - c
  BY <1>1
<1>7. /\ \A k \in 1 .. n : P[k] \in Seq(Item) /\ Q[k] \in Seq(Item)
      /\ P[1] = b[NumPU] /\ Q[1] = b2[NumPU]
      /\ \A j \in PUs : P[n - j] = s[j] \o b[j] /\ Q[n - j] = s2[j] \o b2[j]
  BY <1>20, <1>21 DEF HasParts
<1>8. P[a + 2] = s[c] \o b[c] /\ Q[a + 2] = y \o x BY <1>4, <1>6, <1>7
<1>9. Q[a + 1] = P[a + 1] \o sent
  <2>1. CASE c + 1 = NumPU
    <3>1. a + 1 = 1 BY <1>1, <2>1
    <3> QED BY <1>4, <1>7, <2>1, <3>1
  <2>2. CASE c + 1 # NumPU
    <3>1. c + 1 \in PUs /\ a + 1 = n - (c + 1) BY <1>1, <2>2
    <3>2. s[c + 1] \in Seq(Item) /\ s2[c + 1] = s[c + 1] BY <1>1, <1>4, <3>1 DEF Stashes
    <3>3. P[a + 1] = s[c + 1] \o b[c + 1] /\ Q[a + 1] = s[c + 1] \o (b[c + 1] \o sent)
      BY <1>4, <1>7, <3>1, <3>2
    <3>4. (s[c + 1] \o b[c + 1]) \o sent = s[c + 1] \o (b[c + 1] \o sent)
      BY <1>2, <3>2, Regrouped
    <3> QED BY <3>3, <3>4
  <2> QED BY <2>1, <2>2
<1>10. ASSUME NEW k \in 1 .. n, k # a + 1, k # a + 2 PROVE P[k] = Q[k]
  <2>1. CASE k = 1
    <3>1. NumPU # c /\ NumPU # c + 1 /\ NumPU \in 0 .. NumPU BY <1>1, <1>10, <2>1
    <3> QED BY <1>4, <1>7, <2>1, <3>1
  <2>2. CASE k # 1
    <3>1. n - k \in PUs /\ n - k \in 0 .. NumPU /\ n - (n - k) = k /\ n - k # c /\ n - k # c + 1
      BY <1>1, <1>10, <2>2
    <3> PICK j \in PUs : j = n - k BY <3>1
    <3>2. s2[j] = s[j] /\ b2[j] = b[j] BY <1>4, <3>1
    <3> QED BY <1>7, <3>1, <3>2
  <2> QED BY <2>1, <2>2
<1>11. \A k \in 1 .. a : P[k] = Q[k]
  <2>1. \A k \in 1 .. a : k \in 1 .. n /\ k # a + 1 /\ k # a + 2 BY <1>6
  <2> QED BY <2>1, <1>10
<1>12. W[a] = V[a] /\ W[a] \in Seq(Item)
  <2>1. W[a] \in Seq(Item) BY <1>5, <1>6 DEF Flat
  <2> PICK m \in 0 .. n : m = a BY <1>6
  <2>2. n \in Nat /\ Agree(P, Q, 0, m) /\ FlatBoth(W, P, V, Q, n, Item)
    <3>1. n \in Nat /\ FlatBoth(W, P, V, Q, n, Item) BY <1>5, <1>6 DEF FlatBoth
    <3>2. 0 + 1 = 1 OBVIOUS
    <3>3. \A k \in 1 .. m : P[k] = Q[k] BY <1>11
    <3>4. Agree(P, Q, 0, m) BY ONLY <3>2, <3>3 DEF Agree
    <3> QED BY <3>1, <3>4
  <2>3. W[m] = V[m] BY ONLY <2>2, m \in 0 .. n, FlatPrefix
  <2> QED BY <2>1, <2>3
<1>13. /\ W[a + 1] = W[a] \o P[a + 1] /\ W[a + 2] = W[a + 1] \o P[a + 2]
       /\ V[a + 1] = V[a] \o Q[a + 1] /\ V[a + 2] = V[a + 1] \o Q[a + 2]
  BY <1>5, <1>6 DEF Flat
<1> PICK A : A = W[a] \o P[a + 1] OBVIOUS
<1>14. A \in Seq(Item) /\ P[a + 1] \in Seq(Item) BY <1>6, <1>7, <1>12, ConcatProperties
<1>15. W[a + 2] = A \o (s[c] \o b[c]) BY <1>8, <1>13
<1>16. V[a + 2] = A \o (sent \o (y \o x))
  <2>1. V[a + 2] = (W[a] \o (P[a + 1] \o sent)) \o (y \o x) BY <1>8, <1>9, <1>12, <1>13
  <2> PICK w, u, r : w = W[a] /\ u = P[a + 1] /\ r = y \o x OBVIOUS
  <2>2. w \in Seq(Item) /\ u \in Seq(Item) /\ r \in Seq(Item) /\ sent \in Seq(Item)
    BY <1>3, <1>12, <1>14
  <2>3. (w \o (u \o sent)) \o r = (w \o u) \o (sent \o r) BY ONLY <2>2, SMTT(20)
  <2> QED BY <2>1, <2>3
<1>17. \A k \in (a + 2) + 1 .. n : P[k] = Q[k]
  <2>1. \A k \in (a + 2) + 1 .. n : k \in 1 .. n /\ k # a + 1 /\ k # a + 2 BY <1>6
  <2> QED BY <2>1, <1>10
<1>18. PICK B \in Seq(Item) : W[n] = W[a + 2] \o B /\ V[n] = V[a + 2] \o B
  <2> PICK m \in 0 .. n : m = a + 2 BY <1>6
  <2>1. n \in Nat /\ SeqsOf(P, n, Item) /\ FlatBoth(W, P, V, Q, n, Item) /\ Agree(P, Q, m, n)
    BY <1>5, <1>6, <1>7, <1>17 DEF Agree, FlatBoth, SeqsOf
  <2>2. SameSuffix(W, V, m, n, Item) BY ONLY <2>1, m \in 0 .. n, FlatSuffix
  <2> QED BY <2>2 DEF SameSuffix
<1>19. /\ Whole(b, s) = (A \o (s[c] \o b[c])) \o B
       /\ Whole(b2, s2) = (A \o (sent \o (y \o x))) \o B
  BY <1>5, <1>15, <1>16, <1>18
<1> QED BY <1>14, <1>19 DEF Becomes

LEMMA TailInFront ==
  ASSUME NEW S, NEW s \in Seq(S), NEW t \in Seq(S), s # <<>>
  PROVE  s \o t # <<>> /\ Tail(s \o t) = Tail(s) \o t
<1> PICK m, n : m = Len(s) /\ n = Len(t) OBVIOUS
<1>1. m \in Nat \ {0} /\ n \in Nat
  <2>1. Len(s) \in Nat /\ Len(t) \in Nat BY LenProperties
  <2>2. Len(s) # 0 BY EmptyIffLenZero
  <2> QED BY <2>1, <2>2
<1>2. /\ Tail(s) \in Seq(S) /\ Len(Tail(s)) = m - 1
      /\ \A i \in 1 .. m - 1 : Tail(s)[i] = s[i + 1]
  BY HeadTailProperties
<1> PICK u, w : u = Tail(s) /\ w = s \o t OBVIOUS
<1>3. /\ w \in Seq(S) /\ Len(w) = m + n
      /\ \A i \in 1 .. m + n : w[i] = IF i <= m THEN s[i] ELSE t[i - m]
  BY ConcatProperties
<1>4. /\ u \o t \in Seq(S) /\ Len(u \o t) = (m - 1) + n
      /\ \A i \in 1 .. (m - 1) + n : (u \o t)[i] = IF i <= m - 1 THEN u[i] ELSE t[i - (m - 1)]
  <2>1. u \in Seq(S) /\ Len(u) = m - 1 BY <1>2
  <2> QED BY <2>1, ConcatProperties
<1>5. w # <<>>
  <2>1. 1 <= Len(w) BY <1>1, <1>3
  <2> QED BY <1>3, <2>1, LengthNotEmpty
<1>6. /\ Tail(w) \in Seq(S) /\ Len(Tail(w)) = m + n - 1
      /\ \A i \in 1 .. m + n - 1 : Tail(w)[i] = w[i + 1]
  BY <1>3, <1>5, HeadTailProperties
<1>7. ASSUME NEW i \in 1 .. m + n - 1 PROVE Tail(w)[i] = (u \o t)[i]
  <2>1. i + 1 \in 1 .. m + n /\ i \in 1 .. (m - 1) + n BY <1>1
  <2>2. CASE i <= m - 1
    <3>1. i \in 1 .. m - 1 /\ i + 1 <= m BY <1>1, <2>2
    <3> QED BY <1>2, <1>3, <1>4, <1>6, <2>1, <2>2, <3>1
  <2>3. CASE ~(i <= m - 1)
    <3>1. ~(i + 1 <= m) /\ (i + 1) - m = i - (m - 1) BY <1>1, <2>3
    <3> QED BY <1>3, <1>4, <1>6, <2>1, <2>3, <3>1
  <2> QED BY <2>2, <2>3
<1>8. m + n - 1 = (m - 1) + n BY <1>1
<1>9. Tail(w) = u \o t BY <1>4, <1>6, <1>7, <1>8, SeqEqual
<1> QED BY <1>5, <1>9

\* What leaves cbOut is the oldest of what the chain holds.
LEMMA WholeLeaves ==
  ASSUME NEW b \in Buffers, NEW s \in Stashes, b[NumPU] # <<>>,
         NEW b2, b2 = [b EXCEPT ![NumPU] = Tail(b[NumPU])]
  PROVE  Whole(b, s) # <<>> /\ Whole(b2, s) = Tail(Whole(b, s))
<1>1. NumPU \in Nat \ {0} /\ PUs = 0 .. NumPU - 1 /\ NumPU \in 0 .. NumPU
  BY CtrlAssumption DEF PUs
<1> PICK l : l = b[NumPU] OBVIOUS
<1>2. l \in Seq(Item) /\ l # <<>> /\ Tail(l) \in Seq(Item)
  <2>1. l \in Seq(Item) BY <1>1 DEF Buffers
  <2> QED BY <2>1, HeadTailProperties
<1>3. b2 \in Buffers /\ b2[NumPU] = Tail(l) /\ \A j \in PUs : b2[j] = b[j]
  BY <1>1, <1>2 DEF Buffers
<1> PICK n : n = NumPU + 1 OBVIOUS
<1>10. PICK P, W : HasParts(P, W, n, b, s) BY WholeIs
<1>11. PICK Q, V : HasParts(Q, V, n, b2, s) BY <1>3, WholeIs
<1>4. /\ Flat(W, P, n, Item) /\ Whole(b, s) = W[n]
      /\ Flat(V, Q, n, Item) /\ Whole(b2, s) = V[n]
  BY <1>10, <1>11 DEF HasParts
<1>5. /\ \A k \in 1 .. n : P[k] \in Seq(Item)
      /\ P[1] = l /\ Q[1] = Tail(l)
      /\ \A j \in PUs : P[n - j] = s[j] \o b[j] /\ Q[n - j] = s[j] \o b2[j]
  BY <1>3, <1>10, <1>11 DEF HasParts
<1>6. n \in Nat /\ 0 \in 0 .. n /\ 1 \in 0 .. n /\ 1 \in 1 .. n /\ 1 - 1 = 0 BY <1>1
<1>7. ASSUME NEW k \in 1 + 1 .. n PROVE P[k] = Q[k]
  <2>1. n - k \in PUs /\ n - (n - k) = k BY <1>1
  <2> PICK j \in PUs : j = n - k BY <2>1
  <2> QED BY <1>3, <1>5, <2>1
<1>8. W[1] = l /\ V[1] = Tail(l)
  <2>1. W[0] = <<>> /\ V[0] = <<>> /\ W[1] = W[0] \o P[1] /\ V[1] = V[0] \o Q[1]
    BY <1>4, <1>6 DEF Flat
  <2> QED BY <2>1, <1>2, <1>5, ConcatEmptySeq
<1>9. PICK B \in Seq(Item) : W[n] = W[1] \o B /\ V[n] = V[1] \o B
  <2>1. n \in Nat /\ 1 \in 0 .. n /\ SeqsOf(P, n, Item) /\ FlatBoth(W, P, V, Q, n, Item) /\ Agree(P, Q, 1, n)
    BY <1>4, <1>5, <1>6, <1>7 DEF SeqsOf, FlatBoth, Agree
  <2>2. SameSuffix(W, V, 1, n, Item) BY ONLY <2>1, FlatSuffix
  <2> QED BY <2>2 DEF SameSuffix
<1>12. l \o B # <<>> /\ Tail(l \o B) = Tail(l) \o B BY ONLY <1>2, B \in Seq(Item), TailInFront
<1> QED BY <1>4, <1>8, <1>9, <1>12

\* What enters cbIn is the youngest.
LEMMA WholeEnters ==
  ASSUME NEW b \in Buffers, NEW s \in Stashes, NEW e \in Item,
         NEW b2, b2 = [b EXCEPT ![0] = Append(b[0], e)]
  PROVE  Whole(b2, s) = Append(Whole(b, s), e)
<1>1. NumPU \in Nat \ {0} /\ PUs = 0 .. NumPU - 1 /\ 0 \in PUs /\ 0 \in 0 .. NumPU /\ NumPU \in 0 .. NumPU
  BY CtrlAssumption DEF PUs
<1>2. b[0] \in Seq(Item) /\ s[0] \in Seq(Item) BY <1>1 DEF Buffers, Stashes
<1>3. Append(b[0], e) = b[0] \o <<e>> /\ Append(b[0], e) \in Seq(Item) /\ <<e>> \in Seq(Item)
  BY <1>2, AppendIsConcat, AppendProperties
<1>4. b2 \in Buffers /\ b2[0] = b[0] \o <<e>> /\ \A j \in 0 .. NumPU : j # 0 => b2[j] = b[j]
  BY <1>1, <1>3 DEF Buffers
<1> PICK n : n = NumPU + 1 OBVIOUS
<1>16. PICK P, W : HasParts(P, W, n, b, s) BY WholeIs
<1>17. PICK Q, V : HasParts(Q, V, n, b2, s) BY <1>4, WholeIs
<1>5. /\ Flat(W, P, n, Item) /\ Whole(b, s) = W[n]
      /\ Flat(V, Q, n, Item) /\ Whole(b2, s) = V[n]
  BY <1>16, <1>17 DEF HasParts
<1>6. /\ \A k \in 1 .. n : P[k] \in Seq(Item)
      /\ P[1] = b[NumPU] /\ Q[1] = b2[NumPU]
      /\ \A j \in PUs : P[n - j] = s[j] \o b[j] /\ Q[n - j] = s[j] \o b2[j]
  BY <1>16, <1>17 DEF HasParts
<1>7. n \in Nat /\ n - 1 \in 0 .. n /\ n \in 1 .. n /\ n - 0 = n BY <1>1
<1>8. ASSUME NEW k \in 1 .. n - 1 PROVE P[k] = Q[k]
  <2>1. CASE k = 1
    <3>1. NumPU # 0 BY <1>1
    <3> QED BY <1>1, <1>4, <1>6, <2>1, <3>1
  <2>2. CASE k # 1
    <3>1. n - k \in PUs /\ n - (n - k) = k /\ n - k # 0 /\ n - k \in 0 .. NumPU BY <1>1, <2>2
    <3> PICK j \in PUs : j = n - k BY <3>1
    <3> QED BY <1>4, <1>6, <3>1
  <2> QED BY <2>1, <2>2
<1>9. W[n - 1] = V[n - 1] /\ W[n - 1] \in Seq(Item)
  <2>1. W[n - 1] \in Seq(Item) BY <1>5, <1>7 DEF Flat
  <2>2. n - 1 \in 0 .. n /\ n \in Nat /\ FlatBoth(W, P, V, Q, n, Item) BY <1>5, <1>7 DEF FlatBoth
  <2>3. Agree(P, Q, 0, n - 1)
    <3>1. 0 + 1 = 1 OBVIOUS
    <3> QED BY ONLY <1>8, <3>1 DEF Agree
  <2>4. W[n - 1] = V[n - 1]
    <3> PICK m : m = n - 1 OBVIOUS
    <3>1. m \in 0 .. n /\ Agree(P, Q, 0, m) BY <2>2, <2>3
    <3>2. W[m] = V[m] BY ONLY <2>2, <3>1, FlatPrefix
    <3> QED BY <3>2
  <2> QED BY <2>1, <2>4
<1>10. W[n] = W[n - 1] \o P[n] /\ V[n] = V[n - 1] \o Q[n] BY <1>5, <1>7 DEF Flat
<1> PICK p : p = s[0] \o b[0] OBVIOUS
<1>11. p \in Seq(Item) BY <1>2, ConcatProperties
<1>12. P[n] = p /\ Q[n] = p \o <<e>>
  <2>1. P[n] = p /\ Q[n] = s[0] \o (b[0] \o <<e>>) BY <1>1, <1>4, <1>6, <1>7
  <2> PICK u, v, z : u = s[0] /\ v = b[0] /\ z = <<e>> OBVIOUS
  <2>2. u \in Seq(Item) /\ v \in Seq(Item) /\ z \in Seq(Item) BY <1>2, <1>3
  <2>3. (u \o v) \o z = u \o (v \o z) BY ONLY <2>2
  <2> QED BY <2>1, <2>3
<1> PICK w : w = W[n - 1] OBVIOUS
<1>18. w \in Seq(Item) BY <1>9
<1>13. w \o p \in Seq(Item) BY ONLY <1>11, <1>18, ConcatProperties
<1>14. w \o (p \o <<e>>) = (w \o p) \o <<e>> BY ONLY <1>3, <1>11, <1>18
<1>15. (w \o p) \o <<e>> = Append(w \o p, e) BY ONLY <1>13, e \in Item, AppendIsConcat
<1> QED BY <1>5, <1>9, <1>10, <1>12, <1>14, <1>15

LEMMA WholeEmpty ==
  ASSUME NEW b \in Buffers, NEW s \in Stashes,
         \A j \in 0 .. NumPU : b[j] = <<>>, \A j \in PUs : s[j] = <<>>
  PROVE  Whole(b, s) = <<>>
<1>1. NumPU \in Nat \ {0} /\ PUs = 0 .. NumPU - 1 BY CtrlAssumption DEF PUs
<1> PICK n : n = NumPU + 1 OBVIOUS
<1>7. PICK P, W : HasParts(P, W, n, b, s) BY WholeIs
<1>2. Flat(W, P, n, Item) /\ Whole(b, s) = W[n] BY <1>7 DEF HasParts
<1>3. P[1] = b[NumPU] /\ \A j \in PUs : P[n - j] = s[j] \o b[j] BY <1>7 DEF HasParts
<1>4. <<>> \o <<>> = <<>> /\ <<>> \in Seq(Item) BY EmptySeq, ConcatEmptySeq
<1>5. ASSUME NEW k \in 1 .. n PROVE P[k] = <<>>
  <2>1. CASE k = 1 BY <1>1, <1>3, <2>1
  <2>2. CASE k # 1
    <3>1. n - k \in PUs /\ n - (n - k) = k /\ n - k \in 0 .. NumPU BY <1>1, <2>2
    <3> PICK j \in PUs : j = n - k BY <3>1
    <3> QED BY <1>3, <1>4, <3>1
  <2> QED BY <2>1, <2>2
<1>6. n \in Nat BY <1>1
<1> QED BY <1>2, <1>5, <1>6, FlatEmpty

\* The chain holds no flush when the buffers are empty and no PU holds one.
LEMMA WholeHasNoFlush ==
  ASSUME NEW b \in Buffers, NEW s \in Stashes,
         \A j \in 0 .. NumPU : b[j] = <<>>, \A j \in PUs : ~HasFlush(s[j])
  PROVE  \A i \in 1 .. Len(Whole(b, s)) : Whole(b, s)[i].type # "flush"
<1>1. NumPU \in Nat \ {0} /\ PUs = 0 .. NumPU - 1 BY CtrlAssumption DEF PUs
<1> PICK n : n = NumPU + 1 OBVIOUS
<1>8. PICK P, W : HasParts(P, W, n, b, s) BY WholeIs
<1>2. Flat(W, P, n, Item) /\ Whole(b, s) = W[n] BY <1>8 DEF HasParts
<1>3. /\ P[1] = b[NumPU] /\ \A j \in PUs : P[n - j] = s[j] \o b[j]
      /\ \A k \in 1 .. n : P[k] \in Seq(Item)
  BY <1>8 DEF HasParts
<1>4. n \in Nat BY <1>1
<1> SUFFICES ASSUME NEW i \in 1 .. Len(W[n]) PROVE W[n][i].type # "flush"
  BY <1>2
<1>5. PICK k \in 1 .. n : \E l \in 1 .. Len(P[k]) : W[n][i] = P[k][l]
  <2>1. SeqsOf(P, n, Item) BY <1>3 DEF SeqsOf
  <2>2. \A l \in 1 .. Len(W[n]) : FromPart(P, n, W[n][l])
    BY ONLY <1>2, <1>4, <2>1, FlatElement
  <2> QED BY <2>2 DEF FromPart
<1>6. CASE k = 1
  <2>1. P[k] = <<>> BY <1>1, <1>3, <1>6
  <2>2. 1 .. Len(<<>>) = {} BY EmptySeq
  <2> QED BY <1>5, <2>1, <2>2
<1>7. CASE k # 1
  <2>1. n - k \in PUs /\ n - (n - k) = k /\ n - k \in 0 .. NumPU BY <1>1, <1>7
  <2> PICK j \in PUs : j = n - k BY <2>1
  <2>2. s[j] \in Seq(Item) BY DEF Stashes
  <2>3. P[k] = s[j] BY <1>3, <2>1, <2>2, ConcatEmptySeq
  <2> QED BY <1>5, <2>3 DEF HasFlush
<1> QED BY <1>6, <1>7

LEMMA TakeDrop ==
  ASSUME NEW S, NEW s \in Seq(S), NEW k \in Nat, k <= Len(s)
  PROVE  Take(s, k) \o Drop(s, k) = s
<1> PICK n : n = Len(s) OBVIOUS
<1>1. n \in Nat /\ 1 \in 1 .. n + 1 /\ k \in 1 - 1 .. n /\ n \in k .. n BY LenProperties
<1>2. SubSeq(s, 1, k) \o SubSeq(s, k + 1, n) = SubSeq(s, 1, n) BY <1>1, ConcatAdjacentSubSeq
<1>3. SubSeq(s, 1, n) = s BY SubSeqFull
<1> QED BY <1>2, <1>3 DEF Take, Drop

(***************************************************************************)
(* What a step of PU i does to what it holds: it sends some of it down and *)
(* keeps the rest, in order, except that it may lose one item, which is of *)
(* the type "other" unless the step fails.                                 *)
(***************************************************************************)
MayLose(status) == IF status = "ERROR" THEN Types ELSE {"other"}

Conserves(i, o) ==
  \E sent \in Seq(Item) :
    /\ o.out = cb[i + 1] \o sent
    /\ sent \o (o.stash \o o.in) \in Pipe!Thinned(stash[i] \o cb[i], MayLose(o.status))

LEMMA OutcomeConserves ==
  ASSUME TypeOK, NEW i \in PUs, NEW t \in Nat, t <= Len(cb[i]),
         NEW e \in Nat, e <= Len(stash[i]) + t, NEW ph, NEW s, NEW b,
         NEW o, o = Outcome(i, t, e, ph, s, b)
  PROVE  Conserves(i, o)
<1> PICK x, y : x = cb[i] /\ y = stash[i] OBVIOUS
<1>1. x \in Seq(Item) /\ y \in Seq(Item) /\ Len(x) \in Nat /\ Len(y) \in Nat BY BufferTypes
<1> PICK f, r : f = Take(x, t) /\ r = Drop(x, t) OBVIOUS
<1>2. f \in Seq(Item) /\ Len(f) = t /\ r \in Seq(Item) /\ f \o r = x
  <2>1. t <= Len(x) OBVIOUS
  <2>2. Take(x, t) \in Seq(Item) /\ Len(Take(x, t)) = t BY ONLY <1>1, <2>1, t \in Nat, TakeProperties
  <2>3. Drop(x, t) \in Seq(Item) BY ONLY <1>1, <2>1, t \in Nat, DropProperties
  <2>4. Take(x, t) \o Drop(x, t) = x BY ONLY <1>1, <2>1, t \in Nat, TakeDrop
  <2> QED BY <2>2, <2>3, <2>4
<1> PICK held : held = y \o f OBVIOUS
<1>3. held \in Seq(Item) /\ Len(held) = Len(y) + t
  <2>1. y \o f \in Seq(Item) /\ Len(y \o f) = Len(y) + Len(f)
    BY ONLY <1>1, <1>2, ConcatProperties
  <2> QED BY <1>2, <2>1
<1> PICK sent, kept : sent = Take(held, e) /\ kept = Drop(held, e) OBVIOUS
<1>4. e <= Len(held) BY <1>3
<1>5. sent \in Seq(Item) /\ kept \in Seq(Item) /\ sent \o kept = held
  <2>1. Take(held, e) \in Seq(Item) BY ONLY <1>3, <1>4, e \in Nat, TakeProperties
  <2>2. Drop(held, e) \in Seq(Item) BY ONLY <1>3, <1>4, e \in Nat, DropProperties
  <2>3. Take(held, e) \o Drop(held, e) = held BY ONLY <1>3, <1>4, e \in Nat, TakeDrop
  <2> QED BY <2>1, <2>2, <2>3
<1>6. o.in = r /\ o.stash = kept /\ o.out = cb[i + 1] \o sent BY DEF Outcome
<1>7. sent \o (kept \o r) = y \o x
  <2>3. /\ sent \in Seq(Item) /\ kept \in Seq(Item) /\ r \in Seq(Item)
        /\ y \in Seq(Item) /\ f \in Seq(Item)
    BY <1>1, <1>2, <1>5
  <2>1. (sent \o kept) \o r = sent \o (kept \o r) BY ONLY <2>3
  <2>2. (y \o f) \o r = y \o (f \o r) BY ONLY <2>3
  <2> QED BY <1>2, <1>5, <2>1, <2>2
<1>8. y \o x \in Pipe!Thinned(y \o x, MayLose(o.status)) BY DEF Pipe!Thinned
<1> QED BY <1>5, <1>6, <1>7, <1>8 DEF Conserves

\* An item is lost behind what is kept.
LEMMA LosesConserves ==
  ASSUME TypeOK, NEW i \in PUs, NEW t \in Nat, t <= Len(cb[i]), 1 <= Len(stash[i]) + t,
         NEW s \in Statuses, NEW o, o = Loses(i, t, s),
         s = "ERROR" \/ (t = 1 /\ stash[i] = <<>> /\ cb[i][1].type = "other")
  PROVE  Conserves(i, o)
<1> PICK x, y, n : x = cb[i] /\ y = stash[i] /\ n = Len(stash[i]) + t OBVIOUS
<1>1. /\ x \in Seq(Item) /\ y \in Seq(Item) /\ Len(x) \in Nat /\ Len(y) \in Nat
      /\ n \in Nat /\ 1 <= n /\ n - 1 \in Nat
  BY BufferTypes
<1> PICK f, r : f = Take(x, t) /\ r = Drop(x, t) OBVIOUS
<1>2. /\ f \in Seq(Item) /\ Len(f) = t /\ r \in Seq(Item) /\ f \o r = x
      /\ \A k \in 1 .. t : f[k] = x[k]
  <2>1. t <= Len(x) OBVIOUS
  <2>2. /\ Take(x, t) \in Seq(Item) /\ Len(Take(x, t)) = t
        /\ \A k \in 1 .. t : Take(x, t)[k] = x[k]
    BY ONLY <1>1, <2>1, t \in Nat, TakeProperties
  <2>3. Drop(x, t) \in Seq(Item) BY ONLY <1>1, <2>1, t \in Nat, DropProperties
  <2>4. Take(x, t) \o Drop(x, t) = x BY ONLY <1>1, <2>1, t \in Nat, TakeDrop
  <2> QED BY <2>2, <2>3, <2>4
<1> PICK held : held = y \o f OBVIOUS
<1>3. /\ held \in Seq(Item) /\ Len(held) = n
      /\ \A k \in 1 .. n : held[k] = IF k <= Len(y) THEN y[k] ELSE f[k - Len(y)]
  <2>1. /\ y \o f \in Seq(Item) /\ Len(y \o f) = Len(y) + Len(f)
        /\ \A k \in 1 .. Len(y) + Len(f) : (y \o f)[k] = IF k <= Len(y) THEN y[k] ELSE f[k - Len(y)]
    BY ONLY <1>1, <1>2, ConcatProperties
  <2> QED BY <1>2, <2>1
<1>4. n \in 1 .. Len(held) BY <1>1, <1>3
<1>5. /\ o.in = r /\ o.out = cb[i + 1] /\ o.status = s
      /\ o.stash \in Seq(Item) /\ Len(o.stash) = n - 1
      /\ \A k \in 1 .. n - 1 : o.stash[k] = IF k <= Len(y) THEN y[k] ELSE x[k - Len(y)]
  <2>1. /\ o \in Outcomes /\ o.out = cb[i + 1] /\ o.status = s
        /\ Len(o.stash) = n - 1
        /\ \A k \in 1 .. n - 1 : o.stash[k] = IF k <= Len(y) THEN y[k] ELSE x[k - Len(y)]
    <3>1. LostTheLast(i, t, s, o) BY LosesProperties
    <3>2. QED BY <3>1 DEF LostTheLast
  <2>2. o.in = r BY DEF Loses, Outcome
  <2>3. o.stash \in Seq(Item) BY <2>1, FieldTypes
  <2> QED BY <2>1, <2>2, <2>3
<1> PICK kept, z : kept = o.stash /\ z = RemoveAt(held, n) OBVIOUS
<1>6. /\ z \in Seq(Item) /\ Len(z) = n - 1
      /\ \A k \in 1 .. n - 1 : z[k] = IF k < n THEN held[k] ELSE held[k + 1]
  <2>1. /\ RemoveAt(held, n) \in Seq(Item) /\ Len(RemoveAt(held, n)) = Len(held) - 1
        /\ \A k \in 1 .. Len(held) - 1 :
             RemoveAt(held, n)[k] = IF k < n THEN held[k] ELSE held[k + 1]
    BY ONLY <1>3, <1>4, RemoveProperties
  <2> QED BY <1>3, <2>1
<1>7. ASSUME NEW k \in 1 .. n - 1 PROVE kept[k] = z[k]
  <2>1. k \in 1 .. n /\ k < n BY <1>1
  <2>2. z[k] = IF k <= Len(y) THEN y[k] ELSE f[k - Len(y)] BY <1>3, <1>6, <2>1
  <2>3. ~(k <= Len(y)) => k - Len(y) \in 1 .. t BY <1>1, <2>1
  <2>4. ~(k <= Len(y)) => f[k - Len(y)] = x[k - Len(y)] BY <1>2, <2>3
  <2>5. kept[k] = IF k <= Len(y) THEN y[k] ELSE x[k - Len(y)] BY <1>5
  <2> QED BY <2>2, <2>4, <2>5
<1>8. kept = z
  <2>1. kept \in Seq(Item) /\ Len(kept) = n - 1 BY <1>5
  <2> QED BY <1>6, <1>7, <2>1, SeqEqual
<1>9. n \in 1 .. Len(held \o r) /\ (held \o r)[n] = held[n] /\ z \o r = RemoveAt(held \o r, n)
  BY ONLY <1>2, <1>3, <1>4, z = RemoveAt(held, n), RemoveBefore
<1>10. held \o r = y \o x
  <2>1. y \in Seq(Item) /\ f \in Seq(Item) /\ r \in Seq(Item) BY <1>1, <1>2
  <2>2. (y \o f) \o r = y \o (f \o r) BY ONLY <2>1
  <2> QED BY <1>2, <2>2
<1>11. (held \o r)[n].type \in MayLose(s)
  <2>1. CASE s = "ERROR"
    <3>1. held[n] \in Item BY <1>3, <1>4, ElementOfSeq
    <3> QED BY <1>9, <2>1, <3>1 DEF MayLose, Item
  <2>2. CASE s # "ERROR"
    <3>1. t = 1 /\ y = <<>> /\ x[1].type = "other" BY <2>2
    <3>2. Len(y) = 0 BY <1>1, <3>1, EmptyIffLenZero
    <3>3. n = 1 /\ held[1] = f[1] /\ f[1] = x[1] BY <1>1, <1>2, <1>3, <3>1, <3>2
    <3> QED BY <1>9, <2>2, <3>1, <3>3 DEF MayLose
  <2> QED BY <2>1, <2>2
<1>12. RemoveAt(y \o x, n) \in Pipe!Thinned(y \o x, MayLose(s))
  <2>1. n \in {j \in 1 .. Len(y \o x) : (y \o x)[j].type \in MayLose(s)}
    BY <1>9, <1>10, <1>11
  <2> QED BY <2>1, ThinnedIs
<1>13. <<>> \in Seq(Item) /\ o.out = cb[i + 1] \o <<>>
  <2>1. cb[i + 1] \in Seq(Item) BY BufferTypes
  <2> QED BY <1>5, <2>1, EmptySeq, ConcatEmptySeq
<1>14. <<>> \o (o.stash \o o.in) = RemoveAt(y \o x, n)
  <2>1. kept \o r \in Seq(Item) BY <1>2, <1>6, <1>8, ConcatProperties
  <2>2. <<>> \o (kept \o r) = kept \o r BY <2>1, ConcatEmptySeq
  <2> QED BY <1>5, <1>8, <1>9, <1>10, <2>2
<1> QED BY <1>5, <1>12, <1>13, <1>14 DEF Conserves

\* Every step, and every step that fails, takes and sends like that.
LEMMA StepShape ==
  ASSUME TypeOK, StashInv, NEW i \in PUs, NEW o \in Step(i) \cup FailedStep(i)
  PROVE  \/ \E t \in Nat, e \in Nat : \E ph, s, b :
              /\ t <= Len(cb[i]) /\ e <= Len(stash[i]) + t
              /\ o = Outcome(i, t, e, ph, s, b)
         \/ \E t \in Nat : \E s \in Statuses :
              /\ t <= Len(cb[i]) /\ 1 <= Len(stash[i]) + t
              /\ s = "ERROR" \/ (t = 1 /\ stash[i] = <<>> /\ cb[i][1].type = "other")
              /\ o = Loses(i, t, s)
<1>1. /\ Len(cb[i]) \in Nat /\ Len(stash[i]) \in Nat /\ Room(i) \in Int /\ Kind[i] \in Kinds
      /\ cb[i] \in Seq(Item) /\ stash[i] \in Seq(Item) /\ phase[i] \in Phases
  BY BufferTypes
<1>2. (cb[i] # <<>> => 1 <= Len(cb[i])) /\ (stash[i] # <<>> => 1 <= Len(stash[i]))
  BY <1>1, EmptyIffLenZero
<1> DEFINE Shaped == \E t \in Nat, e \in Nat : \E ph, s, b :
                       /\ t <= Len(cb[i]) /\ e <= Len(stash[i]) + t
                       /\ o = Outcome(i, t, e, ph, s, b)
<1>3. ASSUME NEW t \in Nat, NEW e \in Nat, NEW ph, NEW s, NEW b,
             t <= Len(cb[i]), e <= Len(stash[i]) + t, o = Outcome(i, t, e, ph, s, b)
      PROVE  Shaped
  BY <1>3
<1> DEFINE Lost == \E t \in Nat : \E s \in Statuses :
                     /\ t <= Len(cb[i]) /\ 1 <= Len(stash[i]) + t
                     /\ s = "ERROR" \/ (t = 1 /\ stash[i] = <<>> /\ cb[i][1].type = "other")
                     /\ o = Loses(i, t, s)
<1>9. ASSUME NEW t \in Nat, NEW s \in Statuses, t <= Len(cb[i]), 1 <= Len(stash[i]) + t,
             s = "ERROR" \/ (t = 1 /\ stash[i] = <<>> /\ cb[i][1].type = "other"),
             o = Loses(i, t, s)
      PROVE  Lost
  BY <1>9
<1>10. 0 \in Nat /\ 1 \in Nat /\ 0 <= Len(cb[i]) /\ 0 <= Len(stash[i]) + 0
       /\ "BUSY" \in Statuses /\ "ERROR" \in Statuses
  BY <1>1 DEF Statuses
<1>11. /\ stash[i] = <<>> => Len(stash[i]) = 0
       /\ cb[i] # <<>> => 1 <= Len(cb[i]) /\ 1 <= Len(stash[i]) + 1 /\ 0 <= Len(stash[i]) + 1
       /\ stash[i] # <<>> => 1 <= Len(stash[i]) + 0
  BY <1>1, EmptyIffLenZero
<1> SUFFICES Shaped \/ Lost
  OBVIOUS
<1>12. ASSUME stash[i] = <<>>, cb[i] # <<>>, Head(cb[i]).type = "other", o = Loses(i, 1, "BUSY")
       PROVE  Lost
  <2>1. cb[i][1].type = "other" BY <1>1, <1>12
  <2> HIDE DEF Lost
  <2> QED BY <1>9, <1>10, <1>11, <1>12, <2>1
<1>4. CASE o \in FailedStep(i)
  <2>1. CASE Kind[i] \in {"single", "staged"}
    <3>1. phase[i] # "collect" => stash[i] # <<>>
      BY <2>1 DEF StashInv, StashOK
    <3>2. \/ o = Outcome(i, 0, 0, "collect", "ERROR", 0)
          \/ cb[i] # <<>> /\ o = Outcome(i, 1, 0, "process", "ERROR", 0)
          \/ cb[i] # <<>> /\ o = Loses(i, 1, "ERROR")
          \/ o = Outcome(i, 0, 0, "process", "ERROR", 0)
          \/ phase[i] # "collect" /\ o = Loses(i, 0, "ERROR")
      BY <1>4, <2>1 DEF FailedStep
    <3> HIDE DEF Shaped, Lost
    <3> QED BY <1>3, <1>9, <1>10, <1>11, <3>1, <3>2
  <2>5. CASE Kind[i] = "phrase" /\ phase[i] = "collect"
    <3>1. o \in CollectFails(i) BY <1>4, <2>5 DEF FailedStep
    <3>2. PICK t \in 0 .. Len(cb[i]) :
            \/ o = Outcome(i, t, 0, "collect", "ERROR", 0)
            \/ t < Len(cb[i]) /\ o = Loses(i, t + 1, "ERROR")
      BY <3>1 DEF CollectFails
    <3>3. t \in Nat /\ t <= Len(cb[i]) /\ 0 <= Len(stash[i]) + t
          /\ t + 1 \in Nat /\ 1 <= Len(stash[i]) + (t + 1) /\ (t < Len(cb[i]) => t + 1 <= Len(cb[i]))
      <4> PICK m, l : m = Len(cb[i]) /\ l = Len(stash[i]) OBVIOUS
      <4>1. m \in Nat /\ l \in Nat /\ t \in 0 .. m BY <1>1
      <4>2. /\ t \in Nat /\ t <= m /\ 0 <= l + t /\ t + 1 \in Nat /\ 1 <= l + (t + 1)
            /\ t < m => t + 1 <= m
        BY ONLY <4>1
      <4> QED BY <4>2
    <3> HIDE DEF Shaped, Lost
    <3> QED BY <1>3, <1>9, <1>10, <3>2, <3>3
  <2>6. CASE Kind[i] = "drain" BY <1>4, <2>6 DEF FailedStep
  <2>2. CASE Kind[i] = "budget"
    <3>1. PICK t \in 0 .. Len(cb[i]), e \in 0 .. Room(i) :
            /\ o = Outcome(i, t, e, phase[i], "ERROR", e)
            /\ 0 <= Len(stash[i]) + t - e
      BY <1>4, <2>2 DEF FailedStep
    <3>2. t \in Nat /\ t <= Len(cb[i]) /\ e \in Nat /\ e <= Len(stash[i]) + t BY <1>1, <3>1
    <3> HIDE DEF Shaped
    <3> QED BY <1>3, <3>1, <3>2
  <2>3. CASE Kind[i] = "phrase" /\ phase[i] # "collect"
    <3>1. PICK e \in 0 .. Room(i) : /\ e < Len(stash[i])
                                    /\ o = Outcome(i, 0, e, phase[i], "ERROR", e)
      BY <1>4, <2>3 DEF FailedStep
    <3>2. e \in Nat /\ e <= Len(stash[i]) + 0 /\ 0 <= Len(cb[i]) BY <1>1, <3>1
    <3> HIDE DEF Shaped
    <3> QED BY <1>3, <3>1, <3>2
  <2> QED BY <1>1, <2>1, <2>2, <2>3, <2>5, <2>6 DEF Kinds
<1>13. CASE Kind[i] = "budget" /\ outOfMemory /\ o \in Step(i)
  <2>1. PICK b \in {0, 1} : o = Outcome(i, 0, 0, "collect", "ERROR", b)
    BY <1>13 DEF Step, BrokenStep
  <2> HIDE DEF Shaped
  <2> QED BY <1>3, <1>10, <2>1
<1>5. CASE /\ Kind[i] \in {"drain", "budget"} /\ ~(Kind[i] = "budget" /\ outOfMemory)
           /\ o \in Step(i)
  <2>1. o \in StreamStep(i) BY <1>5 DEF Step
  <2>2. PICK t \in 0 .. Len(cb[i]), e \in 0 .. Room(i), s \in {"IDLE", "BUSY", "OUT_FULL"} :
          /\ o = Outcome(i, t, e, "collect", s, IF s = "OUT_FULL" THEN 0 ELSE e)
          /\ StreamMayEnd(i, t, e, s)
    BY <2>1 DEF StreamStep
  <2>3. t \in Nat /\ t <= Len(cb[i]) /\ e \in Nat /\ e <= Len(stash[i]) + t
    BY <1>1, <2>2 DEF StreamMayEnd
  <2> HIDE DEF Shaped
  <2> QED BY <1>3, <2>2, <2>3
<1>6. CASE Kind[i] = "single" /\ o \in Step(i)
  <2>1. o \in SingleStep(i) BY <1>6 DEF Step
  <2>2. CASE stash[i] = <<>> /\ cb[i] = <<>>
    <3>1. o = Outcome(i, 0, 0, "collect", "IDLE", 0) /\ 0 <= Len(cb[i]) /\ 0 <= Len(stash[i]) + 0
      BY <1>1, <2>1, <2>2 DEF SingleStep
    <3> HIDE DEF Shaped
    <3> QED BY <1>3, <3>1
  <2>3. CASE stash[i] = <<>> /\ cb[i] # <<>> /\ Head(cb[i]).type = "other"
    <3>1. o = Loses(i, 1, "BUSY") BY <2>1, <2>3 DEF SingleStep
    <3> QED BY <1>12, <2>3, <3>1
  <2>4. CASE ~(stash[i] = <<>> /\ cb[i] = <<>>)
             /\ ~(stash[i] = <<>> /\ Head(cb[i]).type = "other")
    <3> PICK t : t = IF stash[i] = <<>> THEN 1 ELSE 0 OBVIOUS
    <3>1. t \in Nat /\ t <= Len(cb[i]) /\ 1 <= Len(stash[i]) + t
      <4>1. CASE stash[i] = <<>> BY <1>1, <1>2, <2>4, <4>1
      <4>2. CASE stash[i] # <<>> BY <1>1, <1>2, <4>2
      <4> QED BY <4>1, <4>2
    <3>2. \/ o = Outcome(i, t, 1, "collect", "BUSY", 1)
          \/ o = Outcome(i, t, 0, "feed", "OUT_FULL", 0)
      BY <2>1, <2>4 DEF SingleStep
    <3>3. 0 <= Len(stash[i]) + t
      <4> PICK l : l = Len(stash[i]) OBVIOUS
      <4>1. l \in Nat /\ t \in Nat BY <1>1, <3>1
      <4>2. 0 <= l + t BY ONLY <4>1
      <4> QED BY <4>2
    <3> HIDE DEF Shaped
    <3> QED BY <1>3, <3>1, <3>2, <3>3
  <2> QED BY <2>2, <2>3, <2>4
<1>7. CASE Kind[i] = "phrase" /\ o \in Step(i)
  <2>1. o \in PhraseStep(i) BY <1>7 DEF Step
  <2>2. CASE o \in PhraseFeed(i)
    <3>1. \E e \in 0 .. Room(i), ph \in {"collect", "feed"}, s \in {"BUSY", "OUT_FULL", "ATOMIC"} :
            e <= Len(stash[i]) /\ o = Outcome(i, 0, e, ph, s, e)
      BY <1>1, <2>2 DEF PhraseFeed
    <3>2. PICK e \in 0 .. Room(i), ph \in {"collect", "feed"}, s \in {"BUSY", "OUT_FULL", "ATOMIC"} :
            e <= Len(stash[i]) /\ o = Outcome(i, 0, e, ph, s, e)
      BY <3>1
    <3>3. e \in Nat /\ e <= Len(stash[i]) + 0 /\ 0 <= Len(cb[i]) BY <1>1, <3>2
    <3> HIDE DEF Shaped
    <3> QED BY <1>3, <3>2, <3>3
  <2>3. CASE o \in PhraseCollect(i)
    <3>1. PICK t \in 0 .. Len(cb[i]), ph \in {"process", "collect"}, s \in {"ATOMIC", "IDLE"} :
            o = Outcome(i, t, 0, ph, s, 0)
      BY <2>3 DEF PhraseCollect
    <3>2. t \in Nat /\ t <= Len(cb[i]) /\ 0 <= Len(stash[i]) + t BY <1>1, <3>1
    <3> HIDE DEF Shaped
    <3> QED BY <1>3, <3>1, <3>2
  <2>4. CASE o = Outcome(i, 0, 0, "feed", "ATOMIC", 0)
    <3>1. 0 <= Len(cb[i]) /\ 0 <= Len(stash[i]) + 0 BY <1>1
    <3> HIDE DEF Shaped
    <3> QED BY <1>3, <2>4, <3>1
  <2> QED BY <1>1, <2>1, <2>2, <2>3, <2>4 DEF PhraseStep, Phases
<1>8. CASE Kind[i] = "staged" /\ o \in Step(i)
  <2>1. o \in StagedStep(i) BY <1>8 DEF Step
  <2>2. phase[i] # "collect" => 1 <= Len(stash[i]) + 0
    BY <1>1, <1>2, <1>8 DEF StashInv, StashOK
  <2>3. /\ 0 <= Len(cb[i]) /\ 0 <= Len(stash[i]) + 0 /\ 0 <= Len(stash[i]) + 1
    BY <1>1
  <2>4. \/ o = Outcome(i, 0, 0, "collect", "IDLE", 0)
        \/ cb[i] # <<>> /\ o = Outcome(i, 1, 0, "process", "ATOMIC", 0)
        \/ o = Outcome(i, 0, 0, "feed", "BUSY", 0)
        \/ phase[i] # "collect" /\ o = Outcome(i, 0, 1, "collect", "BUSY", 1)
        \/ o = Outcome(i, 0, 0, "feed", "OUT_FULL", 0)
        \/ /\ phase[i] = "collect" /\ cb[i] # <<>> /\ Head(cb[i]).type = "other"
           /\ o = Loses(i, 1, "BUSY")
    BY <1>1, <2>1 DEF StagedStep, Phases
  <2>5. phase[i] = "collect" => stash[i] = <<>>
    BY <1>8 DEF StashInv, StashOK
  <2> HIDE DEF Shaped, Lost
  <2> QED BY <1>2, <1>3, <1>12, <2>2, <2>3, <2>4, <2>5
<1> QED BY <1>1, <1>4, <1>5, <1>6, <1>7, <1>8, <1>13 DEF Kinds

LEMMA StepConserves ==
  ASSUME TypeOK, StashInv, NEW i \in PUs, NEW o \in Step(i) \cup FailedStep(i)
  PROVE  Conserves(i, o)
<1>1. CASE \E t \in Nat, e \in Nat : \E ph, s, b :
             /\ t <= Len(cb[i]) /\ e <= Len(stash[i]) + t
             /\ o = Outcome(i, t, e, ph, s, b)
  <2> PICK t \in Nat, e \in Nat : \E ph, s, b :
             /\ t <= Len(cb[i]) /\ e <= Len(stash[i]) + t
             /\ o = Outcome(i, t, e, ph, s, b)
    BY <1>1
  <2> PICK ph, s, b : /\ t <= Len(cb[i]) /\ e <= Len(stash[i]) + t
                      /\ o = Outcome(i, t, e, ph, s, b)
    OBVIOUS
  <2> QED BY OutcomeConserves
<1>2. CASE \E t \in Nat : \E s \in Statuses :
             /\ t <= Len(cb[i]) /\ 1 <= Len(stash[i]) + t
             /\ s = "ERROR" \/ (t = 1 /\ stash[i] = <<>> /\ cb[i][1].type = "other")
             /\ o = Loses(i, t, s)
  BY <1>2, LosesConserves
<1> QED BY <1>1, <1>2, StepShape

\* A call of pico_getData, seen from outside: what PU c holds and what it is
\* about to read is a stretch A .. B of all that the engine holds.
LEMMA FetchAnswers ==
  ASSUME IInv, IInv', NEW o, NEW fits \in BOOLEAN, Fetch(curPU, o, fits),
         NEW sent \in Seq(Item), o.out = cb[curPU + 1] \o sent
  PROVE  \E A, B \in Seq(Item) :
           /\ Inside = (A \o (stash[curPU] \o cb[curPU])) \o B
           /\ Pipe!Answered((A \o (sent \o (o.stash \o o.in))) \o B)
<1>1. /\ NumPU \in Nat \ {0} /\ PUs = 0 .. NumPU - 1 /\ NumPU \in 0 .. NumPU
      /\ curPU \in PUs /\ curPU \in 0 .. NumPU /\ curPU + 1 \in 0 .. NumPU
      /\ curPU # NumPU /\ curPU + 1 # curPU
  <2>1. curPU \in PUs BY DEF IInv, TypeOK
  <2> QED BY <2>1, CtrlAssumption DEF PUs
<1>2. cb \in Buffers /\ stash \in Stashes /\ cb' \in Buffers /\ stash' \in Stashes
  BY DEF IInv, TypeOK, Buffers, Stashes
<1>3. Inside = Whole(cb, stash) /\ Inside' = Whole(cb', stash')
  BY DEF Inside, Whole, PartsOf
<1> PICK c : c = curPU OBVIOUS
<1> PICK stepped : stepped = [cb EXCEPT ![c] = o.in, ![c + 1] = o.out] OBVIOUS
<1> DEFINE result == Schedule(c, o).result
           last == stepped[NumPU]
           got == result # "ERROR" /\ last # <<>> /\ fits
<1>6. /\ stash' = [stash EXCEPT ![c] = o.stash]
      /\ cb' = IF got THEN [stepped EXCEPT ![NumPU] = Tail(last)] ELSE stepped
      /\ answer' = Answer(result, last, fits)
  BY DEF Fetch
<1> HIDE DEF result
<1>7. stepped[c] = o.in /\ stepped[c + 1] = cb[c + 1] \o sent /\ DOMAIN stepped = 0 .. NumPU
  BY <1>1, <1>2 DEF Buffers
<1>8. o.in \in Seq(Item) /\ o.stash \in Seq(Item)
  <2>1. cb'[c] = o.in /\ stash'[c] = o.stash
    <3>1. cb'[c] = stepped[c] BY <1>1, <1>6, <1>7
    <3>2. DOMAIN stash = PUs BY <1>2 DEF Stashes
    <3> QED BY <1>1, <1>6, <1>7, <3>1, <3>2
  <2> QED BY <1>1, <1>2, <2>1 DEF Buffers, Stashes
<1>9. stepped \in Buffers
  <2>1. cb[c + 1] \o sent \in Seq(Item)
    <3>1. cb[c + 1] \in Seq(Item) BY <1>1, <1>2 DEF Buffers
    <3> QED BY ONLY <3>1, sent \in Seq(Item), ConcatProperties
  <2> QED BY <1>2, <1>8, <2>1 DEF Buffers
<1>10. PICK A, B \in Seq(Item) :
         /\ Whole(cb, stash) = (A \o (stash[c] \o cb[c])) \o B
         /\ Whole(stepped, stash') = (A \o (sent \o (o.stash \o o.in))) \o B
  <2> PICK b, s, x, y, s2 : b = cb /\ s = stash /\ x = o.in /\ y = o.stash /\ s2 = stash' OBVIOUS
  <2>1. /\ b \in Buffers /\ s \in Stashes /\ c \in PUs /\ x \in Seq(Item) /\ y \in Seq(Item)
        /\ s2 = [s EXCEPT ![c] = y]
        /\ stepped = [b EXCEPT ![c] = x, ![c + 1] = b[c + 1] \o sent]
    BY <1>1, <1>2, <1>6, <1>8
  <2>2. Becomes(Whole(b, s), s[c] \o b[c], Whole(stepped, s2), sent \o (y \o x))
    BY ONLY <2>1, sent \in Seq(Item), WholeMoves
  <2> QED BY <2>2 DEF Becomes
<1> PICK q : q = Whole(stepped, stash') OBVIOUS
<1>12. \/ Inside' = q /\ answer' \in {"BUSY", "ERROR"}
       \/ q # <<>> /\ Inside' = Tail(q) /\ answer' = "BUSY"
       \/ /\ Inside' = q /\ answer' = "IDLE"
          /\ \A k \in 1 .. Len(q) : q[k].type # "flush"
  <2>1. CASE got
    <3>1. answer' = "BUSY" BY <1>6, <2>1 DEF Answer
    <3>2. last # <<>> /\ cb' = [stepped EXCEPT ![NumPU] = Tail(stepped[NumPU])] BY <1>6, <2>1
    <3>3. q # <<>> /\ Whole(cb', stash') = Tail(q)
      <4> PICK b2, s2 : b2 = cb' /\ s2 = stash' OBVIOUS
      <4>1. s2 \in Stashes /\ b2 = [stepped EXCEPT ![NumPU] = Tail(stepped[NumPU])]
        BY <1>2, <3>2
      <4>2. Whole(stepped, s2) # <<>> /\ Whole(b2, s2) = Tail(Whole(stepped, s2))
        BY <1>9, <3>2, <4>1, WholeLeaves
      <4> QED BY <4>2
    <3> QED BY <1>3, <3>1, <3>3
  <2>2. CASE ~got
    <3>1. cb' = stepped /\ Inside' = q BY <1>3, <1>6, <2>2
    <3>2. CASE answer' = "IDLE"
      <4>1. cb'[NumPU] = <<>> /\ \A j \in PUs : cb'[j] = <<>> /\ ~HasFlush(stash'[j])
        BY <3>2 DEF IInv, IdleSound, Quiet
      <4>2. ASSUME NEW j \in 0 .. NumPU PROVE stepped[j] = <<>>
        <5>1. j = NumPU \/ j \in PUs BY <1>1
        <5> QED BY <3>1, <4>1, <5>1
      <4> PICK s2 : s2 = stash' OBVIOUS
      <4>3. s2 \in Stashes /\ \A j \in PUs : ~HasFlush(s2[j]) BY <1>2, <4>1
      <4>4. \A k \in 1 .. Len(Whole(stepped, s2)) : Whole(stepped, s2)[k].type # "flush"
        BY ONLY <1>9, <4>2, <4>3, WholeHasNoFlush
      <4> QED BY <3>1, <3>2, <4>4
    <3>3. CASE answer' # "IDLE"
      <4>1. answer' \in {"BUSY", "ERROR"} BY <1>6, <3>3 DEF Answer
      <4> QED BY <3>1, <4>1
    <3> QED BY <3>2, <3>3
  <2> QED BY <2>1, <2>2
<1>13. Pipe!Answered(q) BY <1>12 DEF Pipe!Answered
<1> QED BY <1>3, <1>10, <1>13

\* A step that answers ERROR makes pico_getData answer ERROR.
LEMMA ErrorAnswered ==
  ASSUME IInv, NEW o, NEW fits \in BOOLEAN, Fetch(curPU, o, fits), o.status = "ERROR"
  PROVE  answer' = "ERROR"
<1>1. Schedule(curPU, o).result = "ERROR" BY DEF Schedule
<1> QED BY <1>1 DEF Fetch, Answer

\* What a step may lose, an answer may cost.
LEMMA MayBeLost ==
  ASSUME NEW v \in Seq(Item), NEW T, NEW q \in Pipe!Thinned(v, T)
  PROVE  q \in Pipe!Thinned(v, Types)
<1>1. CASE q = v BY <1>1 DEF Pipe!Thinned
<1>2. CASE q # v
  <2>1. PICK k \in 1 .. Len(v) : q = RemoveAt(v, k) BY <1>2, ThinnedIs
  <2>2. v[k] \in Item BY ElementOfSeq
  <2>3. k \in {j \in 1 .. Len(v) : v[j].type \in Types} BY <2>2 DEF Item
  <2> QED BY <2>1, <2>3, ThinnedIs
<1> QED BY <1>1, <1>2

LEMMA FetchDelivers ==
  ASSUME IInv, IInv', NEW o \in Step(curPU) \cup FailedStep(curPU), NEW fits \in BOOLEAN,
         Fetch(curPU, o, fits), UNCHANGED <<outOfMemory, fed>>
  PROVE  Pipe!Deliver
<1>1. curPU \in PUs BY DEF IInv, TypeOK
<1>2. Conserves(curPU, o) BY <1>1, StepConserves DEF IInv
<1> PICK x, y, z : x = cb[curPU] /\ y = stash[curPU] /\ z = o.stash \o o.in OBVIOUS
<1>3. PICK sent \in Seq(Item) :
        o.out = cb[curPU + 1] \o sent /\ sent \o z \in Pipe!Thinned(y \o x, MayLose(o.status))
  BY <1>2 DEF Conserves
<1>4. PICK A, B \in Seq(Item) :
        Inside = (A \o (y \o x)) \o B /\ Pipe!Answered((A \o (sent \o z)) \o B)
  BY <1>3, FetchAnswers
<1>5. y \o x \in Seq(Item)
  <2>1. x \in Seq(Item) /\ y \in Seq(Item) BY <1>1, BufferTypes DEF IInv
  <2> QED BY ONLY <2>1, ConcatProperties
<1> PICK w, l, T : w = y \o x /\ l = sent \o z /\ T = MayLose(o.status) OBVIOUS
<1>6. (A \o l) \o B \in Pipe!Thinned((A \o w) \o B, T)
  <2>1. A \in Seq(Item) /\ B \in Seq(Item) /\ w \in Seq(Item) /\ l \in Pipe!Thinned(w, T)
    BY <1>3, <1>5
  <2> QED BY ONLY <2>1, ThinnedInside
<1>7. (A \o w) \o B \in Seq(Item)
  <2>1. A \in Seq(Item) /\ B \in Seq(Item) /\ w \in Seq(Item) BY <1>5
  <2>2. A \o w \in Seq(Item) BY ONLY <2>1, ConcatProperties
  <2> QED BY ONLY <2>1, <2>2, ConcatProperties
<1> PICK q, v : q = (A \o l) \o B /\ v = (A \o w) \o B OBVIOUS
<1>8. q \in Pipe!Thinned(v, IF answer' = "ERROR" THEN Types ELSE {"other"})
  <2>1. CASE answer' = "ERROR"
    <3>1. q \in Pipe!Thinned(v, Types) BY ONLY <1>6, <1>7, MayBeLost, q = (A \o l) \o B, v = (A \o w) \o B
    <3> QED BY <2>1, <3>1
  <2>2. CASE answer' # "ERROR"
    <3>1. o.status # "ERROR" BY <2>2, ErrorAnswered
    <3>2. T = {"other"} BY <3>1 DEF MayLose
    <3> QED BY <1>6, <2>2, <3>2
  <2> QED BY <2>1, <2>2
<1> QED BY <1>4, <1>8 DEF Pipe!Deliver

\* The step in which prStep runs out of memory, seen from outside.
LEMMA FetchBreaks ==
  ASSUME IInv, IInv', NEW o \in OverrunStep(curPU), NEW fits \in BOOLEAN,
         Fetch(curPU, o, fits), ~outOfMemory, outOfMemory', fed' = fed,
         outOfMemory' \in BOOLEAN
  PROVE  Pipe!Break
<1>1. curPU \in PUs BY DEF IInv, TypeOK
<1> PICK x, y : x = cb[curPU] /\ y = stash[curPU] OBVIOUS
<1>2. x \in Seq(Item) /\ y \in Seq(Item) /\ Len(x) \in Nat BY <1>1, BufferTypes DEF IInv
<1>3. PICK t \in 0 .. Len(x), e \in 0 .. Room(curPU) :
        \E p \in Survivors(y \o Take(x, t)) :
          \E s \in {"IDLE", "BUSY", "OUT_FULL", "ERROR"} :
            o = Overrun(curPU, t, e, p, s) /\ OverrunMayEnd(curPU, t, e, p, s)
  BY DEF OverrunStep
<1>4. PICK p \in Survivors(y \o Take(x, t)), s \in {"IDLE", "BUSY", "OUT_FULL", "ERROR"} :
        o = Overrun(curPU, t, e, p, s) /\ OverrunMayEnd(curPU, t, e, p, s)
  BY <1>3
<1> PICK f, r : f = Take(x, t) /\ r = Drop(x, t) OBVIOUS
<1>5. f \in Seq(Item) /\ r \in Seq(Item) /\ f \o r = x
  <2>1. t \in Nat /\ t <= Len(x) BY <1>2, <1>3
  <2>2. Take(x, t) \in Seq(Item) BY ONLY <1>2, <2>1, TakeProperties
  <2>3. Drop(x, t) \in Seq(Item) BY ONLY <1>2, <2>1, DropProperties
  <2>4. Take(x, t) \o Drop(x, t) = x BY ONLY <1>2, <2>1, TakeDrop
  <2> QED BY <2>2, <2>3, <2>4
<1>6. y \o f \in Seq(Item) BY ONLY <1>2, <1>5, ConcatProperties
<1>7. p \in Seq(Item) /\ p \in Survivors(y \o f)
  <2>1. p \in Survivors(y \o f) BY <1>4
  <2> QED BY ONLY <1>6, <2>1, SurvivorsAre
<1> PICK sent, kept : sent = Take(p, e) /\ kept = Drop(p, e) OBVIOUS
<1>8. sent \in Seq(Item) /\ kept \in Seq(Item) /\ sent \o kept = p
  <2>1. e \in Nat /\ e <= Len(p) BY <1>1, <1>3, <1>4, BufferTypes DEF OverrunMayEnd, IInv
  <2>2. Take(p, e) \in Seq(Item) BY ONLY <1>7, <2>1, TakeProperties
  <2>3. Drop(p, e) \in Seq(Item) BY ONLY <1>7, <2>1, DropProperties
  <2>4. Take(p, e) \o Drop(p, e) = p BY ONLY <1>7, <2>1, TakeDrop
  <2> QED BY <2>2, <2>3, <2>4
<1>9. o.out = cb[curPU + 1] \o sent /\ o.stash = kept /\ o.in = r BY <1>4 DEF Overrun
<1>10. PICK A, B \in Seq(Item) :
         Inside = (A \o (y \o x)) \o B /\ Pipe!Answered((A \o (sent \o (kept \o r))) \o B)
  BY <1>8, <1>9, FetchAnswers
<1> PICK l, w : l = sent \o (kept \o r) /\ w = y \o x OBVIOUS
<1>11. l \in Survivors(w) /\ w \in Seq(Item)
  <2>1. l = (<<>> \o p) \o r
    <3>1. (sent \o kept) \o r = sent \o (kept \o r) BY ONLY <1>5, <1>8, Regrouped
    <3>2. <<>> \o p = p BY ONLY <1>7, ConcatEmptySeq
    <3> QED BY <1>8, <3>1, <3>2
  <2>2. w = (<<>> \o (y \o f)) \o r
    <3>1. (y \o f) \o r = y \o (f \o r) BY ONLY <1>2, <1>5, Regrouped
    <3>2. <<>> \o (y \o f) = y \o f BY ONLY <1>6, ConcatEmptySeq
    <3> QED BY <1>5, <3>1, <3>2
  <2>3. <<>> \in Seq(Item) BY EmptySeq
  <2>4. (<<>> \o p) \o r \in Survivors((<<>> \o (y \o f)) \o r)
    BY ONLY <1>5, <1>6, <1>7, <2>3, SurvivorsInside
  <2>5. y \o x \in Seq(Item) BY ONLY <1>2, ConcatProperties
  <2> QED BY <2>1, <2>2, <2>4, <2>5
<1>12. (A \o l) \o B \in Survivors((A \o w) \o B)
  <2>1. A \in Seq(Item) /\ B \in Seq(Item) OBVIOUS
  <2> QED BY ONLY <1>11, <2>1, SurvivorsInside
<1> PICK q, v : q = (A \o l) \o B /\ v = (A \o w) \o B OBVIOUS
<1>13. q \in Pipe!Survivors(v) /\ Inside = v /\ Pipe!Answered(q)
  <2>1. Pipe!Survivors(v) = Survivors(v) BY SurvivorsIs
  <2> QED BY <1>10, <1>12, <2>1
<1>14. outOfMemory' = TRUE OBVIOUS
<1> QED BY <1>13, <1>14 DEF Pipe!Break

LEMMA InitPipes == Init => Pipe!Init
<1> SUFFICES ASSUME Init PROVE Pipe!Init
  OBVIOUS
<1>1. cb \in Buffers /\ stash \in Stashes
  BY InitInvariant DEF IInv, TypeOK, Buffers, Stashes
<1>2. (\A j \in 0 .. NumPU : cb[j] = <<>>) /\ \A j \in PUs : stash[j] = <<>>
  BY DEF Init
<1>3. Whole(cb, stash) = <<>> BY <1>1, <1>2, WholeEmpty
<1>4. Inside = <<>> BY <1>3 DEF Inside, Whole, PartsOf
<1> QED BY <1>4 DEF Init, Pipe!Init

LEMMA NextPipes == IInv /\ IInv' /\ [Next]_vars => [Pipe!Next]_(Pipe!pipeVars)
<1> SUFFICES ASSUME IInv, IInv', [Next]_vars PROVE [Pipe!Next]_(Pipe!pipeVars)
  OBVIOUS
<1>1. cb \in Buffers /\ stash \in Stashes /\ cb' \in Buffers /\ stash' \in Stashes
  BY DEF IInv, TypeOK, Buffers, Stashes
<1>2. Inside = Whole(cb, stash) /\ Inside' = Whole(cb', stash')
  BY DEF Inside, Whole, PartsOf
<1>3. ASSUME NEW fits \in BOOLEAN, GetData(fits) PROVE Pipe!Deliver
  <2>1. PICK o \in Step(curPU) : Fetch(curPU, o, fits) BY <1>3 DEF GetData
  <2>2. UNCHANGED <<outOfMemory, fed>> BY <1>3 DEF GetData
  <2> QED BY <2>1, <2>2, FetchDelivers
<1>4. CASE GetDataFails
  <2>1. PICK o \in FailedStep(curPU) : Fetch(curPU, o, TRUE) BY <1>4 DEF GetDataFails
  <2>2. UNCHANGED <<outOfMemory, fed>> BY <1>4 DEF GetDataFails
  <2>3. Pipe!Deliver BY <2>1, <2>2, FetchDelivers
  <2> QED BY <2>3 DEF Pipe!Next
<1>9. ASSUME NEW fits \in BOOLEAN, RunsOutOfMemory(fits) PROVE Pipe!Break
  <2>1. PICK o \in OverrunStep(curPU) : Fetch(curPU, o, fits) BY <1>9 DEF RunsOutOfMemory
  <2>2. ~outOfMemory /\ outOfMemory' /\ outOfMemory' \in BOOLEAN /\ fed' = fed
    BY <1>9 DEF RunsOutOfMemory
  <2> QED BY <2>1, <2>2, FetchBreaks
<1>5. ASSUME NEW ty \in Types, FeedText(ty) PROVE Pipe!Accept
  <2> PICK e : e = [n |-> fed + 1, type |-> ty] OBVIOUS
  <2>1. e \in Item BY DEF Item, IInv, TypeOK
  <2>2. cb' = [cb EXCEPT ![0] = Append(cb[0], e)] /\ stash' = stash BY <1>5 DEF FeedText
  <2>3. Whole(cb', stash') = Append(Whole(cb, stash), e)
    <3> PICK b, s, b2 : b = cb /\ s = stash /\ b2 = cb' OBVIOUS
    <3>1. b \in Buffers /\ s \in Stashes /\ b2 = [b EXCEPT ![0] = Append(b[0], e)]
      BY <1>1, <2>2
    <3>2. Whole(b2, s) = Append(Whole(b, s), e) BY ONLY <2>1, <3>1, WholeEnters
    <3> QED BY <2>2, <3>2
  <2> QED BY <1>2, <1>5, <2>3 DEF FeedText, Pipe!Accept
<1>6. CASE EngReset
  <2>1. (\A j \in 0 .. NumPU : cb'[j] = <<>>) /\ \A j \in PUs : stash'[j] = <<>>
    BY <1>6 DEF EngReset
  <2>2. Whole(cb', stash') = <<>>
    <3> PICK b, s : b = cb' /\ s = stash' OBVIOUS
    <3>1. Whole(b, s) = <<>> BY <1>1, <2>1, WholeEmpty
    <3> QED BY <3>1
  <2>3. Pipe!Reset BY <1>2, <1>6, <2>2 DEF EngReset, Pipe!Reset
  <2> QED BY <2>3 DEF Pipe!Next
<1>7. CASE UNCHANGED vars
  <2>1. Inside' = Inside BY <1>7 DEF Inside, vars
  <2> QED BY <1>7, <2>1 DEF Pipe!pipeVars, vars
<1>8. CASE Next
  <2>1. CASE \E fits \in BOOLEAN : GetData(fits) BY <1>3, <2>1 DEF Pipe!Next
  <2>2. CASE \E ty \in Types : FeedText(ty) BY <1>5, <2>2 DEF Pipe!Next
  <2>3. CASE \E fits \in BOOLEAN : RunsOutOfMemory(fits) BY <1>9, <2>3 DEF Pipe!Next
  <2> QED BY <1>4, <1>6, <1>8, <2>1, <2>2, <2>3 DEF Next
<1> QED BY <1>7, <1>8

(***************************************************************************)
(* The chain of PUs and char buffers (ctrlStep and                         *)
(* picoctrl_engFetchOutputItemBytes) implements one queue: what was fed    *)
(* comes out in order and at most once, IDLE is answered only when no      *)
(* flush is left inside, and what vanishes on the way is what the PUs      *)
(* discard (OTHER items), one item at most per call that answers ERROR,    *)
(* and what prStep drops in the one step in which it runs out of memory.   *)
(***************************************************************************)
THEOREM EngineIsAPipe == Spec => PipeSpec
<1>1. Init => Pipe!Init BY InitPipes
<1>2. IInv /\ IInv' /\ [Next]_vars => [Pipe!Next]_(Pipe!pipeVars) BY NextPipes
<1> QED BY <1>1, <1>2, Invariance, PTL DEF Spec, PipeSpec, Pipe!Spec
=============================================================================
