----------------------------- MODULE PicoPamFeat -----------------------------
(***************************************************************************)
(* The features PAM gives its decision trees (picopam.c).  Every syllable  *)
(* has a vector of numbers that say where it stands: in its word, in its   *)
(* secondary phrase, in its primary phrase, in the utterance.  The code    *)
(* computes them with some forty counters and small automata that are fed  *)
(* the syllables and bounds of a sentence as events, first forward as the  *)
(* items come in and then backward.                                        *)
(*                                                                         *)
(* s is the sentence: s.v the vectors, s.c the counters, s.at the current  *)
(* syllable.  An event is SYLL, or the bound W, S or P of a word, a        *)
(* secondary or a primary phrase.                                          *)
(***************************************************************************)
EXTENDS Integers, Sequences, FiniteSets, SequencesExt, FiniteSetsExt

CONSTANTS
  FeatSylls,   \* the syllables to try: [acc, len]
  FeatMaxSyll  \* bound: syllables and pauses of a sentence

VARIABLES feat, featPhase
featVars == <<feat, featPhase>>

DontCare == 250   \* PICOPAM_DONT_CARE_VALUE

FeatV(s) == s.v[s.at + 1]
FeatOut(s, f, val) == [s EXCEPT !.v[s.at + 1][f] = val]
FeatSet(s, k, val) == [s EXCEPT !.c[k] = val]
FeatBump(s, k) == [s EXCEPT !.c[k] = @ + 1]
FeatDest(back, f, b) == IF back THEN b ELSE f
FeatBound(ev) == ev \in {"W", "S", "P"}
\* The counter n as long as an automaton has left its state 0.
FeatIf(state, n) == IF state = 0 THEN DontCare ELSE n

(***************************************************************************)
(* Syllables                                                               *)
(***************************************************************************)
FeatA3(s, ev) ==
  IF ev = "SYLL"
  THEN LET n == IF (FeatV(s).P1 = 1 \/ s.c.a3Phrase >= 1) /\ s.c.a3Overall >= 1
                THEN s.v[s.at].B3 ELSE 0
       IN  FeatBump(FeatBump(FeatOut(s, "A3", n), "a3Phrase"), "a3Overall")
  ELSE IF ev = "P" THEN FeatSet(s, "a3Phrase", 0) ELSE s

FeatB4(s, ev, back) ==
  LET dest == FeatDest(back, "B4", "B5")
  IN  IF FeatBound(ev) THEN FeatSet(s, "b4", 1)
      ELSE IF FeatV(s).P1 = 0 THEN FeatBump(FeatOut(s, dest, s.c.b4), "b4")
      ELSE FeatOut(s, dest, 0)

FeatB6(s, ev, back) ==
  LET dest == FeatDest(back, "B6", "B7")
  IN  CASE ev = "SYLL" ->
             LET t == FeatOut(s, dest, FeatIf(s.c.b6State, s.c.b6))
             IN  IF s.c.b6State = 1 THEN FeatBump(t, "b6") ELSE t
        [] ev = "S" -> FeatSet(FeatSet(s, "b6", 1), "b6State", 1)
        [] ev = "P" -> FeatSet(s, "b6State", 0)
        [] OTHER -> s

\* B8 and B9 count syllables with B1, B10 and B11 those with B2.
FeatCount(s, ev, dest, k, mark) ==
  CASE ev = "SYLL" ->
         LET t == FeatOut(s, dest, s.c[k])
         IN  IF FeatV(s)[mark] = 1 THEN FeatBump(t, k) ELSE t
    [] ev = "P" -> FeatSet(s, k, 0)
    [] OTHER -> s
FeatB8(s, ev, back) == FeatCount(s, ev, FeatDest(back, "B8", "B9"), "b8", "B1")
FeatB10(s, ev, back) == FeatCount(s, ev, FeatDest(back, "B10", "B11"), "b10", "B2")

\* Mutation of FeatSince: a phrase does not end the count.
FeatSinceOn(s, ev, dest, k, state, mark) ==
  LET t == FeatOut(s, dest, FeatIf(s.c[state], s.c[k]))
  IN  CASE ev # "SYLL" -> s
        [] FeatV(s)[mark] = 1 -> FeatSet(FeatSet(t, k, 0), state, 1)
        [] OTHER -> FeatBump(t, k)

\* Syllables since the last one with B1 (B12, B13) or B2 (B14, B15).  State 1 and
\* 2 differ in nothing but their number.
FeatSince(s, ev, dest, k, state, mark) ==
  LET marked == FeatV(s)[mark] = 1
      t == FeatOut(s, dest, FeatIf(s.c[state], s.c[k]))
  IN  CASE ev = "SYLL" ->
             IF s.c[state] = 0
             THEN IF marked THEN FeatSet(FeatSet(t, k, 0), state, 1) ELSE t
             ELSE FeatSet(FeatSet(t, k, IF marked THEN 0 ELSE s.c[k] + 1), state, 2)
        [] ev = "P" -> FeatSet(s, state, 0)
        [] OTHER -> s
FeatB12(s, ev, back) ==
  FeatSince(s, ev, FeatDest(back, "B12", "B13"), "b12", "b12State", "B1")
FeatB14(s, ev, back) ==
  FeatSince(s, ev, FeatDest(back, "B14", "B15"), "b14", "b14State", "B2")

FeatB17(s, ev) ==
  IF ev = "SYLL"
  THEN LET first == s.c.b17State = 0
           t == FeatOut(s, "B17", IF first THEN DontCare ELSE s.c.b17)
       IN  FeatBump(FeatOut(t, "B19", IF first THEN s.c.b17 ELSE DontCare), "b17")
  ELSE IF s.c.b17State = 0
  THEN IF ev \in {"P", "S"} /\ s.c.b17 > 1
       THEN FeatSet(IF ev = "P" THEN FeatSet(s, "b17", 1) ELSE s, "b17State", 1)
       ELSE s
  ELSE IF ev = "P" THEN FeatSet(s, "b17", 1) ELSE s

\* The same backward: a last secondary phrase tells a question.
FeatB18(s, ev) ==
  IF ev = "SYLL"
  THEN LET last == s.c.b18State = 0
           tell == FeatV(s).P6 = "DECLARATIVE"
           t == FeatOut(s, "B18", IF last THEN DontCare ELSE s.c.b18)
           u == FeatOut(t, "B20", IF last /\ tell THEN s.c.b18 ELSE DontCare)
       IN  FeatBump(FeatOut(u, "B21", IF last /\ ~tell THEN s.c.b18 ELSE DontCare), "b18")
  ELSE IF s.c.b18State = 0
  THEN IF ev \in {"P", "S"} /\ s.c.b18 > 1
       THEN FeatSet(IF ev = "P" THEN FeatSet(s, "b18", 1) ELSE s, "b18State", 1)
       ELSE s
  ELSE IF ev = "P" THEN FeatSet(s, "b18", 1) ELSE s

FeatC3(s, ev) ==
  IF ev = "SYLL"
  THEN LET n == IF (FeatV(s).P1 = 1 \/ s.c.c3Phrase >= 1) /\ s.c.c3Overall >= 1
                THEN s.v[s.at + 2].B3 ELSE 0
       IN  FeatBump(FeatBump(FeatOut(s, "C3", n), "c3Phrase"), "c3Overall")
  ELSE IF ev = "P" THEN FeatSet(s, "c3Phrase", 0) ELSE s

(***************************************************************************)
(* Words                                                                   *)
(***************************************************************************)
FeatD2(s, ev) ==
  IF ev = "SYLL"
  THEN FeatBump(FeatOut(s, "D2", IF FeatV(s).P1 = 1 \/ s.c.d2Word >= 1
                                 THEN s.c.d2Prev ELSE 0), "d2Sylls")
  ELSE [s EXCEPT !.c.d2Word = IF ev = "P" THEN 0 ELSE 1,
                 !.c.d2Prev = s.c.d2Sylls, !.c.d2Sylls = 0]

\* A value for all syllables of the word that ends.
FeatWord(s, f, start, end, val) ==
  IF start = -1 \/ end = -1 THEN s
  ELSE [s EXCEPT !.v = [k \in DOMAIN @ |->
                          IF k - 1 \in start .. end THEN [@[k] EXCEPT ![f] = val]
                          ELSE @[k]]]
FeatE1(s, ev) ==
  IF ev = "SYLL"
  THEN [s EXCEPT !.c.e1Start = IF @ = -1 THEN s.at ELSE @, !.c.e1End = s.at,
                 !.c.e1Content = IF FeatV(s).P5 = 1 THEN 1 ELSE @]
  ELSE [FeatWord(s, "E1", s.c.e1Start, s.c.e1End, s.c.e1Content)
          EXCEPT !.c.e1Content = 0, !.c.e1Start = -1, !.c.e1End = -1]
FeatE2(s, ev) ==
  IF ev = "SYLL"
  THEN [s EXCEPT !.c.e2Start = IF @ = -1 THEN s.at ELSE @, !.c.e2End = s.at]
  ELSE [FeatWord(s, "E2", s.c.e2Start, s.c.e2End, s.c.e2End - s.c.e2Start + 1)
          EXCEPT !.c.e1Content = 0, !.c.e2Start = -1, !.c.e2End = -1]

FeatE3(s, ev, back) ==
  CASE ev = "SYLL" -> FeatOut(s, FeatDest(back, "E3", "E4"), FeatIf(s.c.e3State, s.c.e3))
    [] ev = "S" -> FeatSet(FeatSet(s, "e3", 1), "e3State", 1)
    [] ev = "W" -> IF s.c.e3State = 1 THEN FeatBump(s, "e3") ELSE s
    [] ev = "P" -> FeatSet(s, "e3State", 0)

FeatE5(s, ev, back) ==
  IF ev = "SYLL"
  THEN LET t == FeatOut(s, FeatDest(back, "E5", "E6"), s.c.e5)
       IN  IF FeatV(s).P5 = 1 THEN FeatSet(t, "e5Content", 1) ELSE t
  ELSE [s EXCEPT !.c.e5Content = 0,
                 !.c.e5 = IF ev = "P" THEN 0
                          ELSE IF s.c.e5Content = 1 THEN @ + 1 ELSE @]

FeatE7(s, ev, back) ==
  CASE ev = "SYLL" ->
         LET t == FeatOut(s, FeatDest(back, "E7", "E8"), FeatIf(s.c.e7State, s.c.e7))
         IN  IF FeatV(s).P5 = 1 THEN FeatSet(t, "e7Content", 1) ELSE t
    [] ev = "P" -> FeatSet(FeatSet(s, "e7State", 0), "e7Content", 0)
    [] OTHER ->
         IF s.c.e7Content = 1
         THEN [s EXCEPT !.c.e7 = 0, !.c.e7Content = 0, !.c.e7State = 1]
         ELSE IF s.c.e7State = 1 THEN FeatBump(s, "e7") ELSE s

FeatE9(s, ev) ==
  IF ev = "SYLL"
  THEN LET first == s.c.e9State = 0
           t == FeatOut(s, "E9", IF first THEN DontCare ELSE s.c.e9)
           u == FeatOut(t, "E11", IF first THEN s.c.e9 ELSE DontCare)
       IN  IF first THEN FeatSet(u, "e9Saw", 1) ELSE u
  ELSE IF s.c.e9State = 1 THEN FeatSet(s, "e9", IF ev = "P" THEN 1 ELSE s.c.e9 + 1)
  ELSE IF ev = "W" THEN FeatBump(s, "e9")
  ELSE IF s.c.e9Saw = 1
  THEN [s EXCEPT !.c.e9 = IF ev = "P" THEN 1 ELSE @ + 1, !.c.e9State = 1] ELSE s

FeatE10(s, ev) ==
  IF ev = "SYLL"
  THEN LET last == s.c.e10State = 0
           tell == FeatV(s).P6 = "DECLARATIVE"
           t == FeatOut(s, "E10", IF last THEN DontCare ELSE s.c.e10)
           u == FeatOut(t, "E12", IF last /\ tell THEN s.c.e10 ELSE DontCare)
           w == FeatOut(u, "E13", IF last /\ ~tell THEN s.c.e10 ELSE DontCare)
       IN  IF last THEN FeatSet(w, "e10Saw", 1) ELSE w
  ELSE IF s.c.e10State = 1 THEN FeatSet(s, "e10", IF ev = "P" THEN 1 ELSE s.c.e10 + 1)
  ELSE IF ev = "W" THEN FeatBump(s, "e10")
  ELSE IF s.c.e10Saw > 0
  THEN [s EXCEPT !.c.e10 = IF ev = "P" THEN 1 ELSE @ + 1, !.c.e10State = 1] ELSE s

FeatF2(s, ev) ==
  IF ev = "SYLL"
  THEN FeatBump(FeatOut(s, "F2", IF s.c.f2Word >= 1 THEN s.c.f2Next ELSE 0), "f2Sylls")
  ELSE [s EXCEPT !.c.f2Next = s.c.f2Sylls, !.c.f2Sylls = 0,
                 !.c.f2Word = IF ev = "P" THEN 0 ELSE @ + 1]

(***************************************************************************)
(* Phrases                                                                 *)
(***************************************************************************)
FeatG1(s, ev) ==
  CASE ev = "SYLL" -> FeatBump(FeatOut(s, "G1", s.c.g1Prev), "g1Sylls")
    [] ev = "S" -> FeatSet(FeatSet(s, "g1Prev", s.c.g1Sylls), "g1Sylls", 0)
    [] ev = "P" -> FeatSet(FeatSet(s, "g1Prev", 0), "g1Sylls", 0)
    [] OTHER -> s
FeatG2(s, ev) ==
  CASE ev = "SYLL" -> FeatOut(s, "G2", s.c.g2Prev)
    [] ev = "W" -> FeatBump(s, "g2Words")
    [] ev = "S" -> FeatSet(FeatSet(s, "g2Prev", s.c.g2Words + 1), "g2Words", 0)
    [] ev = "P" -> FeatSet(FeatSet(s, "g2Prev", 0), "g2Words", 0)

\* The vector left of the current one.  The first syllable of a sentence has none,
\* and what is read there is not used.
FeatLeft(s, f) == IF s.at = 0 THEN 0 ELSE s.v[s.at][f]

\* Forward, a number that grows; backward, the last one is spread over the phrase.
FeatH1(s, ev, back) ==
  CASE ev = "SYLL" /\ ~back -> FeatOut(FeatBump(s, "h1"), "H1", s.c.h1 + 1)
    [] ev = "SYLL" -> FeatOut(s, "H1", s.c.h1)
    [] ev \in {"S", "P"} /\ ~back -> FeatSet(s, "h1", 0)
    [] ev = "S" -> FeatSet(s, "h1", FeatV(s).H1)
    [] ev = "P" -> FeatSet(s, "h1", FeatLeft(s, "H1"))
    [] OTHER -> s
FeatH2(s, ev, back) ==
  CASE ev = "SYLL" -> FeatOut(s, "H2", s.c.h2)
    [] ev = "W" /\ ~back -> FeatOut(FeatBump(s, "h2"), "H2", s.c.h2 + 1)
    [] ev = "S" /\ ~back -> FeatSet(FeatOut(s, "H2", s.c.h2 + 1), "h2", 0)
    [] ev = "P" /\ ~back ->
         FeatSet(IF s.at > 1 THEN [s EXCEPT !.v[s.at].H2 = s.c.h2 + 1] ELSE s, "h2", 0)
    [] ev = "S" -> FeatSet(s, "h2", FeatV(s).H2)
    [] ev = "P" -> FeatSet(s, "h2", FeatLeft(s, "H2"))
    [] OTHER -> s
FeatH3(s, ev, back) ==
  CASE ev = "SYLL" -> FeatOut(s, FeatDest(back, "H3", "H4"), s.c.h3)
    [] ev \in {"S", "P"} -> FeatBump(s, "h3")
    [] OTHER -> s
FeatH5(s, ev) ==
  CASE ev = "SYLL" ->
         IF s.c.h5State = 1 /\ FeatV(s).H5 = "P" /\ FeatV(s).P1 = 0
         THEN FeatOut(s, "H5", "p") ELSE s
    [] ev = "S" -> FeatSet(s, "h5State", 1)
    [] ev = "P" -> FeatSet(s, "h5State", 0)
    [] OTHER -> s
FeatI1(s, ev, back) ==
  CASE ev = "SYLL" /\ ~back -> FeatOut(FeatBump(s, "i1"), "I1", s.c.i1 + 1)
    [] ev = "SYLL" -> FeatOut(s, "I1", s.c.i1Next)
    [] ev \in {"S", "P"} /\ ~back -> FeatSet(s, "i1", 0)
    [] ev = "S" -> FeatSet(FeatSet(s, "i1Next", s.c.i1), "i1", FeatV(s).I1)
    [] ev = "P" -> FeatSet(FeatSet(s, "i1Next", 0), "i1", FeatLeft(s, "I1"))
    [] OTHER -> s
FeatI2(s, ev, back) ==
  CASE ev = "SYLL" -> FeatOut(s, "I2", IF back THEN s.c.i2Next ELSE s.c.i2)
    [] ev = "W" /\ ~back -> FeatBump(s, "i2")
    [] ev \in {"S", "P"} /\ ~back -> FeatSet(s, "i2", 1)
    [] ev = "S" -> FeatSet(FeatSet(s, "i2Next", s.c.i2), "i2", FeatV(s).I2)
    [] ev = "P" -> FeatSet(FeatSet(s, "i2Next", 0), "i2", FeatLeft(s, "I2"))
    [] OTHER -> s

\* Of the utterance: counted forward, noted backward.
FeatJ1(s, ev, back) ==
  IF back THEN FeatOut(s, "J1", s.c.j1)
  ELSE IF ev = "SYLL" /\ FeatV(s).P1 # 1 THEN FeatBump(s, "j1") ELSE s
FeatJ2(s, ev, back) ==
  IF back THEN FeatOut(s, "J2", s.c.j2 - 1)
  ELSE IF FeatBound(ev) THEN FeatBump(s, "j2") ELSE s
FeatJ3(s, ev, back) ==
  IF back THEN FeatOut(s, "J3", s.c.j3 - 1)
  ELSE IF ev \in {"S", "P"} THEN FeatBump(s, "j3") ELSE s

(***************************************************************************)
(* Events and passes                                                       *)
(***************************************************************************)
FeatOrder == <<"A3", "B4", "B6", "B8", "B10", "B12", "B14", "B17", "B18", "C3", "D2",
               "E1", "E2", "E3", "E5", "E7", "E9", "E10", "F2", "G1", "G2", "H1", "H2",
               "H3", "H5", "I1", "I2", "J1", "J2", "J3">>
pam_process_event_feature(s, f, ev, back) ==
  CASE f = "A3" -> IF back THEN s ELSE FeatA3(s, ev)
    [] f = "B4" -> FeatB4(s, ev, back)
    [] f = "B6" -> FeatB6(s, ev, back)
    [] f = "B8" -> FeatB8(s, ev, back)
    [] f = "B10" -> FeatB10(s, ev, back)
    [] f = "B12" -> FeatB12(s, ev, back)
    [] f = "B14" -> FeatB14(s, ev, back)
    [] f = "B17" -> IF back THEN s ELSE FeatB17(s, ev)
    [] f = "B18" -> IF back THEN FeatB18(s, ev) ELSE s
    [] f = "C3" -> IF back THEN FeatC3(s, ev) ELSE s
    [] f = "D2" -> IF back THEN s ELSE FeatD2(s, ev)
    [] f = "E1" -> IF back THEN s ELSE FeatE1(s, ev)
    [] f = "E2" -> IF back THEN s ELSE FeatE2(s, ev)
    [] f = "E3" -> FeatE3(s, ev, back)
    [] f = "E5" -> FeatE5(s, ev, back)
    [] f = "E7" -> FeatE7(s, ev, back)
    [] f = "E9" -> IF back THEN s ELSE FeatE9(s, ev)
    [] f = "E10" -> IF back THEN FeatE10(s, ev) ELSE s
    [] f = "F2" -> IF back THEN FeatF2(s, ev) ELSE s
    [] f = "G1" -> IF back THEN s ELSE FeatG1(s, ev)
    [] f = "G2" -> IF back THEN s ELSE FeatG2(s, ev)
    [] f = "H1" -> FeatH1(s, ev, back)
    [] f = "H2" -> FeatH2(s, ev, back)
    [] f = "H3" -> FeatH3(s, ev, back)
    [] f = "H5" -> IF back THEN FeatH5(s, ev) ELSE s
    [] f = "I1" -> FeatI1(s, ev, back)
    [] f = "I2" -> FeatI2(s, ev, back)
    [] f = "J1" -> FeatJ1(s, ev, back)
    [] f = "J2" -> FeatJ2(s, ev, back)
    [] f = "J3" -> FeatJ3(s, ev, back)

\* pam_process_event: a bound marks the syllable before it.
FeatEvent(s, ev, back) ==
  LET mark == [P |-> "P2", S |-> "P3", W |-> "P4"]
      marked == IF back \/ ev = "SYLL" THEN s ELSE FeatOut(s, mark[ev], 1)
  IN  FoldLeft(LAMBDA t, f : pam_process_event_feature(t, f, ev, back), marked, FeatOrder)

\* pam_reset_processors_back
FeatCounters ==
  [k \in {"a3Phrase", "a3Overall", "b6", "b6State", "b8", "b10", "b12", "b12State",
          "b14", "b14State", "b17State", "b18State", "c3Phrase", "c3Overall",
          "d2Word", "d2Prev", "d2Sylls", "e1Content", "e3", "e3State", "e5",
          "e5Content", "e7State", "e7Content", "e9State", "e9Saw", "e10State",
          "e10Saw", "f2Word", "f2Next", "f2Sylls", "g1Prev", "g1Sylls", "g2Prev",
          "g2Words", "h1", "h3", "h5State", "i1", "i1Next", "i2", "i2Next"} |-> 0]
  @@ [k \in {"b4", "b17", "b18", "e7", "e9", "e10", "h2"} |-> 1]
  @@ [k \in {"e1Start", "e1End", "e2Start", "e2End"} |-> -1]
\* ... and pam_reset_processors, which also clears the counters of the utterance.
FeatAllCounters == FeatCounters @@ [k \in {"j1", "j2", "j3"} |-> 0]

\* pam_create_syllable
FeatBlank == [f \in {"P1", "P2", "P3", "P4", "P5", "A3", "B1", "B2", "B3", "B4", "B5",
                     "B6", "B7", "B8", "B9", "B10", "B11", "B12", "B13", "B14", "B15",
                     "B17", "B18", "B19", "B20", "B21", "C3", "D2", "E1", "E2", "E3",
                     "E4", "E5", "E6", "E7", "E8", "E9", "E10", "E11", "E12", "E13",
                     "F2", "G1", "G2", "H1", "H2", "H3", "H4", "I1", "I2", "J1", "J2",
                     "J3"} |-> 0]
FeatPause(sType, pType) ==
  [f \in {"P1", "B3", "B4", "B5", "B6", "B7", "E2", "E3", "E4"} |-> 1]
  @@ ("P6" :> sType) @@ ("H5" :> pType) @@ FeatBlank
FeatSyllable(syll, sType, pType) ==
  ("P5" :> IF syll.acc > 0 THEN 1 ELSE 0) @@ ("B1" :> IF syll.acc \in 1 .. 4 THEN 1 ELSE 0)
  @@ ("B2" :> IF syll.acc \in 1 .. 2 THEN 1 ELSE 0) @@ ("B3" :> syll.len)
  @@ ("P6" :> sType) @@ ("H5" :> pType) @@ FeatBlank
FeatCreate(s, vector) == [s EXCEPT !.v = Append(@, vector), !.at = @ + 1]

\* One turn of the loop of pam_adapter_backward_step.
FeatBackward(s) ==
  LET Ev(t, ev) == FeatEvent(t, ev, TRUE)
      done == IF FeatV(s).P2 = 1 THEN Ev(s, "P")
              ELSE IF FeatV(s).P3 = 1 THEN Ev(Ev(s, "S"), "SYLL")
              ELSE IF FeatV(s).P4 = 1 THEN Ev(Ev(s, "W"), "SYLL") ELSE Ev(s, "SYLL")
  IN  [done EXCEPT !.at = @ - 1]

\* pam_do_pause: what a pause takes from its neighbours.
FeatFromLeft == {"B8", "B10", "B12", "B14", "B17", "B19", "B20", "B21", "E5", "E7",
                 "E9", "E11", "E12", "E13", "H1", "H2", "H3", "H4"}
FeatNone == {"A3", "B8", "B10", "B12", "B14", "B17", "B19", "B20", "B21", "E5", "E9",
             "E11", "E12", "H1", "H2", "H3"}
FeatDoPause(v, k) ==
  LET left == v[k - 1]
      right == v[k + 1]
      began == IF k > 1
               THEN ("A3" :> left.B3) @@ ("D2" :> left.E2) @@ ("G1" :> left.H1)
                    @@ ("G2" :> left.H2) @@ [f \in FeatFromLeft |-> left[f]] @@ v[k]
               ELSE ("H4" :> v[k].J3) @@ ("H5" :> "p") @@ [f \in FeatNone |-> 0] @@ v[k]
      ended == IF k < Len(v)
               THEN ("C3" :> right.B3) @@ ("F2" :> right.E2) @@ ("I1" :> right.H1)
                    @@ ("I2" :> right.H2) @@ began
               ELSE [f \in {"C3", "F2", "I1", "I2"} |-> 0] @@ began
  IN  ("B18" :> 0) @@ ended
\* pam_adapter_do_pauses goes from the last syllable to the first.
FeatPauses(v) ==
  FoldLeft(LAMBDA w, i : LET k == Len(v) + 1 - i
                         IN  IF w[k].P2 = 1 THEN [w EXCEPT ![k] = FeatDoPause(w, k)] ELSE w,
           v, [i \in 1 .. Len(v) |-> i])

(***************************************************************************)
(* A sentence: the forward steps of pam_adapter_forward_step, then the     *)
(* backward step                                                           *)
(***************************************************************************)
FeatTypes == {"DECLARATIVE", "INTERROGATIVE"}

FeatInit ==
  /\ \E type \in FeatTypes :
       feat = [s |-> FeatEvent([v |-> <<FeatPause(type, "P")>>, c |-> FeatAllCounters,
                                at |-> 0], "P", FALSE),
               sType |-> type, pType |-> "P"]
  /\ featPhase = "forward"

FeatForward == featPhase = "forward" /\ Len(feat.s.v) < FeatMaxSyll
FeatStay == UNCHANGED featPhase
\* There is a syllable, and no bound yet, behind which the bound comes.
FeatOpen == LET x == FeatV(feat.s) IN x.P1 = 0 /\ x.P3 = 0 /\ x.P4 = 0

FeatSyllItem ==
  /\ FeatForward /\ FeatStay
  /\ \E syll \in FeatSylls :
       LET t == FeatCreate(feat.s, FeatSyllable(syll, feat.sType, feat.pType))
       IN  feat' = [feat EXCEPT !.s = FeatEvent(t, "SYLL", FALSE)]

FeatPhr0 ==
  /\ FeatForward /\ FeatOpen /\ FeatStay
  /\ feat' = [feat EXCEPT !.s = FeatEvent(@, "W", FALSE)]

FeatPhr3 ==
  /\ FeatForward /\ FeatOpen /\ FeatStay
  /\ \E type \in FeatTypes, pType \in {"p", "T"} :
       feat' = [s |-> FeatEvent(feat.s, "S", FALSE), sType |-> type, pType |-> pType]

FeatPhr1 ==
  /\ FeatForward /\ FeatOpen /\ FeatStay
  /\ \E type \in FeatTypes :
       LET t == FeatCreate(feat.s, FeatPause(type, "P"))
       IN  feat' = [s |-> FeatEvent(t, "P", FALSE), sType |-> type, pType |-> "P"]

FeatSend ==
  /\ featPhase = "forward" /\ FeatOpen /\ featPhase' = "backward"
  /\ LET t == FeatEvent(FeatCreate(feat.s, FeatPause(feat.sType, feat.pType)), "P", FALSE)
     IN  feat' = [feat EXCEPT !.s = [t EXCEPT !.c = FeatCounters @@ t.c]]

FeatStepBack ==
  /\ featPhase = "backward" /\ feat.s.at >= 0 /\ FeatStay
  /\ feat' = [feat EXCEPT !.s = FeatBackward(@)]

FeatEnd ==
  /\ featPhase = "backward" /\ feat.s.at < 0 /\ featPhase' = "done"
  /\ feat' = [feat EXCEPT !.s.v = FeatPauses(@)]

FeatNext == \/ FeatSyllItem \/ FeatPhr0 \/ FeatPhr3 \/ FeatPhr1 \/ FeatSend
            \/ FeatStepBack \/ FeatEnd
FeatSpec == FeatInit /\ [][FeatNext]_featVars

-----------------------------------------------------------------------------
(***************************************************************************)
(* What the features are meant to be                                       *)
(***************************************************************************)
\* What ends behind syllable i: 3 a primary phrase, 2 a secondary one, 1 a word.
FeatLevel(v, i) ==
  IF v[i].P1 = 1 \/ v[i + 1].P1 = 1 THEN 3
  ELSE IF v[i].P3 = 1 THEN 2 ELSE IF v[i].P4 = 1 THEN 1 ELSE 0
\* The ends of units in a .. b.
FeatEnds(v, lev, a, b) == {i \in a .. b : FeatLevel(v, i) >= lev}
\* The unit of syllable k.
FeatFirst(v, lev, k) == 1 + Max(FeatEnds(v, lev, 1, k - 1))
FeatLast(v, lev, k) == Min(FeatEnds(v, lev, k, Len(v) - 1))

FeatMarked(v, mark, a, b) == {j \in a .. b : v[j][mark] = 1}
\* The ends of the words in a .. b that have a content syllable.
FeatContent(v, a, b) ==
  {i \in FeatEnds(v, 1, a, b) : FeatMarked(v, "P5", FeatFirst(v, 1, i), i) # {}}

FeatExpected(v, k) ==
  LET w1 == FeatFirst(v, 1, k)   w2 == FeatLast(v, 1, k)
      s1 == FeatFirst(v, 2, k)   s2 == FeatLast(v, 2, k)
      p1 == FeatFirst(v, 3, k)   p2 == FeatLast(v, 3, k)
      Words(a, b) == Cardinality(FeatEnds(v, 1, a, b))
      Count(mark, a, b) == Cardinality(FeatMarked(v, mark, a, b))
      If(p, n) == IF p THEN n ELSE DontCare
      IfAny(p, n) == IF p THEN n ELSE 0
      Behind(S) == If(S # {}, k - Max(S) - 1)
      Before(S) == If(S # {}, Min(S) - k - 1)
      head == s1 = 2            \* the first secondary phrase of the sentence
      tail == s2 = Len(v) - 1   \* the last one
      tell == v[k].P6 = "DECLARATIVE"
      contents == FeatContent(v, p1, k - 1)
      coming == FeatContent(v, w2 + 1, p2)
  IN  [A3 |-> IfAny(k > p1, v[k - 1].B3), C3 |-> IfAny(k < p2, v[k + 1].B3),
       B4 |-> k - w1 + 1, B5 |-> w2 - k + 1,
       B6 |-> If(s1 > p1, k - s1 + 1), B7 |-> If(s2 < p2, s2 - k + 1),
       B8 |-> Count("B1", p1, k - 1), B9 |-> Count("B1", k + 1, p2),
       B10 |-> Count("B2", p1, k - 1), B11 |-> Count("B2", k + 1, p2),
       B12 |-> Behind(FeatMarked(v, "B1", p1, k - 1)),
       B13 |-> Before(FeatMarked(v, "B1", k + 1, p2)),
       B14 |-> Behind(FeatMarked(v, "B2", p1, k - 1)),
       B15 |-> Before(FeatMarked(v, "B2", k + 1, p2)),
       B17 |-> If(~head, k - p1 + 1), B19 |-> If(head, k - p1 + 1),
       B18 |-> If(~tail, p2 - k + 1), B20 |-> If(tail /\ tell, p2 - k + 1),
       B21 |-> If(tail /\ ~tell, p2 - k + 1),
       D2 |-> IfAny(w1 > p1, w1 - FeatFirst(v, 1, w1 - 1)),
       F2 |-> IfAny(w2 < p2, FeatLast(v, 1, w2 + 1) - w2),
       E1 |-> IF FeatMarked(v, "P5", w1, w2) = {} THEN 0 ELSE 1, E2 |-> w2 - w1 + 1,
       E3 |-> If(s1 > p1, Words(s1, k - 1) + 1), E4 |-> If(s2 < p2, Words(k, s2)),
       E5 |-> Cardinality(contents), E6 |-> Cardinality(coming),
       E7 |-> If(contents # {}, Words(Max(contents) + 1, k - 1)),
       E8 |-> If(coming # {}, Words(w2 + 1, Min(coming)) - 1),
       E9 |-> If(~head, Words(p1, k - 1) + 1), E11 |-> If(head, Words(p1, k - 1) + 1),
       E10 |-> If(~tail, Words(k, p2)), E12 |-> If(tail /\ tell, Words(k, p2)),
       E13 |-> If(tail /\ ~tell, Words(k, p2)),
       G1 |-> IfAny(s1 > p1, s1 - FeatFirst(v, 2, s1 - 1)),
       G2 |-> IfAny(s1 > p1, Words(FeatFirst(v, 2, s1 - 1), s1 - 1)),
       H1 |-> s2 - s1 + 1, H2 |-> Words(s1, s2),
       H3 |-> 1 + Cardinality({i \in FeatEnds(v, 2, 1, k - 1) : v[i].P1 = 0}),
       H4 |-> Cardinality({i \in FeatEnds(v, 2, k, Len(v) - 1) : v[i].P1 = 0}),
       I1 |-> IfAny(s2 < p2, FeatLast(v, 2, s2 + 1) - s2),
       I2 |-> IfAny(s2 < p2, Words(s2 + 1, FeatLast(v, 2, s2 + 1)))]

\* Whatever the sentence, the counters that run forward and the ones that run
\* backward give every syllable its place in its word and phrases.
FeatAsDefined ==
  featPhase = "done" =>
    LET v == feat.s.v
        spoken == {k \in DOMAIN v : v[k].P1 = 0}
    IN  /\ \A k \in spoken : LET e == FeatExpected(v, k)
                             IN  \A f \in DOMAIN e : v[k][f] = e[f]
        /\ \A k \in DOMAIN v :
             /\ v[k].J1 = Cardinality(spoken)
             /\ v[k].J2 = Cardinality({i \in spoken : FeatLevel(v, i) >= 1})
             /\ v[k].J3 = Cardinality({i \in spoken : FeatLevel(v, i) >= 2})
        /\ \A k \in spoken : FeatLast(v, 2, k) < FeatLast(v, 3, k) => v[k].H5 # "P"
=============================================================================
