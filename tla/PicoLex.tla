-------------------------------- MODULE PicoLex --------------------------------
(***************************************************************************)
(* The lexicon (picoklex.c) and how a word is looked up in it (picowa.c,   *)
(* picoktab.c).  A lexicon is a stream of bytes: the number of its blocks, *)
(* for each block the first three graphs of its first entry, the blocks of *)
(* a fixed size, filled up with zeros.  An entry has two parts, each with  *)
(* its length in front: the graphs, and a part of speech with phones.      *)
(*                                                                         *)
(* A word is looked up in the lexica of the user and then in that of the   *)
(* voice; what is found goes on as indices into the lexicon, which         *)
(* picosa.c reads.  An action is a turn of one of the loops.               *)
(***************************************************************************)
EXTENDS Integers, Sequences, SequencesExt, FiniteSetsExt

CONSTANTS
  LexBlockSize,   \* PICOKLEX_LEXBLOCK_SIZE
  LexMaxRes,      \* PICOKLEX_MAX_NRRES
  LexCases,       \* words, each with the lexica it is looked up in, that of the voice
                  \* last: sequences of blocks, which are sequences of entries
  LexPosGroups,   \* the combined parts of speech: [comb, pos]
  LexPredicted    \* the answers of the tree that predicts a part of speech, 0 for none

VARIABLE
  lex   \* [case, kbs (the lexica loaded), at (the one searched), phase, low, high,
        \*  nr (lbnr), pos, end (lexpos, lexposEnd), found (lexres), out (the item)]

LexNeedsG2p == 5   \* PICOKLEX_NEEDS_G2P
-----------------------------------------------------------------------------
(***************************************************************************)
(* The bytes of a lexicon.                                                 *)
(***************************************************************************)
LexPrefix(graph) == [i \in 1 .. 3 |-> IF i <= Len(graph) THEN graph[i] ELSE 0]
LexEntry(e) == <<Len(e.graph) + 1>> \o e.graph \o <<Len(e.phon) + 2, e.pos>> \o e.phon
LexBlock(entries) ==
  LET bytes == FlattenSeq([i \in DOMAIN entries |-> LexEntry(entries[i])])
  IN  bytes \o [i \in 1 .. LexBlockSize - Len(bytes) |-> 0]
LexBytes(blocks) ==
  <<Len(blocks) % 256, Len(blocks) \div 256>>
  \o FlattenSeq([b \in DOMAIN blocks |->
                   LexPrefix(blocks[b][1].graph) \o <<b % 256, b \div 256>>])
  \o FlattenSeq([b \in DOMAIN blocks |-> LexBlock(blocks[b])])

\* The first byte is that at 0; searchind follows the two bytes of nrblocks.
klexInitialize(base) ==
  [base |-> base, nrblocks |-> base[1] + 256 * base[2], searchind |-> 2,
   lexblocks |-> 2 + 5 * (base[1] + 256 * base[2])]

LexStart(c) ==
  lex = [case |-> c, kbs |-> [k \in DOMAIN c.lexica |-> klexInitialize(LexBytes(c.lexica[k]))],
         at |-> 1, phase |-> "lookup", low |-> 0, high |-> 0, nr |-> 0, pos |-> 0, end |-> 0,
         found |-> [phonfound |-> FALSE, posind |-> <<>>], out |-> <<>>]
LexInit == \E c \in LexCases : LexStart(c)
-----------------------------------------------------------------------------
(***************************************************************************)
(* The index of the blocks: the first three graphs, as a number.           *)
(***************************************************************************)
LexKb == lex.kbs[lex.at]
LexNumber(bytes) == (bytes[1] * 256 + bytes[2]) * 256 + bytes[3]
klex_getSearchIndexVal(kb, index) ==
  LexNumber([i \in 1 .. 3 |-> kb.base[kb.searchind + 5 * index + i]])
LexSearchVal == LexNumber(LexPrefix(lex.case.word))

LexLookup ==
  /\ lex.phase = "lookup"
  /\ lex' = [lex EXCEPT !.found = [phonfound |-> FALSE, posind |-> <<>>],
                        !.phase = IF LexKb.nrblocks = 0 THEN "looked" ELSE "bisect",
                        !.low = 0, !.high = LexKb.nrblocks, !.nr = 0]

LexBisect ==
  /\ lex.phase = "bisect" /\ lex.low < lex.high
  /\ LET mid == (lex.low + lex.high) \div 2
     IN  lex' = IF klex_getSearchIndexVal(LexKb, mid) < LexSearchVal
                THEN [lex EXCEPT !.low = mid + 1]
                ELSE [lex EXCEPT !.high = mid]

\* The first of the blocks that begin alike, where the search for it can end.  The loop
\* does not stop at the first block of all: it compares it with what it reads at the index
\* 65535, outside of the lexicon, and goes on there if this is the same.
LexFirstAlike(kb, index) ==
  LET first == Min({j \in 0 .. index : \A i \in j .. index :
                      klex_getSearchIndexVal(kb, i) = klex_getSearchIndexVal(kb, index)})
  IN  IF index <= 0 THEN {index} ELSE IF first = 0 THEN {0, -1} ELSE {first}

\* Mutation of klex_getLexblockNr: the block found is taken whatever it begins with.
LexBlockNrHere(kb, low) == {IF low < kb.nrblocks THEN low ELSE kb.nrblocks - 1}

\* The block to begin with, from the first one that does not begin before the word; one
\* in front of the first block is a number of 16 bits.
klex_getLexblockNr(kb, low) ==
  LET nrs == IF low >= kb.nrblocks THEN {kb.nrblocks - 1}
             ELSE IF klex_getSearchIndexVal(kb, low) > LexSearchVal
                  THEN LexFirstAlike(kb, low - 1) ELSE {low}
  IN  {nr % 65536 : nr \in nrs}

\* How many blocks begin alike; the entry behind the index, which is read as well, is
\* the first bytes of the blocks.
klex_getLexblockRange(kb, index) ==
  Max({n \in 1 .. kb.nrblocks + 1 - index : \A i \in index .. index + n - 1 :
         klex_getSearchIndexVal(kb, i) = klex_getSearchIndexVal(kb, index)})

\* A number that is none of a block is searched for all the same, outside of the
\* lexicon: the model goes no further.
LexBisected ==
  /\ lex.phase = "bisect" /\ lex.low >= lex.high
  /\ \E nr \in klex_getLexblockNr(LexKb, lex.low) :
       LET start == nr * LexBlockSize
       IN  lex' = IF nr >= LexKb.nrblocks THEN [lex EXCEPT !.phase = "outside", !.nr = nr]
                  ELSE [lex EXCEPT !.phase = "walk", !.nr = nr, !.pos = start,
                                   !.end = start + klex_getLexblockRange(LexKb, nr) * LexBlockSize]
-----------------------------------------------------------------------------
(***************************************************************************)
(* The entries of the blocks.                                              *)
(***************************************************************************)
LexAt(kb, pos) == kb.base[kb.lexblocks + pos + 1]
LexGraph(kb, pos) == [i \in 1 .. LexAt(kb, pos) - 1 |-> LexAt(kb, pos + i)]

\* Does one string of bytes come before the other?
LexBefore(a, b) ==
  \/ IsStrictPrefix(a, b)
  \/ \E i \in DOMAIN a \cap DOMAIN b : a[i] < b[i] /\ \A j \in 1 .. i - 1 : a[j] = b[j]
klex_lexMatch(kb, pos, graph) ==
  CASE LexGraph(kb, pos) = graph -> "same"
    [] LexBefore(LexGraph(kb, pos), graph) -> "before"
    [] OTHER -> "behind"

\* Mutation of LexNextEntry: the zeros that fill up a block are an entry.
LexNextInBlock(kb, pos, end) ==
  LET second == pos + LexAt(kb, pos) IN second + LexAt(kb, second)

\* Behind both parts of an entry, and behind zeros.
LexNextEntry(kb, pos, end) ==
  LET second == pos + LexAt(kb, pos)
      next   == second + LexAt(kb, second)
  IN  Min({q \in next .. end : q = end \/ LexAt(kb, q) # 0} \cup {IF next > end THEN next ELSE end})

klex_setLexResult(found, kb, pos) ==
  LET second == pos + LexAt(kb, pos)
      nopos  == LexAt(kb, second + 1)
  IN  IF LexAt(kb, second) > 2 /\ LexAt(kb, second + 2) = LexNeedsG2p
      THEN [phonfound |-> FALSE, posind |-> <<<<nopos>>>>]
      ELSE [phonfound |-> TRUE,
            posind |-> Append(found.posind, <<nopos, pos % 256, (pos \div 256) % 256,
                                              (pos \div 65536) % 256>>)]

LexWalk ==
  /\ lex.phase = "walk"
  /\ lex' = IF lex.pos >= lex.end THEN [lex EXCEPT !.phase = "looked"]
            ELSE CASE klex_lexMatch(LexKb, lex.pos, lex.case.word) = "same" ->
                        LET found == klex_setLexResult(lex.found, LexKb, lex.pos)
                        IN  [lex EXCEPT !.found = found,
                                        !.phase = IF found.phonfound THEN "more" ELSE "looked"]
                   [] klex_lexMatch(LexKb, lex.pos, lex.case.word) = "before" ->
                        [lex EXCEPT !.pos = LexNextEntry(LexKb, @, lex.end)]
                   [] OTHER -> [lex EXCEPT !.phase = "looked"]

\* More entries of the same word, up to LexMaxRes.
LexMore ==
  /\ lex.phase = "more"
  /\ LET next == LexNextEntry(LexKb, lex.pos, lex.end)
     IN  lex' = IF \/ Len(lex.found.posind) >= LexMaxRes \/ next >= lex.end
                   \/ klex_lexMatch(LexKb, next, lex.case.word) # "same"
                THEN [lex EXCEPT !.phase = "looked"]
                ELSE [lex EXCEPT !.pos = next, !.found = klex_setLexResult(@, LexKb, next)]

\* What an index into the lexicon leads to.
picoklex_lexIndLookup(kb, ind) ==
  LET pos    == ind[1] + 256 * ind[2] + 65536 * ind[3]
      second == pos + LexAt(kb, pos)
  IN  IF pos >= kb.nrblocks * LexBlockSize THEN <<>>
      ELSE <<[pos |-> LexAt(kb, second + 1),
              phon |-> [i \in 1 .. LexAt(kb, second) - 2 |-> LexAt(kb, second + 1 + i)]]>>
-----------------------------------------------------------------------------
(***************************************************************************)
(* The word (picowa.c).                                                    *)
(***************************************************************************)
\* The entry of the table with these parts of speech, in any order, or else the first.
ktab_isEqualPosGroup(grp1, grp2) == \A i \in DOMAIN grp1 : \E j \in DOMAIN grp2 : grp1[i] = grp2[j]
picoktab_getPosGroup(poslist) ==
  LET same == {g \in DOMAIN LexPosGroups : /\ Len(LexPosGroups[g].pos) = Len(poslist)
                                           /\ ktab_isEqualPosGroup(poslist, LexPosGroups[g].pos)}
  IN  IF Len(poslist) = 1 \/ same = {} THEN poslist[1] ELSE LexPosGroups[Min(same)].comb

\* The number of the user's lexicon, 0 for that of the voice.
WaFoundIndex == IF lex.at < Len(lex.kbs) THEN lex.at ELSE 0

WaWordindex(found) ==
  [type |-> "WORDINDEX", info1 |-> picoktab_getPosGroup([i \in DOMAIN found.posind |-> found.posind[i][1]]),
   info2 |-> WaFoundIndex, inds |-> [i \in DOMAIN found.posind |-> Tail(found.posind[i])]]
WaWordgraph(pos) == [type |-> "WORDGRAPH", info1 |-> pos, graph |-> lex.case.word]

WaLexiconFound ==
  /\ lex.phase = "looked" /\ lex.found.posind # <<>>
  /\ lex' = [lex EXCEPT !.phase = "done",
                        !.out = <<IF lex.found.phonfound THEN WaWordindex(lex.found)
                                  ELSE WaWordgraph(lex.found.posind[1][1])>>]

WaNextLexicon ==
  /\ lex.phase = "looked" /\ lex.found.posind = <<>> /\ lex.at < Len(lex.kbs)
  /\ lex' = [lex EXCEPT !.phase = "lookup", !.at = @ + 1]

\* waClassifyPos
WaNotFound ==
  /\ lex.phase = "looked" /\ lex.found.posind = <<>> /\ lex.at = Len(lex.kbs)
  /\ \E pos \in LexPredicted : lex' = [lex EXCEPT !.phase = "done", !.out = <<WaWordgraph(pos)>>]

LexNext ==
  \/ LexLookup \/ LexBisect \/ LexBisected \/ LexWalk \/ LexMore
  \/ WaLexiconFound \/ WaNextLexicon \/ WaNotFound
LexSpec == LexInit /\ [][LexNext]_lex
-----------------------------------------------------------------------------
LexHomographs(k) ==
  SelectSeq(FlattenSeq(lex.case.lexica[k]), LAMBDA e : e.graph = lex.case.word)
LexKnown == {k \in DOMAIN lex.case.lexica : LexHomographs(k) # <<>>}

\* The lexicon that picosa.c takes for an item.
LexOfItem(item) == lex.kbs[IF item.info2 = 0 THEN Len(lex.kbs) ELSE item.info2]

\* What stands for several parts of speech: their combination, if there is one.
LexIsGroup(pos, several) ==
  LET combs == {LexPosGroups[g].comb : g \in {h \in DOMAIN LexPosGroups :
                  ToSet(LexPosGroups[h].pos) = ToSet(several)}}
  IN  IF Len(several) = 1 \/ combs = {} THEN pos = several[1] ELSE pos \in combs

(***************************************************************************)
(* A word is found in the first lexicon that has it, however its entries   *)
(* are spread over blocks, and nowhere if none has it: with all its        *)
(* entries as far as there is room, in their order, and each index that    *)
(* picowa.c hands on leads picosa.c to the phones and the part of speech   *)
(* of that entry.                                                          *)
(***************************************************************************)
LexFound ==
  lex.phase = "done" =>
    LET item == lex.out[1]
    IN  IF LexKnown = {} THEN item.type = "WORDGRAPH" /\ item.info1 \in LexPredicted
        ELSE LET known == LexHomographs(Min(LexKnown))
             IN  IF known[1].phon = <<LexNeedsG2p>>
                 THEN item = WaWordgraph(known[1].pos)
                 ELSE /\ item.type = "WORDINDEX"
                      /\ Len(item.inds) = Min({Len(known), LexMaxRes})
                      /\ LexIsGroup(item.info1, [i \in DOMAIN item.inds |-> known[i].pos])
                      /\ \A i \in DOMAIN item.inds :
                           picoklex_lexIndLookup(LexOfItem(item), item.inds[i])
                             = <<[pos |-> known[i].pos, phon |-> known[i].phon]>>

\* The number of a block that the search begins with is that of a block, but for two kinds
\* of words: one in front of all entries, for which it is 65535, against the assertion at
\* picoklex.c:513; and one behind blocks that begin alike, the first of all among them,
\* where the loop at picoklex.c:299 has no end of its own.
LexInside ==
  LET index(e) == LexNumber(LexPrefix(e.graph))
      blocks   == lex.case.lexica[lex.at]
  IN  lex.phase = "outside" =>
        \/ \A e \in ToSet(FlattenSeq(blocks)) : LexSearchVal < index(e)
        \/ /\ Len(blocks) > 1 /\ index(blocks[1][1]) = index(blocks[2][1])
           /\ LexSearchVal > index(blocks[1][1])

\* The lookup of a word, in picowa.c and picoklex.c: both of them.
LexSound == LexFound /\ LexInside
=============================================================================
