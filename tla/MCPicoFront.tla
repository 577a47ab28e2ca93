----------------------------- MODULE MCPicoFront -----------------------------
(***************************************************************************)
(* Instances of the units on the side of the text: tokenizer, utf-8 and    *)
(* case, transducers, text preprocessing with its numbers, decision trees, *)
(* lexica, sentence analysis, phrasing and accentuation; and of the start  *)
(* of pico2wave.  They are checked each on its own: unit says which one a  *)
(* behaviour is about.                                                     *)
(***************************************************************************)
EXTENDS PicoTok, PicoTrns, PicoPr, PicoKdt, PicoLex, PicoSa, PicoAcph, PicoStart

CONSTANT Units   \* those a run is about

VARIABLE unit

-----------------------------------------------------------------------------
(* The tokenizer: all texts of three pieces, and the tags of each kind.    *)

MCPieces ==
  {<<"<">>, <<"a">>, <<" ">>, <<"5">>, <<".">>, <<"\n">>, <<"NUL">>, <<"lead">>, <<"cont">>,
   <<"odd">>, <<"<", "SPEED", " ", "level", "=", "'">>, <<"'", "/", ">">>, <<"'", ">">>,
   <<"<", "/", "speed", ">">>, <<"+9%">>, <<"\\">>, <<"<", "ignore", ">">>,
   <<"<", "/", "ignore">>, <<"<", "play", " ", "file", "=", "'", "f", "'">>,
   <<"<", "play", " ", "file", " ", "=", "'", "g", "'", "/", ">">>, <<"/">>, <<">">>}
MCTag(id, attribute, value) ==
  <<"<", id, " ", attribute, "=", "'">> \o value \o <<"'", ">", "a", "<", "/", id, ">">>
MCTags ==
  {MCTag(x, "level", v) : x \in {"volume", "pitch", "speaker"}, v \in {<<"5">>, <<"+9%">>, <<"900">>}}
  \cup {MCTag(x, "name", <<"w">>) : x \in {"voice", "mark", "preproccontext", "s"}}
  \cup {MCTag("break", "time", v) : v \in {<<"50", "ms">>, <<"900", "s">>, <<"x">>}}
  \cup {MCTag("spell", "mode", v) : v \in {<<"50", "ms">>, <<"sb">>, <<"x">>, <<"pb">>}}
  \cup {MCTag("phoneme", "ph", v) : v \in {<<"known">>, <<"x">>}}
  \cup {MCTag(x, "file", v) : v \in {<<"f">>, <<"x">>}, x \in {"genfile", "usesig"}}
  \cup {MCTag("genfile", "file", <<"f">>) \o MCTag("genfile", "file", <<"f">>)}
  \cup {<<"<", x, ">", "a", "<", "/", x, ">", "NUL">> : x \in {"p", "spell", "phoneme"}}
  \cup {<<"<", "phoneme", " ", "alphabet", "=", "'", "x", "'", " ", "ph", "=", "'", "known", "'", "/", ">">>,
        <<"<", "item", " ", "type", "=", "'", "x", "'", " ", "info1", "=", "'", "x", "'", " ",
          "info2", "=", "'", "x", "'", " ", "data", "=", "'", "x", "'", "/", ">">>,
        <<"<", "item", " ", "type", "=", "'", "x", "'", "/", ">">>}
\* Tags about as long as markupStr, which come to their end at each kind of character.
MCLongTags ==
  {<<"<", "mark", " ", "name", "=", "'">> \o [i \in 1 .. n |-> "a"] \o p \o q :
     n \in 20 .. 22, p \in MCPieces, q \in {<<"a">>, <<">">>, <<"<">>, <<"cont">>, <<"NUL">>}}
\* No character is cut off by the end of the text.
MCWhole(text) == \A i \in 1 .. Len(text) - 1 : ~(text[i] = "lead" /\ text[i + 1] = "NUL")
MCTokTexts ==
  {t \in {FlattenSeq(p) : p \in [1 .. 3 -> MCPieces]} \cup MCLongTags : MCWhole(t)} \cup MCTags
MCTokFiles == {<<"f">>}

-----------------------------------------------------------------------------
(* Characters one by one where the tables are dense, and short strings of  *)
(* those whose other case has utf-8 of another length.                     *)

MCOdd == {65, 97, 233, 255, 304, 305, 8486, 8490, 7680, 65313, 66560, 181, 7835, 454}
MCBaseStrings ==
  {<<c>> : c \in (1 .. 1500) \cup (7600 .. 9500) \cup (65300 .. 65400) \cup (66550 .. 66650)}
  \cup [1 .. 2 -> MCOdd]
  \cup {<<a, b, c>> : a \in {304, 8486}, b \in {65, 181}, c \in {8490, 255}}

-----------------------------------------------------------------------------
(* Transducers with pairs, epsilon transitions and dead ends, over two     *)
(* symbols and a third one that they make.                                 *)

MCa == 353
MCb == 354
MCc == 7
MCFst(to, u, eps1, eps2) ==
  [pairs |-> (MCa :> <<<<7, 1>>, <<6, 2>>>>) @@ (MCb :> <<<<5, 2>>>>) @@ (MCc :> <<<<5, 1>>, <<0, 2>>>>),
   trans |-> <<to, <<2, u>>>>, eps |-> <<eps1, eps2>>, acc |-> {2}]
MCTrnsFsts ==
  <<MCFst(<<1, 2>>, 1, <<>>, <<>>), MCFst(<<0, 2>>, 0, <<<<8, 2>>>>, <<>>),
    MCFst(<<0, 2>>, 1, <<<<0, 1>>>>, <<<<7, 1>>, <<0, 2>>>>), MCFst(<<1, 2>>, 0, <<>>, <<<<7, 1>>>>),
    MCFst(<<1, 0>>, 1, <<>>, <<>>)>>
MCTrnsInputs == UNION {[1 .. n -> {97, 98}] : n \in 0 .. 3} \cup {<<97, 98, 97, 98>>}

-----------------------------------------------------------------------------
(* A network of productions of the kinds the lingware has: a list of       *)
(* numbers, a number with a unit, a word, and the commands among them.     *)

MCNumbers == 0 .. 3999
MCValues == [c \in 48 .. 57 |-> c - 48]
MCRomans == UNION {[1 .. n -> {73, 86, 88, 76}] : n \in 0 .. 4}
MCTok(np, wp, vals, next, altL, altR) ==
  [np |-> np \cup (IF next = 0 THEN {} ELSE {"NEXT"}) \cup (IF altL = 0 THEN {} ELSE {"ALTL"})
             \cup (IF altR = 0 THEN {} ELSE {"ALTR"}),
   wp |-> wp, vals |-> vals, next |-> next, altL |-> altL, altR |-> altR]
MCToks == <<
  MCTok({"DIGIT"}, {"VAR"}, <<1>>, 2, 0, 0),
  MCTok({"SPACE"}, {"VAR"}, <<2>>, 6, 0, 6),
  MCTok({"LETTER", "CI"}, {"STR", "VAR"}, <<<<98>>, 3>>, 7, 4, 5),
  MCTok({"LETTER", "CI"}, {"STR", "VAR"}, <<<<97>>, 3>>, 7, 0, 0),
  MCTok({"LETTER", "CI"}, {"STR", "VAR"}, <<<<99>>, 3>>, 7, 0, 0),
  MCTok({}, {"PROD", "VAR"}, <<2, 3>>, 7, 0, 3),
  MCTok({}, {"OUT"}, <<1>>, 8, 0, 0),
  MCTok({"ACCEPT"}, {}, <<>>, 0, 0, 0),
  MCTok({"DIGIT"}, {"VAR"}, <<1>>, 10, 0, 0),
  MCTok({"CHAR"}, {"VAR"}, <<2>>, 11, 0, 11),
  MCTok({}, {"OUT"}, <<4>>, 8, 0, 0),
  MCTok({"LETTER"}, {"VAR", "COST"}, <<1, 3>>, 13, 0, 0),
  MCTok({}, {"OUT"}, <<6>>, 8, 0, 0),
  MCTok({"DIGIT"}, {"VAR"}, <<1>>, 15, 0, 0),
  MCTok({"CHAR"}, {"VAR"}, <<2>>, 16, 0, 0),
  MCTok({}, {"OUT"}, <<9>>, 8, 0, 0) >>
MCOut(type, val, str, arg, next) == [type |-> type, val |-> val, str |-> str, arg |-> arg, next |-> next]
MCOuts == <<
  MCOut("OVar", 3, <<>>, 0, 2), MCOut("OVar", 2, <<>>, 0, 3), MCOut("OVar", 1, <<>>, 0, 0),
  MCOut("OVar", 1, <<>>, 0, 5), MCOut("OVar", 2, <<>>, 0, 0),
  MCOut("OConcat", 0, <<>>, 7, 0), MCOut("OVar", 1, <<>>, 0, 8), MCOut("OStr", 0, <<99>>, 0, 0),
  MCOut("OSpeed", 0, <<>>, 3, 10), MCOut("OPlay", 0, <<>>, 11, 12), MCOut("OStr", 0, <<102, 1001>>, 0, 0),
  MCOut("OVar", 1, <<>>, 0, 13), MCOut("OPlay", 0, <<>>, 0, 14), MCOut("OVar", 2, <<>>, 0, 15),
  MCOut("OContext", 0, <<>>, 16, 0), MCOut("OStr", 0, <<120>>, 0, 0) >>
MCCtx(ctx, prod) == [ctx |-> <<ctx>>, net |-> <<110>>, prod |-> <<112, prod>>]
MCNets ==
  <<[name |-> <<110>>, toks |-> MCToks, outs |-> MCOuts,
     prods |-> [i \in 0 .. 4 |-> [name |-> <<112, i>>, tok |-> <<0, 1, 9, 12, 14>>[i + 1],
                                  pref |-> <<0, 5, 0, 0, 0>>[i + 1]]],
     ctxs |-> <<MCCtx(100, 1), MCCtx(120, 3), MCCtx(100, 3), MCCtx(100, 4)>>]>>

MCFlush == PrCmd("FLUSH", "NA", <<>>)
MCItems ==
  {PrToken("DIGIT", -1, <<49>>, 1), PrToken("LETTER", -1, <<65>>, 0), PrToken("LETTER", -1, <<98>>, 0),
   PrToken("SPACE", -1, <<32>>, 0), PrToken("CHAR", -1, <<44>>, 0), PrCmd("MARKER", "NA", <<>>),
   MCFlush, PrCmd("CONTEXT", "NA", <<120>>)}
MCNumbered(seq) ==
  [i \in DOMAIN seq |->
     IF pr_isCmdType(seq[i], "MARKER")
     THEN [seq[i] EXCEPT !.data = <<Cardinality({j \in 1 .. i : pr_isCmdType(seq[j], "MARKER")})>>]
     ELSE seq[i]]
\* Of five items those that go on with a number.
MCLong(seq) ==
  /\ seq[1].type = "TOKEN" /\ seq[1].info1 = "DIGIT"
  /\ seq[2].info1 \in {"SPACE", "DIGIT", "MARKER", "CHAR"}
  /\ seq[3].info1 \in {"SPACE", "LETTER", "MARKER"} /\ seq[4].info1 \in {"DIGIT", "MARKER", "SPACE"}
  /\ seq[5].type = "TOKEN" /\ seq[5].info1 # "SPACE"
MCPrTexts ==
  {Append(MCNumbered(s), MCFlush) : s \in [1 .. 3 -> MCItems] \cup {x \in [1 .. 5 -> MCItems] : MCLong(x)}}
MCPrFiles == {<<102, 1001>>}
MCSubs == [c \in {98} |-> <<120, 121>>]
MCPuncts == [c \in {44} |-> <<"PHRASEEND", "COMMA">>]

-----------------------------------------------------------------------------
(* Trees packed with three sets of field widths, for four of the types.    *)

MCFields(forkcount, bitno, bitcount, jump, cut) ==
  [forkcount |-> forkcount, bitno |-> bitno, bitcount |-> bitcount, jump |-> jump, cut |-> cut]
MCWidths == {<<4, 5, MCFields(3, 4, 3, 8, 4)>>, <<5, 3, MCFields(3, 5, 4, 9, 8)>>,
             <<4, 6, MCFields(4, 8, 6, 7, 5)>>}
MCLeaf(class) == [leaf |-> TRUE, to |-> class]
MCJump(node) == [leaf |-> FALSE, to |-> node]
MCSubset(type, a, b, mask) == [type |-> type, a |-> a, b |-> b, mask |-> mask]
MCNode(type, q, cut, subsets, forks) ==
  [type |-> type, q |-> q, cut |-> cut, subsets |-> subsets, forks |-> forks]
MCTree1 == <<
  MCNode(3, 0, 0, <<MCSubset(3, 2, 4, <<0, 1, 0, 1>>), MCSubset(1, 2, 7, <<>>)>>, <<MCJump(2), MCLeaf(3), MCJump(3)>>),
  MCNode(1, 1, 0, <<>>, <<MCLeaf(1), MCJump(3)>>),
  MCNode(2, 2, 3, <<>>, <<MCLeaf(2), MCJump(4)>>),
  MCNode(3, 0, 0, <<MCSubset(0, 7, 0, <<>>), MCSubset(2, 5, 2, <<>>), MCSubset(3, 8, 3, <<1, 0, 1>>)>>,
         <<MCLeaf(4), MCLeaf(5), MCLeaf(6), MCLeaf(7)>>) >>
MCTree2 == <<
  MCNode(3, 0, 0, <<MCSubset(0, 3, 0, <<>>), MCSubset(2, 1, 5, <<>>), MCSubset(3, 4, 3, <<1, 1, 1>>)>>,
         <<MCLeaf(0), MCJump(2), MCJump(3), MCLeaf(5)>>),
  MCNode(3, 0, 0, <<MCSubset(1, 1, 4, <<>>)>>, <<MCLeaf(1), MCLeaf(2)>>),
  MCNode(2, 1, 1, <<>>, <<MCLeaf(6), MCLeaf(7)>>) >>
MCEmpty == [type |-> "EMPTY", nr |-> 0, vals |-> <<>>]
MCGraphs == [type |-> "GRAPH", nr |-> 12, vals |-> [i \in 1 .. 12 |-> i + 96]]
MCWords(n) == [type |-> "WORD", len |-> 21, nr |-> n, vals |-> [i \in 1 .. 8 |-> i + 47]]
MCByteVars ==
  [type |-> "BYTETOVAR", len |-> 40, nr |-> 8, offsets |-> [i \in 1 .. 8 |-> 2 * i - (i \div 3)],
   vals |-> [i \in 1 .. 14 |-> i]]
MCKb(type, inp, w, out, tree) ==
  LET kb == [type |-> type, inppos |-> 6, outpos |-> 9, treepos |-> 12, nrout |-> 1, out |-> out,
             nrvfields |-> 2, nrqfields |-> 5, nratt |-> KdtNrAtt[type], inp |-> inp,
             vquestion |-> w[1], vdecide |-> w[2], qfields |-> [i \in 1 .. KdtNrAtt[type] |-> w[3]],
             maxout |-> 8]
  IN  kb @@ [body |-> KdtBytes(KdtTreeBits(kb, tree))]
MCTables(n, at, table) == [i \in 1 .. n |-> IF i = at THEN table ELSE MCEmpty]
MCGraphTables(n, of, nr12) ==
  [i \in 1 .. n |-> IF i <= of THEN MCGraphs
                    ELSE IF nr12 /\ i = 12 THEN [type |-> "WORD", nr |-> 0, vals |-> <<>>] ELSE MCEmpty]
MCPhrKb(w, tree) ==
  MCKb("PHR", MCTables(8, 3, [type |-> "BYTE", nr |-> 5, vals |-> <<9, 0, 2, 1, 3, 4>>]), w, MCWords(8), tree)
MCPhrCase(w, tree, a, b, c) ==
  [kb |-> MCPhrKb(w, tree), tree |-> tree, input |-> [vals |-> <<a, b, c, 0, 0, 0, 0, 0>>, graph |-> <<>>]]
MCStillCase == MCPhrCase(<<4, 5, MCFields(3, 4, 3, 8, 4)>>, MCTree1, 0, 0, 0)
MCAccKb(w, out) ==
  MCKb("ACC", MCTables(13, 6, [type |-> "WORD", nr |-> 3, vals |-> <<1, 0, 2>>]), w, out, MCTree2)
MCKdtCases ==
  {MCPhrCase(w, tree, a, b, c) : w \in MCWidths, tree \in {MCTree1, MCTree2}, a \in 0 .. 12, b \in 0 .. 2, c \in 0 .. 5}
  \cup {[kb |-> MCKb("PosP", MCGraphTables(12, 10, FALSE), w, MCWords(8), MCTree1), tree |-> MCTree1,
         input |-> [graph |-> [i \in 1 .. n |-> 96 + i], spec |-> s]] : w \in MCWidths, n \in 0 .. 12, s \in {0, 1}}
  \cup {[kb |-> MCKb("G2P", MCGraphTables(16, 9, z), w, MCByteVars, MCTree1), tree |-> MCTree1,
         input |-> [graph |-> [i \in 1 .. n |-> 96 + i], nr |-> Min({n, r}), vals |-> <<1, 1, 1, 0, 3, 2, 1>>]] :
           w \in MCWidths, n \in 1 .. 7, r \in 1 .. 7, z \in BOOLEAN}
  \cup {[kb |-> MCAccKb(w, out), tree |-> MCTree2,
         input |-> [graph |-> <<>>, vals |-> <<a, 1, 0, 0, 0, 30000, h, 0, 0, 0, 0, 0, 0>>]] :
           w \in MCWidths, a \in 0 .. 5, h \in {1, 30000}, out \in {MCWords(8), MCWords(3), MCWords(0)}}

-----------------------------------------------------------------------------
(* A lexicon of fifteen entries, several of some words, in all its layouts *)
(* in seven blocks; one that has several first blocks that begin alike;    *)
(* and a lexicon of the user in front of others.                           *)

MCEntry(graph, pos, phon) == [graph |-> graph, pos |-> pos, phon |-> phon]
MCEntries == <<
  MCEntry(<<98>>, 1, <<11>>), MCEntry(<<98, 98>>, 2, <<12, 13>>), MCEntry(<<98, 98>>, 3, <<14>>),
  MCEntry(<<98, 98, 98>>, 1, <<5>>), MCEntry(<<98, 98, 99>>, 1, <<15>>),
  MCEntry(<<98, 98, 99, 98>>, 2, <<16>>), MCEntry(<<98, 98, 99, 99>>, 3, <<>>), MCEntry(<<98, 98, 99, 99>>, 1, <<17>>),
  MCEntry(<<98, 98, 99, 99, 98>>, 1, <<18>>),
  MCEntry(<<99, 98>>, 1, <<19>>), MCEntry(<<99, 98>>, 2, <<20>>), MCEntry(<<99, 98>>, 3, <<21>>),
  MCEntry(<<99, 98>>, 4, <<22>>), MCEntry(<<99, 98>>, 6, <<23>>), MCEntry(<<99, 99>>, 2, <<24>>)>>
\* Their layouts in blocks: a block is full, and entries that begin alike are in blocks that do.
MCBlocks(entries, cuts) ==
  FoldLeft(LAMBDA bs, i : IF i \in cuts THEN Append(bs, <<entries[i]>>)
                          ELSE [bs EXCEPT ![Len(bs)] = Append(@, entries[i])],
           <<<<entries[1]>>>>, [i \in 1 .. Len(entries) - 1 |-> i + 1])
MCLaid(blocks) ==
  /\ \A b \in DOMAIN blocks : Len(LexBlock(blocks[b])) = LexBlockSize
  /\ \A b \in 2 .. Len(blocks) :
       LexPrefix(Last(blocks[b - 1]).graph) = LexPrefix(blocks[b][1].graph)
         => LexPrefix(blocks[b - 1][1].graph) = LexPrefix(blocks[b][1].graph)
MCLayouts(entries, n) ==
  {blocks \in {MCBlocks(entries, cuts) : cuts \in kSubset(n - 1, 2 .. Len(entries))} : MCLaid(blocks)}
MCLexUser == <<<<MCEntry(<<98>>, 7, <<31>>), MCEntry(<<99, 99>>, 7, <<5>>)>>>>
MCLexWords ==
  UNION {[1 .. n -> {97, 98, 99}] : n \in 1 .. 3}
  \cup {<<98, 98, 99>> \o w : w \in UNION {[1 .. n -> {98, 99}] : n \in 1 .. 2}}
MCLexica ==
  {<<l>> : l \in MCLayouts(MCEntries, 7) \cup MCLayouts(SubSeq(MCEntries, 5, Len(MCEntries)), 5)}
MCLexCases ==
  {[lexica |-> l, word |-> w] : l \in MCLexica, w \in MCLexWords}
  \cup {[lexica |-> <<MCLexUser, <<>>, <<>>>>, word |-> w] : w \in MCLexWords}
MCLexGroups ==
  <<[comb |-> 9, pos |-> <<3, 2>>], [comb |-> 10, pos |-> <<1, 3>>], [comb |-> 8, pos |-> <<4, 2, 1, 3>>]>>
MCLexStill == [lexica |-> <<MCLexUser>>, word |-> <<98>>]

-----------------------------------------------------------------------------
(* Texts with words of one and of several parts of speech, graphs and      *)
(* indices, that fill the list of items, the first buffer or the second.   *)

MCSaItem(id, type, info1, info2, data) ==
  [id |-> id, type |-> type, info1 |-> info1, info2 |-> info2, data |-> data]
MCSaPunc(id) == MCSaItem(id, "PUNC", "PHRASEEND", "PHRASE", <<>>)
MCSaFlush(id) == MCSaItem(id, "CMD", "FLUSH", "NA", <<>>)
MCSaCmd(id) == MCSaItem(id, "CMD", "PITCH", "NA", <<"x">>)
MCSaPhon(id) == MCSaItem(id, "CMD", "PHONEME", "START", <<"b", "a", SaWordsep, "a">>)
MCSaGraph(id, pos, graph) == MCSaItem(id, "WORDGRAPH", pos, "NA", graph)
MCSaIndex(id, pos, entries) == MCSaItem(id, "WORDINDEX", pos, "NA", entries)
MCSaTwo == <<[pos |-> "N", phon |-> <<"a">>], [pos |-> "V", phon |-> <<"a", "'", "b", "a">>]>>
MCSaOne == <<[pos |-> "N", phon |-> <<"b", "a">>]>>
MCSaCase(items, fsts) == [items |-> items, fsts |-> fsts]
MCSaItemsA == <<MCSaGraph(1, "N", <<"b", "a">>), MCSaCmd(2), MCSaIndex(3, "NV", MCSaTwo), MCSaPhon(4),
               MCSaFlush(5)>>
MCSaItemsB == <<MCSaIndex(1, "ND", MCSaOne), MCSaIndex(2, "NV", MCSaTwo), MCSaPunc(3),
               MCSaGraph(4, "V", <<"a", "b", "a">>), MCSaIndex(5, "ND", MCSaOne), MCSaIndex(6, "N", MCSaOne), MCSaFlush(7)>>
MCSaItemsC == <<MCSaCmd(1), MCSaGraph(2, "N", <<"a", "b", "b", "a">>), MCSaGraph(3, "D", <<"c", "b", "c">>),
               MCSaGraph(4, "V", <<"b", "a", "b", "a">>), MCSaIndex(5, "V", SubSeq(MCSaTwo, 2, 2)), MCSaFlush(6)>>
MCSaItemsD == <<MCSaGraph(1, "N", <<"a", "a">>), MCSaGraph(2, "V", <<"c", "a">>), MCSaGraph(3, "NV", <<"a", "a">>),
               MCSaGraph(4, "D", <<"b", "a">>), MCSaGraph(5, "N", <<"c">>), MCSaFlush(6)>>
MCSaTexts == {MCSaCase(MCSaItemsD, 0), MCSaCase(MCSaItemsA, 2), MCSaCase(MCSaItemsB, 1), MCSaCase(MCSaItemsC, 0)}
MCSaPosGroups == [NV |-> {"N", "V"}, ND |-> {"N", "D"}]
MCSaG2p == [b |-> {<<"b">>, SaNone}, a |-> {<<"a", "'", "b">>}, c |-> {<<"a">>}]

-----------------------------------------------------------------------------
(* Phrases of words with one to three syllables, a command in some.        *)

MCWord(pos, phones) == [type |-> "WORDPHON", info1 |-> pos, info2 |-> "NA", phones |-> phones]
MCCommand == [type |-> "CMD", info1 |-> "PITCH", info2 |-> "NA", phones |-> <<>>]
MCPunc(a, b) == [type |-> "PUNC", info1 |-> a, info2 |-> b, phones |-> <<>>]
MCWord1 == MCWord("N", <<"'", "p">>)
MCWord2 == MCWord("DET", <<"p", ".", "p">>)
MCWord3 == MCWord("V", <<"p", ".", "'", "p", ".", "p">>)
MCAcphPhrases ==
  {<<MCPunc("FLUSH", "T")>>, <<MCWord1, MCPunc("SENTEND", "Q")>>,
   <<MCWord2, MCWord1, MCWord3, MCPunc("PHRASEEND", "PHRASE")>>,
   <<MCWord2, MCCommand, MCWord1, MCWord3, MCPunc("SENTEND", "E")>>,
   <<MCCommand, MCWord3, MCWord2, MCPunc("PHRASEEND", "FORCED")>>,
   <<MCCommand, MCWord1, MCPunc("FLUSH", "T")>>}

-----------------------------------------------------------------------------
(* The start of pico2wave: a language whose files fit into the memory, one *)
(* whose files leave no place for a voice, and one whose files have the    *)
(* same name.                                                              *)

CONSTANTS h1, h2, h3, ta, sg, ta2, noFile

MCHandles == {h1, h2, h3}
MCLangs == {"en", "de", "xx"}
MCTaFile == [l \in MCLangs |-> IF l = "de" THEN ta2 ELSE ta]
MCSgFile == [l \in MCLangs |-> IF l = "xx" THEN ta2 ELSE sg]
MCFiles == {ta, sg, ta2}
MCNameOf == [f \in Sources |-> CASE f = noFile -> "default" [] f = sg -> "sg" [] OTHER -> "ta"]
MCNames == {"default", "ta", "sg"}
MCKbIds == {"ids", "dur", "lex"}
MCKbsOf == [f \in Sources |->
  CASE f = noFile -> {"ids"} [] f = ta -> {"dur", "lex"} [] f = sg -> {"dur"}
    [] f = ta2 -> {"ids", "dur", "lex"}]

-----------------------------------------------------------------------------
(* Each behaviour is one of one unit; the others stay as they begin. *)

MCInit ==
  /\ unit \in Units
  /\ IF unit = "kdt" THEN KdtInit ELSE KdtStart(MCStillCase)
  /\ IF unit = "tok" THEN TokInit ELSE TokBegin(<<"a">>)
  /\ IF unit = "base" THEN BaseInit ELSE BaseStart(<<65>>, "lower", 3)
  /\ IF unit = "trns" THEN TrnsInit ELSE TrnsStart(<<97>>, 1, 1)
  /\ IF unit = "prtext" THEN PrTextInit ELSE PrTextStart(0, <<>>)
  /\ IF unit = "pr" THEN PrInit ELSE PrStart(<<MCFlush>>)
  /\ IF unit = "lex" THEN LexInit ELSE LexStart(MCLexStill)
  /\ IF unit = "sa" THEN SaInit ELSE SaStart(MCSaCase(<<MCSaFlush(1)>>, 0))
  /\ AcphInit
  /\ StartInit /\ (unit # "start" => langIndex = "en")

But(u, vs) == IF unit = u THEN TRUE ELSE UNCHANGED vs
Others ==
  /\ UNCHANGED unit
  /\ But("tok", tokVars) /\ But("base", baseVars) /\ But("trns", trnsVars)
  /\ But("prtext", prTextVars) /\ But("pr", prVars) /\ But("kdt", kdt) /\ But("acph", acph)
  /\ But("lex", lex) /\ But("sa", saVars)
  /\ But("start", startVars)

MCNext ==
  \/ unit = "tok" /\ TokNext /\ Others
  \/ unit = "base" /\ BaseNext /\ Others
  \/ unit = "trns" /\ TrnsNext /\ Others
  \/ unit = "prtext" /\ PrTextNext /\ Others
  \/ unit = "pr" /\ PrNext /\ Others
  \/ unit = "kdt" /\ KdtNext /\ Others
  \/ unit = "lex" /\ LexNext /\ Others
  \/ unit = "sa" /\ SaNext /\ Others
  \/ unit = "acph" /\ AcphNext /\ Others
  \/ unit = "start" /\ StartNext /\ Others

MCSpec ==
  MCInit /\ [][MCNext]_<<unit, tokVars, baseVars, trnsVars, prTextVars, prVars, kdt, lex, saVars,
                        acph, startVars>>

-----------------------------------------------------------------------------
\* Characters and numbers are read as they are written: BaseSound, PrRomanRead.
TextSound == BaseSound /\ PrRomanRead

\* The trees and the lexica answer what a search in their contents would: KdtSound, LexSound.
KbSound == KdtSound /\ LexSound
=============================================================================
