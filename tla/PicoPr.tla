-------------------------------- MODULE PicoPr --------------------------------
(***************************************************************************)
(* The text preprocessing (picopr.c): the tokens of the text are matched   *)
(* against the networks of the current context; the cheapest path through  *)
(* them rewrites the tokens it covers, and what no path covers goes on as  *)
(* it is.  Commands in the text stay where they are, or switch contexts.   *)
(*                                                                         *)
(* A string is the sequence of its characters.  An element of a network    *)
(* has the sets np and wp of what it asks for, the values of those in wp,  *)
(* and the elements next, altL and altR.  Working memory suffices.         *)
(***************************************************************************)
EXTENDS PicoPrText

CONSTANTS
  PrNets,      \* the networks: name, toks, prods (from 0), ctxs, outs
  PrTexts,     \* the sequences of items that arrive
  PrMaxPath,   \* PR_MAX_PATH_LEN
  PrDynCap,    \* 45 % of the memory for items, in items
  PrFiles,     \* the names of the files there are
  PrSubs,      \* the function from characters to what replaces them (graphs table)
  PrPuncts     \* the function from punctuation to info1 and info2 (graphs table)

VARIABLES
  prIn,   \* the items still to arrive
  pr,     \* the unit: inItems (rinItemList), outItems (routItemList), rgState, act and best
          \* (the paths), bestCost, ritems, rignore, insidePhoneme, ctxList, actCtx, actCtxChanged,
          \* prodList, forceOutput, save (saveFile); history: cut, was a path given up
          \* before its alternatives were tried or for its length; ended, did a search end
          \* in this turn, with which tokens known and which productions searched
  prOut   \* the items delivered

prVars == <<prIn, pr, prOut>>

PrCostInit == 100000    \* PR_COST_INIT
PrCost == 10            \* PR_COST
PrEol == 10
PrNone == [name |-> <<>>, prods |-> <<>>]
PrDefault == <<100>>    \* PICO_CONTEXT_DEFAULT

PrToken(info1, info2, data, val) ==
  [type |-> "TOKEN", info1 |-> info1, info2 |-> info2, data |-> data, val |-> val]
PrCmd(info1, info2, data) ==
  [type |-> "CMD", info1 |-> info1, info2 |-> info2, data |-> data, val |-> 0]
pr_isCmdType(it, cmd) == it.type = "CMD" /\ it.info1 = cmd
pr_isCmdInfo2(it, info2) == it.type = "CMD" /\ it.info2 = info2
-----------------------------------------------------------------------------
(***************************************************************************)
(* The networks and the contexts.                                          *)
(***************************************************************************)
PrTok(e) == PrNets[e.net].toks[e.tok]
PrAttrs == <<"OUT", "MIN", "MAX", "LEN", "VAL", "STR", "HEAD", "MID", "TAIL", "PROD", "PRODEXT",
             "VAR", "LEX", "COST", "ID">>
PrAttrPlace(a) == CHOOSE i \in DOMAIN PrAttrs : PrAttrs[i] = a
pr_attrVal(t, a) ==
  t.vals[1 + Cardinality({b \in t.wp : PrAttrPlace(b) < PrAttrPlace(a)})]
PrHas(t, a) == a \in t.wp
PrProdNr(net, name) ==
  LET nrs == {i \in DOMAIN PrNets[net].prods : PrNets[net].prods[i].name = name}
  IN  IF nrs = {} THEN -1 ELSE Min(nrs)
PrNetNr(name) ==
  LET nrs == {i \in DOMAIN PrNets : PrNets[i].name = name} IN IF nrs = {} THEN 0 ELSE Min(nrs)

\* The newest production of a context comes first.
PrWithProd(ctxs, name, prod) ==
  [i \in DOMAIN ctxs |->
     IF ctxs[i].name = name /\ prod.prod # -1 THEN [ctxs[i] EXCEPT !.prods = <<prod>> \o @] ELSE ctxs[i]]
pr_addContext(list, c) ==
  LET There == \E i \in DOMAIN list : list[i].name = c.ctx
      net == PrNetNr(c.net)
  IN  PrWithProd(IF There THEN list ELSE <<[name |-> c.ctx, prods |-> <<>>]>> \o list, c.ctx,
                 [net |-> net, prod |-> IF net = 0 THEN -1 ELSE PrProdNr(net, c.prod)])
\* The entry 0 of a network is not used.
pr_createContextList ==
  FoldLeft(LAMBDA list, c : pr_addContext(list, c), <<>>,
           FlattenSeq([n \in DOMAIN PrNets |-> PrNets[n].ctxs]))
PrFirst(list) == IF list = <<>> THEN PrNone ELSE list[1]
pr_findContext(list, name) == PrFirst(SelectSeq(list, LAMBDA c : c.name = name))
PrSwitched(p, c) == IF c = PrNone THEN p ELSE [p EXCEPT !.actCtx = c, !.actCtxChanged = TRUE]
pr_setContext(p, name) == PrSwitched(p, pr_findContext(p.ctxList, name))

\* "network.production"
pr_findProduction(str) ==
  LET net == pr_getTermPartStr(str, 0, 46)
      prod == pr_getTermPartStr(str, net.ind, 46)
      nrs == {n \in DOMAIN PrNets : PrNets[n].name = net.part /\ PrProdNr(n, prod.part) # -1}
  IN  IF nrs = {} THEN [net |-> 0, prod |-> -1]
      ELSE [net |-> Min(nrs), prod |-> PrProdNr(Min(nrs), prod.part)]

-----------------------------------------------------------------------------
(***************************************************************************)
(* Does a token match an element?                                          *)
(***************************************************************************)
PrLenOk(t, n) == PrHas(t, "LEN") => n = pr_attrVal(t, "LEN")
PrRangeOk(t, v) ==
  /\ PrHas(t, "MIN") => v >= pr_attrVal(t, "MIN")
  /\ PrHas(t, "MAX") => v <= pr_attrVal(t, "MAX")
PrStrOk(t, cmp) == PrHas(t, "STR") => cmp = "EQUAL"
PrIdOk(t, it) == PrHas(t, "ID") => it.info2 = pr_attrVal(t, "ID")
PrPartsOk(t, str) ==
  /\ PrHas(t, "HEAD") => IsPrefix(pr_attrVal(t, "HEAD"), str)
  /\ PrHas(t, "MID") => \E i \in 0 .. Len(str) : IsPrefix(pr_attrVal(t, "MID"), SubSeq(str, i + 1, Len(str)))
  /\ PrHas(t, "TAIL") => IsSuffix(pr_attrVal(t, "TAIL"), str)

pr_matchTokensSpace(t, it, cmp) ==
  /\ "SPACE" \in t.np /\ PrLenOk(t, Len(it.data)) /\ PrRangeOk(t, Len(it.data)) /\ PrStrOk(t, cmp)
  /\ PrHas(t, "VAL") => Cardinality({i \in DOMAIN it.data : it.data[i] = PrEol}) = pr_attrVal(t, "VAL")
  /\ PrIdOk(t, it)
pr_matchTokensDigit(t, it, cmp) ==
  /\ "DIGIT" \in t.np /\ PrLenOk(t, Len(it.data)) /\ PrRangeOk(t, it.val) /\ PrStrOk(t, cmp)
  /\ PrHas(t, "VAL") => it.val = pr_attrVal(t, "VAL")
  /\ "NLZ" \in t.np => (it.data # <<>> => it.data[1] # 48)
  /\ PrPartsOk(t, it.data) /\ PrIdOk(t, it)
pr_matchTokensSeq(t, it, cmp) ==
  /\ "SEQ" \in t.np /\ PrLenOk(t, Len(it.data)) /\ PrRangeOk(t, Len(it.data)) /\ PrStrOk(t, cmp)
  /\ PrPartsOk(t, it.data) /\ PrIdOk(t, it)
pr_matchTokensChar(t, it, cmp) == "CHAR" \in t.np /\ PrStrOk(t, cmp) /\ PrIdOk(t, it)
PrLetterOk(t, it, cmp, str) ==
  /\ "LETTER" \in t.np /\ PrLenOk(t, Len(it.data)) /\ PrRangeOk(t, Len(it.data))
  /\ IF "CI" \in t.np THEN PrStrOk(t, cmp) ELSE PrHas(t, "STR") => str = pr_attrVal(t, "STR")
  /\ PrPartsOk(t, str)
  /\ "AUC" \in t.np => picobase_is_utf8_uppercase(it.data)
  /\ "ALC" \in t.np => picobase_is_utf8_lowercase(it.data)
  /\ "SUC" \in t.np => pr_isSUC(it.data)
  /\ "ROMAN" \in t.np => pr_isLatinNumber(it.data).ok
  /\ PrIdOk(t, it)
pr_matchTokensLetter(t, it, cmp) ==
  PrLetterOk(t, it, cmp, IF "CI" \in t.np THEN PrLower(it.data)
                         ELSE IF "CIS" \in t.np THEN pr_firstLetterToLowerCase(it.data) ELSE it.data)

\* matchMultiToken, for an element of the lexicon, matches nothing.
PrMulti(t) == PrHas(t, "LEX") /\ "LETTER" \notin t.np
PrCompared(t, it) ==
  IF PrHas(t, "STR") THEN pr_compare(PrLower(it.data), pr_attrVal(t, "STR")) ELSE "EQUAL"
PrMatches(t, it, cmp) ==
  /\ ~PrMulti(t)
  /\ CASE it.info1 = "BEGIN" -> "BEGIN" \in t.np
       [] it.info1 = "END" -> "END" \in t.np
       [] it.info1 = "SPACE" -> pr_matchTokensSpace(t, it, cmp)
       [] it.info1 = "DIGIT" -> pr_matchTokensDigit(t, it, cmp)
       [] it.info1 = "LETTER" -> pr_matchTokensLetter(t, it, cmp)
       [] it.info1 = "SEQ" -> pr_matchTokensSeq(t, it, cmp)
       [] it.info1 = "CHAR" -> pr_matchTokensChar(t, it, cmp)
       [] OTHER -> FALSE
pr_matchTokens(t, it) == PrMatches(t, it, PrCompared(t, it))
pr_hasToken(t) ==
  \/ t.np \cap {"SPACE", "DIGIT", "LETTER", "SEQ", "CHAR", "BEGIN", "END"} # {}
  \/ PrHas(t, "LEX")
-----------------------------------------------------------------------------
(***************************************************************************)
(* The search, one turn of processToken at a time.  An element of a path   *)
(* has its own state; item is the number (from 0) of the token it matched, *)
(* or -1.                                                                  *)
(***************************************************************************)
PrEle(net, tok, depth) ==
  [net |-> net, tok |-> tok, depth |-> depth, item |-> -1, state |-> "Init", cmp |-> "NONE",
   pref |-> 0]
PrProdTok(net, prod) == PrNets[net].prods[prod].tok

pr_getTopLevelToken(p, firstprod) ==
  LET list == IF firstprod THEN p.actCtx.prods
              ELSE IF p.prodList = <<>> THEN <<>> ELSE Tail(p.prodList)
      There == /\ list # <<>>
               /\ list[1].prod # 0 /\ PrProdTok(list[1].net, list[1].prod) # 0
      ele == [PrEle(list[1].net, PrProdTok(list[1].net, list[1].prod), 1)
                EXCEPT !.pref = PrNets[list[1].net].prods[list[1].prod].pref]
  IN  IF There THEN [p EXCEPT !.prodList = list, !.act = Append(@, ele)]
      ELSE [p EXCEPT !.prodList = list]

pr_calcPathCost(path) ==
  FoldLeft(LAMBDA cost, e :
             IF PrHas(PrTok(e), "COST") THEN cost - PrCost + pr_attrVal(PrTok(e), "COST")
             ELSE IF pr_hasToken(PrTok(e)) THEN cost - PrCost ELSE cost,
           PrCostInit + path[1].pref, path)

\* The path with its last element in a state, and one more element where there is room.
PrSet(p, state) == [p EXCEPT !.act[Len(p.act)].state = state]
PrPush(p, ele) ==
  IF Len(p.act) < PrMaxPath THEN [p EXCEPT !.act = Append(@, ele)] ELSE [p EXCEPT !.cut = TRUE]

\* Mutation of pr_getAltToken: the sides of a comparison are mixed up.
pr_getAltTokenOther(p) ==
  LET e == Last(p.act)
      t == PrTok(e)
      Alt(tok) == [p EXCEPT !.act[Len(p.act)] = PrEle(e.net, tok, e.depth)]
  IN  CASE Len(p.act) >= PrMaxPath -> [p EXCEPT !.cut = TRUE]
        [] Len(p.act) < PrMaxPath /\ e.cmp = "LARGER" /\ "ALTL" \in t.np -> Alt(t.altL)
        [] Len(p.act) < PrMaxPath /\ e.cmp # "LARGER" /\ "ALTR" \in t.np -> Alt(t.altR)
        [] OTHER -> p
pr_getNextToken(p) ==
  LET e == Last(p.act)
  IN  IF "NEXT" \in PrTok(e).np THEN PrPush(p, PrEle(e.net, PrTok(e).next, e.depth)) ELSE p
pr_getAltToken(p) ==
  LET e == Last(p.act)
      t == PrTok(e)
      Alt(tok) == [p EXCEPT !.act[Len(p.act)] = PrEle(e.net, tok, e.depth)]
  IN  CASE Len(p.act) >= PrMaxPath -> [p EXCEPT !.cut = TRUE]
        [] Len(p.act) < PrMaxPath /\ e.cmp = "SMALLER" /\ "ALTL" \in t.np -> Alt(t.altL)
        [] Len(p.act) < PrMaxPath /\ e.cmp # "SMALLER" /\ "ALTR" \in t.np -> Alt(t.altR)
        [] OTHER -> p
pr_getProdToken(p) ==
  LET n == Len(p.act)
      e == p.act[n]
      t == PrTok(e)
      own == [net |-> e.net, prod |-> pr_attrVal(t, "PROD")]
      to == IF PrHas(t, "PRODEXT") THEN pr_findProduction(pr_attrVal(t, "PRODEXT")) ELSE own
      Pref == PrNets[e.net].prods[pr_attrVal(t, "PROD")].pref
  IN  CASE n >= PrMaxPath -> [p EXCEPT !.cut = TRUE]
        [] n < PrMaxPath /\ to.prod # -1 ->
             PrPush([p EXCEPT !.act[n].pref = Pref],
                    PrEle(to.net, PrProdTok(to.net, to.prod), e.depth + 1))
        [] OTHER -> p
\* Behind the call of the production that is finished: the last one a level up.
pr_getProdContToken(p) ==
  LET n == Len(p.act)
      Calls(l) == p.act[l].depth = p.act[n].depth - 1 /\ PrHas(PrTok(p.act[l]), "PROD")
      calls == {l \in 2 .. n : Calls(l)}
      e == p.act[IF calls = {} THEN 1 ELSE Max(calls)]
  IN  IF "NEXT" \in PrTok(e).np THEN PrPush(p, PrEle(e.net, PrTok(e).next, e.depth)) ELSE p
\* The token behind the last one matched.
PrNextItem(p) ==
  LET n == Len(p.act)
      with == {l \in 1 .. n - 1 : p.act[l].item # -1}
  IN  IF with = {} THEN 0 ELSE p.act[Max(with)].item + 1
pr_getToken(p) ==
  LET id == PrNextItem(p)
  IN  [p EXCEPT !.act[Len(p.act)].item = IF id < Len(p.ritems) THEN id ELSE -1]
PrHasItem(p) == PrNextItem(p) < Len(p.ritems)

PrLsInit(p) ==
  LET e == Last(p.act)
      t == PrTok(e)
      cost == pr_calcPathCost(p.act)
  IN  CASE "ACCEPT" \in t.np /\ e.depth = 1 ->
             PrSet(IF p.best = <<>> \/ cost < p.bestCost
                   THEN [p EXCEPT !.best = p.act, !.bestCost = cost] ELSE p, "GetNextToken")
        [] "ACCEPT" \in t.np /\ e.depth # 1 -> PrSet(p, "GetProdContToken")
        [] "ACCEPT" \notin t.np /\ PrHas(t, "PROD") -> PrSet(p, "GetProdToken")
        [] "ACCEPT" \notin t.np /\ ~PrHas(t, "PROD") /\ ~PrHas(t, "OUT") /\ pr_hasToken(t) ->
             PrSet(p, "GetToken")
        [] OTHER -> PrSet(p, "GetNextToken")
\* After the flush that a path waited for, the path is given up without its alternatives.
PrLsGetToken(p) ==
  IF PrHasItem(p) THEN PrSet(pr_getToken(p), "Match")
  ELSE IF p.forceOutput THEN PrSet(pr_getToken(p), "GetAltToken")
  ELSE [PrSet(pr_getToken(p), "GetToken2") EXCEPT !.rgState = "NeedToken"]
PrLsGetToken2(p) ==
  IF PrHasItem(p) THEN PrSet(pr_getToken(p), "Match")
  ELSE [PrSet(pr_getToken(p), "GoBack") EXCEPT !.cut = TRUE]
PrMatched(p, t, it, cmp) ==
  PrSet([p EXCEPT !.act[Len(p.act)].cmp = cmp],
        IF PrMatches(t, it, cmp) THEN "GetNextToken" ELSE "GetAltToken")
PrLsMatch(p) ==
  LET t == PrTok(Last(p.act))
      it == p.ritems[Last(p.act).item + 1]
  IN  PrMatched(p, t, it, PrCompared(t, it))

pr_processToken(p) ==
  IF p.act = <<>>
  THEN LET q == pr_getTopLevelToken(p, FALSE)
       IN  IF q.act # <<>> THEN q
           ELSE [q EXCEPT !.rgState = IF q.best = <<>> THEN "NotFound" ELSE "Found"]
  ELSE LET state == Last(p.act).state
       IN  CASE state = "Init" -> PrLsInit(p)
             [] state = "GetProdToken" -> pr_getProdToken(PrSet(p, "GetAltToken"))
             [] state = "GetProdContToken" -> pr_getProdContToken(PrSet(p, "GetAltToken"))
             [] state = "GoBack" -> [p EXCEPT !.act = Front(@)]
             [] state = "GetToken" -> PrLsGetToken(p)
             [] state = "GetToken2" -> PrLsGetToken2(p)
             [] state = "Match" -> PrLsMatch(p)
             [] state = "GetNextToken" -> pr_getNextToken(PrSet(p, "GetAltToken"))
             [] state = "GetAltToken" -> pr_getAltToken(PrSet(p, "GoBack"))

pr_process(p) ==
  CASE p.rgState \in {"Start", "Found", "NotFound"} ->
         LET q == pr_getTopLevelToken([p EXCEPT !.act = <<>>, !.best = <<>>,
                                       !.bestCost = PrCostInit, !.cut = FALSE], TRUE)
         IN  [q EXCEPT !.rgState = IF q.act # <<>> THEN "Continue" ELSE "NotFound"]
    [] p.rgState = "Continue" -> pr_processToken(p)
    [] p.rgState = "NeedToken" -> [p EXCEPT !.rgState = "Continue"]
-----------------------------------------------------------------------------
(***************************************************************************)
(* What a path puts out.  Output is gathered in s: the items o and the     *)
(* file being saved.                                                       *)
(***************************************************************************)
\* Extensions stand at the end of a file's name, numbered from 1001 (".txt", ".tok",
\* ".pr", ".wa", ".sa", ".acph", ".spho", ".pam", ".cep", ".sig", ".wav").
PrUnits == <<"TO_TOK", "TO_PR", "TO_WA", "TO_SA", "TO_ACPH", "TO_SPHO", "TO_PAM", "TO_CEP", "TO_SIG">>
picodata_getPuTypeFromExtension(name, input) ==
  LET ext == IF name = <<>> THEN 0 ELSE Last(name) - 1000
      unit == IF ext = 11 THEN 9 ELSE IF input THEN ext ELSE ext - 1
  IN  IF unit \in DOMAIN PrUnits THEN PrUnits[unit] ELSE "TO_UNKNOWN"

pr_putItem(s, cmd, info2, val, str) ==
  LET data == CASE cmd \in {"CONTEXT", "VOICE", "MARKER", "PLAY", "SAVE", "UNSAVE"} -> str
                [] cmd \in {"IGNSIG", "IGNORE", "FLUSH"} -> <<>>
                [] cmd \in {"SPEED", "PITCH", "VOLUME", "SIL"} -> <<val % 256, (val % 65536) \div 256>>
  IN  [s EXCEPT !.o = Append(@, PrCmd(cmd, info2, data))]

\* The number a string starts with.
PrAtoi(str) ==
  LET n == CHOOSE k \in 0 .. Len(str) : /\ \A i \in 1 .. k : str[i] \in 48 .. 57
                                        /\ k = Len(str) \/ str[k + 1] \notin 48 .. 57
  IN  FoldLeft(LAMBDA v, c : PrInt32((10 * v) + c - 48), 0, SubSeq(str, 1, n))

PrOut(net, lo) == PrNets[net].outs[lo]
\* What a variable holds: nothing, unless the path set it.
pr_findVariable(vars, id) == IF id \in DOMAIN vars THEN vars[id] ELSE <<>>
PrFirstIsToken(list) == list # <<>> /\ list[1].type = "TOKEN"
PrTokensOf(list) == SelectSeq(list, LAMBDA it : it.type = "TOKEN")
PrConcat(list) == FlattenSeq([i \in DOMAIN list |-> list[i].data])
PrText(it, data) == [it EXCEPT !.data = data]
PrUndefined(data) == PrToken("UNDEFINED", -1, data, 0)

\* Each token in single characters, with a break behind each, as the mode asks.
PrSpell(list, mode) ==
  LET Break(it) == CASE mode = -1 \/ mode > 0 -> <<PrToken("CHAR", -1, <<44>>, 0)>>
                     [] mode = -2 -> <<PrCmd("FLUSH", "NA", <<>>)>>
                     [] OTHER -> <<>>
      Letters(it) == FlattenSeq([i \in DOMAIN it.data |->
                       <<PrToken(it.info1, it.info2, <<it.data[i]>>, 0)>> \o Break(it)])
  IN  FlattenSeq([i \in DOMAIN list |->
        IF list[i].type = "TOKEN" THEN Letters(list[i]) ELSE <<list[i]>>])
\* The tokens between two commands become one.
PrJoin(list) ==
  LET Item(a, it) ==
        IF it.type = "TOKEN" THEN [a EXCEPT !.data = @ \o it.data]
        ELSE [o |-> a.o \o <<PrUndefined(a.data), it>>, data |-> <<>>]
      r == FoldLeft(Item, [o |-> <<>>, data |-> <<>>], list)
  IN  Append(r.o, PrUndefined(r.data))
PrLeadingZeros(str) ==
  CHOOSE n \in 0 .. Len(str) : /\ \A i \in 1 .. n : str[i] = 48
                               /\ n = Len(str) \/ str[n + 1] # 48

RECURSIVE pr_getOutputItemList(_, _, _, _)

PrOutputFrom(net, lo, vars, s) == pr_getOutputItemList(net, lo, vars, [s EXCEPT !.o = <<>>])

\* The string an argument stands for, if there is one: a variable's tokens, a constant,
\* or the first token of what it puts out.
PrFirstOf(n) == [ok |-> PrFirstIsToken(n.o), save |-> n.save,
                 str |-> IF n.o # <<>> THEN n.o[1].data ELSE <<>>]
PrArgument(net, arg, vars, s) ==
  LET a == PrOut(net, arg)
  IN  CASE a.type = "OVar" -> [ok |-> TRUE, str |-> PrConcat(PrTokensOf(pr_findVariable(vars, a.val))),
                               save |-> s.save]
        [] a.type = "OStr" -> [ok |-> a.str # <<>>, str |-> a.str, save |-> s.save]
        [] OTHER -> PrFirstOf(PrOutputFrom(net, arg, vars, s))
\* The number an argument stands for.
PrNumberOf(list) == [ok |-> PrFirstIsToken(list), val |-> IF list # <<>> THEN PrAtoi(list[1].data) ELSE 0]
PrNumber(net, arg, vars, s) ==
  LET a == PrOut(net, arg)
  IN  CASE a.type = "OVal" -> [ok |-> TRUE, val |-> a.val]
        [] a.type = "OVar" -> PrNumberOf(pr_findVariable(vars, a.val))
        [] OTHER -> PrNumberOf(PrOutputFrom(net, arg, vars, s).o)

\* A file is saved to instead of the one before; a constant name is put out twice.
PrSave(constant, s, arg, to) ==
  LET closed == IF s.save = <<>> THEN s
                ELSE pr_putItem(s, "UNSAVE", picodata_getPuTypeFromExtension(s.save, FALSE), 0, s.save)
      done == IF arg.ok /\ to # "TO_UNKNOWN"
              THEN [pr_putItem(closed, "SAVE", to, 0, arg.str) EXCEPT !.save = arg.str] ELSE s
  IN  IF constant /\ arg.ok THEN pr_putItem(done, "SAVE", to, 0, arg.str) ELSE done
PrGenFile(net, o, s, arg) ==
  IF o.arg = 0 THEN s
  ELSE PrSave(PrOut(net, o.arg).type = "OStr", s, arg, picodata_getPuTypeFromExtension(arg.str, FALSE))
\* A file is played and the text, or the signal, under it ignored; with a variable's
\* name it is played twice.
PrPlay(net, o, s, arg) ==
  LET cmd == IF o.type = "OUseSig" THEN "IGNSIG" ELSE "IGNORE"
      Played(t) == pr_putItem(t, "PLAY", picodata_getPuTypeFromExtension(arg.str, TRUE), 0, arg.str)
      once == IF arg.ok THEN Played(s) ELSE s
  IN  IF o.arg = 0 THEN pr_putItem(s, cmd, "END", 0, <<>>)
      ELSE pr_putItem(IF PrOut(net, o.arg).type = "OVar" THEN Played(once) ELSE once,
                      cmd, "START", 0, <<>>)

PrCommand(net, o, s, num, arg) ==
  LET Level(cmd, default) ==
        IF o.arg = 0 THEN pr_putItem(s, cmd, "ABSOLUTE", default, <<>>)
        ELSE IF num.ok THEN pr_putItem(s, cmd, "ABSOLUTE", num.val, <<>>) ELSE s
      Named(cmd, info2, default) ==
        IF o.arg = 0 THEN pr_putItem(s, cmd, info2, 0, default)
        ELSE IF arg.ok THEN pr_putItem(s, cmd, info2, 0, arg.str) ELSE s
      Flushed == pr_putItem(s, "FLUSH", "NA", 0, <<>>)
  IN  CASE o.type = "OIgnore" ->
             pr_putItem(s, "IGNORE", IF o.val = 0 THEN "START" ELSE "END", 0, <<>>)
        [] o.type = "OPitch" -> Level("PITCH", 100)
        [] o.type = "OSpeed" -> Level("SPEED", 100)
        [] o.type = "OVolume" -> Level("VOLUME", 100)
        [] o.type = "OSent" -> Flushed
        [] o.type = "OPara" -> IF o.val = 1 THEN pr_putItem(Flushed, "SIL", "NA", 500, <<>>) ELSE Flushed
        [] o.type = "OBreak" ->
             IF o.arg # 0 /\ num.ok THEN pr_putItem(s, "SIL", "NA", num.val, <<>>) ELSE s
        [] o.type = "OVoice" -> Named("VOICE", "START", <<>>)
        [] o.type = "OContext" -> Named("CONTEXT", "START", PrDefault)
        [] o.type = "OMark" -> Named("MARKER", "NA", <<>>)
        [] o.type = "OGenFile" -> PrGenFile(net, o, s, arg)
        [] o.type \in {"OUseSig", "OPlay"} -> PrPlay(net, o, s, arg)
        [] OTHER -> s
pr_genCommands(net, o, vars, s) ==
  PrCommand(net, o, s, PrNumber(net, o.arg, vars, s), PrArgument(net, o.arg, vars, s))

\* Phonetic strings (OPhonSVOXPA, OPhonSAMPA) put nothing out: pr_putItem drops them.
PrCommands == {"OIgnore", "OPitch", "OSpeed", "OVolume", "OBreak", "OMark", "OPara", "OSent", "OPlay",
               "OUseSig", "OGenFile", "OContext", "OVoice"}

\* A Roman number becomes a cardinal.
PrCardOf(it, roman) ==
  IF roman.ok THEN [it EXCEPT !.data = pr_int_to_string(roman.val), !.val = roman.val] ELSE it
PrCard(it) == PrCardOf(it, pr_isLatinNumber(it.data))

\* What an output item makes of the items of its argument, and of the one after that.
PrFirstN(n, str) == SubSeq(str, 1, Max({0, Min({n, Len(str)})}))
PrLastN(n, str) == pr_removeSubstring(0, Max({0, Min({Len(str) - n, Len(str)})}), str)
PrOutput(net, o, vars, s, args, second) ==
  LET Put(items) == [s EXCEPT !.o = @ \o items]
      OfFirst(list, F(_)) == IF PrFirstIsToken(list) THEN Put(<<F(list[1])>>) ELSE s
      nr == PrOut(net, o.arg).val
      next == PrOut(net, o.arg).next
  IN  CASE o.type = "OStr" -> Put(<<PrUndefined(o.str)>>)
        [] o.type = "OVar" -> Put(pr_findVariable(vars, o.val))
        [] o.type = "OSpell" -> Put(PrSpell(args, IF next = 0 THEN 0 ELSE PrOut(net, next).val))
        [] o.type = "OConcat" -> Put(PrJoin(args))
        [] o.type = "ORomanToCard" -> OfFirst(args, PrCard)
        [] o.type = "OLeft" -> OfFirst(second, LAMBDA it : PrText(it, PrFirstN(nr, it.data)))
        [] o.type = "ORight" -> OfFirst(second, LAMBDA it : PrText(it, PrLastN(nr, it.data)))
        [] o.type = "OItem" ->
             IF nr \in DOMAIN second /\ second[nr].type = "TOKEN" THEN Put(<<second[nr]>>) ELSE s
        [] o.type = "ORLZ" ->
             OfFirst(args, LAMBDA it :
               PrText(it, pr_removeSubstring(0, PrLeadingZeros(it.data), it.data)))
        [] o.type \in PrCommands -> pr_genCommands(net, o, vars, s)
        [] OTHER -> s
\* The chain of output items from lo.
pr_getOutputItemList(net, lo, vars, s) ==
  LET o == PrOut(net, lo)
  IN  IF lo = 0 THEN s
      ELSE pr_getOutputItemList(net, o.next, vars,
             PrOutput(net, o, vars, s, PrOutputFrom(net, o.arg, vars, s).o,
                      PrOutputFrom(net, PrOut(net, o.arg).next, vars, s).o))
-----------------------------------------------------------------------------
(***************************************************************************)
(* The output of a path: from element i on, at depth d.  r holds i, the    *)
(* items not taken yet, the output o and the file being saved.             *)
(***************************************************************************)
\* Mutation of PrTakeItem: the commands before a token are lost with it.
PrTakeItemOnly(r) ==
  LET n == SelectInSeq(r.in, LAMBDA it : it.type = "TOKEN")
  IN  [r EXCEPT !.in = SubSeq(@, n + 1, Len(@))]
\* An element that matched takes its token; the commands before it go to the output.
PrTakeItem(r) ==
  LET n == SelectInSeq(r.in, LAMBDA it : it.type = "TOKEN")
  IN  [r EXCEPT !.o = @ \o SubSeq(r.in, 1, n - 1), !.in = SubSeq(@, n + 1, Len(@))]

RECURSIVE pr_getOutput(_, _, _, _)

PrWith(vars, id, list) == [v \in DOMAIN vars \cup {id} |-> IF v = id THEN list ELSE vars[v]]
PrGo(p, d, vars, r) == pr_getOutput(p, d, vars, [r EXCEPT !.i = @ + 1])
\* What a production without a variable puts out, commands of the text too, is dropped.
PrCalled(t, vars, called) == IF PrHas(t, "VAR") THEN PrWith(vars, pr_attrVal(t, "VAR"), called.o) ELSE vars
PrBehind(p, d, t, vars, out, called) ==
  PrGo(p, d, PrCalled(t, vars, called), [called EXCEPT !.o = out])
PrOutputAt(p, d, vars, e, t, r) ==
  CASE PrHas(t, "PROD") ->
         PrBehind(p, d, t, vars, r.o, PrGo(p, d + 1, <<>>, [r EXCEPT !.o = <<>>]))
    [] ~PrHas(t, "PROD") /\ PrHas(t, "VAR") ->
         PrGo(p, d, PrWith(vars, pr_attrVal(t, "VAR"),
                           IF e.item = -1 THEN <<>> ELSE <<p.ritems[e.item + 1]>>), r)
    [] ~PrHas(t, "PROD") /\ ~PrHas(t, "VAR") /\ PrHas(t, "OUT") ->
         PrGo(p, d, vars, pr_getOutputItemList(e.net, pr_attrVal(t, "OUT"), vars, r))
    [] OTHER -> IF r.i < Len(p.best) /\ p.best[r.i + 1].depth # d THEN r ELSE PrGo(p, d, vars, r)
pr_getOutput(p, d, vars, r) ==
  LET e == p.best[r.i]
  IN  IF r.i > Len(p.best) THEN r
      ELSE PrOutputAt(p, d, vars, e, PrTok(e), IF e.item = -1 THEN r ELSE PrTakeItem(r))

\* Spelling is off.
pr_appendItemToOutItemList(p, it) == [p EXCEPT !.outItems = Append(@, it)]
PrPhoneme(p, it) ==
  IF ~pr_isCmdType(it, "PHONEME") THEN p ELSE [p EXCEPT !.insidePhoneme = it.info2 = "START"]
PrMuted(p, it) == p.insidePhoneme /\ (pr_isCmdType(it, "PLAY") \/ pr_isCmdType(it, "IGNSIG"))

\* A file that does not exist is not played, and what it stands for not ignored.
PrPutPathItem(a, it) ==
  LET found == IF pr_isCmdType(it, "PLAY") THEN it.data \in PrFiles ELSE a.found
      p == PrPhoneme(a.p, it)
      Kept == p.rignore <= 0 /\ ~PrMuted(p, it)
      ignore == IF ~found THEN p.rignore ELSE IF it.info2 = "START" THEN p.rignore + 1
                ELSE Max({p.rignore - 1, 0})
      next ==
        CASE pr_isCmdType(it, "IGNORE") -> [p EXCEPT !.rignore = ignore]
          [] (pr_isCmdType(it, "PLAY") \/ pr_isCmdType(it, "IGNSIG")) /\ ~found -> p
          [] pr_isCmdType(it, "CONTEXT") -> IF p.rignore <= 0 THEN pr_setContext(p, it.data) ELSE p
          [] OTHER -> IF Kept THEN pr_appendItemToOutItemList(p, it) ELSE p
  IN  [p |-> next, found |-> found]
PrPutPath(p, r) ==
  LET q == [p EXCEPT !.inItems = r.in, !.save = r.save]
  IN  FoldLeft(PrPutPathItem, [p |-> q, found |-> TRUE], r.o).p
pr_outputPath(p) ==
  PrPutPath(p, pr_getOutput(p, 1, <<>>, [i |-> 1, in |-> p.inItems, o |-> <<>>, save |-> p.save]))
-----------------------------------------------------------------------------
(***************************************************************************)
(* The items of the text.                                                  *)
(***************************************************************************)
pr_prepareItem(p) == [p EXCEPT !.ritems = PrTokensOf(p.inItems)]

PrLeadingCommand(p, it) ==
  LET q == PrPhoneme([p EXCEPT !.inItems = Tail(@), !.rgState = "Start"], it)
  IN  CASE PrMuted(q, it) -> q
        [] ~PrMuted(q, it) /\ pr_isCmdType(it, "CONTEXT") -> pr_setContext(q, it.data)
        [] OTHER -> IF q.rignore <= 0 THEN pr_appendItemToOutItemList(q, it) ELSE q
\* The first token goes on as it is.
PrPassToken(p) ==
  LET q == [p EXCEPT !.inItems = Tail(@)]
  IN  IF p.rignore <= 0 THEN pr_appendItemToOutItemList(q, p.inItems[1]) ELSE q
\* A search that has ended puts its path out, or the token.
PrEnded(s) ==
  LET Ended(t) == [t EXCEPT !.rgState = "Start", !.ritems = <<>>, !.known = s.ritems,
                            !.searched = s.actCtx.prods, !.ended = TRUE]
  IN  CASE s.rgState = "NotFound" -> Ended(PrPassToken(s))
        [] s.rgState = "Found" -> Ended(pr_outputPath(s))
        [] OTHER -> [s EXCEPT !.ended = FALSE]
PrPrepared(p) == IF p.inItems # <<>> /\ p.ritems = <<>> THEN pr_prepareItem(p) ELSE p
pr_processItems(p) ==
  LET first == SelectInSeq(p.inItems, LAMBDA it : it.type = "TOKEN")
      leading == SubSeq(p.inItems, 1, IF first = 0 THEN Len(p.inItems) ELSE first - 1)
      q == FoldLeft(PrLeadingCommand, p, leading)
  IN  PrPrepared(IF first = 0 THEN q ELSE PrEnded(pr_process(q)))

pr_treatItem(p, it) ==
  LET start == IF ~p.actCtxChanged THEN p
               ELSE [p EXCEPT !.rgState = "Start", !.act = <<>>, !.best = <<>>, !.prodList = <<>>,
                              !.bestCost = PrCostInit, !.ritems = <<>>, !.actCtxChanged = FALSE]
      Forced == pr_isCmdType(it, "CONTEXT") \/ pr_isCmdType(it, "FLUSH")
      q == [start EXCEPT !.inItems = Append(@, it), !.forceOutput = @ \/ Forced]
  IN  IF p.rgState = "NoPreproc" THEN pr_appendItemToOutItemList(p, it)
      ELSE IF q.ritems = <<>> THEN pr_prepareItem(q)
      ELSE IF it.type = "TOKEN" THEN [q EXCEPT !.ritems = Append(@, it)] ELSE q

\* A token as words: characters replaced, and a new word behind a blank.
PrWord(data) == [type |-> "WORDGRAPH", info1 |-> "NA", info2 |-> "NA", data |-> data]
PrWords(str) ==
  LET Char(a, c) ==
        LET out == IF c \in DOMAIN PrSubs THEN PrSubs[c] ELSE <<c>>
        IN  IF c <= 32 THEN [a EXCEPT !.split = TRUE]
            ELSE IF a.split
                 THEN [done |-> Append(a.done, PrWord(a.word)), word |-> out, split |-> FALSE]
                 ELSE [a EXCEPT !.word = @ \o out]
      r == FoldLeft(Char, [done |-> <<>>, word |-> <<>>, split |-> FALSE], str)
  IN  Append(r.done, PrWord(r.word))
PrDelivered(it) ==
  CASE it.type = "TOKEN" /\ (it.info1 = "SPACE" \/ it.data = <<>>) -> <<>>
    [] it.type = "TOKEN" /\ it.info1 # "SPACE" /\ Len(it.data) = 1 /\ it.data[1] \in DOMAIN PrPuncts ->
         <<[type |-> "PUNC", info1 |-> PrPuncts[it.data[1]][1], info2 |-> PrPuncts[it.data[1]][2],
            data |-> <<>>]>>
    [] it.type = "TOKEN" /\ it.info1 # "SPACE" /\ it.data # <<>>
       /\ ~(Len(it.data) = 1 /\ it.data[1] \in DOMAIN PrPuncts) -> PrWords(it.data)
    [] OTHER -> <<it>>
-----------------------------------------------------------------------------
(***************************************************************************)
(* prStep, one turn of its loop at a time.                                 *)
(***************************************************************************)
prReset ==
  [inItems |-> <<>>, outItems |-> <<>>, act |-> <<>>, best |-> <<>>, bestCost |-> PrCostInit,
   ritems |-> <<>>, rignore |-> 0, insidePhoneme |-> FALSE, ctxList |-> pr_createContextList,
   actCtx |-> pr_findContext(pr_createContextList, PrDefault),
   actCtxChanged |-> FALSE, prodList |-> <<>>, forceOutput |-> FALSE, save |-> <<>>,
   rgState |-> IF PrNets = <<>> THEN "NoPreproc" ELSE "Start",
   cut |-> FALSE, known |-> <<>>, searched |-> <<>>, ended |-> FALSE]
PrStart(text) == prIn = text /\ pr = prReset /\ prOut = <<>>
PrInit == \E text \in PrTexts : PrStart(text)

PrDeliver ==
  /\ pr.outItems # <<>>
  /\ prOut' = prOut \o PrDelivered(pr.outItems[1])
  /\ pr' = [pr EXCEPT !.outItems = Tail(@), !.ended = FALSE]
  /\ UNCHANGED prIn
PrForced(p) == [p EXCEPT !.forceOutput = p.inItems # <<>>]
PrForce ==
  /\ pr.outItems = <<>> /\ pr.forceOutput
  /\ pr' = PrForced(pr_processItems(pr))
  /\ UNCHANGED <<prIn, prOut>>
PrSearch ==
  /\ pr.outItems = <<>> /\ ~pr.forceOutput /\ pr.rgState # "NeedToken" /\ pr.inItems # <<>>
  /\ pr' = pr_processItems(pr)
  /\ UNCHANGED <<prIn, prOut>>
PrGetItem ==
  /\ pr.outItems = <<>> /\ ~pr.forceOutput /\ (pr.rgState = "NeedToken" \/ pr.inItems = <<>>)
  /\ prIn # <<>>
  /\ IF Len(pr.inItems) < PrDynCap
     THEN pr' = pr_processItems(pr_treatItem(pr, prIn[1])) /\ prIn' = Tail(prIn)
     ELSE pr' = [pr EXCEPT !.forceOutput = TRUE] /\ UNCHANGED prIn
  /\ UNCHANGED prOut
PrNext == PrDeliver \/ PrForce \/ PrSearch \/ PrGetItem
PrSpec == PrInit /\ [][PrNext]_prVars
-----------------------------------------------------------------------------
(***************************************************************************)
(* The properties.                                                         *)
(***************************************************************************)
RECURSIVE PrEnds(_, _, _, _, _)

\* Where the elements from tok on, and all their alternatives, can take the search in
\* tokens from position pos, and what it costs.
PrEnds(known, net, tok, pos, top) ==
  LET t == PrNets[net].toks[tok]
      From(to, i) == PrEnds(known, net, to, i, top)
      NextFrom(i) == IF "NEXT" \in t.np THEN From(t.next, i) ELSE {}
      Alternatives == (IF "ALTL" \in t.np THEN From(t.altL, pos) ELSE {})
                      \cup (IF "ALTR" \in t.np THEN From(t.altR, pos) ELSE {})
      own == IF PrHas(t, "COST") THEN pr_attrVal(t, "COST") - PrCost
             ELSE IF pr_hasToken(t) THEN -PrCost ELSE 0
      Called == PrEnds(known, net, PrProdTok(net, pr_attrVal(t, "PROD")), pos, FALSE)
      here ==
        CASE "ACCEPT" \in t.np -> {[pos |-> pos, cost |-> 0]} \cup (IF top THEN NextFrom(pos) ELSE {})
          [] "ACCEPT" \notin t.np /\ PrHas(t, "PROD") ->
               UNION {{[f EXCEPT !.cost = @ + e.cost] : f \in NextFrom(e.pos)} : e \in Called}
          [] "ACCEPT" \notin t.np /\ ~PrHas(t, "PROD") /\ ~PrHas(t, "OUT") /\ pr_hasToken(t) ->
               IF pos < Len(known) /\ pr_matchTokens(t, known[pos + 1]) THEN NextFrom(pos + 1) ELSE {}
          [] OTHER -> NextFrom(pos)
  IN  {[e EXCEPT !.cost = @ + own] : e \in here} \cup Alternatives

\* A search that no path was cut short in finds the cheapest of all the ways through the
\* productions of the context, tokens and alternatives taken in every way, although it
\* goes to one side only where an element's string is compared; and it finds none only
\* if there is none (pr_processToken, pr_getAltToken, pr_calcPathCost).
PrCheapest ==
  LET CheapestOf(costs) ==
        IF pr.best = <<>> THEN costs = {} ELSE costs # {} /\ pr.bestCost = Min(costs)
  IN  pr.ended /\ ~pr.cut =>
        CheapestOf(UNION {{PrCostInit + PrNets[c.net].prods[c.prod].pref + e.cost :
                             e \in PrEnds(pr.known, c.net, PrProdTok(c.net, c.prod), 0, TRUE)} :
                            c \in ToSet(pr.searched)})

PrMarks(items) == SelectSeq(items, LAMBDA it : pr_isCmdType(it, "MARKER"))
\* Markers of the text come out once each and in order, whether they stand before a
\* token that passes or inside what a path covers, with networks that put every variable
\* of theirs out (pr_processItems, pr_getOutput, pr_outputPath).
PrCommandsKept ==
  LET all == prOut \o pr.outItems \o pr.inItems \o prIn
      marks == [i \in DOMAIN PrMarks(all) |-> PrMarks(all)[i].data]
  IN  marks = [i \in DOMAIN marks |-> <<i>>]
=============================================================================
