-------------------------------- MODULE PicoTok --------------------------------
(***************************************************************************)
(* The tokenizer (picotok.c): bytes become characters, characters become   *)
(* tokens of one kind, and tags between < and > become commands.  What     *)
(* looked like a tag and is none is text after all.                        *)
(*                                                                         *)
(* A character is a string, and so is a whole word where the code compares *)
(* words: "speed" is one letter here.  Each carries the position `at' of   *)
(* the input it came from, 0 if the tokenizer made it itself.              *)
(***************************************************************************)
EXTENDS Integers, Sequences, SequencesExt

CONSTANTS
  TokTexts,        \* the texts, sequences of characters
  TokBufSize,      \* IN_BUF_SIZE: the longest token, in characters
  TokMarkupSize,   \* MARKUP_STRING_BUF_SIZE
  TokFiles         \* the files that exist

\* There is room for the < of a tag.
ASSUME TokAssumption == TokMarkupSize \in Nat /\ TokMarkupSize > 1

VARIABLES
  tokText,  \* the text
  tokIn,    \* what of it is still to be read
  tok,      \* the sub object, the utf-8 buffer left out of it
  tokUtf,   \* utf and utflen
  tokOut,   \* the items put out
  tokTags   \* the positions that tags took, for the properties

tokVars == <<tokText, tokIn, tok, tokUtf, tokOut, tokTags>>

TokOutBufSize == TokBufSize + 3 * 4 + 3
TokMaxParams == 6

(***************************************************************************)
(* Characters                                                              *)
(***************************************************************************)
\* The two bytes of one character, which is the letter TokWide.
TokLead == "lead"
TokCont == "cont"
TokWide == "wide"
TokEnd == "NUL"
TokEol == "\n"
TokFileKw == "file"
TokDigits == {"5", "50", "900", "+9%"}
TokMarks == {"<", ">", "/", "=", "'", "\\", "."}
\* The graphs table; what it does not know is a blank or of no type.
TokType(c) ==
  CASE c \in {" ", TokEol}  -> "SPACE"
    [] c \in TokDigits      -> "DIGIT"
    [] c \in TokMarks       -> "CHAR"
    [] c = "odd"            -> "UNDEFINED"
    [] OTHER                -> "LETTER"
tok_attrChar(c, first) ==
  (TokType(c) = "LETTER" /\ c # TokWide) \/ (~first /\ c \in TokDigits)
tok_idChar(c, first) == tok_attrChar(c, first)
TokLower(word) == [i \in DOMAIN word |-> IF word[i] = "SPEED" THEN "speed" ELSE word[i]]

TokLevels == {"speed", "pitch", "volume", "speaker"}
TokNamed == {"voice", "preproccontext", "mark"}
TokTagIds == TokLevels \cup TokNamed \cup
  {"ignore", "play", "usesig", "genfile", "p", "s", "break", "spell", "phoneme", "item"}
tok_markupTagId(name) == IF Len(name) = 1 /\ name[1] \in TokTagIds THEN name[1] ELSE "none"

TokWord(chars) == [i \in DOMAIN chars |-> chars[i].c]
TokNoParam == [id |-> <<>>, val |-> <<>>]
TokParam(t, i) == IF i \in DOMAIN t.params THEN t.params[i] ELSE TokNoParam
TokParamIs(t, i, word) == TokParam(t, i).id = <<word>>
TokNoParams(t) == TokParam(t, 1).id = <<>>

(***************************************************************************)
(* Items                                                                   *)
(***************************************************************************)
TokCmd(cmd, arg) == [kind |-> "CMD", cmd |-> cmd, arg |-> arg, text |-> <<>>]
TokToken(type, text) == [kind |-> "TOKEN", cmd |-> type, arg |-> <<>>, text |-> text]
TokNumCmds == TokLevels \cup {"spell", "sil"}
TokSize(item) ==
  4 + CASE item.kind = "TOKEN"   -> Len(item.text)
        [] item.cmd \in TokNumCmds -> 2
        [] OTHER                 -> Len(item.arg)
TokUsed(t) == FoldLeft(LAMBDA n, item : n + TokSize(item), 0, t.outBuf)

\* A flush always goes out; the rest does if nothing is to be ignored, and if it fits.
tok_putItem(t, item) ==
  IF \/ item.kind = "CMD" /\ item.cmd = "flush"
     \/ t.ignLevel <= 0 /\ TokUsed(t) + TokSize(item) < TokOutBufSize
  THEN [t EXCEPT !.outBuf = Append(@, item)]
  ELSE t
tok_putItem2(t, item) == [t EXCEPT !.outBuf = Append(@, item)]
TokPutTwo(t, a, b) == tok_putItem(tok_putItem(t, a), b)
TokPutThree(t, a, b, c) == tok_putItem(TokPutTwo(t, a, b), c)
TokFlush == TokCmd("flush", <<>>)
tok_startIgnore(t) == [t EXCEPT !.ignLevel = @ + 1]
tok_endIgnore(t) == [t EXCEPT !.ignLevel = IF @ > 0 THEN @ - 1 ELSE @]

(***************************************************************************)
(* Numbers: a value between the limits; relative ones are in per mille     *)
(***************************************************************************)
TokLimits(id, relative) ==
  CASE relative      -> <<500, 2000>>
    [] id = "speed"  -> <<20, 500>>
    [] id = "pitch"  -> <<50, 200>>
    [] id = "volume" -> <<0, 500>>
    [] id = "speaker" -> <<20, 180>>
tok_checkLimits(n, limits) ==
  IF n < limits[1] THEN limits[1] ELSE IF n > limits[2] THEN limits[2] ELSE n
TokAtoi(val) ==
  CASE val = <<"5">> -> 5 [] val = <<"50">> -> 50 [] val = <<"900">> -> 900 [] OTHER -> 0
tok_isRelative(val) == val = <<"+9%">>
TokRelative == 1000 + 9 * 10
TokLevel(id, val) ==
  IF tok_isRelative(val) THEN <<"rel", tok_checkLimits(TokRelative, TokLimits(id, TRUE))>>
  ELSE <<"abs", tok_checkLimits(TokAtoi(val), TokLimits(id, FALSE))>>
\* A duration ends in ms or s.
tok_getDur(val) ==
  IF Len(val) = 2 /\ val[1] \in TokDigits /\ val[2] \in {"s", "ms"}
  THEN [done |-> TRUE, dur |-> tok_checkLimits(TokAtoi(<<val[1]>>)
                                 * (IF val[2] = "s" THEN 1000 ELSE 1), <<0, 65535>>)]
  ELSE [done |-> FALSE, dur |-> 0]

(***************************************************************************)
(* tok_interpretMarkup: the state after a tag, and whether it was done     *)
(***************************************************************************)
TokDone(t) == [t |-> t, done |-> TRUE]
TokUndone(t) == [t |-> t, done |-> FALSE]

TokStartGenFile(t, file) ==
  LET ended == IF t.saveFile = <<>> THEN t
               ELSE [tok_putItem(t, TokCmd("unsave", t.saveFile)) EXCEPT !.saveFile = <<>>]
  IN  [tok_putItem(ended, TokCmd("save", file)) EXCEPT !.saveFile = file]
TokEndGenFile(t) ==
  IF t.saveFile = <<>> THEN t
  ELSE [tok_putItem(t, TokCmd("unsave", <<>>)) EXCEPT !.saveFile = <<>>]
\* Mutation of TokStartPlay: a missing file never starts an ignored region.
TokStartPlayOnly(t, file) ==
  IF file \in TokFiles THEN tok_startIgnore(tok_putItem(t, TokCmd("play", file))) ELSE t

\* A file that is missing has the enclosed text spoken, unless that is ignored anyway.
TokStartPlay(t, file) ==
  IF file \in TokFiles THEN tok_startIgnore(tok_putItem(t, TokCmd("play", file)))
  ELSE IF t.ignLevel > 0 THEN tok_startIgnore(t) ELSE t
TokStartUseSig(t, file) ==
  IF file \in TokFiles THEN TokPutTwo(t, TokCmd("play", file), TokCmd("ignsig", <<>>))
  ELSE t
\* The phonetic alphabet, first of all, or none; "known" stands for what can be mapped.
TokStartPhoneme(t) ==
  LET ph == IF TokParamIs(t, 1, "alphabet") /\ TokParamIs(t, 2, "ph") THEN 2
            ELSE IF TokParamIs(t, 1, "ph") THEN 1 ELSE 0
  IN  IF ph = 0 THEN TokUndone(t)
      ELSE IF TokParam(t, ph).val = <<"known">>
      THEN TokDone(tok_putItem(t, TokCmd("phoneme", TokParam(t, ph).val)))
      ELSE TokDone(t)
TokStartSpell(t) ==
  LET val == TokParam(t, 1).val
      pause == CASE ~TokParamIs(t, 1, "mode") \/ val = <<"pb">> -> 1
                 [] val = <<"sb">> -> 2
                 [] OTHER -> tok_getDur(val).dur
  IN  TokDone(tok_putItem(t, TokCmd("spell", <<"start", pause>>)))
TokStartBreak(t) ==
  LET d == tok_getDur(TokParam(t, 1).val)
  IN  IF d.done THEN TokDone(tok_putItem(t, TokCmd("sil", <<d.dur>>))) ELSE TokUndone(t)

TokStart(t, id) ==
  LET val == TokParam(t, 1).val
      Only(word, result) == IF TokParamIs(t, 1, word) THEN TokDone(result) ELSE TokUndone(t)
      Domain(n) == TokPutTwo(t, TokFlush, TokCmd("prosdomain", <<n>>))
  IN  CASE id = "ignore" -> IF TokNoParams(t) THEN TokDone(tok_startIgnore(t)) ELSE TokUndone(t)
        [] id \in TokLevels -> Only("level", tok_putItem(t, TokCmd(id, TokLevel(id, val))))
        [] id = "voice" -> Only("name",
             TokPutThree(t, TokCmd("voice", val), TokFlush, TokCmd("prosdomain", <<>>)))
        [] id \in {"preproccontext", "mark"} -> Only("name", tok_putItem(t, TokCmd(id, val)))
        [] id = "s" -> TokDone(Domain("2"))
        [] id = "p" -> TokDone(Domain("1"))
        [] id = "break" -> IF TokParamIs(t, 1, "time") THEN TokStartBreak(t) ELSE TokUndone(t)
        [] id = "spell" -> TokStartSpell(t)
        [] id = "genfile" -> Only(TokFileKw, TokStartGenFile(t, val))
        [] id = "play" -> Only(TokFileKw, TokStartPlay(t, val))
        [] id = "usesig" -> Only(TokFileKw, TokStartUseSig(t, val))
        [] id = "phoneme" -> TokStartPhoneme(t)
        [] id = "item" -> IF /\ TokParamIs(t, 1, "type") /\ TokParamIs(t, 2, "info1")
                             /\ TokParamIs(t, 3, "info2") /\ TokParamIs(t, 4, "data")
                          THEN TokDone(tok_putItem2(t, TokCmd("item", TokParam(t, 4).val)))
                          ELSE TokUndone(t)

TokStop(t, id) ==
  LET Domain(n) == TokCmd("prosdomain", <<n>>)
  IN  CASE id \in {"ignore", "play"} -> tok_endIgnore(t)
        [] id \in TokLevels -> tok_putItem(t, TokCmd(id, <<"abs", 100>>))
        [] id = "voice" ->
             TokPutThree(t, TokCmd("voice", <<>>), TokFlush, TokCmd("prosdomain", <<>>))
        [] id = "preproccontext" -> tok_putItem(t, TokCmd(id, <<"DEFAULT">>))
        [] id = "s" -> TokPutTwo(t, TokFlush, Domain("2"))
        [] id = "p" -> TokPutThree(t, TokFlush, TokCmd("sil", <<500>>), Domain("1"))
        [] id = "spell" -> tok_putItem(t, TokCmd("spell", <<"end", 0>>))
        [] id = "genfile" -> TokEndGenFile(t)
        [] id = "usesig" -> tok_putItem(t, TokCmd("ignsig", <<>>))
        [] id = "phoneme" -> tok_putItem(t, TokCmd("phoneme", <<>>))
        [] id \in {"mark", "break", "item"} -> t

TokInterpreted(r) == IF r.done THEN r.t ELSE [r.t EXCEPT !.tagErr = TRUE]
tok_interpretMarkup(t, start, id) ==
  TokInterpreted(IF start THEN TokStart(t, id)
                 ELSE IF TokNoParams(t) THEN TokDone(TokStop(t, id)) ELSE TokUndone(t))

(***************************************************************************)
(* Text                                                                    *)
(***************************************************************************)
\* The token so far is put out, outside of markup.
TokPutToken(t) ==
  LET put == t.text # <<>> /\ (t.ignLevel <= 0 \/ t.type = "SPACE")
      put1 == IF put THEN tok_putItem(t, TokToken(t.type, t.text)) ELSE t
  IN  [put1 EXCEPT !.text = <<>>, !.type = "UNDEFINED"]
tok_putToSimpleToken(t, char, type) ==
  LET room == IF Len(t.text) >= TokBufSize THEN TokPutToken(t) ELSE t
  IN  [room EXCEPT !.text = Append(@, char), !.type = type]

TokCountEols(t, c) ==
  [t EXCEPT !.nrEOL = IF c = TokEol THEN @ + 1 ELSE IF TokType(c) # "SPACE" THEN 0 ELSE @]
\* A character outside of markup: after a token of another kind, or a paragraph's end.
TokPlainOf(t, char, type) ==
  LET before ==
        IF type # t.type \/ type = "CHAR" THEN TokPutToken(t)
        ELSE IF char.c = TokEol /\ t.nrEOL = 2
        THEN TokPutToken(tok_putToSimpleToken(TokPutToken(t), [c |-> ".", at |-> 0], "CHAR"))
        ELSE t
  IN  IF type = "UNDEFINED" THEN TokPutToken(t) ELSE tok_putToSimpleToken(before, char, type)
TokPlain(t, char) == TokPlainOf(TokCountEols(t, char.c), char, TokType(char.c))

tok_treatMarkupAsSimpleToken(t) ==
  [FoldLeft(TokPlain, [t EXCEPT !.state = "NotInMarkup"], t.markup) EXCEPT !.markup = <<>>]

\* What comes before the end of the input, or where a token has to end.
tok_treatSimpleToken(t) ==
  TokPutToken(IF t.state = "NotInMarkup" THEN t ELSE tok_treatMarkupAsSimpleToken(t))

(***************************************************************************)
(* Markup: tok_putToMarkup, the state machine of a tag                     *)
(***************************************************************************)
TokMayBlank == {"ExpectingTagName", "GotTagName", "GotAttrName", "GotEqual", "GotAttrValue"}
TokMayEnd == {"GotTagName", "InTagName", "GotAttrValue"}

TokTo(t, state) == [t EXCEPT !.state = state]
TokError(t) == [t EXCEPT !.state = "Error", !.tagErr = TRUE]
TokRoom(t) == Len(t.params) < TokMaxParams
TokAddId(t, c) == IF TokRoom(t) THEN [t EXCEPT !.param.id = Append(@, c)] ELSE t
TokAddVal(t, c) == IF TokRoom(t) THEN [t EXCEPT !.param.val = Append(@, c)] ELSE t
\* The code has no check here: a name with more letters than markupTagName has room for
\* (IN_BUF_SIZE) is written past its end, which C leaves undefined.  The texts have none.
TokAddName(t, c) == [TokTo(t, "InTagName") EXCEPT !.name = Append(@, c)]
TokNameEnd(t) ==
  LET id == TokLower(t.param.id)
  IN  [t EXCEPT !.param.id = id, !.isFile = (id = <<TokFileKw>>)]
TokValueEnd(t) ==
  [(IF TokRoom(t) THEN [t EXCEPT !.params = Append(@, t.param)] ELSE t)
     EXCEPT !.param = TokNoParam, !.state = "GotAttrValue"]

TokInTag(t, c) ==
  CASE t.state = "NotInMarkup" ->
         [t EXCEPT !.params = <<>>, !.param = TokNoParam, !.name = <<>>, !.tagType = "Start",
                   !.state = "GotStart"]
    [] t.state = "GotStart" ->
         IF c = "/" THEN [TokTo(t, "ExpectingTagName") EXCEPT !.tagType = "End"]
         ELSE IF c = " " THEN TokTo(t, "ExpectingTagName")
         ELSE IF tok_idChar(c, TRUE) THEN TokAddName(t, c) ELSE TokError(t)
    [] t.state \in {"InTagName", "ExpectingTagName"} ->
         IF tok_idChar(c, t.state = "ExpectingTagName") THEN TokAddName(t, c)
         ELSE IF t.state = "InTagName" /\ c = " "
         THEN [TokTo(t, "GotTagName") EXCEPT !.name = TokLower(@)] ELSE TokError(t)
    [] t.state \in {"GotTagName", "GotAttrValue"} ->
         IF tok_attrChar(c, TRUE) /\ t.tagType # "End"
         THEN TokAddId(TokTo(t, "InAttrName"), c) ELSE TokError(t)
    [] t.state = "InAttrName" ->
         IF tok_attrChar(c, FALSE) THEN TokAddId(t, c)
         ELSE IF c = " " THEN TokTo(TokNameEnd(t), "GotAttrName")
         ELSE IF c = "=" THEN TokTo(TokNameEnd(t), "GotEqual") ELSE TokError(t)
    [] t.state = "GotAttrName" -> IF c = "=" THEN TokTo(t, "GotEqual") ELSE TokError(t)
    [] t.state = "GotEqual" -> IF c = "'" THEN TokTo(t, "InAttrValue") ELSE TokError(t)
    [] t.state = "InAttrValue" ->
         IF ~t.isFile /\ c = "\\" THEN TokTo(t, "InAttrValueEscaped")
         ELSE IF c = "'" THEN TokValueEnd(t) ELSE TokAddVal(t, c)
    [] t.state = "InAttrValueEscaped" -> TokAddVal(TokTo(t, "InAttrValue"), c)
    [] t.state = "GotEndSlash" -> IF c = ">" THEN TokTo(t, "GotEnd") ELSE TokError(t)

\* Mutation of tok_putToMarkup: the character that is an error is kept, too.
tok_putToMarkupAll(t0, char) ==
  LET next == IF Len(t0.markup) >= TokMarkupSize - 1 THEN TokTo(t0, "ErrorTooLong")
              ELSE IF char.c = ">" /\ t0.state \in TokMayEnd THEN TokTo(t0, "GotEnd")
              ELSE IF char.c = " " /\ t0.state \in TokMayBlank THEN t0
              ELSE TokInTag([t0 EXCEPT !.tagErr = FALSE], char.c)
  IN  [next EXCEPT !.markup = Append(@, char)]

TokInMarkup(t, c) ==
  IF Len(t.markup) >= TokMarkupSize - 1 THEN TokTo(t, "ErrorTooLong")
  ELSE IF c = " " /\ t.state \in TokMayBlank THEN t
  ELSE IF c = ">" /\ t.state \in TokMayEnd THEN TokTo(t, "GotEnd")
  ELSE IF c = "/" /\ t.state \in TokMayEnd
  THEN IF t.tagType = "End" THEN TokError(t)
       ELSE [TokTo(t, "GotEndSlash") EXCEPT !.tagType = "Empty"]
  ELSE TokInTag(t, c)
\* A tag that is too long keeps this character, too, and one that has more than one byte is
\* written past the end of markupStr; an error does not keep it.
TokKeep(t, char) == IF t.tagErr THEN t ELSE [t EXCEPT !.markup = Append(@, char)]
tok_putToMarkup(t0, char) == TokKeep(TokInMarkup([t0 EXCEPT !.tagErr = FALSE], char.c), char)

\* A complete tag: the token before it ends, its halves are interpreted, and one that is
\* not understood is text.
TokBeforeTag(t) ==
  tok_putToSimpleToken(IF t.type \in {"SPACE", "UNDEFINED"} THEN t ELSE TokPutToken(t),
                       [c |-> " ", at |-> 0], "SPACE")
TokStarted(t, id) ==
  IF t.tagType \in {"Start", "Empty"} THEN tok_interpretMarkup(t, TRUE, id) ELSE t
TokStopped(t, id) ==
  IF t.tagType \in {"End", "Empty"} THEN tok_interpretMarkup([t EXCEPT !.params = <<>>], FALSE, id)
  ELSE t
TokAfterTag(t) ==
  IF t.tagErr THEN tok_treatMarkupAsSimpleToken(t) ELSE [t EXCEPT !.markup = <<>>]
tok_treatMarkup(t) ==
  LET id == tok_markupTagId(t.name)
  IN  IF id = "none" THEN tok_treatMarkupAsSimpleToken(t)
      ELSE TokAfterTag(TokStopped(TokStarted(TokBeforeTag(TokTo(t, "NotInMarkup")), id), id))

\* tok_treatChar, with markup; the character is complete.
TokRestart(t, char) == IF char.c = "<" THEN tok_putToMarkup(t, char) ELSE TokPlain(t, char)
TokTreatTag(t, char) ==
  CASE t.state \in {"Error", "ErrorTooLong"} -> TokRestart(tok_treatMarkupAsSimpleToken(t), char)
    [] t.state = "GotEnd" -> tok_treatMarkup(t)
    [] OTHER -> t
TokTreat(t, char) ==
  IF t.state = "NotInMarkup" THEN TokRestart(t, char)
  ELSE TokTreatTag(tok_putToMarkup(TokCountEols(t, char.c), char), char)
TokTreatEnd(t) == tok_putItem(tok_treatSimpleToken(t), TokFlush)

(***************************************************************************)
(* The step                                                                *)
(***************************************************************************)
tokReset ==
  [ignLevel |-> 0, params |-> <<>>, param |-> TokNoParam, state |-> "NotInMarkup",
   markup |-> <<>>, name |-> <<>>, tagType |-> "None", tagErr |-> FALSE, isFile |-> FALSE,
   type |-> "UNDEFINED", text |-> <<>>, nrEOL |-> 0, saveFile |-> <<>>, outBuf |-> <<>>]

TokBegin(text) ==
  /\ tokText = text
  /\ tokIn = [i \in DOMAIN tokText |-> [c |-> tokText[i], at |-> i]]
  /\ tok = tokReset /\ tokUtf = <<>> /\ tokOut = <<>> /\ tokTags = {}
TokInit == \E text \in TokTexts : TokBegin(text)

TokIdle == tok.outBuf = <<>> /\ tokIn # <<>>

\* One byte of a character, tok_putToUtf: one that does not fit loses them all.
TokByte ==
  LET b == Head(tokIn)
  IN  /\ TokIdle
      /\ b.c = TokLead \/ (b.c # TokEnd /\ tokUtf # <<>>) \/ b.c = TokCont
      /\ tokIn' = Tail(tokIn)
      /\ CASE b.c = TokLead /\ tokUtf = <<>> -> tokUtf' = <<b>> /\ UNCHANGED tok
           [] b.c = TokCont /\ tokUtf # <<>> ->
                tokUtf' = <<>> /\ tok' = TokTreat(tok, [c |-> TokWide, at |-> b.at])
           [] OTHER -> tokUtf' = <<>> /\ UNCHANGED tok
      /\ UNCHANGED <<tokText, tokOut, tokTags>>

\* Where a tag that is complete and known came from.
TokTagOf(t) ==
  IF t.state = "GotEnd" /\ tok_markupTagId(t.name) # "none"
  THEN {t.markup[i].at : i \in DOMAIN t.markup} ELSE {}
TokChar ==
  LET b == Head(tokIn)
  IN  /\ TokIdle
      /\ b.c \notin {TokLead, TokCont, TokEnd} /\ tokUtf = <<>>
      /\ tokIn' = Tail(tokIn)
      /\ tok' = TokTreat(tok, b)
      /\ tokTags' = IF tok.state # "NotInMarkup" /\ ~tok'.tagErr
                    THEN tokTags \cup TokTagOf(tok_putToMarkup(tok, b)) ELSE tokTags
      /\ UNCHANGED <<tokText, tokUtf, tokOut>>

\* The end of the text, which does not touch the utf-8 buffer.
TokFlushed ==
  /\ TokIdle
  /\ Head(tokIn).c = TokEnd
  /\ tokIn' = Tail(tokIn)
  /\ tok' = TokTreatEnd(tok)
  /\ UNCHANGED <<tokText, tokUtf, tokOut, tokTags>>

TokPut ==
  /\ tok.outBuf # <<>>
  /\ tokOut' = tokOut \o tok.outBuf
  /\ tok' = [tok EXCEPT !.outBuf = <<>>]
  /\ UNCHANGED <<tokText, tokIn, tokUtf, tokTags>>

TokNext == TokByte \/ TokChar \/ TokFlushed \/ TokPut
TokSpec == TokInit /\ [][TokNext]_tokVars

-----------------------------------------------------------------------------
\* Where in the input the text comes from that the tokenizer has put out or holds.
TokItemsText(items) == FlattenSeq([i \in DOMAIN items |-> items[i].text])
TokHeld == TokItemsText(tokOut) \o TokItemsText(tok.outBuf) \o tok.text \o tok.markup
TokOrigins ==
  LET held == TokHeld
  IN  SelectSeq([i \in DOMAIN held |-> held[i].at], LAMBDA n : n > 0)

TokRead == DOMAIN tokText \ {tokIn[i].at : i \in DOMAIN tokIn}
\* Characters that make no text: bytes of one that is not whole, the byte that shows it,
\* and what has no type.
TokHalf(i) ==
  \E n \in {1, 3} :
    /\ i > n
    /\ \A k \in i - n .. i - 1 : tokText[k] = TokLead
    /\ i > n + 1 => tokText[i - n - 1] # TokLead
TokMute(i) == \/ tokText[i] \in {TokLead, TokEnd, "odd"}
              \/ (tokText[i] = TokCont) # TokHalf(i)

\* The character that makes a tag one too many for markupStr: as many as there is room for
\* stand before it, from a < on.
TokTooLongAt(n) ==
  \E m \in 1 .. n - 1 :
    /\ tokText[m] = "<"
    /\ TokEnd \notin {tokText[i] : i \in m .. n - 1}
    /\ TokMarkupSize - 1 = Cardinality({i \in m .. n - 1 : tokText[i] = "odd" \/ ~TokMute(i)})

\* No character comes out of order or twice, whatever looked like a tag and was none
\* (tok_treatMarkupAsSimpleToken), except that the one that shows that a tag is too long
\* is in the text of the tag and is treated again after it (picotok.c:1347-1355): this one
\* comes twice, and no more.  And unless it is to be ignored, none is lost but those of
\* the tags; the texts of the runs are such that outBuf has room for what is put at once.
TokTextKept ==
  LET from == TokOrigins
  IN  /\ \A i \in 1 .. Len(from) - 1 :
           \/ from[i] < from[i + 1]
           \/ from[i] = from[i + 1] /\ TokTooLongAt(from[i])
      /\ \A i \in 1 .. Len(from) - 2 : from[i] < from[i + 2]
      /\ \/ \E i \in DOMAIN tokText : tokText[i] \in {"ignore", "play"}
         \/ \A i \in TokRead \ tokTags : TokMute(i) \/ \E k \in DOMAIN from : from[k] = i

\* An empty tag whose attributes are understood leaves it as it was whether text is
\* ignored, and whether it is recorded (genfile): its two halves undo each other.
TokEmptyTagNeutral ==
  [][(tokTags' # tokTags /\ tok'.tagType = "Empty") =>
       (tok'.ignLevel = tok.ignLevel /\ tok'.saveFile = (IF tok'.name = <<"genfile">> THEN <<>>
                                                         ELSE tok.saveFile))]_tokVars
=============================================================================
