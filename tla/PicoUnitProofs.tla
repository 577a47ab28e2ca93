---------------------------- MODULE PicoUnitProofs ----------------------------
(***************************************************************************)
(* Theorems about processing units: the tokenizer, the window of the       *)
(* cepstrum, phrasing and accentuation, sentence phonology.                *)
(***************************************************************************)
EXTENDS PicoTok, PicoCep, PicoAcph, PicoSpho, PicoInduction, TLAPS

-----------------------------------------------------------------------------
(* The tokenizer. *)

TokOpen ==
  {"NotInMarkup", "GotStart", "InTagName", "ExpectingTagName", "GotTagName", "GotAttrValue",
   "InAttrName", "GotAttrName", "GotEqual", "InAttrValue", "InAttrValueEscaped", "GotEndSlash"}
TokStates == (TokOpen \ {"NotInMarkup"}) \cup {"Error", "ErrorTooLong", "GotEnd"}
TokFields == DOMAIN tokReset

\* The state of the tokenizer, as far as tags are about it.
TokShaped(t) ==
  /\ DOMAIN t = TokFields /\ t = [f \in TokFields |-> t[f]]
  /\ t.ignLevel \in Nat /\ Listed(t.name) /\ Listed(t.markup)
\* Text and items do not change what a tag is about.
TokKept(t, u) ==
  /\ TokShaped(u)
  /\ \A f \in {"ignLevel", "saveFile", "name", "params", "tagType", "tagErr", "markup"} : u[f] = t[f]
TokKeptState(t, u) == TokKept(t, u) /\ u.state = t.state

LEMMA TokFieldsAre ==
  TokFields = {"ignLevel", "params", "param", "state", "markup", "name", "tagType", "tagErr",
               "isFile", "type", "text", "nrEOL", "saveFile", "outBuf"}
BY DEF TokFields, tokReset

LEMMA TokKeptSelf == ASSUME NEW t, TokShaped(t) PROVE TokKeptState(t, t)
BY DEF TokKeptState, TokKept

LEMMA TokKeptTrans ==
  ASSUME NEW t, NEW u, NEW v, TokKeptState(t, u), TokKeptState(u, v)
  PROVE  TokKeptState(t, v)
BY DEF TokKeptState, TokKept

LEMMA PutItemKeeps ==
  ASSUME NEW t, TokShaped(t), NEW item
  PROVE  TokKeptState(t, tok_putItem(t, item)) /\ TokKeptState(t, tok_putItem2(t, item))
<1>1. \A v : TokKeptState(t, [t EXCEPT !.outBuf = v])
  BY TokFieldsAre DEF TokKeptState, TokKept, TokShaped
<1>2. TokKeptState(t, t) BY TokKeptSelf
<1> HIDE DEF TokKeptState
<1> QED BY <1>1, <1>2 DEF tok_putItem, tok_putItem2

LEMMA PutSomeKeep ==
  ASSUME NEW t, TokShaped(t), NEW a, NEW b, NEW c
  PROVE  TokKeptState(t, TokPutTwo(t, a, b)) /\ TokKeptState(t, TokPutThree(t, a, b, c))
<1> DEFINE u == tok_putItem(t, a)
           v == tok_putItem(u, b)
           w == tok_putItem(v, c)
<1>1. TokKeptState(t, u) BY PutItemKeeps
<1>2. TokShaped(u) BY <1>1 DEF TokKeptState, TokKept
<1> HIDE DEF u
<1>3. TokKeptState(u, v) BY <1>2, PutItemKeeps
<1>4. TokShaped(v) BY <1>3 DEF TokKeptState, TokKept
<1> HIDE DEF v
<1>5. TokKeptState(v, w) BY <1>4, PutItemKeeps
<1> HIDE DEF w
<1>6. TokKeptState(t, v) /\ TokKeptState(t, w) BY <1>1, <1>3, <1>5, TokKeptTrans
<1> QED BY <1>6 DEF TokPutTwo, TokPutThree, u, v, w

\* Changes of the text do the same.
LEMMA TextKeeps ==
  ASSUME NEW t, TokShaped(t), NEW x, NEW y, NEW n
  PROVE  /\ TokKeptState(t, [t EXCEPT !.text = x, !.type = y])
         /\ TokKeptState(t, [t EXCEPT !.nrEOL = n])
BY TokFieldsAre DEF TokKeptState, TokKept, TokShaped

LEMMA PutTokenKeeps ==
  ASSUME NEW t, TokShaped(t)
  PROVE  TokKeptState(t, TokPutToken(t))
<1> DEFINE put == t.text # <<>> /\ (t.ignLevel <= 0 \/ t.type = "SPACE")
           u == IF put THEN tok_putItem(t, TokToken(t.type, t.text)) ELSE t
<1>1. TokKeptState(t, u)
  <2>1. TokKeptState(t, tok_putItem(t, TokToken(t.type, t.text))) BY PutItemKeeps
  <2>2. TokKeptState(t, t) BY TokKeptSelf
  <2> HIDE DEF put
  <2> QED BY <2>1, <2>2
<1>2. TokPutToken(t) = [u EXCEPT !.text = <<>>, !.type = "UNDEFINED"] BY DEF TokPutToken
<1> HIDE DEF u
<1>3. TokShaped(u) BY <1>1 DEF TokKeptState, TokKept
<1>4. TokKeptState(u, TokPutToken(t))
  <2>1. TokKeptState(u, [u EXCEPT !.text = <<>>, !.type = "UNDEFINED"]) BY <1>3, TextKeeps
  <2> QED BY <1>2, <2>1
<1> QED BY <1>1, <1>4, TokKeptTrans

LEMMA SimpleTokenKeeps ==
  ASSUME NEW t, TokShaped(t), NEW char, NEW type
  PROVE  TokKeptState(t, tok_putToSimpleToken(t, char, type))
<1> DEFINE u == IF Len(t.text) >= TokBufSize THEN TokPutToken(t) ELSE t
<1>1. TokKeptState(t, u) BY PutTokenKeeps, TokKeptSelf
<1>2. tok_putToSimpleToken(t, char, type) = [u EXCEPT !.text = Append(u.text, char), !.type = type]
  <2>1. TokShaped(u) BY <1>1 DEF TokKeptState, TokKept
  <2> QED BY DEF tok_putToSimpleToken
<1> HIDE DEF u
<1>3. TokShaped(u) BY <1>1 DEF TokKeptState, TokKept
<1>4. TokKeptState(u, tok_putToSimpleToken(t, char, type))
  <2>1. TokKeptState(u, [u EXCEPT !.text = Append(u.text, char), !.type = type])
    BY <1>3, TextKeeps
  <2> QED BY <1>2, <2>1
<1> QED BY <1>1, <1>4, TokKeptTrans

LEMMA PlainKeeps ==
  ASSUME NEW t, TokShaped(t), NEW char
  PROVE  TokKeptState(t, TokPlain(t, char))
<1> DEFINE e == TokCountEols(t, char.c)
           type == TokType(char.c)
           a == TokPutToken(e)
           b == tok_putToSimpleToken(a, [c |-> ".", at |-> 0], "CHAR")
           d == TokPutToken(b)
           before == IF type # e.type \/ type = "CHAR" THEN a
                     ELSE IF char.c = TokEol /\ e.nrEOL = 2 THEN d ELSE e
           z == tok_putToSimpleToken(before, char, type)
<1>1. TokKeptState(t, e) BY TextKeeps DEF TokCountEols
<1>2. TokPlain(t, char) = IF type = "UNDEFINED" THEN a ELSE z
  BY DEF TokPlain, TokPlainOf
<1> HIDE DEF e, type
<1>3. TokShaped(e) BY <1>1 DEF TokKeptState, TokKept
<1>4. TokKeptState(e, a) BY <1>3, PutTokenKeeps
<1> HIDE DEF a
<1>5. TokShaped(a) BY <1>4 DEF TokKeptState, TokKept
<1>6. TokKeptState(a, b) BY <1>5, SimpleTokenKeeps
<1> HIDE DEF b
<1>7. TokShaped(b) BY <1>6 DEF TokKeptState, TokKept
<1>8. TokKeptState(b, d) BY <1>7, PutTokenKeeps
<1> HIDE DEF d
<1>9. TokKeptState(t, a) /\ TokKeptState(t, d) BY <1>1, <1>4, <1>6, <1>8, TokKeptTrans
<1>10. TokKeptState(t, before) BY <1>1, <1>9
<1> HIDE DEF before
<1>11. TokShaped(before) BY <1>10 DEF TokKeptState, TokKept
<1>12. TokKeptState(before, z) BY <1>11, SimpleTokenKeeps
<1> HIDE DEF z
<1>13. TokKeptState(t, z) BY <1>10, <1>12, TokKeptTrans
<1> QED BY <1>2, <1>9, <1>13

\* What the fold of tok_treatMarkupAsSimpleToken does with each set of places of m.
TokFold(g, base, m) ==
  g = [s \in SUBSET DOMAIN m |->
         IF s = {} THEN base ELSE TokPlain(g[s \ {Max(s)}], m[Max(s)])]

LEMMA TokFoldExists ==
  ASSUME NEW m, Listed(m), NEW base
  PROVE  \E g : TokFold(g, base, m)
<1> DEFINE D == DOMAIN m
           Upto(g, k) == \A s \in SUBSET D : Cardinality(s) <= k =>
                           g[s] = IF s = {} THEN base ELSE TokPlain(g[s \ {Max(s)}], m[Max(s)])
           Fails == {k \in Nat : ~\E g : g = [s \in SUBSET D |-> g[s]] /\ Upto(g, k)}
<1>1. Len(m) \in Nat /\ D = 1 .. Len(m) BY ListedLen
<1>2. IsFiniteSet(D) BY <1>1, FS_Interval
<1>3. \A s \in SUBSET D : IsFiniteSet(s) /\ Cardinality(s) \in Nat BY <1>2, FS_Subset, FS_CardinalityType
<1>4. \A s \in SUBSET D : s # {} => Max(s) \in s BY <1>1, MaxOf
<1>5. Fails = {}
  <2> SUFFICES ASSUME Fails # {} PROVE FALSE OBVIOUS
  <2>1. PICK k \in Fails : \A y \in Fails : k <= y
    <3>1. Fails \subseteq Nat OBVIOUS
    <3> HIDE DEF Fails
    <3> QED BY <3>1, LeastNumber
  <2>2. k # 0
    <3> DEFINE g == [s \in SUBSET D |-> base]
    <3>1. \A s \in SUBSET D : Cardinality(s) <= 0 => s = {} BY <1>3, FS_EmptySet
    <3>2. Upto(g, 0) BY <3>1
    <3>3. g = [s \in SUBSET D |-> g[s]] OBVIOUS
    <3> HIDE DEF Upto, g
    <3> QED BY <3>2, <3>3
  <2>3. k - 1 \in Nat /\ k - 1 \notin Fails
    <3>1. k \in Nat OBVIOUS
    <3> HIDE DEF Fails
    <3>2. k - 1 \in Nat /\ ~(k <= k - 1) BY <2>2, <3>1
    <3> QED BY <2>1, <3>2
  <2>4. PICK g : g = [s \in SUBSET D |-> g[s]] /\ Upto(g, k - 1)
    <3> HIDE DEF Upto
    <3> QED BY <2>3
  <2> DEFINE h == [s \in SUBSET D |->
                     IF Cardinality(s) = k THEN TokPlain(g[s \ {Max(s)}], m[Max(s)]) ELSE g[s]]
  <2>5. ASSUME NEW s \in SUBSET D, Cardinality(s) <= k
        PROVE  h[s] = IF s = {} THEN base ELSE TokPlain(h[s \ {Max(s)}], m[Max(s)])
    <3>1. CASE s = {}
      <4>1. Cardinality(s) = 0 /\ 0 <= k - 1 BY <3>1, <2>3, FS_EmptySet
      <4>2. h[s] = g[s]
        <5>1. Cardinality(s) # k BY <4>1, <2>3
        <5> QED BY <5>1
      <4>3. g[s] = base BY <3>1, <4>1, <2>4
      <4> HIDE DEF h
      <4> QED BY <3>1, <4>2, <4>3
    <3>2. CASE s # {}
      <4> DEFINE x == Max(s)
                 r == s \ {Max(s)}
      <4>1. r \in SUBSET D /\ Cardinality(r) = Cardinality(s) - 1
        <5>1. x \in s BY <1>4, <3>2
        <5> HIDE DEF x
        <5>2. Cardinality(s \ {x}) = Cardinality(s) - 1 BY <1>3, <5>1, Smaller
        <5> QED BY <5>2 DEF x
      <4>2. h[r] = g[r] BY <4>1, <1>3, <2>3, <2>5
      <4> HIDE DEF r
      <4>3. h[s] = TokPlain(g[r], m[x])
        <5>1. CASE Cardinality(s) = k BY <5>1 DEF r
        <5>2. CASE Cardinality(s) # k
          <6>1. Cardinality(s) <= k - 1 BY <5>2, <1>3, <2>3, <2>5
          <6>2. g[s] = TokPlain(g[r], m[x]) BY <6>1, <2>4, <3>2 DEF r
          <6> QED BY <5>2, <6>2
        <5> QED BY <5>1, <5>2
      <4> QED BY <3>2, <4>2, <4>3 DEF r
    <3> QED BY <3>1, <3>2
  <2>6. h = [s \in SUBSET D |-> h[s]] OBVIOUS
  <2>7. Upto(h, k) BY <2>5
  <2> HIDE DEF h, Upto
  <2> QED BY <2>1, <2>6, <2>7
<1>6. Cardinality(D) \in Nat /\ \A s \in SUBSET D : Cardinality(s) <= Cardinality(D)
  BY <1>2, FS_Subset, FS_CardinalityType
<1>7. PICK g : g = [s \in SUBSET D |-> g[s]] /\ Upto(g, Cardinality(D))
  <2> HIDE DEF Upto
  <2> QED BY <1>5, <1>6
<1>8. g = [s \in SUBSET D |-> IF s = {} THEN base ELSE TokPlain(g[s \ {Max(s)}], m[Max(s)])]
  BY <1>6, <1>7
<1> QED BY <1>8 DEF TokFold

\* The fold exists, and so it is what FoldLeft chooses.
LEMMA FoldIs ==
  ASSUME NEW m, Listed(m), NEW base
  PROVE  \E g : TokFold(g, base, m) /\ FoldLeft(TokPlain, base, m) = g[DOMAIN m]
<1> DEFINE c == CHOOSE g : TokFold(g, base, m)
<1>1. TokFold(c, base, m)
  <2>1. \E g : TokFold(g, base, m) BY TokFoldExists
  <2> QED BY <2>1
<1>2. FoldLeft(TokPlain, base, m) = c[DOMAIN m]
  BY Zenon DEF FoldLeft, MapThenFoldSet, TokFold
<1> HIDE DEF c
<1> QED BY <1>1, <1>2

LEMMA FoldKeeps ==
  ASSUME NEW m, Listed(m), NEW base, TokShaped(base)
  PROVE  TokKeptState(base, FoldLeft(TokPlain, base, m))
<1>1. PICK g : TokFold(g, base, m) /\ FoldLeft(TokPlain, base, m) = g[DOMAIN m] BY FoldIs
<1> DEFINE D == DOMAIN m
           T == {s \in SUBSET D : ~TokKeptState(base, g[s])}
<1>2. Len(m) \in Nat /\ D = 1 .. Len(m) BY ListedLen
<1>3. \A s \in SUBSET D : IsFiniteSet(s)
  <2>1. IsFiniteSet(D) BY <1>2, FS_Interval
  <2> HIDE DEF D
  <2> QED BY <2>1, FS_Subset
<1>4. T = {}
  <2> SUFFICES ASSUME T # {} PROVE FALSE OBVIOUS
  <2>1. PICK s \in T : \A y \in T : Cardinality(s) <= Cardinality(y)
    <3>1. \A s \in T : IsFiniteSet(s) BY <1>3
    <3> HIDE DEF T
    <3> QED BY <3>1, SmallestSet
  <2>2. s \in SUBSET D /\ ~TokKeptState(base, g[s]) OBVIOUS
  <2>3. g[s] = IF s = {} THEN base ELSE TokPlain(g[s \ {Max(s)}], m[Max(s)])
    BY <1>1, <2>2 DEF TokFold
  <2>4. s # {} BY <2>2, <2>3, TokKeptSelf
  <2>5. PICK x : x = Max(s) OBVIOUS
  <2>6. x \in s BY <1>2, <2>2, <2>4, <2>5, MaxOf
  <2>7. Cardinality(s \ {x}) = Cardinality(s) - 1 /\ Cardinality(s) \in Nat BY <1>3, <2>2, <2>6, Smaller
  <2>8. s \ {x} \notin T BY <2>1, <2>7
  <2>9. TokKeptState(base, g[s \ {x}]) BY <2>2, <2>8
  <2>10. TokShaped(g[s \ {x}]) BY <2>9 DEF TokKeptState, TokKept
  <2>11. TokKeptState(g[s \ {x}], TokPlain(g[s \ {x}], m[x])) BY <2>10, PlainKeeps
  <2> QED BY <2>2, <2>3, <2>4, <2>5, <2>9, <2>11, TokKeptTrans
<1> QED BY <1>1, <1>4

\* What was markup becomes text; the rest of what a tag is about stays.
LEMMA SimpleKeeps ==
  ASSUME NEW t, TokShaped(t)
  PROVE  /\ TokShaped(tok_treatMarkupAsSimpleToken(t))
         /\ tok_treatMarkupAsSimpleToken(t).state = "NotInMarkup"
         /\ \A f \in {"ignLevel", "saveFile", "name", "tagType", "tagErr"} :
              tok_treatMarkupAsSimpleToken(t)[f] = t[f]
<1> DEFINE b == [t EXCEPT !.state = "NotInMarkup"]
           u == FoldLeft(TokPlain, b, t.markup)
<1>1. TokShaped(b) /\ Listed(t.markup) BY TokFieldsAre DEF TokShaped
<1>2. /\ b.state = "NotInMarkup"
      /\ \A f \in {"ignLevel", "saveFile", "name", "tagType", "tagErr"} : b[f] = t[f]
  BY TokFieldsAre DEF TokShaped
<1> HIDE DEF b
<1>3. TokKeptState(b, u) BY <1>1, FoldKeeps
<1>4. tok_treatMarkupAsSimpleToken(t) = [u EXCEPT !.markup = <<>>]
  BY DEF tok_treatMarkupAsSimpleToken, b
<1> HIDE DEF u
<1>5. TokShaped(u) /\ u.state = b.state
      /\ \A f \in {"ignLevel", "saveFile", "name", "tagType", "tagErr"} : u[f] = b[f]
  BY <1>3 DEF TokKeptState, TokKept
<1>6. TokShaped([u EXCEPT !.markup = <<>>]) BY <1>5, TokFieldsAre, ListedEmpty DEF TokShaped
<1>7. /\ [u EXCEPT !.markup = <<>>].state = u.state
      /\ \A f \in {"ignLevel", "saveFile", "name", "tagType", "tagErr"} :
           [u EXCEPT !.markup = <<>>][f] = u[f]
  BY <1>5, TokFieldsAre DEF TokShaped
<1> QED BY <1>2, <1>4, <1>5, <1>6, <1>7

\* The characters of a tag do not change what it finds, and it is complete at a >.
TokTagKept(t, u) ==
  /\ TokShaped(u) /\ u.ignLevel = t.ignLevel /\ u.saveFile = t.saveFile /\ u.state \in TokStates

LEMMA LowerListed == ASSUME NEW s, Listed(s) PROVE Listed(TokLower(s))
<1>1. PICK n \in Nat : s = [i \in 1 .. n |-> s[i]] BY DEF Listed
<1>2. DOMAIN s = 1 .. n BY <1>1
<1>3. TokLower(s) = [i \in 1 .. n |-> TokLower(s)[i]] BY <1>2 DEF TokLower
<1> QED BY <1>3 DEF Listed

\* Any change of the fields that belong to the tag is such a step.
LEMMA TagFields ==
  ASSUME NEW t, TokShaped(t), NEW s, NEW a, NEW b, NEW c, NEW d, NEW e
  PROVE  /\ s \in TokStates => TokTagKept(t, [t EXCEPT !.state = s])
         /\ s \in TokStates => TokTagKept(t, [t EXCEPT !.state = s, !.tagErr = a])
         /\ s \in TokStates => TokTagKept(t, [t EXCEPT !.state = s, !.tagType = a])
         /\ s \in TokStates => TokTagKept(t, [t EXCEPT !.state = s, !.param = a])
         /\ s \in TokStates => TokTagKept(t, [t EXCEPT !.state = s, !.param = a, !.isFile = b])
         /\ s \in TokStates => TokTagKept(t, [t EXCEPT !.state = s, !.param = a, !.params = b])
         /\ s \in TokStates /\ Listed(a) => TokTagKept(t, [t EXCEPT !.state = s, !.name = a])
         /\ s \in TokStates /\ Listed(c) =>
              TokTagKept(t, [t EXCEPT !.params = a, !.param = b, !.name = c, !.tagType = d, !.state = s])
BY TokFieldsAre DEF TokTagKept, TokShaped

LEMMA InTagKeeps ==
  ASSUME NEW t, TokShaped(t), t.state \in TokOpen, NEW c
  PROVE  TokTagKept(t, TokInTag(t, c))
<1> DEFINE S == {"GotStart", "InTagName", "ExpectingTagName", "GotTagName",
                 "GotAttrName", "GotAttrValue", "InAttrName", "GotEqual", "InAttrValue",
                 "InAttrValueEscaped", "GotEndSlash", "GotEnd", "Error", "ErrorTooLong"}
<1>s. S = TokStates BY DEF TokStates, TokOpen
<1>n. Listed(t.name) BY DEF TokShaped
<1>1. \A s \in TokStates : TokTagKept(t, TokTo(t, s)) BY TagFields DEF TokTo
<1>2. TokTagKept(t, TokError(t)) BY <1>s, TagFields DEF TokError
<1>3. TokTagKept(t, TokAddName(t, c))
  <2>1. TokAddName(t, c) = [t EXCEPT !.state = "InTagName", !.name = Append(t.name, c)]
    BY TokFieldsAre DEF TokAddName, TokTo, TokShaped
  <2>2. PICK x : x = Append(t.name, c) /\ Listed(x) BY <1>n, ListedAppend
  <2>3. "InTagName" \in TokStates BY <1>s
  <2>4. TokTagKept(t, [t EXCEPT !.state = "InTagName", !.name = x]) BY <2>2, <2>3, TagFields
  <2> QED BY <2>1, <2>2, <2>4
<1>4. ASSUME NEW s \in TokStates
      PROVE  TokTagKept(t, TokAddId(TokTo(t, s), c)) /\ TokTagKept(t, TokAddVal(TokTo(t, s), c))
  <2> DEFINE u == [t EXCEPT !.state = s]
  <2>1. TokRoom(u) \in BOOLEAN BY DEF TokRoom
  <2>2. PICK x : [u EXCEPT !.param.id = Append(@, c)] = [t EXCEPT !.state = s, !.param = x]
    BY TokFieldsAre DEF TokShaped
  <2>3. PICK y : [u EXCEPT !.param.val = Append(@, c)] = [t EXCEPT !.state = s, !.param = y]
    BY TokFieldsAre DEF TokShaped
  <2>4. TokTagKept(t, [u EXCEPT !.param.id = Append(@, c)]) BY <2>2, TagFields
  <2>5. TokTagKept(t, [u EXCEPT !.param.val = Append(@, c)]) BY <2>3, TagFields
  <2>6. TokTagKept(t, u) BY TagFields
  <2> HIDE DEF TokTagKept
  <2> QED BY <2>4, <2>5, <2>6 DEF TokAddId, TokAddVal, TokTo
<1>5. t.state \in TokStates => TokTagKept(t, TokAddId(t, c)) /\ TokTagKept(t, TokAddVal(t, c))
  <2>1. TokTo(t, t.state) = t BY TokFieldsAre DEF TokTo, TokShaped
  <2> QED BY <1>4, <1>s, <2>1
<1>6. \A s \in TokStates : TokTagKept(t, TokTo(TokNameEnd(t), s))
  <2> SUFFICES ASSUME NEW s \in TokStates PROVE TokTagKept(t, TokTo(TokNameEnd(t), s)) OBVIOUS
  <2> DEFINE id == TokLower(t.param.id)
             y == (id = <<TokFileKw>>)
             x == [t.param EXCEPT !.id = id]
             v == [t EXCEPT !.param = x, !.isFile = y]
  <2>1. TokNameEnd(t) = v BY Zenon DEF TokNameEnd
  <2> HIDE DEF id, y, x
  <2>2. TokTo(v, s) = [t EXCEPT !.state = s, !.param = x, !.isFile = y]
    BY TokFieldsAre DEF TokTo, TokShaped
  <2>3. TokTagKept(t, [t EXCEPT !.state = s, !.param = x, !.isFile = y]) BY TagFields
  <2> QED BY <2>1, <2>2, <2>3
<1>7. TokTagKept(t, TokValueEnd(t))
  <2>1. PICK x : x = IF TokRoom(t) THEN Append(t.params, t.param) ELSE t.params OBVIOUS
  <2>2. TokValueEnd(t) = [t EXCEPT !.state = "GotAttrValue", !.param = TokNoParam, !.params = x]
    BY <2>1, TokFieldsAre DEF TokValueEnd, TokShaped
  <2>3. "GotAttrValue" \in TokStates BY ONLY <1>s
  <2>4. TokTagKept(t, [t EXCEPT !.state = "GotAttrValue", !.param = TokNoParam, !.params = x])
    BY <2>3, TagFields
  <2> QED BY <2>2, <2>4
<1>8. TokTagKept(t, [TokTo(t, "ExpectingTagName") EXCEPT !.tagType = "End"])
  <2>1. [TokTo(t, "ExpectingTagName") EXCEPT !.tagType = "End"]
          = [t EXCEPT !.state = "ExpectingTagName", !.tagType = "End"]
    BY TokFieldsAre DEF TokTo, TokShaped
  <2> QED BY <1>s, <2>1, TagFields
<1>9. TokTagKept(t, [TokTo(t, "GotTagName") EXCEPT !.name = TokLower(@)])
  <2>1. [TokTo(t, "GotTagName") EXCEPT !.name = TokLower(@)]
          = [t EXCEPT !.state = "GotTagName", !.name = TokLower(t.name)]
    BY TokFieldsAre DEF TokTo, TokShaped
  <2>2. PICK x : x = TokLower(t.name) /\ Listed(x) BY <1>n, LowerListed
  <2>3. "GotTagName" \in TokStates BY ONLY <1>s
  <2>4. TokTagKept(t, [t EXCEPT !.state = "GotTagName", !.name = x]) BY <2>2, <2>3, TagFields
  <2> QED BY <2>1, <2>2, <2>4
<1>10. TokTagKept(t, [t EXCEPT !.params = <<>>, !.param = TokNoParam, !.name = <<>>,
                               !.tagType = "Start", !.state = "GotStart"])
  BY <1>s, ListedEmpty, TagFields
<1> HIDE DEF TokTagKept
<1>11. CASE t.state = "NotInMarkup" BY <1>11, <1>10 DEF TokInTag
<1>12. CASE t.state = "GotStart" BY <1>12, <1>s, <1>1, <1>2, <1>3, <1>8 DEF TokInTag
<1>13. CASE t.state \in {"InTagName", "ExpectingTagName"}
  BY <1>13, <1>2, <1>3, <1>9 DEF TokInTag
<1>14. CASE t.state \in {"GotTagName", "GotAttrValue"} BY <1>14, <1>s, <1>2, <1>4 DEF TokInTag
<1>15. CASE t.state = "InAttrName" BY <1>15, <1>s, <1>2, <1>5, <1>6 DEF TokInTag
<1>16. CASE t.state = "GotAttrName" BY <1>16, <1>s, <1>1, <1>2 DEF TokInTag
<1>17. CASE t.state = "GotEqual" BY <1>17, <1>s, <1>1, <1>2 DEF TokInTag
<1>18. CASE t.state = "InAttrValue" BY <1>18, <1>s, <1>1, <1>5, <1>7 DEF TokInTag
<1>19. CASE t.state = "InAttrValueEscaped" BY <1>19, <1>s, <1>4 DEF TokInTag
<1>20. CASE t.state = "GotEndSlash" BY <1>20, <1>s, <1>1, <1>2 DEF TokInTag
<1> QED BY <1>11, <1>12, <1>13, <1>14, <1>15, <1>16, <1>17, <1>18, <1>19, <1>20 DEF TokOpen

LEMMA MarkupKeeps ==
  ASSUME NEW t, TokShaped(t), t.state \in TokOpen, NEW char
  PROVE  /\ TokTagKept(t, tok_putToMarkup(t, char))
         /\ tok_putToMarkup(t, char).state = "GotEnd" =>
              /\ tok_putToMarkup(t, char).name = t.name
              /\ char.c = ">" /\ t.state \in TokMayEnd \cup {"GotEndSlash"}
              /\ ~(Len(t.markup) >= TokMarkupSize - 1)
<1> DEFINE z == [t EXCEPT !.tagErr = FALSE]
           c == char.c
           u == TokInMarkup(z, c)
           v == TokKeep(u, char)
           x == [z EXCEPT !.state = "GotEndSlash", !.tagType = "Empty"]
<1>s. /\ {"ErrorTooLong", "GotEnd", "GotEndSlash", "Error"} \subseteq TokStates
      /\ TokMayBlank \subseteq TokStates
      /\ "GotEnd" \notin TokOpen
  BY DEF TokStates, TokOpen, TokMayBlank
<1>1. /\ TokShaped(z) /\ z.state = t.state /\ z.ignLevel = t.ignLevel /\ z.saveFile = t.saveFile
      /\ z.name = t.name /\ z.markup = t.markup
  BY TokFieldsAre DEF TokShaped
<1>2. tok_putToMarkup(t, char) = v BY DEF tok_putToMarkup
<1> HIDE DEF z
<1>3. z.state \in TokStates => TokTagKept(z, z) BY <1>1 DEF TokTagKept
<1>4. \A s \in TokStates : TokTagKept(z, TokTo(z, s)) BY <1>1, TagFields DEF TokTo
<1>5. TokTagKept(z, TokError(z)) BY <1>1, <1>s, TagFields DEF TokError
<1>6. TokTagKept(z, x) BY <1>1, <1>s, TagFields
<1>7. [TokTo(z, "GotEndSlash") EXCEPT !.tagType = "Empty"] = x
  BY <1>1, TokFieldsAre DEF TokTo, TokShaped
<1>8. TokTagKept(z, TokInTag(z, c)) BY <1>1, InTagKeeps
<1>9. TokTagKept(z, u)
  <2> HIDE DEF x, TokTagKept, c
  <2> QED BY <1>s, <1>3, <1>4, <1>5, <1>6, <1>7, <1>8 DEF TokInMarkup
<1>10. \A s : TokTo(z, s).state = s /\ TokTo(z, s).name = z.name
  BY <1>1, TokFieldsAre DEF TokTo, TokShaped
<1>11. TokError(z).state = "Error" /\ x.state = "GotEndSlash"
  BY <1>1, TokFieldsAre DEF TokError, TokShaped
<1> HIDE DEF x
<1>12. TokInTag(z, c).state = "GotEnd" => /\ TokInTag(z, c).name = z.name
                                          /\ c = ">" /\ z.state = "GotEndSlash"
  <2> HIDE DEF c
  <2> SUFFICES ASSUME TokInTag(z, c).state = "GotEnd"
               PROVE  TokInTag(z, c).name = z.name /\ c = ">" /\ z.state = "GotEndSlash"
    OBVIOUS
  <2>f. \A w : TokShaped(w) => \A s : TokTo(w, s).state = s
    BY TokFieldsAre DEF TokTo, TokShaped
  <2>e. \A w, y : /\ TokShaped(w) => [w EXCEPT !.name = y].state = w.state
                  /\ TokShaped(w) => [w EXCEPT !.tagType = y].state = w.state
                  /\ TokShaped(w) => [w EXCEPT !.param = y].state = w.state
    BY TokFieldsAre DEF TokShaped
  <2>t. \A s \in TokStates : TokShaped(TokTo(z, s)) BY <1>4 DEF TokTagKept
  <2>1. CASE z.state = "NotInMarkup"
    <3>1. TokInTag(z, c).state = "GotStart"
      BY <2>1, <1>1, TokFieldsAre DEF TokInTag, TokShaped
    <3> QED BY <3>1
  <2>a. TokAddName(z, c).state = "InTagName" BY <1>1, TokFieldsAre DEF TokAddName, TokTo, TokShaped
  <2>b. [TokTo(z, "ExpectingTagName") EXCEPT !.tagType = "End"].state = "ExpectingTagName"
    BY <1>1, TokFieldsAre DEF TokTo, TokShaped
  <2>c. [TokTo(z, "GotTagName") EXCEPT !.name = TokLower(@)].state = "GotTagName"
    BY <1>1, TokFieldsAre DEF TokTo, TokShaped
  <2>d. \A s : TokAddId(TokTo(z, s), c).state = s /\ TokAddVal(TokTo(z, s), c).state = s
    <3>1. \A s : \A y : [TokTo(z, s) EXCEPT !.param = y].state = s
      BY <1>1, TokFieldsAre DEF TokTo, TokShaped
    <3>2. ASSUME NEW s
          PROVE  TokAddId(TokTo(z, s), c).state = s /\ TokAddVal(TokTo(z, s), c).state = s
      <4>1. PICK w : w = TokTo(z, s) OBVIOUS
      <4>2. PICK p : p = [w.param EXCEPT !.id = Append(@, c)] OBVIOUS
      <4>3. PICK q : q = [w.param EXCEPT !.val = Append(@, c)] OBVIOUS
      <4>4. TokAddId(w, c) = IF TokRoom(w) THEN [w EXCEPT !.param = p] ELSE w
        BY <4>2, Zenon DEF TokAddId
      <4>5. TokAddVal(w, c) = IF TokRoom(w) THEN [w EXCEPT !.param = q] ELSE w
        BY <4>3, Zenon DEF TokAddVal
      <4>6. w.state = s BY <4>1, <1>10
      <4>7. [w EXCEPT !.param = p].state = s /\ [w EXCEPT !.param = q].state = s BY <4>1, <3>1
      <4> QED BY <4>1, <4>4, <4>5, <4>6, <4>7
    <3> QED BY <3>2
  <2>g. z.state = "InAttrName" => TokAddId(z, c).state = "InAttrName"
    <3>1. TokTo(z, z.state) = z BY <1>1, TokFieldsAre DEF TokTo, TokShaped
    <3> QED BY <2>d, <3>1
  <2>h. z.state = "InAttrValue" => TokAddVal(z, c).state = "InAttrValue"
    <3>1. TokTo(z, z.state) = z BY <1>1, TokFieldsAre DEF TokTo, TokShaped
    <3> QED BY <2>d, <3>1
  <2>i. TokValueEnd(z).state = "GotAttrValue"
    <3>1. PICK w : w = IF TokRoom(z) THEN [z EXCEPT !.params = Append(@, z.param)] ELSE z OBVIOUS
    <3>2. TokShaped(w) BY <3>1, <1>1, TokFieldsAre DEF TokShaped
    <3>3. TokValueEnd(z) = [w EXCEPT !.param = TokNoParam, !.state = "GotAttrValue"]
      BY <3>1 DEF TokValueEnd
    <3> QED BY <3>2, <3>3, TokFieldsAre DEF TokShaped
  <2>j. \A s : TokTo(TokNameEnd(z), s).state = s
    <3> DEFINE id == TokLower(z.param.id)
               k == (id = <<TokFileKw>>)
               y == [z.param EXCEPT !.id = id]
               w == [z EXCEPT !.param = y, !.isFile = k]
    <3>1. TokNameEnd(z) = w BY Zenon DEF TokNameEnd
    <3> HIDE DEF id, k, y
    <3>2. \A s : TokTo(w, s).state = s BY <1>1, TokFieldsAre DEF TokTo, TokShaped
    <3> QED BY <3>1, <3>2
  <2>2. CASE z.state = "GotStart"
    BY <2>2, <2>a, <2>b, <1>10, <1>11 DEF TokInTag
  <2>3. CASE z.state \in {"InTagName", "ExpectingTagName"}
    BY <2>3, <2>a, <2>c, <1>11 DEF TokInTag
  <2>4. CASE z.state \in {"GotTagName", "GotAttrValue"} BY <2>4, <2>d, <1>11 DEF TokInTag
  <2>5. CASE z.state = "InAttrName" BY <2>5, <2>g, <2>j, <1>11 DEF TokInTag
  <2>6. CASE z.state = "GotAttrName" BY <2>6, <1>10, <1>11 DEF TokInTag
  <2>7. CASE z.state = "GotEqual" BY <2>7, <1>10, <1>11 DEF TokInTag
  <2>8. CASE z.state = "InAttrValue" BY <2>8, <2>h, <2>i, <1>10 DEF TokInTag
  <2>9. CASE z.state = "InAttrValueEscaped" BY <2>9, <2>d DEF TokInTag
  <2>10. CASE z.state = "GotEndSlash" BY <2>10, <1>10, <1>11 DEF TokInTag
  <2> QED BY <1>1, <2>1, <2>2, <2>3, <2>4, <2>5, <2>6, <2>7, <2>8, <2>9, <2>10 DEF TokOpen
<1>13. u.state = "GotEnd" => /\ u.name = z.name /\ c = ">" /\ z.state \in TokMayEnd \cup {"GotEndSlash"}
                             /\ ~(Len(z.markup) >= TokMarkupSize - 1)
  <2> HIDE DEF c
  <2> SUFFICES ASSUME u.state = "GotEnd"
               PROVE  /\ u.name = z.name /\ c = ">" /\ z.state \in TokMayEnd \cup {"GotEndSlash"}
                      /\ ~(Len(z.markup) >= TokMarkupSize - 1)
    OBVIOUS
  <2>1. ~(Len(z.markup) >= TokMarkupSize - 1)
    <3> SUFFICES ASSUME Len(z.markup) >= TokMarkupSize - 1 PROVE FALSE OBVIOUS
    <3>1. u = TokTo(z, "ErrorTooLong") BY DEF TokInMarkup
    <3> HIDE DEF u
    <3> QED BY <3>1, <1>10
  <2>2. ~(c = " " /\ z.state \in TokMayBlank) BY <2>1, <1>1, <1>s DEF TokInMarkup
  <2>3. ~(c = "/" /\ z.state \in TokMayEnd) BY <2>1, <2>2, <1>7, <1>11 DEF TokInMarkup
  <2>4. CASE c = ">" /\ z.state \in TokMayEnd BY <2>4, <2>1, <2>2, <1>10 DEF TokInMarkup
  <2>5. CASE ~(c = ">" /\ z.state \in TokMayEnd)
    <3>1. u = TokInTag(z, c) BY <2>1, <2>2, <2>3, <2>5 DEF TokInMarkup
    <3> HIDE DEF u
    <3> QED BY <2>1, <3>1, <1>12
  <2> QED BY <2>4, <2>5
<1> HIDE DEF u
<1>14. Listed(u.markup) /\ TokShaped(u) BY <1>9 DEF TokTagKept, TokShaped
<1>15. Listed(Append(u.markup, char)) BY <1>14, ListedAppend
<1>16. [u EXCEPT !.markup = Append(@, char)] = [u EXCEPT !.markup = Append(u.markup, char)] OBVIOUS
<1>17. TokTagKept(u, [u EXCEPT !.markup = Append(@, char)])
  BY <1>9, <1>14, <1>15, <1>16, TokFieldsAre DEF TokTagKept, TokShaped
<1>18. LET w == [u EXCEPT !.markup = Append(@, char)] IN w.state = u.state /\ w.name = u.name
  BY <1>14, TokFieldsAre DEF TokShaped
<1>19. TokTagKept(u, v) /\ v.state = u.state /\ v.name = u.name
  BY <1>9, <1>14, <1>17, <1>18 DEF TokKeep, TokTagKept
<1> HIDE DEF v
<1> QED BY <1>1, <1>2, <1>9, <1>13, <1>19 DEF TokTagKept

\* Where a tag is complete does not depend on the ends of lines counted before.
LEMMA MarkupEnds ==
  ASSUME NEW t, TokShaped(t), t.state \in TokOpen, NEW char, char.c = ">",
         t.state \in TokMayEnd \cup {"GotEndSlash"}, ~(Len(t.markup) >= TokMarkupSize - 1)
  PROVE  tok_putToMarkup(t, char).state = "GotEnd"
<1> DEFINE z == [t EXCEPT !.tagErr = FALSE]
<1>1. TokShaped(z) /\ z.state = t.state /\ z.markup = t.markup BY TokFieldsAre DEF TokShaped
<1> HIDE DEF z
<1>2. TokTo(z, "GotEnd").state = "GotEnd" /\ TokShaped(TokTo(z, "GotEnd"))
  BY <1>1, TokFieldsAre DEF TokTo, TokShaped
<1>3. TokInMarkup(z, char.c) = TokTo(z, "GotEnd")
  <2>1. CASE t.state \in TokMayEnd BY <2>1, <1>1 DEF TokInMarkup, TokMayEnd
  <2>2. CASE t.state = "GotEndSlash" BY <2>2, <1>1 DEF TokInMarkup, TokMayEnd, TokInTag
  <2> QED BY <2>1, <2>2
<1>4. TokKeep(TokTo(z, "GotEnd"), char).state = "GotEnd"
  BY <1>2, TokFieldsAre DEF TokKeep, TokShaped
<1> QED BY <1>3, <1>4 DEF tok_putToMarkup, z

\* The two halves of a tag.
TokHalfKept(t, u) ==
  /\ TokShaped(u)
  /\ \A f \in {"name", "params", "tagType", "tagErr", "markup", "state"} : u[f] = t[f]
TokLevelKept(t, u) == TokHalfKept(t, u) /\ u.ignLevel = t.ignLevel
TokAllKept(t, u) == TokLevelKept(t, u) /\ u.saveFile = t.saveFile

LEMMA HalfOf ==
  ASSUME NEW t, NEW u, TokKeptState(t, u)
  PROVE  TokAllKept(t, u)
BY DEF TokKeptState, TokKept, TokAllKept, TokLevelKept, TokHalfKept

LEMMA SaveKeeps ==
  ASSUME NEW t, TokShaped(t), NEW file
  PROVE  TokLevelKept(t, [t EXCEPT !.saveFile = file]) /\ [t EXCEPT !.saveFile = file].saveFile = file
BY TokFieldsAre DEF TokLevelKept, TokHalfKept, TokShaped

LEMMA LevelTrans ==
  ASSUME NEW t, NEW u, NEW v, TokLevelKept(t, u), TokLevelKept(u, v)
  PROVE  TokLevelKept(t, v)
BY DEF TokLevelKept, TokHalfKept

LEMMA GenFileKeeps ==
  ASSUME NEW t, TokShaped(t), NEW file
  PROVE  /\ TokLevelKept(t, TokStartGenFile(t, file))
         /\ TokLevelKept(t, TokEndGenFile(t)) /\ TokEndGenFile(t).saveFile = <<>>
<1> DEFINE Ended(cmd) == [tok_putItem(t, cmd) EXCEPT !.saveFile = <<>>]
           ended == IF t.saveFile = <<>> THEN t ELSE Ended(TokCmd("unsave", t.saveFile))
           put == tok_putItem(ended, TokCmd("save", file))
<1>1. ASSUME NEW cmd PROVE TokLevelKept(t, Ended(cmd)) /\ Ended(cmd).saveFile = <<>>
  <2>1. PICK u : u = tok_putItem(t, cmd) OBVIOUS
  <2>2. TokAllKept(t, u) BY <2>1, PutItemKeeps, HalfOf
  <2>3. TokShaped(u) /\ TokLevelKept(t, u) BY <2>2 DEF TokAllKept, TokLevelKept, TokHalfKept
  <2>4. TokLevelKept(u, [u EXCEPT !.saveFile = <<>>]) /\ [u EXCEPT !.saveFile = <<>>].saveFile = <<>>
    BY <2>3, SaveKeeps
  <2>5. TokLevelKept(t, [u EXCEPT !.saveFile = <<>>]) BY <2>3, <2>4, LevelTrans
  <2> QED BY <2>1, <2>4, <2>5
<1>2. TokLevelKept(t, t) BY TokKeptSelf, HalfOf DEF TokAllKept
<1>3. TokEndGenFile(t) = IF t.saveFile = <<>> THEN t ELSE Ended(TokCmd("unsave", <<>>))
  BY DEF TokEndGenFile
<1>4. TokStartGenFile(t, file) = [put EXCEPT !.saveFile = file] BY DEF TokStartGenFile
<1> HIDE DEF Ended
<1>5. TokLevelKept(t, ended) BY <1>1, <1>2
<1> HIDE DEF ended
<1>6. TokShaped(ended) BY <1>5 DEF TokLevelKept, TokHalfKept
<1>7. TokAllKept(ended, put) BY <1>6, PutItemKeeps, HalfOf
<1> HIDE DEF put
<1>8. TokShaped(put) /\ TokLevelKept(ended, put) BY <1>7 DEF TokAllKept, TokLevelKept, TokHalfKept
<1>9. TokLevelKept(put, [put EXCEPT !.saveFile = file]) BY <1>8, SaveKeeps
<1>10. TokLevelKept(t, [put EXCEPT !.saveFile = file]) BY <1>5, <1>8, <1>9, LevelTrans
<1> QED BY <1>1, <1>2, <1>3, <1>4, <1>10

LEMMA IgnoreKeeps ==
  ASSUME NEW t, TokShaped(t)
  PROVE  /\ TokHalfKept(t, tok_startIgnore(t)) /\ tok_startIgnore(t).saveFile = t.saveFile
         /\ tok_startIgnore(t).ignLevel = t.ignLevel + 1
         /\ TokHalfKept(t, tok_endIgnore(t)) /\ tok_endIgnore(t).saveFile = t.saveFile
         /\ tok_endIgnore(t).ignLevel = IF t.ignLevel > 0 THEN t.ignLevel - 1 ELSE t.ignLevel
BY TokFieldsAre DEF TokHalfKept, TokShaped, tok_startIgnore, tok_endIgnore

\* What the first half of a tag does, and what the second half does.
TokStartSpec(t, id, r) ==
  /\ r.done \in BOOLEAN /\ TokHalfKept(t, r.t)
  /\ id # "genfile" => r.t.saveFile = t.saveFile
  /\ id \notin {"ignore", "play"} => r.t.ignLevel = t.ignLevel
  /\ id \in {"ignore", "play"} /\ r.done =>
       r.t.ignLevel = t.ignLevel + 1 \/ (r.t.ignLevel = 0 /\ t.ignLevel = 0)
TokStopSpec(t, id, u) ==
  /\ TokHalfKept(t, u)
  /\ u.saveFile = IF id = "genfile" THEN <<>> ELSE t.saveFile
  /\ u.ignLevel = IF id \in {"ignore", "play"} /\ t.ignLevel > 0 THEN t.ignLevel - 1 ELSE t.ignLevel

LEMMA StartDone ==
  ASSUME NEW t, NEW id
  PROVE  /\ \A u : id \notin {"ignore", "play"} /\ TokAllKept(t, u) => TokStartSpec(t, id, TokDone(u))
         /\ TokAllKept(t, t) => TokStartSpec(t, id, TokUndone(t))
         /\ \A u : TokHalfKept(t, u) /\ u.saveFile = t.saveFile /\ u.ignLevel = t.ignLevel + 1
                     /\ id \in {"ignore", "play"} => TokStartSpec(t, id, TokDone(u))
         /\ t.ignLevel = 0 /\ TokAllKept(t, t) /\ id \in {"ignore", "play"} => TokStartSpec(t, id, TokDone(t))
         /\ \A u : id = "genfile" /\ TokLevelKept(t, u) => TokStartSpec(t, id, TokDone(u))
BY DEF TokStartSpec, TokAllKept, TokLevelKept, TokDone, TokUndone

LEMMA StartKeeps ==
  ASSUME NEW t, TokShaped(t), NEW id \in TokTagIds
  PROVE  TokStartSpec(t, id, TokStart(t, id))
<1> DEFINE val == TokParam(t, 1).val
           Only(word, result) == IF TokParamIs(t, 1, word) THEN TokDone(result) ELSE TokUndone(t)
<1>ids. id \in {"speed", "pitch", "volume", "speaker", "voice", "preproccontext", "mark", "ignore", "play",
                "usesig", "genfile", "p", "s", "break", "spell", "phoneme", "item"}
  BY DEF TokTagIds, TokLevels, TokNamed
<1>lev. TokLevels = {"speed", "pitch", "volume", "speaker"} BY DEF TokLevels
<1>1. TokAllKept(t, t) BY TokKeptSelf, HalfOf
<1>2. \A item : TokAllKept(t, tok_putItem(t, item)) /\ TokAllKept(t, tok_putItem2(t, item))
  BY PutItemKeeps, HalfOf
<1>3. \A a, b, c : TokAllKept(t, TokPutTwo(t, a, b)) /\ TokAllKept(t, TokPutThree(t, a, b, c))
  BY PutSomeKeep, HalfOf
<1>4. TokStartSpec(t, id, TokUndone(t)) BY <1>1, StartDone
<1>5. \A u : id \notin {"ignore", "play"} /\ TokAllKept(t, u) => TokStartSpec(t, id, TokDone(u)) BY StartDone
<1>6. CASE id = "ignore"
  <2>1. TokStartSpec(t, id, TokDone(tok_startIgnore(t))) BY <1>6, IgnoreKeeps, StartDone
  <2>2. TokStart(t, id) = IF TokNoParams(t) THEN TokDone(tok_startIgnore(t)) ELSE TokUndone(t)
    BY <1>6, <1>lev DEF TokStart
  <2> QED BY <2>1, <2>2, <1>4
<1>7. CASE id = "play"
  <2> DEFINE p == tok_putItem(t, TokCmd("play", val))
             s == tok_startIgnore(p)
             u == TokStartPlay(t, val)
  <2>1. TokAllKept(t, p) BY <1>2
  <2>2. u = IF val \in TokFiles THEN s ELSE IF t.ignLevel > 0 THEN tok_startIgnore(t) ELSE t
    BY DEF TokStartPlay
  <2> HIDE DEF p, val
  <2>3. TokShaped(p) BY <2>1 DEF TokAllKept, TokLevelKept, TokHalfKept
  <2>4. TokHalfKept(p, s) /\ s.saveFile = p.saveFile /\ s.ignLevel = p.ignLevel + 1
    BY <2>3, IgnoreKeeps
  <2> HIDE DEF s
  <2>5. TokHalfKept(t, s) /\ s.saveFile = t.saveFile /\ s.ignLevel = t.ignLevel + 1
    BY <2>1, <2>4 DEF TokAllKept, TokLevelKept, TokHalfKept
  <2>6. TokStartSpec(t, id, TokDone(s)) BY <2>5, <1>7, StartDone
  <2>7. TokStartSpec(t, id, TokDone(tok_startIgnore(t))) BY <1>7, IgnoreKeeps, StartDone
  <2>8. ~(t.ignLevel > 0) => TokStartSpec(t, id, TokDone(t))
    <3>1. t.ignLevel \in Nat BY DEF TokShaped
    <3>2. ~(t.ignLevel > 0) => t.ignLevel = 0 BY <3>1
    <3> QED BY <3>2, <1>1, <1>7, StartDone
  <2>9. TokStartSpec(t, id, TokDone(u)) BY <2>2, <2>6, <2>7, <2>8
  <2>10. TokStart(t, id) = IF TokParamIs(t, 1, TokFileKw) THEN TokDone(u) ELSE TokUndone(t)
    BY <1>7, <1>lev DEF TokStart, val
  <2> QED BY <2>9, <2>10, <1>4
<1>8. CASE id = "genfile"
  <2>1. TokStartSpec(t, id, TokDone(TokStartGenFile(t, val))) BY <1>8, GenFileKeeps, StartDone
  <2>2. TokStart(t, id) = IF TokParamIs(t, 1, TokFileKw) THEN TokDone(TokStartGenFile(t, val))
                          ELSE TokUndone(t)
    BY <1>8, <1>lev DEF TokStart
  <2> QED BY <2>1, <2>2, <1>4
<1>9. CASE id \notin {"ignore", "play", "genfile"}
  <2>0. \A u : TokAllKept(t, u) => TokStartSpec(t, id, TokDone(u)) BY <1>9, <1>5
  <2>i. \A item : TokStartSpec(t, id, TokDone(tok_putItem(t, item)))
                  /\ TokStartSpec(t, id, TokDone(tok_putItem2(t, item)))
    BY <2>0, <1>2
  <2>j. \A a, b, c : TokStartSpec(t, id, TokDone(TokPutTwo(t, a, b)))
                     /\ TokStartSpec(t, id, TokDone(TokPutThree(t, a, b, c)))
    BY <2>0, <1>3
  <2>k. TokStartSpec(t, id, TokDone(t)) BY <2>0, <1>1
  <2>1. CASE id \in TokLevels
    BY <2>1, <1>lev, <2>i, <1>4 DEF TokStart
  <2>2. CASE id \in {"preproccontext", "mark"} BY <2>2, <1>lev, <2>i, <1>4 DEF TokStart
  <2>3. CASE id = "voice" BY <2>3, <1>lev, <2>j, <1>4 DEF TokStart
  <2>4. CASE id \in {"s", "p"} BY <2>4, <1>lev, <2>j, <1>4 DEF TokStart
  <2>5. CASE id = "break"
    <3>1. TokStartSpec(t, id, TokStartBreak(t)) BY <2>i, <1>4 DEF TokStartBreak
    <3> QED BY <2>5, <1>lev, <3>1, <1>4 DEF TokStart
  <2>6. CASE id = "spell"
    <3>1. TokStartSpec(t, id, TokStartSpell(t)) BY <2>i DEF TokStartSpell
    <3> QED BY <2>6, <1>lev, <3>1 DEF TokStart
  <2>7. CASE id = "usesig"
    <3>1. TokStartSpec(t, id, TokDone(TokStartUseSig(t, val))) BY <2>j, <2>k DEF TokStartUseSig
    <3> QED BY <2>7, <1>lev, <3>1, <1>4 DEF TokStart
  <2>8. CASE id = "phoneme"
    <3>1. TokStartSpec(t, id, TokStartPhoneme(t)) BY <2>i, <2>k, <1>4 DEF TokStartPhoneme
    <3> QED BY <2>8, <1>lev, <3>1 DEF TokStart
  <2>9. CASE id = "item" BY <2>9, <1>lev, <2>i, <1>4 DEF TokStart
  <2> QED BY <1>9, <1>ids, <1>lev, <2>1, <2>2, <2>3, <2>4, <2>5, <2>6, <2>7, <2>8, <2>9
<1> QED BY <1>6, <1>7, <1>8, <1>9

LEMMA StopKeeps ==
  ASSUME NEW t, TokShaped(t), NEW id \in TokTagIds
  PROVE  TokStopSpec(t, id, TokStop(t, id))
<1>ids. id \in {"speed", "pitch", "volume", "speaker", "voice", "preproccontext", "mark", "ignore", "play",
                "usesig", "genfile", "p", "s", "break", "spell", "phoneme", "item"}
  BY DEF TokTagIds, TokLevels, TokNamed
<1>lev. TokLevels = {"speed", "pitch", "volume", "speaker"} BY DEF TokLevels
<1>1. TokAllKept(t, t) BY TokKeptSelf, HalfOf
<1>2. \A item : TokAllKept(t, tok_putItem(t, item)) BY PutItemKeeps, HalfOf
<1>3. \A a, b, c : TokAllKept(t, TokPutTwo(t, a, b)) /\ TokAllKept(t, TokPutThree(t, a, b, c))
  BY PutSomeKeep, HalfOf
<1>4. CASE id \in {"ignore", "play"}
  <2>1. TokStop(t, id) = tok_endIgnore(t) BY <1>4, <1>lev DEF TokStop
  <2>2. t.ignLevel \in Nat BY DEF TokShaped
  <2> QED BY <1>4, <2>1, <2>2, IgnoreKeeps DEF TokStopSpec
<1>5. CASE id = "genfile"
  <2>1. TokStop(t, id) = TokEndGenFile(t) BY <1>5, <1>lev DEF TokStop
  <2>2. TokLevelKept(t, TokEndGenFile(t)) /\ TokEndGenFile(t).saveFile = <<>> BY GenFileKeeps
  <2> QED BY <1>5, <2>1, <2>2 DEF TokStopSpec, TokLevelKept
<1>6. CASE id \notin {"ignore", "play", "genfile"}
  <2>0. \A u : TokAllKept(t, u) => TokStopSpec(t, id, u)
    BY <1>6 DEF TokStopSpec, TokAllKept, TokLevelKept
  <2>i. \A item : TokStopSpec(t, id, tok_putItem(t, item)) BY <2>0, <1>2
  <2>j. \A a, b, c : TokStopSpec(t, id, TokPutTwo(t, a, b)) /\ TokStopSpec(t, id, TokPutThree(t, a, b, c))
    BY <2>0, <1>3
  <2>k. TokStopSpec(t, id, t) BY <2>0, <1>1
  <2>1. CASE id \in TokLevels BY <2>1, <1>lev, <2>i DEF TokStop
  <2>2. CASE id \in {"preproccontext", "spell", "usesig", "phoneme"} BY <2>2, <1>lev, <2>i DEF TokStop
  <2>3. CASE id \in {"voice", "s", "p"} BY <2>3, <1>lev, <2>j DEF TokStop
  <2>4. CASE id \in {"mark", "break", "item"} BY <2>4, <1>lev, <2>k DEF TokStop
  <2> QED BY <1>6, <1>ids, <1>lev, <2>1, <2>2, <2>3, <2>4
<1> QED BY <1>4, <1>5, <1>6

\* A half that is not understood is an error; nothing takes an error back.
LEMMA StartedKeeps ==
  ASSUME NEW t, TokShaped(t), NEW id \in TokTagIds
  PROVE  /\ TokShaped(TokStarted(t, id)) /\ TokStarted(t, id).state = t.state
         /\ TokStarted(t, id).name = t.name /\ TokStarted(t, id).tagType = t.tagType
         /\ t.tagType \in {"Start", "Empty"} /\ ~TokStarted(t, id).tagErr =>
              \E r : /\ r.done /\ ~r.t.tagErr /\ TokStartSpec(t, id, r)
                     /\ TokStarted(t, id) = r.t
<1> DEFINE r == TokStart(t, id)
           e == [r.t EXCEPT !.tagErr = TRUE]
<1>1. TokStartSpec(t, id, r) BY StartKeeps
<1>2. TokStarted(t, id) = IF t.tagType \in {"Start", "Empty"} THEN IF r.done THEN r.t ELSE e ELSE t
  BY DEF TokStarted, tok_interpretMarkup, TokInterpreted
<1> HIDE DEF r
<1>3. TokHalfKept(t, r.t) /\ TokShaped(r.t) /\ r.done \in BOOLEAN BY <1>1 DEF TokStartSpec, TokHalfKept
<1>4. /\ TokShaped(e) /\ e.state = r.t.state /\ e.name = r.t.name /\ e.tagType = r.t.tagType
      /\ e.tagErr = TRUE
  BY <1>3, TokFieldsAre DEF TokShaped
<1> HIDE DEF e
<1>5. r.t.state = t.state /\ r.t.name = t.name /\ r.t.tagType = t.tagType BY <1>3 DEF TokHalfKept
<1>6. CASE t.tagType \in {"Start", "Empty"} /\ r.done
  <2>1. TokStarted(t, id) = r.t BY <1>2, <1>6
  <2> QED BY <2>1, <1>1, <1>3, <1>5, <1>6
<1>7. CASE t.tagType \in {"Start", "Empty"} /\ ~r.done
  <2>1. TokStarted(t, id) = e BY <1>2, <1>7
  <2> QED BY <2>1, <1>4, <1>5
<1>8. CASE ~(t.tagType \in {"Start", "Empty"})
  <2>1. TokStarted(t, id) = t BY <1>2, <1>8
  <2> QED BY <2>1, <1>8
<1> QED BY <1>6, <1>7, <1>8

LEMMA StoppedKeeps ==
  ASSUME NEW t, TokShaped(t), NEW id \in TokTagIds
  PROVE  /\ TokShaped(TokStopped(t, id)) /\ TokStopped(t, id).state = t.state
         /\ TokStopped(t, id).name = t.name /\ TokStopped(t, id).tagType = t.tagType
         /\ ~TokStopped(t, id).tagErr => ~t.tagErr
         /\ t.tagType = "Empty" =>
              /\ TokStopped(t, id).saveFile = IF id = "genfile" THEN <<>> ELSE t.saveFile
              /\ TokStopped(t, id).ignLevel =
                   IF id \in {"ignore", "play"} /\ t.ignLevel > 0 THEN t.ignLevel - 1 ELSE t.ignLevel
<1> DEFINE z == [t EXCEPT !.params = <<>>]
           u == TokStop(z, id)
           e == [z EXCEPT !.tagErr = TRUE]
<1>1. /\ TokShaped(z) /\ z.params = <<>>
      /\ \A f \in {"state", "name", "tagType", "tagErr", "ignLevel", "saveFile"} : z[f] = t[f]
  BY TokFieldsAre DEF TokShaped
<1> HIDE DEF z
<1>2. TokStopSpec(z, id, u) BY <1>1, StopKeeps
<1>3. TokNoParams(z)
  <2>1. 1 \notin DOMAIN z.params BY <1>1
  <2> QED BY <2>1 DEF TokNoParams, TokParam, TokNoParam
<1>4. TokStopped(t, id) = IF t.tagType \in {"End", "Empty"} THEN u ELSE t
  BY <1>3 DEF TokStopped, tok_interpretMarkup, TokInterpreted, TokDone, z
<1> HIDE DEF u
<1>5. /\ TokShaped(u) /\ u.state = z.state /\ u.name = z.name /\ u.tagType = z.tagType
      /\ u.tagErr = z.tagErr
  BY <1>2 DEF TokStopSpec, TokHalfKept
<1>6. CASE t.tagType \in {"End", "Empty"}
  <2>1. TokStopped(t, id) = u BY <1>4, <1>6
  <2>2. /\ u.saveFile = IF id = "genfile" THEN <<>> ELSE z.saveFile
        /\ u.ignLevel = IF id \in {"ignore", "play"} /\ z.ignLevel > 0 THEN z.ignLevel - 1 ELSE z.ignLevel
    BY <1>2 DEF TokStopSpec
  <2> QED BY <2>1, <2>2, <1>1, <1>5
<1>7. CASE ~(t.tagType \in {"End", "Empty"})
  <2>1. TokStopped(t, id) = t BY <1>4, <1>7
  <2> QED BY <2>1, <1>7
<1> QED BY <1>6, <1>7

LEMMA AfterKeeps ==
  ASSUME NEW t, TokShaped(t), t.state = "NotInMarkup"
  PROVE  /\ TokShaped(TokAfterTag(t)) /\ TokAfterTag(t).state = "NotInMarkup"
         /\ \A f \in {"ignLevel", "saveFile", "name", "tagType", "tagErr"} : TokAfterTag(t)[f] = t[f]
<1>1. /\ TokShaped([t EXCEPT !.markup = <<>>]) /\ [t EXCEPT !.markup = <<>>].state = t.state
      /\ \A f \in {"ignLevel", "saveFile", "name", "tagType", "tagErr"} :
           [t EXCEPT !.markup = <<>>][f] = t[f]
  BY TokFieldsAre, ListedEmpty DEF TokShaped
<1> QED BY <1>1, SimpleKeeps DEF TokAfterTag

LEMMA BeforeKeeps ==
  ASSUME NEW t, TokShaped(t)
  PROVE  LET u == TokBeforeTag(TokTo(t, "NotInMarkup"))
         IN  /\ TokShaped(u) /\ u.state = "NotInMarkup"
             /\ \A f \in {"ignLevel", "saveFile", "name", "tagType", "tagErr"} : u[f] = t[f]
<1> DEFINE z == TokTo(t, "NotInMarkup")
           y == IF z.type \in {"SPACE", "UNDEFINED"} THEN z ELSE TokPutToken(z)
           x == tok_putToSimpleToken(y, [c |-> " ", at |-> 0], "SPACE")
<1>1. /\ TokShaped(z) /\ z.state = "NotInMarkup"
      /\ \A f \in {"ignLevel", "saveFile", "name", "tagType", "tagErr"} : z[f] = t[f]
  BY TokFieldsAre DEF TokTo, TokShaped
<1>2. TokBeforeTag(z) = x BY DEF TokBeforeTag
<1> HIDE DEF z
<1>3. TokKeptState(z, y) BY <1>1, PutTokenKeeps, TokKeptSelf
<1> HIDE DEF y
<1>4. TokShaped(y) BY <1>3 DEF TokKeptState, TokKept
<1>5. TokKeptState(y, x) BY <1>4, SimpleTokenKeeps
<1> HIDE DEF x
<1>6. TokKeptState(z, x) BY <1>3, <1>5, TokKeptTrans
<1>7. /\ TokShaped(x) /\ x.state = z.state
      /\ \A f \in {"ignLevel", "saveFile", "name", "tagType", "tagErr"} : x[f] = z[f]
  BY <1>6 DEF TokKeptState, TokKept
<1>8. TokShaped(x) /\ x.state = "NotInMarkup"
      /\ \A f \in {"ignLevel", "saveFile", "name", "tagType", "tagErr"} : x[f] = t[f]
  BY <1>1, <1>7
<1> QED BY <1>2, <1>8 DEF z

\* A complete tag leaves the tokenizer between tags; and if it is known, empty and no
\* error, its halves have undone each other.
LEMMA TreatMarkupKeeps ==
  ASSUME NEW t, TokShaped(t)
  PROVE  LET u == tok_treatMarkup(t)
             id == tok_markupTagId(t.name)
         IN  /\ TokShaped(u) /\ u.state = "NotInMarkup"
             /\ u.name = t.name /\ u.tagType = t.tagType
             /\ id # "none" /\ ~u.tagErr /\ u.tagType = "Empty" =>
                  /\ u.ignLevel = t.ignLevel
                  /\ u.saveFile = IF id = "genfile" THEN <<>> ELSE t.saveFile
<1> DEFINE id == tok_markupTagId(t.name)
           b == TokBeforeTag(TokTo(t, "NotInMarkup"))
           s == TokStarted(b, id)
           p == TokStopped(s, id)
           u == TokAfterTag(p)
<1>0. id \in TokTagIds \/ id = "none" BY DEF tok_markupTagId
<1>1. tok_treatMarkup(t) = IF id = "none" THEN tok_treatMarkupAsSimpleToken(t) ELSE u
  BY DEF tok_treatMarkup
<1>2. CASE id = "none" BY <1>1, <1>2, SimpleKeeps
<1>3. CASE id # "none"
  <2>0. id \in TokTagIds BY <1>0, <1>3
  <2> HIDE DEF id
  <2>1. /\ TokShaped(b) /\ b.state = "NotInMarkup"
        /\ \A f \in {"ignLevel", "saveFile", "name", "tagType", "tagErr"} : b[f] = t[f]
    BY BeforeKeeps
  <2> HIDE DEF b
  <2>2. /\ TokShaped(s) /\ s.state = b.state /\ s.name = b.name /\ s.tagType = b.tagType
        /\ b.tagType \in {"Start", "Empty"} /\ ~s.tagErr =>
             \E r : r.done /\ ~r.t.tagErr /\ TokStartSpec(b, id, r) /\ s = r.t
    BY <2>0, <2>1, StartedKeeps
  <2> HIDE DEF s
  <2>3. /\ TokShaped(p) /\ p.state = s.state /\ p.name = s.name /\ p.tagType = s.tagType
        /\ ~p.tagErr => ~s.tagErr
        /\ s.tagType = "Empty" =>
              /\ p.saveFile = IF id = "genfile" THEN <<>> ELSE s.saveFile
              /\ p.ignLevel = IF id \in {"ignore", "play"} /\ s.ignLevel > 0
                              THEN s.ignLevel - 1 ELSE s.ignLevel
    BY <2>0, <2>2, StoppedKeeps
  <2> HIDE DEF p
  <2>4. /\ TokShaped(u) /\ u.state = "NotInMarkup"
        /\ \A f \in {"ignLevel", "saveFile", "name", "tagType", "tagErr"} : u[f] = p[f]
    BY <2>1, <2>2, <2>3, AfterKeeps
  <2> HIDE DEF u
  <2>5. u.name = t.name /\ u.tagType = t.tagType BY <2>1, <2>2, <2>3, <2>4
  <2>6. ASSUME ~u.tagErr, u.tagType = "Empty"
        PROVE  u.ignLevel = t.ignLevel /\ u.saveFile = IF id = "genfile" THEN <<>> ELSE t.saveFile
    <3>1. ~p.tagErr /\ ~s.tagErr /\ s.tagType = "Empty" /\ b.tagType = "Empty"
      BY <2>2, <2>3, <2>4, <2>6
    <3>2. PICK r : r.done /\ TokStartSpec(b, id, r) /\ s = r.t BY <2>2, <3>1
    <3>3. /\ id # "genfile" => s.saveFile = b.saveFile
          /\ id \notin {"ignore", "play"} => s.ignLevel = b.ignLevel
          /\ id \in {"ignore", "play"} => s.ignLevel = b.ignLevel + 1 \/ (s.ignLevel = 0 /\ b.ignLevel = 0)
      BY <3>2 DEF TokStartSpec
    <3>4. b.ignLevel \in Nat BY <2>1 DEF TokShaped
    <3>5. p.ignLevel = b.ignLevel BY <2>3, <3>1, <3>3, <3>4
    <3>6. p.saveFile = IF id = "genfile" THEN <<>> ELSE b.saveFile BY <2>3, <3>1, <3>3
    <3> QED BY <2>1, <2>4, <3>5, <3>6
  <2>7. tok_treatMarkup(t) = u BY <1>1, <1>3
  <2> QED BY <2>4, <2>5, <2>6, <2>7 DEF id
<1> QED BY <1>2, <1>3

LEMMA RestartKeeps ==
  ASSUME NEW t, TokShaped(t), t.state = "NotInMarkup", t.markup = <<>>, NEW char
  PROVE  TokShaped(TokRestart(t, char)) /\ TokRestart(t, char).state \in TokOpen
<1>1. CASE char.c # "<"
  <2>1. TokKeptState(t, TokPlain(t, char)) BY PlainKeeps
  <2> QED BY <1>1, <2>1 DEF TokRestart, TokKeptState, TokKept, TokOpen
<1>2. CASE char.c = "<"
  <2>1. TokRestart(t, char) = tok_putToMarkup(t, char) BY <1>2 DEF TokRestart
  <2>2. TokShaped(tok_putToMarkup(t, char))
    BY MarkupKeeps DEF TokOpen, TokTagKept
  <2> DEFINE z == [t EXCEPT !.tagErr = FALSE]
             s == TokInTag(z, "<")
  <2>3. TokShaped(z) /\ z.state = "NotInMarkup" /\ z.markup = <<>> BY TokFieldsAre DEF TokShaped
  <2> HIDE DEF z
  <2>4. ~(Len(z.markup) >= TokMarkupSize - 1)
    <3>1. Len(<<>>) = 0 OBVIOUS
    <3> QED BY <2>3, <3>1, TokAssumption
  <2>5. TokInMarkup(z, "<") = s BY <2>3, <2>4 DEF TokInMarkup, TokMayBlank
  <2>6. s.state = "GotStart" /\ TokShaped(s)
    <3>1. s = [z EXCEPT !.params = <<>>, !.param = TokNoParam, !.name = <<>>, !.tagType = "Start",
                        !.state = "GotStart"]
      BY <2>3 DEF TokInTag
    <3> QED BY <2>3, <3>1, TokFieldsAre, ListedEmpty DEF TokShaped
  <2> HIDE DEF s
  <2>7. TokKeep(s, char).state = "GotStart" BY <2>6, TokFieldsAre DEF TokKeep, TokShaped
  <2>8. tok_putToMarkup(t, char).state = "GotStart" BY <1>2, <2>5, <2>7 DEF tok_putToMarkup, z
  <2> QED BY <2>1, <2>2, <2>8 DEF TokOpen
<1> QED BY <1>1, <1>2

\* A character leaves the tokenizer between tags or in one.
TokBetween(t) ==
  /\ TokShaped(t) /\ t.state \in TokOpen
  /\ t.state = "NotInMarkup" => t.markup = <<>>

LEMMA RestartBetween ==
  ASSUME NEW t, TokShaped(t), t.state = "NotInMarkup", t.markup = <<>>, NEW char
  PROVE  TokBetween(TokRestart(t, char))
<1>1. CASE char.c # "<"
  <2>1. TokKeptState(t, TokPlain(t, char)) BY PlainKeeps
  <2> QED BY <1>1, <2>1 DEF TokRestart, TokKeptState, TokKept, TokOpen, TokBetween
<1>2. CASE char.c = "<"
  <2>1. TokRestart(t, char) = tok_putToMarkup(t, char) BY <1>2 DEF TokRestart
  <2>2. tok_putToMarkup(t, char).state \in TokStates
    BY MarkupKeeps DEF TokOpen, TokTagKept
  <2> QED BY <2>1, <2>2, RestartKeeps DEF TokBetween, TokStates
<1> QED BY <1>1, <1>2

LEMMA CountKeeps ==
  ASSUME NEW t, TokShaped(t), NEW c
  PROVE  /\ TokKeptState(t, TokCountEols(t, c))
         /\ \A f \in {"ignLevel", "saveFile", "name", "tagType", "markup", "state"} :
              TokCountEols(t, c)[f] = t[f]
<1>1. TokKeptState(t, TokCountEols(t, c)) BY TextKeeps DEF TokCountEols
<1> QED BY <1>1 DEF TokKeptState, TokKept

LEMMA MarkupEmpty ==
  ASSUME NEW t, TokShaped(t)
  PROVE  tok_treatMarkup(t).markup = <<>> /\ tok_treatMarkupAsSimpleToken(t).markup = <<>>
<1> DEFINE b == [t EXCEPT !.state = "NotInMarkup"]
           u == FoldLeft(TokPlain, b, t.markup)
           id == tok_markupTagId(t.name)
           y == TokBeforeTag(TokTo(t, "NotInMarkup"))
           s == TokStarted(y, id)
           p == TokStopped(s, id)
<1>1. ASSUME NEW x, TokShaped(x) PROVE tok_treatMarkupAsSimpleToken(x).markup = <<>>
  <2> DEFINE z == [x EXCEPT !.state = "NotInMarkup"]
             w == FoldLeft(TokPlain, z, x.markup)
  <2>1. TokShaped(z) /\ Listed(x.markup) BY <1>1, TokFieldsAre DEF TokShaped
  <2>2. tok_treatMarkupAsSimpleToken(x) = [w EXCEPT !.markup = <<>>]
    BY DEF tok_treatMarkupAsSimpleToken
  <2> HIDE DEF z
  <2>3. TokKeptState(z, w) BY <2>1, FoldKeeps
  <2> HIDE DEF w
  <2>4. TokShaped(w) BY <2>3 DEF TokKeptState, TokKept
  <2> QED BY <2>2, <2>4, TokFieldsAre DEF TokShaped
<1>2. id \in TokTagIds => TokShaped(p)
  <2> HIDE DEF id
  <2>1. TokShaped(y) BY BeforeKeeps
  <2> HIDE DEF y
  <2>2. id \in TokTagIds => TokShaped(s) BY <2>1, StartedKeeps
  <2> HIDE DEF s
  <2> QED BY <2>2, StoppedKeeps
<1>3. id \in TokTagIds => TokAfterTag(p).markup = <<>>
  <2> HIDE DEF p
  <2> SUFFICES ASSUME id \in TokTagIds PROVE TokAfterTag(p).markup = <<>> OBVIOUS
  <2>1. TokShaped(p) BY <1>2
  <2>2. tok_treatMarkupAsSimpleToken(p).markup = <<>> BY <2>1, <1>1
  <2>3. [p EXCEPT !.markup = <<>>].markup = <<>> BY <2>1, TokFieldsAre DEF TokShaped
  <2> QED BY <2>2, <2>3 DEF TokAfterTag
<1>4. id = "none" \/ id \in TokTagIds BY DEF tok_markupTagId
<1>5. tok_treatMarkup(t) = IF id = "none" THEN tok_treatMarkupAsSimpleToken(t) ELSE TokAfterTag(p)
  BY DEF tok_treatMarkup
<1> HIDE DEF id, p
<1> QED BY <1>1, <1>3, <1>4, <1>5

LEMMA TreatKeeps ==
  ASSUME NEW t, TokBetween(t), NEW char
  PROVE  TokBetween(TokTreat(t, char))
<1> DEFINE e == TokCountEols(t, char.c)
           q == tok_putToMarkup(e, char)
           m == tok_treatMarkupAsSimpleToken(q)
<1>1. CASE t.state = "NotInMarkup"
  <2>1. TokTreat(t, char) = TokRestart(t, char) BY <1>1 DEF TokTreat
  <2> QED BY <1>1, <2>1, RestartBetween DEF TokBetween
<1>2. CASE t.state # "NotInMarkup"
  <2>1. TokTreat(t, char) = TokTreatTag(q, char) BY <1>2 DEF TokTreat
  <2>2. TokShaped(e) /\ e.state = t.state /\ t.state \in TokOpen
    BY CountKeeps DEF TokBetween, TokKeptState, TokKept
  <2> HIDE DEF e
  <2>3. TokShaped(q) /\ q.state \in TokStates BY <2>2, MarkupKeeps DEF TokTagKept
  <2> HIDE DEF q
  <2>4. TokShaped(m) /\ m.state = "NotInMarkup" /\ m.markup = <<>>
    BY <2>3, SimpleKeeps, MarkupEmpty
  <2>5. CASE q.state \in {"Error", "ErrorTooLong"}
    <3>1. TokTreatTag(q, char) = TokRestart(m, char) BY <2>5 DEF TokTreatTag
    <3> HIDE DEF m
    <3> QED BY <2>1, <2>4, <3>1, RestartBetween
  <2>6. CASE q.state = "GotEnd"
    <3>1. TokTreatTag(q, char) = tok_treatMarkup(q) BY <2>6 DEF TokTreatTag
    <3>2. TokShaped(tok_treatMarkup(q)) /\ tok_treatMarkup(q).state = "NotInMarkup"
      BY <2>3, TreatMarkupKeeps
    <3>3. tok_treatMarkup(q).markup = <<>> BY <2>3, MarkupEmpty
    <3> QED BY <2>1, <3>1, <3>2, <3>3 DEF TokBetween, TokOpen
  <2>7. CASE q.state \notin {"Error", "ErrorTooLong", "GotEnd"}
    <3>1. TokTreatTag(q, char) = q BY <2>7 DEF TokTreatTag
    <3> QED BY <2>1, <2>3, <2>7, <3>1 DEF TokBetween, TokStates
  <2> QED BY <2>5, <2>6, <2>7
<1> QED BY <1>1, <1>2

LEMMA TreatEndKeeps ==
  ASSUME NEW t, TokBetween(t)
  PROVE  TokBetween(TokTreatEnd(t))
<1> DEFINE s == IF t.state = "NotInMarkup" THEN t ELSE tok_treatMarkupAsSimpleToken(t)
           p == TokPutToken(s)
           u == tok_putItem(p, TokFlush)
<1>1. TokTreatEnd(t) = u BY DEF TokTreatEnd, tok_treatSimpleToken
<1>2. TokShaped(s) /\ s.state = "NotInMarkup" /\ s.markup = <<>>
  BY SimpleKeeps, MarkupEmpty DEF TokBetween
<1> HIDE DEF s
<1>3. TokKeptState(s, p) BY <1>2, PutTokenKeeps
<1> HIDE DEF p
<1>4. TokShaped(p) BY <1>3 DEF TokKeptState, TokKept
<1>5. TokKeptState(p, u) BY <1>4, PutItemKeeps
<1> HIDE DEF u
<1>6. TokKeptState(s, u) BY <1>3, <1>5, TokKeptTrans
<1> QED BY <1>1, <1>2, <1>6 DEF TokKeptState, TokKept, TokBetween, TokOpen

TokInvariant == TokBetween(tok)

LEMMA TokInitSound == TokInit => TokInvariant
<1> SUFFICES ASSUME tok = tokReset PROVE TokBetween(tok) BY DEF TokInit, TokBegin, TokInvariant
<1>1. DOMAIN tok = TokFields /\ tok = [f \in TokFields |-> tok[f]] BY DEF TokFields, tokReset
<1>2. tok.ignLevel = 0 /\ tok.name = <<>> /\ tok.markup = <<>> /\ tok.state = "NotInMarkup"
  BY DEF tokReset
<1> QED BY <1>1, <1>2, ListedEmpty DEF TokBetween, TokShaped, TokOpen

LEMMA TokNextSound == TokInvariant /\ [TokNext]_tokVars => TokInvariant'
<1> SUFFICES ASSUME TokBetween(tok), [TokNext]_tokVars PROVE TokBetween(tok') BY DEF TokInvariant
<1>1. CASE TokByte BY <1>1, TreatKeeps DEF TokByte
<1>2. CASE TokChar BY <1>2, TreatKeeps DEF TokChar
<1>3. CASE TokFlushed BY <1>3, TreatEndKeeps DEF TokFlushed
<1>4. CASE TokPut
  <2>1. tok' = [tok EXCEPT !.outBuf = <<>>] BY <1>4 DEF TokPut
  <2> QED BY <2>1, TokFieldsAre DEF TokBetween, TokShaped
<1>5. CASE UNCHANGED tokVars BY <1>5 DEF tokVars
<1> QED BY <1>1, <1>2, <1>3, <1>4, <1>5 DEF TokNext

\* Between two characters no tag is complete or in error, the level of what is ignored
\* is a number, and markup is kept in a tag only.
THEOREM TokInvariantHolds == TokSpec => []TokInvariant
BY TokInitSound, TokNextSound, PTL DEF TokSpec

LEMMA NeutralStep == TokInvariant /\ TokNext =>
   ((tokTags' # tokTags /\ tok'.tagType = "Empty") =>
       (tok'.ignLevel = tok.ignLevel /\ tok'.saveFile = (IF tok'.name = <<"genfile">> THEN <<>>
                                                         ELSE tok.saveFile)))
<1> SUFFICES ASSUME TokBetween(tok), TokNext, tokTags' # tokTags, tok'.tagType = "Empty"
             PROVE  /\ tok'.ignLevel = tok.ignLevel
                    /\ tok'.saveFile = (IF tok'.name = <<"genfile">> THEN <<>> ELSE tok.saveFile)
  BY DEF TokInvariant
<1>1. TokChar BY DEF TokNext, TokByte, TokFlushed, TokPut
<1> DEFINE b == Head(tokIn)
           e == TokCountEols(tok, b.c)
           p == tok_putToMarkup(tok, b)
           q == tok_putToMarkup(e, b)
<1>2. tok' = TokTreat(tok, b) /\ tok.state # "NotInMarkup" /\ ~tok'.tagErr /\ TokTagOf(p) # {}
  BY <1>1 DEF TokChar
<1>3. p.state = "GotEnd" /\ tok_markupTagId(p.name) # "none" BY <1>2 DEF TokTagOf
<1>4. TokShaped(tok) /\ tok.state \in TokOpen BY DEF TokBetween
<1>5. /\ TokShaped(e)
      /\ \A f \in {"ignLevel", "saveFile", "name", "tagType", "markup", "state"} : e[f] = tok[f]
  BY <1>4, CountKeeps DEF TokKeptState, TokKept
<1>6. /\ p.name = tok.name /\ b.c = ">" /\ tok.state \in TokMayEnd \cup {"GotEndSlash"}
      /\ ~(Len(tok.markup) >= TokMarkupSize - 1)
  BY <1>3, <1>4, MarkupKeeps
<1>7. TokTreat(tok, b) = TokTreatTag(q, b) BY <1>2 DEF TokTreat
<1> HIDE DEF p, b
<1> HIDE DEF e
<1>8. q.state = "GotEnd" BY <1>4, <1>5, <1>6, MarkupEnds
<1>9. /\ TokShaped(q) /\ q.ignLevel = e.ignLevel /\ q.saveFile = e.saveFile /\ q.name = e.name
  BY <1>4, <1>5, <1>8, MarkupKeeps DEF TokTagKept
<1> HIDE DEF q
<1>10. tok' = tok_treatMarkup(q) BY <1>2, <1>7, <1>8 DEF TokTreatTag
<1>11. PICK id : id = tok_markupTagId(q.name) OBVIOUS
<1>12. id # "none" BY <1>3, <1>5, <1>6, <1>9, <1>11
<1>13. /\ tok'.name = q.name
       /\ tok'.ignLevel = q.ignLevel
       /\ tok'.saveFile = IF id = "genfile" THEN <<>> ELSE q.saveFile
  BY <1>2, <1>9, <1>10, <1>11, <1>12, TreatMarkupKeeps
<1>14. id = "genfile" <=> q.name = <<"genfile">>
  <2>1. Listed(q.name) BY <1>9 DEF TokShaped
  <2>2. id = q.name[1] /\ Len(q.name) = 1 BY <1>11, <1>12 DEF tok_markupTagId
  <2>3. DOMAIN q.name = 1 .. 1 /\ q.name \in Seq({q.name[i] : i \in DOMAIN q.name})
    BY <2>1, <2>2, ListedLen
  <2>4. q.name = <<q.name[1]>> BY <2>2, <2>3
  <2> QED BY <2>2, <2>4
<1> QED BY <1>5, <1>9, <1>13, <1>14

\* An empty tag whose attributes are understood leaves it as it was whether text is
\* ignored, and whether it is recorded (tok_interpretMarkup, picotok.c): TokEmptyTagNeutral.
THEOREM EmptyTagsAreNeutral == TokSpec => TokEmptyTagNeutral
<1>1. TokInvariant /\ [TokNext]_tokVars =>
        [(tokTags' # tokTags /\ tok'.tagType = "Empty") =>
           (tok'.ignLevel = tok.ignLevel /\ tok'.saveFile = (IF tok'.name = <<"genfile">> THEN <<>>
                                                         ELSE tok.saveFile))]_tokVars
  BY NeutralStep
<1> QED BY <1>1, TokInvariantHolds, PTL DEF TokSpec, TokEmptyTagNeutral
-----------------------------------------------------------------------------
(* The window of the cepstrum: what has to come out. *)

\* What comes out: frames and items.
CepWhat == [kind : {"frame"}, id : Nat, state : Nat, nr : Nat] \cup [kind : {"item"}, id : Nat]
CepKnown(item) == item.id \in Nat /\ (item.type = "PHONE" => item.states \in Seq(Nat))

\* A function that is told of one item after the other exists.
CepTells(fed, a, n) ==
  a = [k \in 0 .. n |-> IF k = 0 THEN CepNothing ELSE CepAdd(a[k - 1], fed[k])]

LEMMA TellsExist == ASSUME NEW fed, NEW n \in Nat PROVE \E a : CepTells(fed, a, n)
<1> DEFINE Fails == {k \in Nat : ~\E a : CepTells(fed, a, k)}
<1>1. Fails = {}
  <2> SUFFICES ASSUME Fails # {} PROVE FALSE OBVIOUS
  <2>1. PICK k \in Fails : \A y \in Fails : k <= y
    <3>1. Fails \subseteq Nat OBVIOUS
    <3> HIDE DEF Fails
    <3> QED BY <3>1, LeastNumber
  <2>2. k # 0
    <3>1. CepTells(fed, [i \in 0 .. 0 |-> CepNothing], 0) BY DEF CepTells
    <3> QED BY <3>1
  <2>3. k \in Nat /\ k - 1 \in Nat BY <2>2
  <2>4. k - 1 \notin Fails BY <2>1, <2>3
  <2>5. PICK a : CepTells(fed, a, k - 1) BY <2>3, <2>4
  <2>6. PICK b : b = [i \in 0 .. k |-> IF i = k THEN CepAdd(a[k - 1], fed[k]) ELSE a[i]] OBVIOUS
  <2>7. ASSUME NEW i \in 0 .. k
        PROVE  b[i] = IF i = 0 THEN CepNothing ELSE CepAdd(b[i - 1], fed[i])
    <3>1. CASE i = k
      <4>1. b[k] = CepAdd(a[k - 1], fed[k]) BY <2>3, <2>6
      <4>2. b[k - 1] = a[k - 1] BY <2>3, <2>6
      <4> QED BY <2>2, <3>1, <4>1, <4>2
    <3>2. CASE i # k
      <4>1. i \in 0 .. k - 1 /\ b[i] = a[i] BY <2>3, <2>6, <3>2
      <4>2. a[i] = IF i = 0 THEN CepNothing ELSE CepAdd(a[i - 1], fed[i]) BY <2>5, <4>1 DEF CepTells
      <4>3. i # 0 => b[i - 1] = a[i - 1] BY <2>3, <2>6, <3>2
      <4> QED BY <4>1, <4>2, <4>3
    <3> QED BY <3>1, <3>2
  <2>8. CepTells(fed, b, k) BY <2>6, <2>7 DEF CepTells
  <2> QED BY <2>8
<1> QED BY <1>1

\* It is told what CepTold says, one item after the other.
LEMMA ToldStep ==
  ASSUME NEW fed, Listed(fed)
  PROVE  /\ CepTold(fed)[0] = CepNothing
         /\ \A k \in 1 .. Len(fed) : CepTold(fed)[k] = CepAdd(CepTold(fed)[k - 1], fed[k])
<1>1. Len(fed) \in Nat BY ListedLen
<1> DEFINE Is(a) == a = [k \in 0 .. Len(fed) |-> IF k = 0 THEN CepNothing ELSE CepAdd(a[k - 1], fed[k])]
           c == CHOOSE a : Is(a)
<1>2. \A a : Is(a) <=> CepTells(fed, a, Len(fed)) BY DEF CepTells
<1>3. \E a : Is(a)
  <2> HIDE DEF Is
  <2> QED BY <1>1, <1>2, TellsExist
<1>4. Is(c)
  <2> HIDE DEF Is
  <2> QED BY <1>3
<1>5. CepTold(fed) = c BY Zenon DEF CepTold
<1> HIDE DEF c
<1>6. ASSUME NEW k \in 0 .. Len(fed)
      PROVE  c[k] = IF k = 0 THEN CepNothing ELSE CepAdd(c[k - 1], fed[k])
  <2> PICK e : e = c OBVIOUS
  <2>1. c = [i \in 0 .. Len(fed) |-> IF i = 0 THEN CepNothing ELSE CepAdd(e[i - 1], fed[i])] BY <1>4
  <2> QED BY <2>1
<1>7. c[0] = CepNothing
  <2>1. 0 \in 0 .. Len(fed) BY <1>1
  <2> QED BY <1>6, <2>1
<1>8. ASSUME NEW k \in 1 .. Len(fed) PROVE c[k] = CepAdd(c[k - 1], fed[k])
  <2>1. k \in 0 .. Len(fed) /\ k # 0 BY <1>1
  <2> QED BY <1>6, <2>1
<1> QED BY <1>5, <1>7, <1>8

LEMMA ToldAppend ==
  ASSUME NEW fed, Listed(fed), NEW item
  PROVE  \A k \in 0 .. Len(fed) : CepTold(Append(fed, item))[k] = CepTold(fed)[k]
<1>1. PICK more : more = Append(fed, item) OBVIOUS
<1>2. /\ Listed(more) /\ Len(more) = Len(fed) + 1 /\ Len(fed) \in Nat
      /\ \A i \in 1 .. Len(fed) : more[i] = fed[i]
  BY <1>1, ListedAppend, ListedLen
<1> DEFINE Fails == {k \in Nat : k <= Len(fed) /\ CepTold(more)[k] # CepTold(fed)[k]}
<1>3. Fails = {}
  <2> SUFFICES ASSUME Fails # {} PROVE FALSE OBVIOUS
  <2>1. PICK k \in Fails : \A y \in Fails : k <= y
    <3>1. Fails \subseteq Nat OBVIOUS
    <3> HIDE DEF Fails
    <3> QED BY <3>1, LeastNumber
  <2>2. k # 0 BY <1>2, ToldStep
  <2>3. k \in Nat /\ k <= Len(fed) /\ k - 1 \in Nat BY <2>2
  <2>4. CepTold(more)[k - 1] = CepTold(fed)[k - 1] BY <1>2, <2>1, <2>3
  <2>5. k \in 1 .. Len(fed) /\ k \in 1 .. Len(more) BY <1>2, <2>2, <2>3
  <2>6. CepTold(fed)[k] = CepAdd(CepTold(fed)[k - 1], fed[k]) BY <2>5, ToldStep
  <2>7. CepTold(more)[k] = CepAdd(CepTold(more)[k - 1], more[k]) BY <1>2, <2>5, ToldStep
  <2>8. more[k] = fed[k] BY <1>2, <2>5
  <2>9. CepTold(more)[k] = CepTold(fed)[k] BY <2>4, <2>6, <2>7, <2>8
  <2> QED BY <2>9
<1> QED BY <1>1, <1>2, <1>3

\* The frames of a phone.
LEMMA FramesKnown ==
  ASSUME NEW item, item.id \in Nat, item.states \in Seq(Nat)
  PROVE  CepFramesOf(item) \in Seq(CepWhat)
<1>1. PICK n \in Nat : n = Len(item.states) OBVIOUS
<1> DEFINE Part(s) == [f \in 1 .. item.states[s] |->
                         [kind |-> "frame", id |-> item.id, state |-> s, nr |-> f]]
           P == [s \in 1 .. n + 1 |-> IF s <= n THEN Part(s) ELSE <<>>]
<1>2. ASSUME NEW s \in 1 .. n + 1 PROVE P[s] \in Seq(CepWhat)
  <2>1. CASE s <= n
    <3>1. item.states[s] \in Nat /\ s \in Nat BY <1>1, <2>1
    <3>2. ASSUME NEW f \in 1 .. item.states[s]
          PROVE  [kind |-> "frame", id |-> item.id, state |-> s, nr |-> f] \in CepWhat
      BY <3>1 DEF CepWhat
    <3>3. Part(s) \in Seq(CepWhat) BY <3>1, <3>2, SMTT(20)
    <3> QED BY <2>1, <3>3
  <2>2. CASE ~(s <= n) BY <2>2
  <2> QED BY <2>1, <2>2
<1>3. FlattenSeq([s \in 1 .. n |-> P[s]]) \in Seq(CepWhat)
  <2> HIDE DEF P
  <2> QED BY <1>2, FlattenNext
<1>4. [s \in 1 .. n |-> P[s]] = [s \in 1 .. n |-> Part(s)] OBVIOUS
<1>5. CepFramesOf(item) = FlattenSeq([s \in 1 .. n |-> Part(s)]) BY <1>1, Zenon DEF CepFramesOf
<1> QED BY <1>3, <1>4, <1>5

\* What is told has these fields.
CepTelling(a) ==
  /\ a = [out |-> a.out, frames |-> a.frames, ignored |-> a.ignored]
  /\ a.out \in Seq(CepWhat) /\ a.frames \in 0 .. CepMaxWin /\ a.ignored \in BOOLEAN

LEMMA TellingOf ==
  ASSUME NEW out \in Seq(CepWhat), NEW frames \in 0 .. CepMaxWin, NEW ignored \in BOOLEAN
  PROVE  CepTelling([out |-> out, frames |-> frames, ignored |-> ignored])
BY DEF CepTelling

\* What one item adds: how many of a phone's frames there is room for.
CepFit(frames, item) ==
  IF CepMaxWin - frames < Len(CepFramesOf(item)) THEN CepMaxWin - frames ELSE Len(CepFramesOf(item))

LEMMA FitBound ==
  ASSUME NEW frames \in 0 .. CepMaxWin, NEW item, CepKnown(item), item.type = "PHONE"
  PROVE  /\ CepFit(frames, item) \in 0 .. Len(CepFramesOf(item))
         /\ frames + CepFit(frames, item) \in 0 .. CepMaxWin
         /\ SubSeq(CepFramesOf(item), 1, CepFit(frames, item)) \in Seq(CepWhat)
         /\ Len(SubSeq(CepFramesOf(item), 1, CepFit(frames, item))) = CepFit(frames, item)
<1>1. CepFramesOf(item) \in Seq(CepWhat) BY FramesKnown DEF CepKnown
<1>2. PICK s : s = CepFramesOf(item) OBVIOUS
<1>3. s \in Seq(CepWhat) /\ Len(s) \in Nat BY <1>1, <1>2
<1>4. CepMaxWin \in Nat BY CepAssumption
<1>5. PICK n : n = CepFit(frames, item) OBVIOUS
<1>6. n \in 0 .. Len(s) /\ frames + n \in 0 .. CepMaxWin BY <1>2, <1>3, <1>4, <1>5 DEF CepFit
<1>7. SubSeq(s, 1, n) \in Seq(CepWhat) /\ Len(SubSeq(s, 1, n)) = n BY <1>3, <1>6
<1> QED BY <1>2, <1>5, <1>6, <1>7

LEMMA AddIs ==
  ASSUME NEW a, CepTelling(a), NEW item, CepKnown(item)
  PROVE  /\ CepTelling(CepAdd(a, item))
         /\ CepAddition(a, item) \in Seq(CepWhat)
         /\ CepAdd(a, item).out = a.out \o CepAddition(a, item)
         /\ CepAdd(a, item).ignored = IF a.ignored THEN ~CepIgnsig(item, "END")
                                      ELSE CepIgnsig(item, "START")
         /\ a.ignored \/ ~forwardingItem(item) =>
              CepAddition(a, item) = <<>> /\ CepAdd(a, item).frames = a.frames
         /\ ~a.ignored /\ item.type = "PHONE" =>
              /\ CepAddition(a, item) = SubSeq(CepFramesOf(item), 1, CepFit(a.frames, item))
              /\ CepAdd(a, item).frames = a.frames + Len(CepAddition(a, item))
         /\ ~a.ignored /\ forwardingItem(item) /\ item.type # "PHONE" =>
              /\ CepAddition(a, item) = <<[kind |-> "item", id |-> item.id]>>
              /\ CepAdd(a, item).frames = IF CepCloses(item) THEN 0 ELSE a.frames
<1>0. PICK more, frames, out, ignored :
        more = CepAddition(a, item) /\ frames = a.frames /\ out = a.out /\ ignored = a.ignored
  OBVIOUS
<1>1. out \in Seq(CepWhat) /\ frames \in 0 .. CepMaxWin /\ ignored \in BOOLEAN /\ CepMaxWin \in Nat
  BY <1>0, CepAssumption DEF CepTelling
<1>2. /\ forwardingItem(item) \in BOOLEAN /\ CepCloses(item) \in BOOLEAN
      /\ item.type = "PHONE" => forwardingItem(item) /\ ~CepCloses(item)
      /\ ~forwardingItem(item) => ~CepCloses(item)
      /\ CepIgnsig(item, "END") \in BOOLEAN /\ CepIgnsig(item, "START") \in BOOLEAN
  BY DEF forwardingItem, CepIgnsig, CepCloses
<1>3. ignored \/ ~forwardingItem(item) => more = <<>> BY <1>0 DEF CepAddition
<1>4. ~ignored /\ item.type = "PHONE" => more = SubSeq(CepFramesOf(item), 1, CepFit(frames, item))
  BY <1>0, <1>2 DEF CepAddition, CepFit
<1>5. ~ignored /\ forwardingItem(item) /\ item.type # "PHONE" =>
        more = <<[kind |-> "item", id |-> item.id]>>
  BY <1>0 DEF CepAddition
<1>6. more \in Seq(CepWhat) /\ (item.type = "PHONE" => frames + Len(more) \in 0 .. CepMaxWin)
  <2>1. CASE ignored \/ ~forwardingItem(item)
    <3>1. more = <<>> BY ONLY <1>3, <2>1
    <3>2. <<>> \in Seq(CepWhat) /\ Len(<<>>) = 0 /\ frames + 0 = frames BY <1>1
    <3> QED BY ONLY <1>1, <3>1, <3>2
  <2>2. CASE ~ignored /\ item.type = "PHONE" BY <1>1, <1>4, <2>2, FitBound
  <2>3. CASE ~ignored /\ forwardingItem(item) /\ item.type # "PHONE"
    <3>1. [kind |-> "item", id |-> item.id] \in CepWhat BY DEF CepWhat, CepKnown
    <3>2. <<[kind |-> "item", id |-> item.id]>> \in Seq(CepWhat) BY <3>1
    <3> QED BY ONLY <1>5, <2>3, <3>2
  <2> QED BY <1>1, <1>2, <2>1, <2>2, <2>3
<1>7. CepAdd(a, item) =
        [out |-> out \o more,
         frames |-> IF CepCloses(item) /\ ~ignored THEN 0
                    ELSE IF item.type = "PHONE" THEN frames + Len(more) ELSE frames,
         ignored |-> IF ignored THEN ~CepIgnsig(item, "END") ELSE CepIgnsig(item, "START")]
  BY <1>0, Zenon DEF CepAdd
<1>8. CepTelling(CepAdd(a, item))
  <2> PICK f : f = IF CepCloses(item) /\ ~ignored THEN 0
                   ELSE IF item.type = "PHONE" THEN frames + Len(more) ELSE frames OBVIOUS
  <2> PICK g : g = IF ignored THEN ~CepIgnsig(item, "END") ELSE CepIgnsig(item, "START") OBVIOUS
  <2>1. CepAdd(a, item) = [out |-> out \o more, frames |-> f, ignored |-> g] BY <1>7, Zenon
  <2>2. out \o more \in Seq(CepWhat) BY <1>1, <1>6
  <2>3. f \in 0 .. CepMaxWin BY <1>1, <1>6
  <2>4. g \in BOOLEAN BY <1>1, <1>2, Zenon
  <2> QED BY ONLY <2>1, <2>2, <2>3, <2>4, TellingOf
<1>9. Len(<<>>) = 0 /\ frames + 0 = frames BY <1>1
<1> QED BY <1>0, <1>2, <1>3, <1>4, <1>5, <1>6, <1>7, <1>8, <1>9

LEMMA ToldTells ==
  ASSUME NEW fed, Listed(fed), \A k \in 1 .. Len(fed) : CepKnown(fed[k])
  PROVE  \A k \in 0 .. Len(fed) : CepTelling(CepTold(fed)[k])
<1>1. Len(fed) \in Nat BY ListedLen
<1> DEFINE Fails == {k \in Nat : k <= Len(fed) /\ ~CepTelling(CepTold(fed)[k])}
<1>2. Fails = {}
  <2> SUFFICES ASSUME Fails # {} PROVE FALSE OBVIOUS
  <2>1. PICK k \in Fails : \A y \in Fails : k <= y
    <3>1. Fails \subseteq Nat OBVIOUS
    <3> HIDE DEF Fails
    <3> QED BY <3>1, LeastNumber
  <2>2. k # 0
    <3>1. CepTelling(CepNothing) BY CepAssumption DEF CepTelling, CepNothing
    <3> QED BY <3>1, ToldStep
  <2>3. k \in Nat /\ k <= Len(fed) /\ k - 1 \in Nat BY <2>2
  <2>4. CepTelling(CepTold(fed)[k - 1]) BY <1>1, <2>1, <2>3
  <2>5. k \in 1 .. Len(fed) BY <1>1, <2>2, <2>3
  <2>6. CepTold(fed)[k] = CepAdd(CepTold(fed)[k - 1], fed[k]) BY <2>5, ToldStep
  <2>7. CepTelling(CepTold(fed)[k]) BY <2>4, <2>5, <2>6, AddIs
  <2> QED BY <2>7
<1> QED BY <1>1, <1>2

-----------------------------------------------------------------------------
(* The places of the frames and items of a sentence in what has to come out. *)

CepHead == [what : CepWhat, frame : Nat]

LEMMA HeadsKnown ==
  ASSUME NEW headx \in Seq(CepHead)
  PROVE  \A h \in 1 .. Len(headx) : headx[h].frame \in Nat /\ headx[h].what \in CepWhat
<1>1. \A h \in 1 .. Len(headx) : headx[h] \in CepHead OBVIOUS
<1> QED BY <1>1 DEF CepHead

CepItemsPlaced(out, index, headx, base) ==
  \A h \in 1 .. Len(headx) :
    /\ headx[h].frame \in 1 .. Len(index)
    /\ out[base + h + headx[h].frame] = headx[h].what
    /\ \A g \in 1 .. h : headx[g].frame <= headx[h].frame
\* The items before frame j are the first b.
CepSplits(headx, j, b) ==
  /\ \A h \in 1 .. b : headx[h].frame < j
  /\ \A h \in b + 1 .. Len(headx) : headx[h].frame >= j
CepFramesPlaced(out, index, headx, base) ==
  \A j \in 1 .. Len(index) : \A b \in 0 .. Len(headx) :
    CepSplits(headx, j, b) => out[base + j + b] = index[j]
CepPlaced(out, index, headx) ==
  LET base == Len(out) - Len(index) - Len(headx)
  IN  /\ base \in Nat
      /\ CepItemsPlaced(out, index, headx, base) /\ CepFramesPlaced(out, index, headx, base)

\* How far the sentence has been put out.
CepReached(index, headx, readPos, bottom) ==
  /\ readPos \in 0 .. Len(index) /\ bottom \in 0 .. Len(headx)
  /\ \A h \in 1 .. bottom : headx[h].frame <= readPos
  /\ \A h \in bottom + 1 .. Len(headx) : headx[h].frame >= readPos

LEMMA PlacedEmpty ==
  ASSUME NEW out \in Seq(CepWhat)
  PROVE  CepPlaced(out, <<>>, <<>>) /\ CepReached(<<>>, <<>>, 0, 0)
<1>1. Len(<<>>) = 0 /\ 1 .. 0 = {} /\ 0 + 1 .. 0 = {} OBVIOUS
<1> PICK n : n = Len(out) OBVIOUS
<1>2. n \in Nat /\ n - 0 - 0 = n OBVIOUS
<1>3. CepItemsPlaced(out, <<>>, <<>>, n) BY <1>1 DEF CepItemsPlaced
<1>4. CepFramesPlaced(out, <<>>, <<>>, n) BY <1>1 DEF CepFramesPlaced
<1> QED BY <1>1, <1>2, <1>3, <1>4 DEF CepPlaced, CepReached

\* The frames of a phone come behind all that is there.
LEMMA PlacedFrames ==
  ASSUME NEW out \in Seq(CepWhat), NEW index \in Seq(CepWhat), NEW headx \in Seq(CepHead),
         CepPlaced(out, index, headx), NEW more \in Seq(CepWhat)
  PROVE  CepPlaced(out \o more, index \o more, headx)
<1>1. PICK base \in Nat : base = Len(out) - Len(index) - Len(headx) BY DEF CepPlaced
<1>2. CepItemsPlaced(out, index, headx, base) /\ CepFramesPlaced(out, index, headx, base)
  BY <1>1 DEF CepPlaced
<1>3. PICK o, x : o = out \o more /\ x = index \o more OBVIOUS
<1>4. /\ o \in Seq(CepWhat) /\ x \in Seq(CepWhat)
      /\ Len(o) = Len(out) + Len(more) /\ Len(x) = Len(index) + Len(more)
      /\ Len(out) \in Nat /\ Len(index) \in Nat /\ Len(headx) \in Nat /\ Len(more) \in Nat
      /\ \A i \in 1 .. Len(out) : o[i] = out[i]
      /\ \A i \in 1 .. Len(index) : x[i] = index[i]
      /\ \A i \in 1 .. Len(more) : o[Len(out) + i] = more[i] /\ x[Len(index) + i] = more[i]
  BY <1>3
<1>5. Len(o) - Len(x) - Len(headx) = base BY <1>1, <1>4
<1>6. \A h \in 1 .. Len(headx) : headx[h].frame \in Nat BY HeadsKnown
<1>7. CepItemsPlaced(o, x, headx, base)
  <2> SUFFICES ASSUME NEW h \in 1 .. Len(headx)
               PROVE  /\ headx[h].frame \in 1 .. Len(x)
                      /\ o[base + h + headx[h].frame] = headx[h].what
                      /\ \A g \in 1 .. h : headx[g].frame <= headx[h].frame
    BY DEF CepItemsPlaced
  <2>1. /\ headx[h].frame \in 1 .. Len(index)
        /\ out[base + h + headx[h].frame] = headx[h].what
        /\ \A g \in 1 .. h : headx[g].frame <= headx[h].frame
    BY <1>2 DEF CepItemsPlaced
  <2>2. base + h + headx[h].frame \in 1 .. Len(out) BY <1>1, <1>4, <1>6, <2>1
  <2> QED BY <1>4, <2>1, <2>2
<1>8. CepFramesPlaced(o, x, headx, base)
  <2> SUFFICES ASSUME NEW j \in 1 .. Len(x), NEW b \in 0 .. Len(headx), CepSplits(headx, j, b)
               PROVE  o[base + j + b] = x[j]
    BY DEF CepFramesPlaced
  <2>1. CASE j <= Len(index)
    <3>1. j \in 1 .. Len(index) BY <1>4, <2>1
    <3>2. out[base + j + b] = index[j] BY <1>2, <3>1 DEF CepFramesPlaced
    <3>3. base + j + b \in 1 .. Len(out) BY <1>1, <1>4, <3>1
    <3> QED BY <1>4, <3>1, <3>2, <3>3
  <2>2. CASE j > Len(index)
    <3>1. b = Len(headx)
      <4> SUFFICES ASSUME b # Len(headx) PROVE FALSE OBVIOUS
      <4>1. b + 1 \in 1 .. Len(headx) /\ b + 1 \in b + 1 .. Len(headx) BY <1>4
      <4>2. headx[b + 1].frame <= Len(index) /\ headx[b + 1].frame \in Nat
        BY <1>2, <1>4, <1>6, <4>1 DEF CepItemsPlaced
      <4>3. headx[b + 1].frame >= j BY <4>1 DEF CepSplits
      <4> QED BY <1>4, <2>2, <4>2, <4>3
    <3>2. PICK i \in 1 .. Len(more) : i = j - Len(index) BY <1>4, <2>2
    <3>3. base + j + b = Len(out) + i /\ j = Len(index) + i BY <1>1, <1>4, <3>1, <3>2
    <3> QED BY <1>4, <3>2, <3>3
  <2> QED BY <1>4, <2>1, <2>2
<1> QED BY <1>1, <1>3, <1>5, <1>7, <1>8 DEF CepPlaced

\* So does an item that is kept.
LEMMA PlacedItem ==
  ASSUME NEW out \in Seq(CepWhat), NEW index \in Seq(CepWhat), NEW headx \in Seq(CepHead),
         CepPlaced(out, index, headx), NEW what \in CepWhat, index # <<>>
  PROVE  CepPlaced(Append(out, what), index, Append(headx, [what |-> what, frame |-> Len(index)]))
<1>1. PICK base \in Nat : base = Len(out) - Len(index) - Len(headx) BY DEF CepPlaced
<1>2. CepItemsPlaced(out, index, headx, base) /\ CepFramesPlaced(out, index, headx, base)
  BY <1>1 DEF CepPlaced
<1>3. PICK o, e, x : o = Append(out, what) /\ e = [what |-> what, frame |-> Len(index)] /\ x = Append(headx, e)
  OBVIOUS
<1>4. /\ o \in Seq(CepWhat) /\ e \in CepHead
      /\ Len(out) \in Nat /\ Len(index) \in Nat \ {0} /\ Len(headx) \in Nat
      /\ e.what = what /\ e.frame = Len(index)
  BY <1>3 DEF CepHead
<1>5. /\ x \in Seq(CepHead)
      /\ Len(o) = Len(out) + 1 /\ Len(x) = Len(headx) + 1
      /\ \A i \in 1 .. Len(out) : o[i] = out[i]
      /\ \A i \in 1 .. Len(headx) : x[i] = headx[i]
      /\ o[Len(out) + 1] = what /\ x[Len(headx) + 1] = e
  BY <1>3, <1>4
<1>6. Len(o) - Len(index) - Len(x) = base BY <1>1, <1>4, <1>5
<1>7. /\ \A h \in 1 .. Len(headx) : headx[h].frame \in Nat /\ headx[h].frame \in 1 .. Len(index)
      /\ \A h \in 1 .. Len(x) : x[h].frame \in Nat
  BY <1>2, <1>5, HeadsKnown DEF CepItemsPlaced
<1>8. CepItemsPlaced(o, index, x, base)
  <2> SUFFICES ASSUME NEW h \in 1 .. Len(x)
               PROVE  /\ x[h].frame \in 1 .. Len(index)
                      /\ o[base + h + x[h].frame] = x[h].what
                      /\ \A g \in 1 .. h : x[g].frame <= x[h].frame
    BY DEF CepItemsPlaced
  <2>1. CASE h <= Len(headx)
    <3>1. h \in 1 .. Len(headx) /\ x[h] = headx[h] BY <1>4, <1>5, <2>1
    <3>2. /\ headx[h].frame \in 1 .. Len(index)
          /\ out[base + h + headx[h].frame] = headx[h].what
          /\ \A g \in 1 .. h : headx[g].frame <= headx[h].frame
      BY <1>2, <3>1 DEF CepItemsPlaced
    <3>3. base + h + headx[h].frame \in 1 .. Len(out) BY <1>1, <1>4, <1>7, <3>1
    <3>4. \A g \in 1 .. h : x[g] = headx[g] BY <1>4, <1>5, <3>1
    <3> QED BY <1>5, <3>1, <3>2, <3>3, <3>4
  <2>2. CASE h = Len(headx) + 1
    <3>1. x[h] = e /\ x[h].frame = Len(index) BY <1>4, <1>5, <2>2
    <3>2. base + h + Len(index) = Len(out) + 1 BY <1>1, <1>4, <2>2
    <3>3. \A g \in 1 .. h : x[g].frame <= Len(index)
      <4> SUFFICES ASSUME NEW g \in 1 .. h PROVE x[g].frame <= Len(index) OBVIOUS
      <4>1. CASE g \in 1 .. Len(headx) BY <1>4, <1>5, <1>7, <4>1
      <4>2. CASE g = h BY <1>4, <3>1, <4>2
      <4> QED BY <1>4, <2>2, <4>1, <4>2
    <3> QED BY <1>4, <1>5, <3>1, <3>2, <3>3
  <2> QED BY <1>4, <1>5, <2>1, <2>2
<1>9. CepFramesPlaced(o, index, x, base)
  <2> SUFFICES ASSUME NEW j \in 1 .. Len(index), NEW b \in 0 .. Len(x), CepSplits(x, j, b)
               PROVE  o[base + j + b] = index[j]
    BY DEF CepFramesPlaced
  <2>1. b # Len(headx) + 1
    <3> SUFFICES ASSUME b = Len(headx) + 1 PROVE FALSE OBVIOUS
    <3>1. b \in 1 .. b /\ x[b].frame = Len(index) BY <1>4, <1>5
    <3>2. x[b].frame < j BY <3>1 DEF CepSplits
    <3> QED BY <1>4, <3>1, <3>2
  <2>2. b \in 0 .. Len(headx) BY <1>4, <1>5, <2>1
  <2>3. CepSplits(headx, j, b)
    <3>1. \A h \in 1 .. b : headx[h].frame < j
      <4>1. \A h \in 1 .. b : x[h] = headx[h] BY <1>4, <1>5, <2>2
      <4> QED BY <4>1 DEF CepSplits
    <3>2. \A h \in b + 1 .. Len(headx) : headx[h].frame >= j
      <4>1. \A h \in b + 1 .. Len(headx) : x[h] = headx[h] /\ h \in b + 1 .. Len(x) BY <1>4, <1>5, <2>2
      <4> QED BY <4>1 DEF CepSplits
    <3> QED BY <3>1, <3>2 DEF CepSplits
  <2>4. out[base + j + b] = index[j] BY <1>2, <2>2, <2>3 DEF CepFramesPlaced
  <2>5. base + j + b \in 1 .. Len(out) BY <1>1, <1>4, <2>2
  <2> QED BY <1>5, <2>4, <2>5
<1> QED BY <1>1, <1>3, <1>6, <1>8, <1>9 DEF CepPlaced

\* The next to come out is the item that is due, or else the next frame.
LEMMA NextItem ==
  ASSUME NEW out \in Seq(CepWhat), NEW index \in Seq(CepWhat), NEW headx \in Seq(CepHead),
         CepPlaced(out, index, headx), NEW readPos, NEW bottom,
         CepReached(index, headx, readPos, bottom),
         bottom < Len(headx), headx[bottom + 1].frame <= readPos
  PROVE  /\ out[Len(out) - Len(index) - Len(headx) + readPos + bottom + 1] = headx[bottom + 1].what
         /\ CepReached(index, headx, readPos, bottom + 1)
<1>1. PICK base \in Nat : base = Len(out) - Len(index) - Len(headx) BY DEF CepPlaced
<1>2. CepItemsPlaced(out, index, headx, base) BY <1>1 DEF CepPlaced
<1>3. /\ readPos \in 0 .. Len(index) /\ bottom \in 0 .. Len(headx) /\ Len(headx) \in Nat /\ Len(index) \in Nat
      /\ bottom + 1 \in 1 .. Len(headx) /\ bottom + 1 \in bottom + 1 .. Len(headx)
  BY DEF CepReached
<1>4. headx[bottom + 1].frame \in Nat BY <1>3, HeadsKnown
<1>5. headx[bottom + 1].frame = readPos BY <1>3, <1>4 DEF CepReached
<1>6. out[base + (bottom + 1) + readPos] = headx[bottom + 1].what
  BY <1>2, <1>3, <1>5 DEF CepItemsPlaced
<1>7. base + (bottom + 1) + readPos = base + readPos + bottom + 1 BY <1>3
<1>8. CepReached(index, headx, readPos, bottom + 1)
  <2>1. \A h \in 1 .. bottom + 1 : headx[h].frame <= readPos
    <3>1. \A h \in 1 .. bottom + 1 : h \in 1 .. bottom \/ h = bottom + 1 BY <1>3
    <3> QED BY <3>1 DEF CepReached
  <2>2. \A h \in (bottom + 1) + 1 .. Len(headx) : h \in bottom + 1 .. Len(headx) BY <1>3
  <2> QED BY <1>3, <2>1, <2>2 DEF CepReached
<1> QED BY <1>1, <1>6, <1>7, <1>8

LEMMA NextFrame ==
  ASSUME NEW out \in Seq(CepWhat), NEW index \in Seq(CepWhat), NEW headx \in Seq(CepHead),
         CepPlaced(out, index, headx), NEW readPos, NEW bottom,
         CepReached(index, headx, readPos, bottom),
         ~(bottom < Len(headx) /\ headx[bottom + 1].frame <= readPos), readPos < Len(index)
  PROVE  /\ out[Len(out) - Len(index) - Len(headx) + readPos + bottom + 1] = index[readPos + 1]
         /\ CepReached(index, headx, readPos + 1, bottom)
<1>1. PICK base \in Nat : base = Len(out) - Len(index) - Len(headx) BY DEF CepPlaced
<1>2. CepItemsPlaced(out, index, headx, base) /\ CepFramesPlaced(out, index, headx, base)
  BY <1>1 DEF CepPlaced
<1>3. /\ readPos \in 0 .. Len(index) /\ bottom \in 0 .. Len(headx) /\ Len(headx) \in Nat /\ Len(index) \in Nat
      /\ readPos + 1 \in 1 .. Len(index)
  BY DEF CepReached
<1>4. \A h \in 1 .. Len(headx) : headx[h].frame \in Nat BY HeadsKnown
<1>5. \A h \in 1 .. bottom : headx[h].frame <= readPos BY DEF CepReached
<1>11. ASSUME NEW h \in 1 .. bottom
       PROVE  headx[h].frame < readPos + 1 /\ headx[h].frame <= readPos + 1
  <2>1. h \in 1 .. Len(headx) BY <1>3
  <2>2. headx[h].frame \in Nat /\ headx[h].frame <= readPos BY <1>4, <1>5, <2>1
  <2>3. readPos \in Nat BY <1>3
  <2>4. PICK f \in Nat : f = headx[h].frame BY <2>2
  <2> QED BY <2>2, <2>3, <2>4
<1>6. ASSUME NEW h \in bottom + 1 .. Len(headx) PROVE headx[h].frame >= readPos + 1
  <2>1. h \in 1 .. Len(headx) /\ bottom + 1 \in 1 .. h /\ bottom + 1 \in 1 .. Len(headx) BY <1>3
  <2>2. headx[bottom + 1].frame <= headx[h].frame BY <1>2, <2>1 DEF CepItemsPlaced
  <2>3. headx[bottom + 1].frame > readPos BY <1>3, <1>4, <2>1
  <2>4. headx[bottom + 1].frame \in Nat /\ headx[h].frame \in Nat BY <1>4, <2>1
  <2> QED BY <1>3, <2>2, <2>3, <2>4
<1>7. CepSplits(headx, readPos + 1, bottom)
  <2>1. \A h \in 1 .. bottom : headx[h].frame < readPos + 1 BY <1>11
  <2> QED BY <1>6, <2>1 DEF CepSplits
<1>8. out[base + (readPos + 1) + bottom] = index[readPos + 1]
  BY <1>2, <1>3, <1>7 DEF CepFramesPlaced
<1>9. base + (readPos + 1) + bottom = base + readPos + bottom + 1 BY <1>3
<1>10. CepReached(index, headx, readPos + 1, bottom)
  <2>1. \A h \in 1 .. bottom : headx[h].frame <= readPos + 1 BY <1>11
  <2> QED BY <1>3, <1>6, <2>1 DEF CepReached
<1> QED BY <1>1, <1>8, <1>9, <1>10

-----------------------------------------------------------------------------
(* What holds between the steps of cepStep. *)

\* The sub object x has these fields, and its frames and items fit.
CepFields(x) ==
  /\ x = [procState |-> x.procState, follow |-> x.follow, ignore |-> x.ignore,
          sentenceEnd |-> x.sentenceEnd, inBuf |-> x.inBuf, headx |-> x.headx,
          bottom |-> x.bottom, cbuf |-> x.cbuf, index |-> x.index, readPos |-> x.readPos,
          activeEnd |-> x.activeEnd, outBuf |-> x.outBuf, jammed |-> x.jammed]
  /\ x.procState \in {"COLLECT", "PARSE", "SMOOTH", "FRAME", "FEED"}
  /\ x.follow \in {"PARSE", "FRAME"}
  /\ x.ignore \in BOOLEAN /\ x.jammed \in BOOLEAN
  /\ x.index \in Seq(CepWhat) /\ Len(x.index) <= CepMaxWin
  /\ x.headx \in Seq(CepHead) /\ Len(x.headx) <= CepHeadxCap

\* The item at hand closes the sentence that is put out.
CepEnding(x) == x.inBuf # <<>> /\ ~x.ignore /\ CepCloses(Head(x.inBuf))
CepSmoothing(x) ==
  x.procState \in {"SMOOTH", "FRAME"} \/ (x.procState = "FEED" /\ x.follow = "FRAME")

\* What has been put out, and what waits for cbOut, is as far as it goes what has to come
\* out; what is missing are the frames and items that are held.
CepWaits(x) == IF x.procState = "FEED" THEN 1 ELSE 0
CepSaidRight(out, x, said) ==
  /\ said \in Seq(CepWhat)
  /\ Len(said) + CepWaits(x) =
       Len(out) - (Len(x.index) - x.readPos) - (Len(x.headx) - x.bottom)
  /\ \A i \in 1 .. Len(said) : said[i] = out[i]
  /\ x.procState = "FEED" =>
       \E w \in CepWhat : x.outBuf = <<w>> /\ w = out[Len(said) + 1]

CepOrder(a, x, said) ==
  /\ a.ignored = x.ignore
  /\ a.frames = Len(x.index) \/ (CepEnding(x) /\ x.index = <<>>)
  /\ CepPlaced(a.out, x.index, x.headx)
  /\ CepReached(x.index, x.headx, x.readPos, x.bottom)
  /\ CepSaidRight(a.out, x, said)
  /\ x.index = <<>> => x.headx = <<>>
  /\ CepSmoothing(x) => CepEnding(x) /\ x.sentenceEnd
  /\ CepSmoothing(x) => x.activeEnd = Len(x.index)
  /\ ~CepSmoothing(x) \/ x.procState = "SMOOTH" => x.readPos = 0 /\ x.bottom = 0
  /\ x.procState = "FEED" /\ x.follow = "PARSE" => x.inBuf = <<>>

\* What was fed and is still to be looked at is at most one item, the last.
CepItems(x, in, fed) ==
  /\ Listed(fed) /\ \A k \in 1 .. Len(fed) : fed[k].id = k /\ CepKnown(fed[k])
  /\ \/ x.inBuf = <<>>
     \/ Len(fed) # 0 /\ x.inBuf = <<fed[Len(fed)]>> /\ in = <<>> /\ x.procState # "COLLECT"
  /\ \/ in = <<>>
     \/ Len(fed) # 0 /\ in = <<fed[Len(fed)]>> /\ x.inBuf = <<>> /\ x.procState = "COLLECT"
CepDone(x, in, fed) == IF x.inBuf = <<>> /\ in = <<>> THEN Len(fed) ELSE Len(fed) - 1

CepInv ==
  /\ CepFields(cep) /\ CepItems(cep, cepIn, cepFed)
  /\ cep.jammed \/ CepOrder(CepTold(cepFed)[CepDone(cep, cepIn, cepFed)], cep, cepSaid)

LEMMA CepBegins ==
  CepFields(CepFresh) /\ CepItems(CepFresh, <<>>, <<>>)
  /\ CepOrder(CepTold(<<>>)[CepDone(CepFresh, <<>>, <<>>)], CepFresh, <<>>)
<1>1. PICK x : x = CepFresh OBVIOUS
<1>2. /\ x.procState = "COLLECT" /\ x.follow = "PARSE" /\ x.ignore = FALSE /\ x.inBuf = <<>>
      /\ x.headx = <<>> /\ x.bottom = 0 /\ x.index = <<>> /\ x.readPos = 0 /\ x.jammed = FALSE
  BY <1>1 DEF CepFresh
<1>3. Len(<<>>) = 0 /\ 1 .. 0 = {} /\ Listed(<<>>) /\ <<>> \in Seq(CepWhat) /\ <<>> \in Seq(CepHead)
  BY ListedEmpty
<1>4. CepFields(x)
  <2>1. x = [procState |-> x.procState, follow |-> x.follow, ignore |-> x.ignore,
          sentenceEnd |-> x.sentenceEnd, inBuf |-> x.inBuf, headx |-> x.headx,
          bottom |-> x.bottom, cbuf |-> x.cbuf, index |-> x.index, readPos |-> x.readPos,
          activeEnd |-> x.activeEnd, outBuf |-> x.outBuf, jammed |-> x.jammed]
    BY <1>1 DEF CepFresh
  <2>2. Len(x.index) = 0 /\ Len(x.headx) = 0 /\ 0 <= CepMaxWin /\ 0 <= CepHeadxCap
    BY <1>2, <1>3, CepAssumption
  <2>3. x.index \in Seq(CepWhat) /\ x.headx \in Seq(CepHead) BY <1>2, <1>3
  <2> QED BY ONLY <1>2, <2>1, <2>2, <2>3 DEF CepFields
<1>5. CepItems(x, <<>>, <<>>) BY <1>2, <1>3 DEF CepItems
<1>6. CepTold(<<>>)[0] = CepNothing BY <1>3, ToldStep
<1>7. CepOrder(CepNothing, x, <<>>)
  <2>1. CepPlaced(<<>>, <<>>, <<>>) /\ CepReached(<<>>, <<>>, 0, 0) BY <1>3, PlacedEmpty
  <2>2. CepSaidRight(<<>>, x, <<>>)
    <3>1. CepWaits(x) = 0 /\ x.procState # "FEED" BY <1>2 DEF CepWaits
    <3>2. 0 + 0 = 0 - (0 - 0) - (0 - 0) OBVIOUS
    <3> QED BY ONLY <1>2, <1>3, <3>1, <3>2 DEF CepSaidRight
  <2>3. ~CepSmoothing(x) BY <1>2 DEF CepSmoothing
  <2>4. CepNothing.ignored = FALSE /\ CepNothing.frames = 0 /\ CepNothing.out = <<>> BY DEF CepNothing
  <2> QED BY <1>2, <1>3, <2>1, <2>2, <2>3, <2>4 DEF CepOrder
<1> QED BY <1>1, <1>2, <1>3, <1>4, <1>5, <1>6, <1>7 DEF CepDone

LEMMA CepInitially == CepInit => CepInv
<1> SUFFICES ASSUME CepInit PROVE CepInv OBVIOUS
<1>1. cep = CepFresh /\ cepIn = <<>> /\ cepFed = <<>> /\ cepSaid = <<>> BY DEF CepInit
<1> QED BY <1>1, CepBegins DEF CepInv

\* What has to come out for the items looked at, and what the one at hand adds.
CepNow == CepTold(cepFed)[CepDone(cep, cepIn, cepFed)]

LEMMA CepNowTells ==
  ASSUME CepInv
  PROVE  /\ CepTelling(CepNow) /\ Len(cepFed) \in Nat
         /\ CepDone(cep, cepIn, cepFed) \in 0 .. Len(cepFed)
<1>1. Listed(cepFed) /\ \A k \in 1 .. Len(cepFed) : CepKnown(cepFed[k]) BY DEF CepInv, CepItems
<1>2. Len(cepFed) \in Nat BY <1>1, ListedLen
<1>3. CepDone(cep, cepIn, cepFed) \in 0 .. Len(cepFed) BY <1>2 DEF CepDone, CepInv, CepItems
<1> QED BY <1>1, <1>2, <1>3, ToldTells DEF CepNow

LEMMA CepNextTells ==
  ASSUME CepInv, cep.inBuf # <<>>
  PROVE  /\ CepItem = cepFed[Len(cepFed)] /\ CepKnown(CepItem) /\ CepItem.id = Len(cepFed)
         /\ cep.procState # "COLLECT" /\ cepIn = <<>>
         /\ CepTold(cepFed)[Len(cepFed)] = CepAdd(CepNow, CepItem)
<1>1. /\ Len(cepFed) # 0 /\ cep.inBuf = <<cepFed[Len(cepFed)]>> /\ cepIn = <<>>
      /\ cep.procState # "COLLECT" /\ Listed(cepFed)
  BY DEF CepInv, CepItems
<1>2. Len(cepFed) \in 1 .. Len(cepFed)
  <2>1. Len(cepFed) \in Nat BY <1>1, ListedLen
  <2> QED BY <1>1, <2>1
<1>3. CepItem = cepFed[Len(cepFed)] BY <1>1 DEF CepItem
<1>4. CepKnown(CepItem) /\ CepItem.id = Len(cepFed) BY <1>2, <1>3 DEF CepInv, CepItems
<1>5. CepDone(cep, cepIn, cepFed) = Len(cepFed) - 1 BY DEF CepDone
<1>6. CepTold(cepFed)[Len(cepFed)] = CepAdd(CepTold(cepFed)[Len(cepFed) - 1], cepFed[Len(cepFed)])
  BY <1>1, <1>2, ToldStep
<1> QED BY <1>1, <1>3, <1>4, <1>5, <1>6 DEF CepNow

\* A step that looks at an item, or for one, and leaves the sentence as it is.
CepSameSentence(x, y) ==
  y.index = x.index /\ y.headx = x.headx /\ y.readPos = x.readPos /\ y.bottom = x.bottom

LEMMA QuietOrder ==
  ASSUME NEW a, NEW x, NEW said, CepOrder(a, x, said), NEW b, NEW y,
         b.out = a.out, b.frames = a.frames, b.ignored = y.ignore, CepSameSentence(x, y),
         x.procState # "FEED", y.procState # "FEED", ~CepSmoothing(x), ~CepSmoothing(y),
         CepEnding(x) => CepEnding(y)
  PROVE  CepOrder(b, y, said)
<1>1. CepWaits(x) = 0 /\ CepWaits(y) = 0 BY DEF CepWaits
<1>2. CepSaidRight(b.out, y, said) BY <1>1 DEF CepOrder, CepSaidRight, CepSameSentence
<1> QED BY <1>2 DEF CepOrder, CepSameSentence

LEMMA CepCollectKeeps == ASSUME CepInv, CepCollect PROVE CepInv'
<1> PICK x, y : x = cep /\ y = cep' OBVIOUS
<1>1. /\ CepFields(x) /\ x.procState = "COLLECT" /\ cepIn # <<>>
      /\ y = [x EXCEPT !.inBuf = cepIn, !.procState = "PARSE"]
      /\ cepIn' = <<>> /\ cepFed' = cepFed /\ cepSaid' = cepSaid
  BY DEF CepInv, CepCollect
<1>2. /\ x.inBuf = <<>> /\ Len(cepFed) # 0 /\ cepIn = <<cepFed[Len(cepFed)]>>
      /\ Listed(cepFed) /\ \A k \in 1 .. Len(cepFed) : cepFed[k].id = k /\ CepKnown(cepFed[k])
  BY <1>1 DEF CepInv, CepItems
<1>3. y.procState = "PARSE" /\ y.inBuf = cepIn /\ y.jammed = x.jammed /\ y.ignore = x.ignore
      /\ CepSameSentence(x, y)
  BY <1>1 DEF CepFields, CepSameSentence
<1>4. CepFields(y) BY <1>1 DEF CepFields
<1>5. CepItems(y, <<>>, cepFed)
  BY <1>2, <1>3 DEF CepItems
<1>6. CepDone(y, <<>>, cepFed) = CepDone(x, cepIn, cepFed) BY <1>1, <1>2, <1>3 DEF CepDone
<1>7. ASSUME NEW a, CepOrder(a, x, cepSaid) PROVE CepOrder(a, y, cepSaid)
  <2>1. ~CepEnding(x) BY <1>2 DEF CepEnding
  <2>2. ~CepSmoothing(x) /\ ~CepSmoothing(y) BY <1>1, <1>3 DEF CepSmoothing
  <2>3. a.ignored = y.ignore BY <1>3, <1>7 DEF CepOrder
  <2> QED BY <1>1, <1>3, <1>7, <2>1, <2>2, <2>3, QuietOrder
<1> QED BY <1>1, <1>3, <1>4, <1>5, <1>6, <1>7 DEF CepInv

LEMMA CepParseEndKeeps == ASSUME CepInv, CepParseEnd PROVE CepInv'
<1> PICK x, y : x = cep /\ y = cep' OBVIOUS
<1>1. /\ CepFields(x) /\ x.procState = "PARSE" /\ x.inBuf = <<>>
      /\ y = [x EXCEPT !.procState = "COLLECT"]
      /\ cepIn' = cepIn /\ cepFed' = cepFed /\ cepSaid' = cepSaid
  BY DEF CepInv, CepParseEnd, CepInside
<1>2. y.procState = "COLLECT" /\ y.inBuf = x.inBuf /\ y.jammed = x.jammed /\ y.ignore = x.ignore
      /\ CepSameSentence(x, y)
  BY <1>1 DEF CepFields, CepSameSentence
<1>3. CepFields(y) BY <1>1 DEF CepFields
<1>4. CepItems(y, cepIn, cepFed) BY <1>1, <1>2 DEF CepInv, CepItems
<1>5. CepDone(y, cepIn, cepFed) = CepDone(x, cepIn, cepFed) BY <1>1, <1>2 DEF CepDone
<1>6. ASSUME NEW a, CepOrder(a, x, cepSaid) PROVE CepOrder(a, y, cepSaid)
  <2>1. ~CepEnding(x) BY <1>1 DEF CepEnding
  <2>2. ~CepSmoothing(x) /\ ~CepSmoothing(y) BY <1>1, <1>2 DEF CepSmoothing
  <2>3. a.ignored = y.ignore BY <1>2, <1>6 DEF CepOrder
  <2> QED BY <1>1, <1>2, <1>6, <2>1, <2>2, <2>3, QuietOrder
<1> QED BY <1>1, <1>2, <1>3, <1>4, <1>5, <1>6 DEF CepInv

\* A step that is done with the item at hand.
LEMMA CepConsumes ==
  ASSUME CepInv, cep.inBuf # <<>>, NEW y, CepFields(y), y.inBuf = <<>>, y.procState # "COLLECT",
         cep' = y, UNCHANGED <<cepIn, cepFed, cepSaid>>,
         y.jammed \/ (~cep.jammed /\ CepOrder(CepAdd(CepNow, CepItem), y, cepSaid))
  PROVE  CepInv'
<1>1. cepIn = <<>> BY CepNextTells
<1>2. CepItems(y, <<>>, cepFed) BY DEF CepInv, CepItems
<1>3. CepDone(y, <<>>, cepFed) = Len(cepFed) BY DEF CepDone
<1>4. CepTold(cepFed)[Len(cepFed)] = CepAdd(CepNow, CepItem) BY CepNextTells
<1> QED BY <1>1, <1>2, <1>3, <1>4 DEF CepInv

\* Nothing is heard of the item at hand.
LEMMA CepMutedKeeps ==
  ASSUME CepInv, CepParsing, NEW ignore \in BOOLEAN,
         cep.ignore \/ ~forwardingItem(CepItem),
         ignore = IF cep.ignore THEN ~CepIgnsig(CepItem, "END") ELSE CepIgnsig(CepItem, "START"),
         cep' = [CepConsumed EXCEPT !.ignore = ignore], CepInside
  PROVE  CepInv'
<1> PICK x, y : x = cep /\ y = cep' OBVIOUS
<1>1. /\ CepFields(x) /\ x.procState = "PARSE" /\ x.inBuf # <<>>
      /\ y = [[x EXCEPT !.inBuf = <<>>] EXCEPT !.ignore = ignore]
      /\ cepIn' = cepIn /\ cepFed' = cepFed /\ cepSaid' = cepSaid
  BY DEF CepInv, CepParsing, CepInside, CepConsumed
<1>2. y.procState = "PARSE" /\ y.inBuf = <<>> /\ y.jammed = x.jammed /\ y.ignore = ignore
      /\ CepSameSentence(x, y)
  BY <1>1 DEF CepFields, CepSameSentence
<1>3. CepFields(y) BY <1>1 DEF CepFields
<1>4. ASSUME CepOrder(CepNow, x, cepSaid) PROVE CepOrder(CepAdd(CepNow, CepItem), y, cepSaid)
  <2> PICK a, b : a = CepNow /\ b = CepAdd(CepNow, CepItem) OBVIOUS
  <2>1. CepTelling(a) /\ CepKnown(CepItem) BY <1>1, CepNowTells, CepNextTells
  <2>2. a.ignored = x.ignore BY <1>4 DEF CepOrder
  <2>3. a.ignored \/ ~forwardingItem(CepItem) BY <2>2
  <2>4. /\ b.out = a.out \o CepAddition(a, CepItem) /\ CepAddition(a, CepItem) = <<>>
        /\ b.frames = a.frames
        /\ b.ignored = IF a.ignored THEN ~CepIgnsig(CepItem, "END") ELSE CepIgnsig(CepItem, "START")
    BY <2>1, <2>3, AddIs
  <2>5. b.out = a.out
    <3>1. a.out \in Seq(CepWhat) BY <2>1 DEF CepTelling
    <3>2. a.out \o <<>> = a.out BY <3>1
    <3> QED BY <2>4, <3>2
  <2>6. b.ignored = y.ignore BY <1>2, <2>2, <2>4
  <2>7. ~CepSmoothing(x) /\ ~CepSmoothing(y) BY <1>1, <1>2 DEF CepSmoothing
  <2>8. ~CepEnding(x)
    <3>1. CASE x.ignore BY <3>1 DEF CepEnding
    <3>2. CASE ~forwardingItem(CepItem)
      <4>1. ~CepCloses(CepItem) BY <3>2 DEF forwardingItem, CepCloses
      <4> QED BY <4>1 DEF CepEnding, CepItem
    <3> QED BY <3>1, <3>2
  <2>9. CepOrder(a, x, cepSaid) BY <1>4
  <2>10. CepOrder(b, y, cepSaid)
    BY <1>1, <1>2, <2>4, <2>5, <2>6, <2>7, <2>8, <2>9, QuietOrder
  <2> QED BY <2>10
<1>5. y.jammed \/ (~cep.jammed /\ CepOrder(CepAdd(CepNow, CepItem), y, cepSaid))
  <2>1. x.jammed \in BOOLEAN BY <1>1 DEF CepFields
  <2>2. x.jammed \/ CepOrder(CepNow, x, cepSaid) BY DEF CepInv, CepNow
  <2> QED BY <1>2, <1>4, <2>1, <2>2
<1> QED BY <1>1, <1>2, <1>3, <1>5, CepConsumes

LEMMA CepParseIgnoredKeeps == ASSUME CepInv, CepParseIgnored PROVE CepInv'
<1> PICK ignore : ignore = ~CepIgnsig(CepItem, "END") OBVIOUS
<1>1. CepIgnsig(CepItem, "END") \in BOOLEAN BY DEF CepIgnsig
<1>2. ignore \in BOOLEAN BY <1>1
<1>3. CepParsing /\ cep.ignore /\ CepInside /\ cep' = [CepConsumed EXCEPT !.ignore = ignore]
  BY DEF CepParseIgnored
<1>4. ignore = IF cep.ignore THEN ~CepIgnsig(CepItem, "END") ELSE CepIgnsig(CepItem, "START")
  BY <1>3
<1> QED BY <1>2, <1>3, <1>4, CepMutedKeeps

LEMMA CepParseCloseKeeps == ASSUME CepInv, CepParseClose PROVE CepInv'
<1> PICK x, y : x = cep /\ y = cep' OBVIOUS
<1>1. /\ CepFields(x) /\ x.procState = "PARSE" /\ x.inBuf # <<>> /\ ~x.ignore
      /\ CepCloses(Head(x.inBuf)) /\ x.index # <<>>
      /\ y = [x EXCEPT !.activeEnd = Len(x.index), !.sentenceEnd = TRUE, !.procState = "SMOOTH"]
      /\ cepIn' = cepIn /\ cepFed' = cepFed /\ cepSaid' = cepSaid
  BY DEF CepInv, CepParsing, CepParseClose, CepInside, CepItem
<1>2. /\ y.procState = "SMOOTH" /\ y.inBuf = x.inBuf /\ y.jammed = x.jammed /\ y.ignore = x.ignore
      /\ y.sentenceEnd = TRUE /\ y.activeEnd = Len(x.index)
      /\ CepSameSentence(x, y)
  BY <1>1 DEF CepFields, CepSameSentence
<1>3. CepFields(y) BY <1>1 DEF CepFields
<1>4. CepItems(y, cepIn, cepFed) BY <1>1, <1>2 DEF CepInv, CepItems
<1>5. CepDone(y, cepIn, cepFed) = CepDone(x, cepIn, cepFed) BY <1>1, <1>2 DEF CepDone
<1>6. ASSUME NEW a, CepOrder(a, x, cepSaid) PROVE CepOrder(a, y, cepSaid)
  <2>1. CepEnding(x) /\ CepEnding(y) BY <1>1, <1>2 DEF CepEnding
  <2>2. ~CepSmoothing(x) /\ CepSmoothing(y) BY <1>1, <1>2 DEF CepSmoothing
  <2>3. CepWaits(x) = 0 /\ CepWaits(y) = 0 BY <1>1, <1>2 DEF CepWaits
  <2>4. CepSaidRight(a.out, y, cepSaid)
    BY <1>1, <1>2, <1>6, <2>3 DEF CepOrder, CepSaidRight, CepSameSentence
  <2> QED BY <1>1, <1>2, <1>6, <2>1, <2>2, <2>4 DEF CepOrder, CepSameSentence
<1> QED BY <1>1, <1>2, <1>3, <1>4, <1>5, <1>6 DEF CepInv

\* The frames of a phone, as many as fit in the window.
LEMMA TreatPhone ==
  ASSUME NEW x, CepFields(x), NEW item, CepKnown(item), item.type = "PHONE"
  PROVE  /\ CepFit(Len(x.index), item) \in 0 .. Len(CepFramesOf(item))
         /\ treat_phone(x, item) =
              [x EXCEPT !.index = @ \o SubSeq(CepFramesOf(item), 1, CepFit(Len(x.index), item))]
         /\ SubSeq(CepFramesOf(item), 1, CepFit(Len(x.index), item)) \in Seq(CepWhat)
         /\ Len(x.index) + Len(SubSeq(CepFramesOf(item), 1, CepFit(Len(x.index), item))) <= CepMaxWin
<1>1. Len(x.index) \in 0 .. CepMaxWin /\ CepMaxWin \in Nat BY CepAssumption DEF CepFields
<1>2. treat_phone(x, item) =
        [x EXCEPT !.index = @ \o SubSeq(CepFramesOf(item), 1, CepFit(Len(x.index), item))]
  BY Zenon DEF treat_phone, CepFit
<1> PICK n, more : n = CepFit(Len(x.index), item)
                   /\ more = SubSeq(CepFramesOf(item), 1, CepFit(Len(x.index), item)) OBVIOUS
<1>3. /\ n \in 0 .. Len(CepFramesOf(item)) /\ Len(x.index) + n \in 0 .. CepMaxWin
      /\ more \in Seq(CepWhat) /\ Len(more) = n
  BY <1>1, FitBound
<1>4. Len(x.index) + Len(more) <= CepMaxWin BY ONLY <1>1, <1>3
<1> QED BY <1>2, <1>3, <1>4

LEMMA CepParsePhoneKeeps == ASSUME CepInv, CepParsePhone PROVE CepInv'
<1> PICK x, y, item : x = cep /\ y = cep' /\ item = CepItem OBVIOUS
<1> PICK more : more = SubSeq(CepFramesOf(item), 1, CepFit(Len(x.index), item)) OBVIOUS
<1>1. /\ CepFields(x) /\ x.procState = "PARSE" /\ x.inBuf # <<>> /\ ~x.ignore
      /\ item.type = "PHONE" /\ item = Head(x.inBuf)
      /\ y = [treat_phone(x, item) EXCEPT !.inBuf = <<>>]
      /\ cepIn' = cepIn /\ cepFed' = cepFed /\ cepSaid' = cepSaid
  BY DEF CepInv, CepParsing, CepParsePhone, CepInside, CepItem
<1>2. CepKnown(item) BY <1>1, CepNextTells
<1>3. /\ more \in Seq(CepWhat) /\ Len(x.index) + Len(more) <= CepMaxWin
      /\ treat_phone(x, item) = [x EXCEPT !.index = @ \o more]
  BY <1>1, <1>2, TreatPhone
<1>4. y = [[x EXCEPT !.index = @ \o more] EXCEPT !.inBuf = <<>>] BY <1>1, <1>3
<1>5. /\ y.procState = "PARSE" /\ y.inBuf = <<>> /\ y.jammed = x.jammed /\ y.ignore = x.ignore
      /\ y.index = x.index \o more /\ y.headx = x.headx /\ y.readPos = x.readPos
      /\ y.bottom = x.bottom
  BY <1>1, <1>4 DEF CepFields
<1>6. /\ x.index \in Seq(CepWhat) /\ x.headx \in Seq(CepHead)
      /\ y.index \in Seq(CepWhat) /\ Len(y.index) = Len(x.index) + Len(more)
      /\ Len(x.index) \in Nat /\ Len(x.headx) \in Nat /\ Len(more) \in Nat
  <2>1. x.index \in Seq(CepWhat) /\ x.headx \in Seq(CepHead) BY <1>1 DEF CepFields
  <2>2. more \in Seq(CepWhat) /\ y.index = x.index \o more BY <1>3, <1>5
  <2> QED BY ONLY <2>1, <2>2
<1>7. CepFields(y)
  <2>1. y = [procState |-> y.procState, follow |-> y.follow, ignore |-> y.ignore,
          sentenceEnd |-> y.sentenceEnd, inBuf |-> y.inBuf, headx |-> y.headx,
          bottom |-> y.bottom, cbuf |-> y.cbuf, index |-> y.index, readPos |-> y.readPos,
          activeEnd |-> y.activeEnd, outBuf |-> y.outBuf, jammed |-> y.jammed]
        /\ y.follow = x.follow
    BY <1>1, <1>4 DEF CepFields
  <2>2. Len(y.index) <= CepMaxWin BY <1>3, <1>6
  <2> QED BY <1>1, <1>5, <1>6, <2>1, <2>2 DEF CepFields
<1>8. ASSUME CepOrder(CepNow, x, cepSaid) PROVE CepOrder(CepAdd(CepNow, item), y, cepSaid)
  <2> PICK a, b : a = CepNow /\ b = CepAdd(CepNow, item) OBVIOUS
  <2>0. CepOrder(a, x, cepSaid) BY <1>8
  <2>1. CepTelling(a) BY <1>1, CepNowTells
  <2>2. a.ignored = FALSE BY <1>1, <2>0 DEF CepOrder, CepFields
  <2>3. ~CepEnding(x)
    <3>1. ~CepCloses(item) BY <1>1 DEF CepCloses
    <3> QED BY <1>1, <3>1 DEF CepEnding
  <2>4. a.frames = Len(x.index) BY <2>0, <2>3 DEF CepOrder
  <2>5. /\ b.out = a.out \o more /\ b.frames = a.frames + Len(more)
        /\ b.ignored = CepIgnsig(item, "START")
    <3>1. /\ CepAddition(a, item) = SubSeq(CepFramesOf(item), 1, CepFit(a.frames, item))
          /\ b.out = a.out \o CepAddition(a, item)
          /\ b.frames = a.frames + Len(CepAddition(a, item))
          /\ b.ignored = CepIgnsig(item, "START")
      <4>1. CepTelling(a) /\ CepKnown(item) /\ ~a.ignored /\ item.type = "PHONE" /\ b = CepAdd(a, item)
        BY <1>1, <1>2, <2>1, <2>2
      <4> QED BY ONLY <4>1, AddIs
    <3>2. CepAddition(a, item) = more BY <2>4, <3>1
    <3> QED BY ONLY <3>1, <3>2
  <2>6. CepIgnsig(item, "START") = FALSE BY <1>1 DEF CepIgnsig
  <2>7. b.ignored = y.ignore BY <1>1, <1>5, <2>5, <2>6 DEF CepFields
  <2>8. b.frames = Len(y.index) BY <1>6, <2>4, <2>5
  <2>9. a.out \in Seq(CepWhat) BY <2>1 DEF CepTelling
  <2>10. CepPlaced(b.out, y.index, y.headx)
    <3>1. CepPlaced(a.out, x.index, x.headx) BY <2>0 DEF CepOrder
    <3>2. CepPlaced(a.out \o more, x.index \o more, x.headx)
      BY ONLY <1>3, <1>6, <2>9, <3>1, PlacedFrames
    <3> QED BY ONLY <1>5, <2>5, <3>2
  <2>11. ~CepSmoothing(x) /\ ~CepSmoothing(y) BY <1>1, <1>5 DEF CepSmoothing
  <2>12. x.readPos = 0 /\ x.bottom = 0 BY <2>0, <2>11 DEF CepOrder
  <2>13. CepReached(y.index, y.headx, y.readPos, y.bottom)
    <3>1. CepReached(x.index, x.headx, 0, 0) BY <2>0, <2>12 DEF CepOrder
    <3> QED BY <1>5, <1>6, <2>12, <3>1 DEF CepReached
  <2>14. CepSaidRight(b.out, y, cepSaid)
    <3>1. CepSaidRight(a.out, x, cepSaid) BY <2>0 DEF CepOrder
    <3>2. CepWaits(x) = 0 /\ CepWaits(y) = 0 BY <1>1, <1>5 DEF CepWaits
    <3>3. /\ Len(b.out) = Len(a.out) + Len(more) /\ Len(a.out) \in Nat
          /\ \A i \in 1 .. Len(a.out) : b.out[i] = a.out[i]
      BY <1>3, <2>5, <2>9
    <3>4. /\ cepSaid \in Seq(CepWhat)
          /\ Len(cepSaid) + 0 = Len(a.out) - (Len(x.index) - 0) - (Len(x.headx) - 0)
          /\ \A i \in 1 .. Len(cepSaid) : cepSaid[i] = a.out[i]
      BY ONLY <2>12, <3>1, <3>2 DEF CepSaidRight
    <3> PICK n, o, i, h, m : n = Len(cepSaid) /\ o = Len(a.out) /\ i = Len(x.index) /\ h = Len(x.headx)
                             /\ m = Len(more)
      OBVIOUS
    <3>5. n \in Nat /\ o \in Nat /\ i \in Nat /\ h \in Nat /\ m \in Nat
      <4>1. cepSaid \in Seq(CepWhat) BY <3>4
      <4>2. n \in Nat BY ONLY <4>1, n = Len(cepSaid)
      <4> QED BY ONLY <1>6, <3>3, <4>2, o = Len(a.out), i = Len(x.index), h = Len(x.headx), m = Len(more)
    <3>6. n + 0 = o - (i - 0) - (h - 0) BY <3>4
    <3>7. n <= o /\ n + 0 = (o + m) - ((i + m) - 0) - (h - 0) BY ONLY <3>5, <3>6
    <3>8. Len(b.out) = o + m /\ Len(y.index) = i + m /\ Len(y.headx) = h BY <1>5, <1>6, <3>3
    <3>9. \A k \in 1 .. Len(cepSaid) : cepSaid[k] = b.out[k]
      <4>1. \A k \in 1 .. n : k \in 1 .. o BY ONLY <3>5, <3>7
      <4> QED BY <3>3, <3>4, <4>1
    <3>10. Len(cepSaid) + 0 = Len(b.out) - (Len(y.index) - 0) - (Len(y.headx) - 0)
      BY <3>7, <3>8
    <3>11. y.procState # "FEED" /\ y.readPos = 0 /\ y.bottom = 0 BY <1>5, <2>12
    <3> QED BY ONLY <3>2, <3>4, <3>9, <3>10, <3>11 DEF CepSaidRight
  <2>15. y.index = <<>> => y.headx = <<>>
    <3>1. y.index = <<>> => x.index = <<>> BY <1>3, <1>5, <1>6
    <3> QED BY <1>5, <2>0, <3>1 DEF CepOrder
  <2>16. CepOrder(b, y, cepSaid)
    BY ONLY <1>5, <2>7, <2>8, <2>10, <2>11, <2>12, <2>13, <2>14, <2>15 DEF CepOrder
  <2> QED BY <2>16
<1>9. y.jammed \/ (~cep.jammed /\ CepOrder(CepAdd(CepNow, CepItem), y, cepSaid))
  <2>1. x.jammed \in BOOLEAN BY <1>1 DEF CepFields
  <2>2. x.jammed \/ CepOrder(CepNow, x, cepSaid) BY DEF CepInv, CepNow
  <2> QED BY <1>5, <1>8, <2>1, <2>2
<1>10. cep.inBuf # <<>> /\ y.procState # "COLLECT" BY <1>1, <1>5
<1> QED BY <1>1, <1>5, <1>7, <1>9, <1>10, CepConsumes

\* A step that leaves the items fed, and the one at hand, alone.
LEMMA CepMoves ==
  ASSUME CepInv, NEW y, CepFields(y), y.inBuf = cep.inBuf,
         y.procState # "COLLECT", cep.procState # "COLLECT",
         cep' = y, cepIn' = cepIn, cepFed' = cepFed,
         y.jammed \/ (~cep.jammed /\ (CepOrder(CepNow, cep, cepSaid) => CepOrder(CepNow, y, cepSaid')))
  PROVE  CepInv'
<1>1. CepItems(y, cepIn, cepFed) BY DEF CepInv, CepItems
<1>2. CepDone(y, cepIn, cepFed) = CepDone(cep, cepIn, cepFed) BY DEF CepDone
<1>3. y.jammed \/ CepOrder(CepTold(cepFed)[CepDone(y, cepIn, cepFed)], y, cepSaid')
  BY <1>2 DEF CepInv, CepNow
<1> QED BY <1>1, <1>3 DEF CepInv

\* An item that finds no frames waits for cbOut by itself.
LEMMA CepAtOnceKeeps ==
  ASSUME CepInv, CepParsing, ~cep.ignore, CepItem.type # "PHONE", forwardingItem(CepItem),
         cep.index = <<>>, CepInside,
         cep' = CepPut(CepConsumed, [kind |-> "item", id |-> CepItem.id], "PARSE")
  PROVE  CepInv'
<1> PICK x, y, item, this : x = cep /\ y = cep' /\ item = CepItem /\ this = [kind |-> "item", id |-> CepItem.id]
  OBVIOUS
<1>1. /\ CepFields(x) /\ x.procState = "PARSE" /\ x.inBuf # <<>> /\ ~x.ignore /\ x.index = <<>>
      /\ item.type # "PHONE" /\ forwardingItem(item) /\ item = Head(x.inBuf)
      /\ y = [[x EXCEPT !.inBuf = <<>>] EXCEPT !.outBuf = <<this>>, !.follow = "PARSE", !.procState = "FEED"]
      /\ cepIn' = cepIn /\ cepFed' = cepFed /\ cepSaid' = cepSaid
  BY DEF CepInv, CepParsing, CepInside, CepItem, CepConsumed, CepPut
<1>2. CepKnown(item) BY <1>1, CepNextTells
<1>3. this \in CepWhat BY <1>2 DEF CepKnown, CepWhat
<1>4. /\ y.procState = "FEED" /\ y.inBuf = <<>> /\ y.follow = "PARSE" /\ y.outBuf = <<this>>
      /\ y.jammed = x.jammed /\ y.ignore = x.ignore
      /\ CepSameSentence(x, y)
  BY <1>1 DEF CepFields, CepSameSentence
<1>5. CepFields(y) BY <1>1 DEF CepFields
<1>6. ASSUME CepOrder(CepNow, x, cepSaid) PROVE CepOrder(CepAdd(CepNow, item), y, cepSaid)
  <2> PICK a, b : a = CepNow /\ b = CepAdd(CepNow, item) OBVIOUS
  <2>0. CepOrder(a, x, cepSaid) BY <1>6
  <2>1. CepTelling(a) BY <1>1, CepNowTells
  <2>2. a.ignored = FALSE BY <1>1, <2>0 DEF CepOrder, CepFields
  <2>3. /\ b.out = a.out \o CepAddition(a, item) /\ CepAddition(a, item) = <<[kind |-> "item", id |-> item.id]>>
        /\ b.frames = IF CepCloses(item) THEN 0 ELSE a.frames
        /\ b.ignored = CepIgnsig(item, "START")
    <3>1. /\ CepTelling(a) /\ CepKnown(item) /\ ~a.ignored /\ forwardingItem(item)
          /\ item.type # "PHONE" /\ b = CepAdd(a, item)
      BY <1>1, <1>2, <2>1, <2>2
    <3> QED BY ONLY <3>1, AddIs
  <2>4. b.out = a.out \o <<this>> BY <2>3
  <2>5. b.ignored = y.ignore
    <3>1. CepIgnsig(item, "START") = FALSE BY <1>1 DEF CepIgnsig, forwardingItem
    <3> QED BY <1>4, <2>0, <2>2, <2>3, <3>1 DEF CepOrder
  <2>6. b.frames = 0
    <3>1. Len(x.index) = 0 BY <1>1
    <3>2. CepEnding(x) => CepCloses(item) BY <1>1 DEF CepEnding
    <3> QED BY <2>0, <2>3, <3>1, <3>2 DEF CepOrder
  <2>7. x.headx = <<>> /\ y.index = <<>> /\ y.headx = <<>> BY <1>1, <1>4, <2>0 DEF CepOrder, CepSameSentence
  <2>8. ~CepSmoothing(x) /\ ~CepSmoothing(y) BY <1>1, <1>4 DEF CepSmoothing
  <2>9. y.readPos = 0 /\ y.bottom = 0 /\ x.readPos = 0 /\ x.bottom = 0
    BY <1>4, <2>0, <2>8 DEF CepOrder, CepSameSentence
  <2>10. a.out \in Seq(CepWhat) /\ b.out \in Seq(CepWhat) BY <1>3, <2>1, <2>4 DEF CepTelling
  <2>11. CepPlaced(b.out, y.index, y.headx) /\ CepReached(y.index, y.headx, y.readPos, y.bottom)
    BY <2>7, <2>9, <2>10, PlacedEmpty
  <2>12. CepSaidRight(b.out, y, cepSaid)
    <3>1. CepSaidRight(a.out, x, cepSaid) BY <2>0 DEF CepOrder
    <3>2. CepWaits(x) = 0 /\ CepWaits(y) = 1 BY <1>1, <1>4 DEF CepWaits
    <3>3. /\ Len(b.out) = Len(a.out) + 1 /\ Len(a.out) \in Nat
          /\ \A i \in 1 .. Len(a.out) : b.out[i] = a.out[i]
          /\ b.out[Len(a.out) + 1] = this
      BY <1>3, <2>4, <2>10
    <3>4. Len(x.index) = 0 /\ Len(x.headx) = 0 /\ Len(y.index) = 0 /\ Len(y.headx) = 0 BY <1>1, <2>7
    <3>5. /\ cepSaid \in Seq(CepWhat)
          /\ Len(cepSaid) + 0 = Len(a.out) - (0 - 0) - (0 - 0)
          /\ \A i \in 1 .. Len(cepSaid) : cepSaid[i] = a.out[i]
      BY ONLY <2>9, <3>1, <3>2, <3>4 DEF CepSaidRight
    <3>6. Len(cepSaid) \in Nat BY <3>5
    <3>7. Len(cepSaid) = Len(a.out) BY ONLY <3>3, <3>5, <3>6
    <3>8. Len(cepSaid) + 1 = Len(b.out) - (0 - 0) - (0 - 0) BY ONLY <3>3, <3>7
    <3>9. \A i \in 1 .. Len(cepSaid) : cepSaid[i] = b.out[i] BY ONLY <3>3, <3>5, <3>7
    <3>10. b.out[Len(cepSaid) + 1] = this BY ONLY <3>3, <3>7
    <3> QED BY ONLY <1>3, <1>4, <2>9, <3>2, <3>4, <3>5, <3>8, <3>9, <3>10 DEF CepSaidRight
  <2>13. b.frames = Len(y.index) BY <2>6, <2>7
  <2>14. CepOrder(b, y, cepSaid)
    BY ONLY <1>4, <2>5, <2>7, <2>8, <2>9, <2>11, <2>12, <2>13 DEF CepOrder
  <2> QED BY <2>14
<1>7. y.jammed \/ (~cep.jammed /\ CepOrder(CepAdd(CepNow, CepItem), y, cepSaid))
  <2>1. x.jammed \in BOOLEAN BY <1>1 DEF CepFields
  <2>2. x.jammed \/ CepOrder(CepNow, x, cepSaid) BY DEF CepInv, CepNow
  <2> QED BY <1>4, <1>6, <2>1, <2>2
<1>8. cep.inBuf # <<>> /\ y.procState # "COLLECT" BY <1>1, <1>4
<1> QED BY <1>1, <1>4, <1>5, <1>7, <1>8, CepConsumes

\* An item that finds frames is kept with the last of them.
LEMMA CepKeptKeeps ==
  ASSUME CepInv, CepParsing, ~cep.ignore, CepItem.type # "PHONE", forwardingItem(CepItem),
         ~CepCloses(CepItem), cep.index # <<>>, Len(cep.headx) < CepHeadxCap, CepInside,
         cep' = [CepConsumed EXCEPT
                   !.headx = Append(@, [what |-> [kind |-> "item", id |-> CepItem.id],
                                        frame |-> Len(cep.index)]),
                   !.cbuf = @ + CepItem.len]
  PROVE  CepInv'
<1> PICK x, y, item, this : x = cep /\ y = cep' /\ item = CepItem /\ this = [kind |-> "item", id |-> CepItem.id]
  OBVIOUS
<1> PICK e : e = [what |-> this, frame |-> Len(x.index)] OBVIOUS
<1> PICK len : len = x.cbuf + item.len OBVIOUS
<1>1. /\ CepFields(x) /\ x.procState = "PARSE" /\ x.inBuf # <<>> /\ ~x.ignore /\ x.index # <<>>
      /\ item.type # "PHONE" /\ forwardingItem(item) /\ item = Head(x.inBuf) /\ ~CepCloses(item)
      /\ y = [[x EXCEPT !.inBuf = <<>>] EXCEPT !.headx = Append(@, e), !.cbuf = @ + item.len]
      /\ cepIn' = cepIn /\ cepFed' = cepFed /\ cepSaid' = cepSaid
  BY DEF CepInv, CepParsing, CepInside, CepItem, CepConsumed
<1>2. CepKnown(item) BY <1>1, CepNextTells
<1>3. this \in CepWhat BY <1>2 DEF CepKnown, CepWhat
<1>4. /\ y.procState = "PARSE" /\ y.inBuf = <<>> /\ y.headx = Append(x.headx, e) /\ y.index = x.index
      /\ y.jammed = x.jammed /\ y.ignore = x.ignore /\ y.readPos = x.readPos /\ y.bottom = x.bottom
      /\ y.follow = x.follow
  BY <1>1 DEF CepFields
<1>5. /\ x.index \in Seq(CepWhat) /\ x.headx \in Seq(CepHead) /\ Len(x.index) <= CepMaxWin
      /\ Len(x.headx) < CepHeadxCap
  BY <1>1 DEF CepFields
<1>6. /\ e \in CepHead /\ y.headx \in Seq(CepHead) /\ Len(y.headx) = Len(x.headx) + 1
      /\ Len(x.index) \in Nat /\ Len(x.headx) \in Nat
      /\ \A h \in 1 .. Len(y.headx) : y.headx[h].frame \in Nat
  <2>1. Len(x.index) \in Nat BY <1>5
  <2>2. e \in CepHead BY <1>3, <2>1 DEF CepHead
  <2>3. y.headx \in Seq(CepHead) /\ Len(y.headx) = Len(x.headx) + 1 /\ Len(x.headx) \in Nat
    <3>1. y.headx = Append(x.headx, e) BY <1>4
    <3>2. x.headx \in Seq(CepHead) BY <1>5
    <3> QED BY ONLY <2>2, <3>1, <3>2
  <2> QED BY <2>1, <2>2, <2>3, HeadsKnown
<1>7. CepFields(y)
  <2>1. y = [procState |-> y.procState, follow |-> y.follow, ignore |-> y.ignore,
          sentenceEnd |-> y.sentenceEnd, inBuf |-> y.inBuf, headx |-> y.headx,
          bottom |-> y.bottom, cbuf |-> y.cbuf, index |-> y.index, readPos |-> y.readPos,
          activeEnd |-> y.activeEnd, outBuf |-> y.outBuf, jammed |-> y.jammed]
    BY <1>1 DEF CepFields
  <2>2. /\ x.follow \in {"PARSE", "FRAME"} /\ x.ignore \in BOOLEAN /\ x.jammed \in BOOLEAN
        /\ CepHeadxCap \in Nat
    BY <1>1, CepAssumption DEF CepFields
  <2>3. Len(y.headx) <= CepHeadxCap BY <1>5, <1>6, <2>2
  <2> QED BY ONLY <1>4, <1>5, <1>6, <2>1, <2>2, <2>3 DEF CepFields
<1>8. ASSUME CepOrder(CepNow, x, cepSaid) PROVE CepOrder(CepAdd(CepNow, item), y, cepSaid)
  <2> PICK a, b : a = CepNow /\ b = CepAdd(CepNow, item) OBVIOUS
  <2>0. CepOrder(a, x, cepSaid) BY <1>8
  <2>1. CepTelling(a) BY <1>1, CepNowTells
  <2>2. a.ignored = FALSE BY <1>1, <2>0 DEF CepOrder, CepFields
  <2>3. /\ b.out = a.out \o CepAddition(a, item) /\ CepAddition(a, item) = <<[kind |-> "item", id |-> item.id]>>
        /\ b.frames = IF CepCloses(item) THEN 0 ELSE a.frames
        /\ b.ignored = CepIgnsig(item, "START")
    <3>1. /\ CepTelling(a) /\ CepKnown(item) /\ ~a.ignored /\ forwardingItem(item)
          /\ item.type # "PHONE" /\ b = CepAdd(a, item)
      BY <1>1, <1>2, <2>1, <2>2
    <3> QED BY ONLY <3>1, AddIs
  <2>4. a.out \in Seq(CepWhat) BY <2>1 DEF CepTelling
  <2>5. b.out = Append(a.out, this)
    <3>1. b.out = a.out \o <<this>> BY <2>3
    <3>2. a.out \o <<this>> = Append(a.out, this) BY <1>3, <2>4
    <3> QED BY <3>1, <3>2
  <2>6. b.ignored = y.ignore
    <3>1. CepIgnsig(item, "START") = FALSE BY <1>1 DEF CepIgnsig, forwardingItem
    <3> QED BY <1>4, <2>0, <2>2, <2>3, <3>1 DEF CepOrder
  <2>7. b.frames = Len(y.index) BY <1>1, <1>4, <2>0, <2>3 DEF CepOrder
  <2>8. ~CepSmoothing(x) /\ ~CepSmoothing(y) BY <1>1, <1>4 DEF CepSmoothing
  <2>9. y.readPos = 0 /\ y.bottom = 0 /\ x.readPos = 0 /\ x.bottom = 0
    BY <1>4, <2>0, <2>8 DEF CepOrder
  <2>10. CepPlaced(b.out, y.index, y.headx)
    <3>1. CepPlaced(a.out, x.index, x.headx) BY <2>0 DEF CepOrder
    <3>2. CepPlaced(Append(a.out, this), x.index, Append(x.headx, [what |-> this, frame |-> Len(x.index)]))
      BY ONLY <1>1, <1>3, <1>5, <2>4, <3>1, PlacedItem
    <3> QED BY <1>4, <2>5, <3>2
  <2>11. CepReached(y.index, y.headx, y.readPos, y.bottom)
    <3>1. 0 \in 0 .. Len(y.index) /\ 0 \in 0 .. Len(y.headx) /\ 1 .. 0 = {} BY <1>4, <1>6
    <3>2. \A h \in 0 + 1 .. Len(y.headx) : y.headx[h].frame >= 0
      <4>1. \A h \in 1 .. Len(y.headx) : y.headx[h].frame >= 0 BY <1>6
      <4> QED BY <4>1
    <3> QED BY ONLY <2>9, <3>1, <3>2 DEF CepReached
  <2>12. CepSaidRight(b.out, y, cepSaid)
    <3>1. CepSaidRight(a.out, x, cepSaid) BY <2>0 DEF CepOrder
    <3>2. CepWaits(x) = 0 /\ CepWaits(y) = 0 BY <1>1, <1>4 DEF CepWaits
    <3>3. /\ Len(b.out) = Len(a.out) + 1 /\ Len(a.out) \in Nat
          /\ \A i \in 1 .. Len(a.out) : b.out[i] = a.out[i]
      BY <1>3, <2>4, <2>5
    <3>4. /\ cepSaid \in Seq(CepWhat)
          /\ Len(cepSaid) + 0 = Len(a.out) - (Len(x.index) - 0) - (Len(x.headx) - 0)
          /\ \A i \in 1 .. Len(cepSaid) : cepSaid[i] = a.out[i]
      BY ONLY <2>9, <3>1, <3>2 DEF CepSaidRight
    <3> PICK n, o, i, h : n = Len(cepSaid) /\ o = Len(a.out) /\ i = Len(x.index) /\ h = Len(x.headx)
      OBVIOUS
    <3>5. n \in Nat /\ o \in Nat /\ i \in Nat /\ h \in Nat
      <4>1. cepSaid \in Seq(CepWhat) BY <3>4
      <4>2. n \in Nat BY ONLY <4>1, n = Len(cepSaid)
      <4> QED BY ONLY <1>6, <3>3, <4>2, o = Len(a.out), i = Len(x.index), h = Len(x.headx)
    <3>6. n + 0 = o - (i - 0) - (h - 0) BY <3>4
    <3>7. n <= o /\ n + 0 = (o + 1) - (i - 0) - ((h + 1) - 0) BY ONLY <3>5, <3>6
    <3>8. Len(b.out) = o + 1 /\ Len(y.index) = i /\ Len(y.headx) = h + 1 BY <1>4, <1>6, <3>3
    <3>9. \A k \in 1 .. Len(cepSaid) : cepSaid[k] = b.out[k]
      <4>1. \A k \in 1 .. n : k \in 1 .. o BY ONLY <3>5, <3>7
      <4> QED BY <3>3, <3>4, <4>1
    <3>10. Len(cepSaid) + 0 = Len(b.out) - (Len(y.index) - 0) - (Len(y.headx) - 0)
      BY <3>7, <3>8
    <3>11. y.procState # "FEED" BY <1>4
    <3> QED BY ONLY <2>9, <3>2, <3>4, <3>9, <3>10, <3>11 DEF CepSaidRight
  <2>13. y.index # <<>> BY <1>1, <1>4
  <2>14. CepOrder(b, y, cepSaid)
    BY ONLY <1>4, <2>6, <2>7, <2>8, <2>9, <2>10, <2>11, <2>12, <2>13 DEF CepOrder
  <2> QED BY <2>14
<1>9. y.jammed \/ (~cep.jammed /\ CepOrder(CepAdd(CepNow, CepItem), y, cepSaid))
  <2>1. x.jammed \in BOOLEAN BY <1>1 DEF CepFields
  <2>2. x.jammed \/ CepOrder(CepNow, x, cepSaid) BY DEF CepInv, CepNow
  <2> QED BY <1>4, <1>8, <2>1, <2>2
<1>10. cep.inBuf # <<>> /\ y.procState # "COLLECT" BY <1>1, <1>4
<1> QED BY <1>1, <1>4, <1>7, <1>9, <1>10, CepConsumes

\* What comes out when there is no room is another matter.
LEMMA CepJamsKeeps ==
  ASSUME CepInv, CepParsing, CepInside, cep' = [cep EXCEPT !.procState = "SMOOTH", !.jammed = TRUE]
  PROVE  CepInv'
<1> PICK x, y : x = cep /\ y = cep' OBVIOUS
<1>1. /\ CepFields(x) /\ x.procState = "PARSE"
      /\ y = [x EXCEPT !.procState = "SMOOTH", !.jammed = TRUE]
      /\ cepIn' = cepIn /\ cepFed' = cepFed
  BY DEF CepInv, CepParsing, CepInside
<1>2. y.procState = "SMOOTH" /\ y.inBuf = x.inBuf /\ y.jammed BY <1>1 DEF CepFields
<1>3. CepFields(y) BY <1>1 DEF CepFields
<1> QED BY <1>1, <1>2, <1>3, CepMoves

LEMMA CepParseOtherKeeps == ASSUME CepInv, CepParseOther PROVE CepInv'
<1> PICK item : item = CepItem OBVIOUS
<1> PICK this : this = [kind |-> "item", id |-> item.id] OBVIOUS
<1>1. CepParsing /\ ~cep.ignore /\ item.type # "PHONE" /\ ~(CepCloses(item) /\ cep.index # <<>>)
      /\ CepInside
  BY DEF CepParseOther
<1>2. cep' = IF ~forwardingItem(item)
             THEN [CepConsumed EXCEPT !.ignore = CepIgnsig(item, "START")]
             ELSE IF cep.index = <<>> THEN CepPut(CepConsumed, this, "PARSE")
             ELSE IF CepHasRoom
             THEN [CepConsumed EXCEPT
                     !.headx = Append(@, [what |-> this, frame |-> Len(cep.index)]),
                     !.cbuf = @ + item.len]
             ELSE [cep EXCEPT !.procState = "SMOOTH", !.jammed = TRUE]
  BY Zenon DEF CepParseOther
<1>3. CASE ~forwardingItem(item)
  <2> PICK ignore : ignore = CepIgnsig(item, "START") OBVIOUS
  <2>1. ignore \in BOOLEAN BY DEF CepIgnsig
  <2>2. cep' = [CepConsumed EXCEPT !.ignore = ignore] BY <1>2, <1>3, Zenon
  <2>3. ignore = IF cep.ignore THEN ~CepIgnsig(CepItem, "END") ELSE CepIgnsig(CepItem, "START")
    BY <1>1
  <2> QED BY <1>1, <1>3, <2>1, <2>2, <2>3, CepMutedKeeps
<1>4. CASE forwardingItem(item) /\ cep.index = <<>>
  <2>1. cep' = CepPut(CepConsumed, this, "PARSE") BY <1>2, <1>4, Zenon
  <2>2. cep' = CepPut(CepConsumed, [kind |-> "item", id |-> CepItem.id], "PARSE") BY <2>1
  <2>3. item = CepItem OBVIOUS
  <2> QED BY <1>1, <1>4, <2>2, <2>3, CepAtOnceKeeps
<1>5. CASE forwardingItem(item) /\ cep.index # <<>> /\ CepHasRoom
  <2>1. cep' = [CepConsumed EXCEPT
                  !.headx = Append(@, [what |-> this, frame |-> Len(cep.index)]),
                  !.cbuf = @ + item.len]
    BY <1>2, <1>5, Zenon
  <2>2. cep' = [CepConsumed EXCEPT
                   !.headx = Append(@, [what |-> [kind |-> "item", id |-> CepItem.id],
                                        frame |-> Len(cep.index)]),
                   !.cbuf = @ + CepItem.len]
    BY <2>1
  <2>3. item = CepItem /\ Len(cep.headx) < CepHeadxCap BY <1>5 DEF CepHasRoom
  <2> QED BY <1>1, <1>5, <2>2, <2>3, CepKeptKeeps
<1>6. CASE forwardingItem(item) /\ cep.index # <<>> /\ ~CepHasRoom
  <2>1. cep' = [cep EXCEPT !.procState = "SMOOTH", !.jammed = TRUE] BY <1>2, <1>6, Zenon
  <2> QED BY <1>1, <2>1, CepJamsKeeps
<1>7. \/ ~forwardingItem(item)
      \/ forwardingItem(item) /\ cep.index = <<>>
      \/ forwardingItem(item) /\ cep.index # <<>> /\ CepHasRoom
      \/ forwardingItem(item) /\ cep.index # <<>> /\ ~CepHasRoom
  OBVIOUS
<1> HIDE DEF CepInv
<1> QED BY ONLY <1>3, <1>4, <1>5, <1>6, <1>7, Zenon

LEMMA CepSmoothKeeps == ASSUME CepInv, CepSmooth PROVE CepInv'
<1> PICK x, y : x = cep /\ y = cep' OBVIOUS
<1>1. /\ CepFields(x) /\ x.procState = "SMOOTH"
      /\ y = [x EXCEPT !.readPos = 0, !.procState = "FRAME"]
      /\ cepIn' = cepIn /\ cepFed' = cepFed /\ cepSaid' = cepSaid
  BY DEF CepInv, CepSmooth, CepInside
<1>2. /\ y.procState = "FRAME" /\ y.inBuf = x.inBuf /\ y.jammed = x.jammed /\ y.ignore = x.ignore
      /\ y.index = x.index /\ y.headx = x.headx /\ y.readPos = 0 /\ y.bottom = x.bottom
      /\ y.activeEnd = x.activeEnd /\ y.sentenceEnd = x.sentenceEnd
  BY <1>1 DEF CepFields
<1>3. CepFields(y) BY <1>1 DEF CepFields
<1>4. ASSUME NEW a, CepOrder(a, x, cepSaid) PROVE CepOrder(a, y, cepSaid)
  <2>1. CepSmoothing(x) /\ CepSmoothing(y) BY <1>1, <1>2 DEF CepSmoothing
  <2>2. CepWaits(x) = 0 /\ CepWaits(y) = 0 BY <1>1, <1>2 DEF CepWaits
  <2>3. x.readPos = 0 /\ x.bottom = 0 BY <1>1, <1>4 DEF CepOrder
  <2>4. CepSaidRight(a.out, y, cepSaid)
    <3>1. CepSaidRight(a.out, x, cepSaid) BY ONLY <1>4 DEF CepOrder
    <3>2. y.index = x.index /\ y.headx = x.headx /\ y.readPos = x.readPos /\ y.bottom = x.bottom
          /\ y.procState # "FEED" /\ CepWaits(y) = CepWaits(x)
      BY ONLY <1>2, <2>2, <2>3
    <3> QED BY ONLY <3>1, <3>2 DEF CepSaidRight
  <2>5. CepEnding(x) /\ CepEnding(y) BY <1>2, <1>4, <2>1 DEF CepOrder, CepEnding
  <2> QED BY <1>2, <1>4, <2>1, <2>3, <2>4, <2>5 DEF CepOrder
<1>5. x.jammed \in BOOLEAN BY <1>1 DEF CepFields
<1>6. y.jammed \/ (~cep.jammed /\ (CepOrder(CepNow, cep, cepSaid) => CepOrder(CepNow, y, cepSaid')))
  BY <1>1, <1>2, <1>4, <1>5
<1> QED BY <1>1, <1>2, <1>3, <1>6, CepMoves

\* The frame or item that comes next waits for cbOut.
LEMMA SaidNext ==
  ASSUME NEW out, NEW x, NEW y, NEW said, CepSaidRight(out, x, said),
         x.index \in Seq(CepWhat), x.headx \in Seq(CepHead),
         x.readPos \in Nat, x.bottom \in Nat, out \in Seq(CepWhat),
         x.procState # "FEED", y.procState = "FEED", y.index = x.index, y.headx = x.headx,
         \/ y.readPos = x.readPos + 1 /\ y.bottom = x.bottom
         \/ y.readPos = x.readPos /\ y.bottom = x.bottom + 1,
         NEW w \in CepWhat, y.outBuf = <<w>>,
         w = out[Len(out) - Len(x.index) - Len(x.headx) + x.readPos + x.bottom + 1]
  PROVE  CepSaidRight(out, y, said)
<1> PICK n, o, i, h, r, b : n = Len(said) /\ o = Len(out) /\ i = Len(x.index) /\ h = Len(x.headx)
                            /\ r = x.readPos /\ b = x.bottom
  OBVIOUS
<1>1. CepWaits(x) = 0 /\ CepWaits(y) = 1 BY DEF CepWaits
<1>2. /\ said \in Seq(CepWhat) /\ n + 0 = o - (i - r) - (h - b)
      /\ \A k \in 1 .. Len(said) : said[k] = out[k]
  BY <1>1 DEF CepSaidRight
<1>3. n \in Nat /\ o \in Nat /\ i \in Nat /\ h \in Nat /\ r \in Nat /\ b \in Nat
  <2>1. n \in Nat BY ONLY <1>2, n = Len(said)
  <2> QED BY <2>1
<1>4. n = o - i - h + r + b BY ONLY <1>2, <1>3
<1>5. w = out[Len(said) + 1] BY <1>4
<1>6. n + 1 = o - (i - (r + 1)) - (h - b) /\ n + 1 = o - (i - r) - (h - (b + 1)) BY ONLY <1>3, <1>4
<1>7. Len(said) + CepWaits(y) = Len(out) - (Len(y.index) - y.readPos) - (Len(y.headx) - y.bottom)
  BY <1>1, <1>6
<1> QED BY <1>2, <1>5, <1>7 DEF CepSaidRight

LEMMA CepFrameItemKeeps == ASSUME CepInv, CepFrameItem PROVE CepInv'
<1> PICK x, y : x = cep /\ y = cep' OBVIOUS
<1> PICK w : w = x.headx[x.bottom + 1].what OBVIOUS
<1>1. /\ CepFields(x) /\ x.procState = "FRAME"
      /\ x.bottom < Len(x.headx) /\ x.headx[x.bottom + 1].frame <= x.readPos
      /\ y = [[x EXCEPT !.bottom = @ + 1] EXCEPT !.outBuf = <<w>>, !.follow = "FRAME", !.procState = "FEED"]
      /\ cepIn' = cepIn /\ cepFed' = cepFed /\ cepSaid' = cepSaid
  BY DEF CepInv, CepFrameItem, CepHeadDue, CepPut, CepInside
<1>2. /\ y.procState = "FEED" /\ y.follow = "FRAME" /\ y.outBuf = <<w>>
      /\ y.inBuf = x.inBuf /\ y.jammed = x.jammed /\ y.ignore = x.ignore
      /\ y.index = x.index /\ y.headx = x.headx /\ y.readPos = x.readPos /\ y.bottom = x.bottom + 1
      /\ y.activeEnd = x.activeEnd /\ y.sentenceEnd = x.sentenceEnd
  BY <1>1 DEF CepFields
<1>3. CepFields(y) BY <1>1 DEF CepFields
<1>4. ASSUME NEW a, a.out \in Seq(CepWhat), CepOrder(a, x, cepSaid) PROVE CepOrder(a, y, cepSaid)
  <2>1. CepSmoothing(x) /\ CepSmoothing(y) BY <1>1, <1>2 DEF CepSmoothing
  <2>2. x.index \in Seq(CepWhat) /\ x.headx \in Seq(CepHead) BY <1>1 DEF CepFields
  <2>3. CepPlaced(a.out, x.index, x.headx) /\ CepReached(x.index, x.headx, x.readPos, x.bottom)
    BY <1>4 DEF CepOrder
  <2>4. /\ a.out[Len(a.out) - Len(x.index) - Len(x.headx) + x.readPos + x.bottom + 1] = w
        /\ CepReached(x.index, x.headx, x.readPos, x.bottom + 1)
    <3>1. a.out \in Seq(CepWhat) /\ x.bottom < Len(x.headx) /\ x.headx[x.bottom + 1].frame <= x.readPos
      BY <1>1, <1>4
    <3>2. /\ a.out[Len(a.out) - Len(x.index) - Len(x.headx) + x.readPos + x.bottom + 1]
               = x.headx[x.bottom + 1].what
          /\ CepReached(x.index, x.headx, x.readPos, x.bottom + 1)
      BY ONLY <2>2, <2>3, <3>1, NextItem
    <3> QED BY <3>2
  <2>5. x.readPos \in Nat /\ x.bottom \in Nat /\ w \in CepWhat
    <3>1. x.readPos \in Nat /\ x.bottom \in Nat /\ Len(x.headx) \in Nat BY <2>2, <2>3 DEF CepReached
    <3>2. x.bottom + 1 \in 1 .. Len(x.headx) BY <1>1, <3>1
    <3> QED BY <2>2, <3>1, <3>2, HeadsKnown
  <2>6. CepSaidRight(a.out, y, cepSaid)
    <3>1. CepSaidRight(a.out, x, cepSaid) BY <1>4 DEF CepOrder
    <3>2. x.procState # "FEED" /\ y.procState = "FEED" BY <1>1, <1>2
    <3> QED BY <1>2, <1>4, <2>2, <2>4, <2>5, <3>1, <3>2, SaidNext
  <2>7. CepEnding(x) /\ CepEnding(y) BY <1>2, <1>4, <2>1 DEF CepOrder, CepEnding
  <2> QED BY <1>2, <1>4, <2>1, <2>4, <2>6, <2>7 DEF CepOrder
<1>5. x.jammed \in BOOLEAN BY <1>1 DEF CepFields
<1>6. y.jammed \/ (~cep.jammed /\ (CepOrder(CepNow, cep, cepSaid) => CepOrder(CepNow, y, cepSaid')))
  <2>1. CepNow.out \in Seq(CepWhat) BY CepNowTells DEF CepTelling
  <2> QED BY <1>1, <1>2, <1>4, <1>5, <2>1
<1> QED BY <1>1, <1>2, <1>3, <1>6, CepMoves

LEMMA CepFrameKeeps == ASSUME CepInv, CepFrame PROVE CepInv'
<1> PICK x, y : x = cep /\ y = cep' OBVIOUS
<1> PICK w : w = CepFrameAt(x.readPos + 1) OBVIOUS
<1>1. /\ CepFields(x) /\ x.procState = "FRAME"
      /\ ~(x.bottom < Len(x.headx) /\ x.headx[x.bottom + 1].frame <= x.readPos)
      /\ x.readPos < x.activeEnd
      /\ y = [[x EXCEPT !.readPos = @ + 1] EXCEPT !.outBuf = <<w>>, !.follow = "FRAME", !.procState = "FEED"]
      /\ cepIn' = cepIn /\ cepFed' = cepFed /\ cepSaid' = cepSaid
  BY DEF CepInv, CepFrame, CepHeadDue, CepPut, CepInside
<1>2. /\ y.procState = "FEED" /\ y.follow = "FRAME" /\ y.outBuf = <<w>>
      /\ y.inBuf = x.inBuf /\ y.jammed = x.jammed /\ y.ignore = x.ignore
      /\ y.index = x.index /\ y.headx = x.headx /\ y.readPos = x.readPos + 1 /\ y.bottom = x.bottom
      /\ y.activeEnd = x.activeEnd /\ y.sentenceEnd = x.sentenceEnd
  BY <1>1 DEF CepFields
<1>3. CepFields(y) BY <1>1 DEF CepFields
<1>4. ASSUME NEW a, a.out \in Seq(CepWhat), CepOrder(a, x, cepSaid) PROVE CepOrder(a, y, cepSaid)
  <2>1. CepSmoothing(x) /\ CepSmoothing(y) BY <1>1, <1>2 DEF CepSmoothing
  <2>2. x.index \in Seq(CepWhat) /\ x.headx \in Seq(CepHead) BY <1>1 DEF CepFields
  <2>3. CepPlaced(a.out, x.index, x.headx) /\ CepReached(x.index, x.headx, x.readPos, x.bottom)
    BY <1>4 DEF CepOrder
  <2>4. x.readPos < Len(x.index) BY <1>1, <1>4, <2>1 DEF CepOrder
  <2>5. /\ x.readPos \in Nat /\ x.bottom \in Nat /\ Len(x.index) \in Nat
        /\ x.readPos + 1 \in 1 .. Len(x.index)
    <3>1. x.readPos \in Nat /\ x.bottom \in Nat /\ Len(x.index) \in Nat /\ Len(x.headx) \in Nat
      BY <2>2, <2>3 DEF CepReached
    <3> QED BY <2>4, <3>1
  <2>6. w = x.index[x.readPos + 1] /\ w \in CepWhat
    <3>1. w = x.index[x.readPos + 1] BY <2>5 DEF CepFrameAt
    <3> QED BY <2>2, <2>5, <3>1
  <2>7. /\ a.out[Len(a.out) - Len(x.index) - Len(x.headx) + x.readPos + x.bottom + 1] = w
        /\ CepReached(x.index, x.headx, x.readPos + 1, x.bottom)
    <3>1. a.out \in Seq(CepWhat) /\ ~(x.bottom < Len(x.headx) /\ x.headx[x.bottom + 1].frame <= x.readPos)
      BY <1>1, <1>4
    <3>2. /\ a.out[Len(a.out) - Len(x.index) - Len(x.headx) + x.readPos + x.bottom + 1]
               = x.index[x.readPos + 1]
          /\ CepReached(x.index, x.headx, x.readPos + 1, x.bottom)
      BY ONLY <2>2, <2>3, <2>4, <3>1, NextFrame
    <3> QED BY <2>6, <3>2
  <2>8. CepSaidRight(a.out, y, cepSaid)
    <3>1. CepSaidRight(a.out, x, cepSaid) BY <1>4 DEF CepOrder
    <3>2. x.procState # "FEED" /\ y.procState = "FEED" BY <1>1, <1>2
    <3> QED BY <1>2, <1>4, <2>2, <2>5, <2>6, <2>7, <3>1, <3>2, SaidNext
  <2>9. CepEnding(x) /\ CepEnding(y) BY <1>2, <1>4, <2>1 DEF CepOrder, CepEnding
  <2> QED BY <1>2, <1>4, <2>1, <2>7, <2>8, <2>9 DEF CepOrder
<1>5. x.jammed \in BOOLEAN BY <1>1 DEF CepFields
<1>6. y.jammed \/ (~cep.jammed /\ (CepOrder(CepNow, cep, cepSaid) => CepOrder(CepNow, y, cepSaid')))
  <2>1. CepNow.out \in Seq(CepWhat) BY CepNowTells DEF CepTelling
  <2> QED BY <1>1, <1>2, <1>4, <1>5, <2>1
<1> QED BY <1>1, <1>2, <1>3, <1>6, CepMoves

\* When the last frame is out, so is the last item, and the sentence is forgotten.
LEMMA CepFramesEndKeeps == ASSUME CepInv, CepFramesEnd PROVE CepInv'
<1> PICK x, y : x = cep /\ y = cep' OBVIOUS
<1>1. /\ CepFields(x) /\ x.procState = "FRAME"
      /\ ~(x.bottom < Len(x.headx) /\ x.headx[x.bottom + 1].frame <= x.readPos)
      /\ x.readPos >= x.activeEnd
      /\ y = [IF x.sentenceEnd THEN CepCleared(x) ELSE x EXCEPT !.procState = "PARSE"]
      /\ cepIn' = cepIn /\ cepFed' = cepFed /\ cepSaid' = cepSaid
  BY DEF CepInv, CepFramesEnd, CepHeadDue, CepInside
<1>2. /\ y.procState = "PARSE" /\ y.inBuf = x.inBuf /\ y.jammed = x.jammed /\ y.ignore = x.ignore
      /\ y.follow = x.follow
      /\ x.sentenceEnd => y.index = <<>> /\ y.headx = <<>> /\ y.readPos = 0 /\ y.bottom = 0
      /\ ~x.sentenceEnd => y.index = x.index /\ y.headx = x.headx
      /\ y = [procState |-> y.procState, follow |-> y.follow, ignore |-> y.ignore,
          sentenceEnd |-> y.sentenceEnd, inBuf |-> y.inBuf, headx |-> y.headx,
          bottom |-> y.bottom, cbuf |-> y.cbuf, index |-> y.index, readPos |-> y.readPos,
          activeEnd |-> y.activeEnd, outBuf |-> y.outBuf, jammed |-> y.jammed]
  <2>1. CASE x.sentenceEnd
    <3>1. y = [CepCleared(x) EXCEPT !.procState = "PARSE"] BY <1>1, <2>1
    <3> QED BY <1>1, <2>1, <3>1 DEF CepFields, CepCleared
  <2>2. CASE ~x.sentenceEnd
    <3>1. y = [x EXCEPT !.procState = "PARSE"] BY <1>1, <2>2
    <3> QED BY <1>1, <2>2, <3>1 DEF CepFields
  <2> QED BY <2>1, <2>2
<1>3. CepFields(y)
  <2>1. <<>> \in Seq(CepWhat) /\ <<>> \in Seq(CepHead) /\ Len(<<>>) <= CepMaxWin /\ Len(<<>>) <= CepHeadxCap
    BY CepAssumption
  <2>2. /\ y.index \in Seq(CepWhat) /\ y.headx \in Seq(CepHead)
        /\ Len(y.index) <= CepMaxWin /\ Len(y.headx) <= CepHeadxCap
    BY <1>1, <1>2, <2>1 DEF CepFields
  <2>3. /\ x.follow \in {"PARSE", "FRAME"} /\ x.ignore \in BOOLEAN /\ x.jammed \in BOOLEAN
    BY <1>1 DEF CepFields
  <2> QED BY ONLY <1>2, <2>2, <2>3 DEF CepFields
<1>4. ASSUME NEW a, a.out \in Seq(CepWhat), CepOrder(a, x, cepSaid) PROVE CepOrder(a, y, cepSaid)
  <2>1. CepSmoothing(x) /\ ~CepSmoothing(y) BY <1>1, <1>2 DEF CepSmoothing
  <2>2. CepWaits(x) = 0 /\ CepWaits(y) = 0 BY <1>1, <1>2 DEF CepWaits
  <2>3. x.sentenceEnd /\ x.activeEnd = Len(x.index) /\ CepEnding(x) BY <1>4, <2>1 DEF CepOrder
  <2>4. y.index = <<>> /\ y.headx = <<>> /\ y.readPos = 0 /\ y.bottom = 0 BY <1>2, <2>3
  <2>5. x.index \in Seq(CepWhat) /\ x.headx \in Seq(CepHead) BY <1>1 DEF CepFields
  <2>6. CepPlaced(a.out, x.index, x.headx) /\ CepReached(x.index, x.headx, x.readPos, x.bottom)
        /\ CepSaidRight(a.out, x, cepSaid)
    BY <1>4 DEF CepOrder
  <2>7. Len(x.index) \in Nat /\ Len(x.headx) \in Nat BY <2>5
  <2>8. x.readPos = Len(x.index) /\ x.bottom \in 0 .. Len(x.headx)
    BY <1>1, <2>3, <2>6, <2>7 DEF CepReached
  <2>9. x.bottom = Len(x.headx)
    <3> SUFFICES ASSUME x.bottom # Len(x.headx) PROVE FALSE OBVIOUS
    <3>1. x.bottom < Len(x.headx) /\ x.bottom + 1 \in 1 .. Len(x.headx) BY <2>7, <2>8
    <3>2. x.headx[x.bottom + 1].frame \in 1 .. Len(x.index) BY <2>6, <3>1 DEF CepPlaced, CepItemsPlaced
    <3>3. x.headx[x.bottom + 1].frame <= x.readPos BY <2>7, <2>8, <3>2
    <3> QED BY <1>1, <3>1, <3>3
  <2>10. CepPlaced(a.out, y.index, y.headx) /\ CepReached(y.index, y.headx, y.readPos, y.bottom)
    BY <1>4, <2>4, PlacedEmpty
  <2>11. CepSaidRight(a.out, y, cepSaid)
    <3> PICK n, o, i, h : n = Len(cepSaid) /\ o = Len(a.out) /\ i = Len(x.index) /\ h = Len(x.headx)
      OBVIOUS
    <3>1. /\ cepSaid \in Seq(CepWhat) /\ n + 0 = o - (i - i) - (h - h)
          /\ \A k \in 1 .. Len(cepSaid) : cepSaid[k] = a.out[k]
      BY <2>2, <2>6, <2>8, <2>9 DEF CepSaidRight
    <3>2. n \in Nat /\ o \in Nat /\ i \in Nat /\ h \in Nat
      <4>1. n \in Nat BY ONLY <3>1, n = Len(cepSaid)
      <4>2. o \in Nat BY ONLY <1>4, o = Len(a.out)
      <4> QED BY ONLY <2>7, <4>1, <4>2, i = Len(x.index), h = Len(x.headx)
    <3>3. n + 0 = o - (0 - 0) - (0 - 0) BY ONLY <3>1, <3>2
    <3>4. Len(y.index) = 0 /\ Len(y.headx) = 0 BY <2>4
    <3>5. Len(cepSaid) + CepWaits(y) = Len(a.out) - (Len(y.index) - y.readPos) - (Len(y.headx) - y.bottom)
      BY <2>2, <2>4, <3>3, <3>4
    <3> QED BY ONLY <1>2, <3>1, <3>5 DEF CepSaidRight
  <2>12. CepEnding(y) BY <1>2, <2>3 DEF CepEnding
  <2>13. a.ignored = y.ignore BY <1>2, <1>4 DEF CepOrder
  <2> QED BY ONLY <1>2, <2>1, <2>4, <2>10, <2>11, <2>12, <2>13 DEF CepOrder
<1>5. x.jammed \in BOOLEAN BY <1>1 DEF CepFields
<1>6. y.jammed \/ (~cep.jammed /\ (CepOrder(CepNow, cep, cepSaid) => CepOrder(CepNow, y, cepSaid')))
  <2>1. CepNow.out \in Seq(CepWhat) BY CepNowTells DEF CepTelling
  <2> QED BY <1>1, <1>2, <1>4, <1>5, <2>1
<1> QED BY <1>1, <1>2, <1>3, <1>6, CepMoves

LEMMA CepFeedOutKeeps == ASSUME CepInv, CepFeedOut PROVE CepInv'
<1> PICK x, y, more : x = cep /\ y = cep' /\ more = cepSaid' OBVIOUS
<1>1. /\ CepFields(x) /\ x.procState = "FEED"
      /\ y = [x EXCEPT !.procState = x.follow] /\ more = cepSaid \o x.outBuf
      /\ cepIn' = cepIn /\ cepFed' = cepFed
  BY DEF CepInv, CepFeedOut
<1>2. /\ y.procState = x.follow /\ x.follow \in {"PARSE", "FRAME"} /\ y.follow = x.follow
      /\ y.inBuf = x.inBuf /\ y.jammed = x.jammed /\ y.ignore = x.ignore
      /\ y.index = x.index /\ y.headx = x.headx /\ y.readPos = x.readPos /\ y.bottom = x.bottom
      /\ y.activeEnd = x.activeEnd /\ y.sentenceEnd = x.sentenceEnd
  BY <1>1 DEF CepFields
<1>3. CepFields(y) BY <1>1 DEF CepFields
<1>4. ASSUME NEW a, CepOrder(a, x, cepSaid) PROVE CepOrder(a, y, more)
  <2>1. CepSmoothing(y) <=> CepSmoothing(x) BY <1>1, <1>2 DEF CepSmoothing
  <2>2. CepWaits(x) = 1 /\ CepWaits(y) = 0 /\ y.procState # "FEED" BY <1>1, <1>2 DEF CepWaits
  <2>3. CepSaidRight(a.out, x, cepSaid) BY <1>4 DEF CepOrder
  <2>4. PICK w \in CepWhat : x.outBuf = <<w>> /\ w = a.out[Len(cepSaid) + 1]
    BY <1>1, <2>3 DEF CepSaidRight
  <2>5. cepSaid \in Seq(CepWhat) BY <2>3 DEF CepSaidRight
  <2>6. more = cepSaid \o <<w>> BY <1>1, <2>4
  <2>7. /\ more \in Seq(CepWhat) /\ Len(more) = Len(cepSaid) + 1 /\ Len(cepSaid) \in Nat
        /\ \A k \in 1 .. Len(cepSaid) : more[k] = cepSaid[k]
        /\ more[Len(cepSaid) + 1] = w
    BY ONLY <2>4, <2>5, <2>6
  <2>8. \A k \in 1 .. Len(more) : more[k] = a.out[k]
    <3> TAKE k \in 1 .. Len(more)
    <3>1. CASE k \in 1 .. Len(cepSaid) BY <2>3, <2>7, <3>1 DEF CepSaidRight
    <3>2. CASE k = Len(cepSaid) + 1 BY <2>4, <2>7, <3>2
    <3> QED BY <2>7, <3>1, <3>2
  <2>9. Len(more) + 0 = Len(a.out) - (Len(y.index) - y.readPos) - (Len(y.headx) - y.bottom)
    <3>1. Len(cepSaid) + 1 = Len(a.out) - (Len(y.index) - y.readPos) - (Len(y.headx) - y.bottom)
      BY <1>2, <2>2, <2>3 DEF CepSaidRight
    <3>2. Len(more) + 0 = Len(cepSaid) + 1 BY <2>7
    <3> QED BY <3>1, <3>2
  <2>10. CepSaidRight(a.out, y, more) BY ONLY <2>2, <2>7, <2>8, <2>9 DEF CepSaidRight
  <2>11. CepEnding(y) <=> CepEnding(x) BY <1>2 DEF CepEnding
  <2>12. y.procState # "SMOOTH" BY <1>2
  <2> QED BY ONLY <1>2, <1>4, <2>1, <2>2, <2>10, <2>11, <2>12 DEF CepOrder
<1>5. x.jammed \in BOOLEAN BY <1>1 DEF CepFields
<1>6. y.jammed \/ (~cep.jammed /\ (CepOrder(CepNow, cep, cepSaid) => CepOrder(CepNow, y, cepSaid')))
  BY <1>1, <1>2, <1>4, <1>5
<1>7. y.procState # "COLLECT" /\ cep.procState # "COLLECT" BY <1>1, <1>2
<1> QED BY <1>1, <1>2, <1>3, <1>6, <1>7, CepMoves

-----------------------------------------------------------------------------
(* The units around it. *)

LEMMA NumberedKnown ==
  ASSUME NEW m \in CepMenu, NEW id \in Nat
  PROVE  CepKnown(CepNumbered(m, id)) /\ CepNumbered(m, id).id = id
<1> PICK item : item = CepNumbered(m, id) OBVIOUS
<1>1. item = [f \in DOMAIN m \cup {"id"} |-> IF f = "id" THEN id ELSE m[f]] BY DEF CepNumbered
<1>2. "type" \in DOMAIN m /\ (m.type = "PHONE" => "states" \in DOMAIN m /\ m.states \in Seq(Nat))
  BY CepAssumption
<1>3. item.id = id /\ item.type = m.type BY <1>1, <1>2
<1>4. m.type = "PHONE" => item.states = m.states BY <1>1, <1>2
<1> QED BY <1>2, <1>3, <1>4 DEF CepKnown

LEMMA CepFeedKeeps == ASSUME CepInv, CepFeed PROVE CepInv'
<1>1. PICK m \in CepMenu : LET item == CepNumbered(m, Len(cepFed) + 1)
                           IN  cepIn' = <<item>> /\ cepFed' = Append(cepFed, item)
  BY DEF CepFeed
<1> PICK item, fed, more : item = CepNumbered(m, Len(cepFed) + 1) /\ fed = cepFed /\ more = cepFed'
  OBVIOUS
<1>2. /\ cepIn' = <<item>> /\ more = Append(fed, item) /\ cep' = cep /\ cepSaid' = cepSaid
      /\ cep.procState = "COLLECT" /\ cepIn = <<>>
  BY <1>1 DEF CepFeed
<1>3. /\ Listed(fed) /\ \A k \in 1 .. Len(fed) : fed[k].id = k /\ CepKnown(fed[k])
      /\ cep.inBuf = <<>>
  BY <1>2 DEF CepInv, CepItems
<1>4. /\ Listed(more) /\ Len(more) = Len(fed) + 1 /\ Len(fed) \in Nat
      /\ \A k \in 1 .. Len(fed) : more[k] = fed[k]
      /\ more[Len(fed) + 1] = item
  BY <1>2, <1>3, ListedAppend, ListedLen
<1>5. CepKnown(item) /\ item.id = Len(fed) + 1
  <2>1. Len(fed) + 1 \in Nat /\ item = CepNumbered(m, Len(fed) + 1) BY <1>4
  <2> QED BY <2>1, NumberedKnown
<1>6. \A k \in 1 .. Len(more) : more[k].id = k /\ CepKnown(more[k])
  <2> TAKE k \in 1 .. Len(more)
  <2>1. CASE k \in 1 .. Len(fed) BY <1>3, <1>4, <2>1
  <2>2. CASE k = Len(fed) + 1 BY <1>4, <1>5, <2>2
  <2> QED BY <1>4, <2>1, <2>2
<1>7. CepItems(cep, <<item>>, more)
  <2>1. Len(more) # 0 /\ <<item>> = <<more[Len(more)]>> BY <1>4
  <2> QED BY <1>2, <1>3, <1>4, <1>6, <2>1 DEF CepItems
<1>8. CepDone(cep, <<item>>, more) = Len(fed) /\ CepDone(cep, <<>>, fed) = Len(fed)
  <2>1. <<item>> # <<>> /\ Len(more) - 1 = Len(fed) BY <1>4
  <2> QED BY <1>3, <2>1 DEF CepDone
<1>9. CepTold(more)[Len(fed)] = CepTold(fed)[Len(fed)] BY <1>2, <1>3, <1>4, ToldAppend
<1>10. cep.jammed \/ CepOrder(CepTold(more)[CepDone(cep, <<item>>, more)], cep, cepSaid)
  BY <1>2, <1>8, <1>9 DEF CepInv
<1> QED BY <1>2, <1>7, <1>10 DEF CepInv

LEMMA CepSameKeeps == ASSUME CepInv, UNCHANGED <<cep, cepIn, cepFed, cepSaid>> PROVE CepInv'
BY DEF CepInv

LEMMA CepStepKeeps == ASSUME CepInv, [CepNext]_cepVars PROVE CepInv'
<1>1. CASE CepFeed BY <1>1, CepFeedKeeps
<1>2. CASE CepTake
  <2>1. UNCHANGED <<cep, cepIn, cepFed, cepSaid>> BY <1>2 DEF CepTake
  <2> QED BY <2>1, CepSameKeeps
<1>3. CASE CepReset
  <2>1. cep' = CepFresh /\ cepIn' = <<>> /\ cepFed' = <<>> /\ cepSaid' = <<>> BY <1>3 DEF CepReset
  <2> QED BY <2>1, CepBegins DEF CepInv
<1>4. CASE CepCollect BY <1>4, CepCollectKeeps
<1>5. CASE CepParseEnd BY <1>5, CepParseEndKeeps
<1>6. CASE CepParseIgnored BY <1>6, CepParseIgnoredKeeps
<1>7. CASE CepParseClose BY <1>7, CepParseCloseKeeps
<1>8. CASE CepParsePhone BY <1>8, CepParsePhoneKeeps
<1>9. CASE CepParseOther BY <1>9, CepParseOtherKeeps
<1>10. CASE CepSmooth BY <1>10, CepSmoothKeeps
<1>11. CASE CepFrameItem BY <1>11, CepFrameItemKeeps
<1>12. CASE CepFrame BY <1>12, CepFrameKeeps
<1>13. CASE CepFramesEnd BY <1>13, CepFramesEndKeeps
<1>14. CASE CepFeedOut BY <1>14, CepFeedOutKeeps
<1>15. CASE UNCHANGED cepVars
  <2>1. UNCHANGED <<cep, cepIn, cepFed, cepSaid>> BY <1>15 DEF cepVars
  <2> QED BY <2>1, CepSameKeeps
<1> QED BY <1>1, <1>2, <1>3, <1>4, <1>5, <1>6, <1>7, <1>8, <1>9, <1>10, <1>11, <1>12, <1>13,
           <1>14, <1>15 DEF CepNext, CepStep

(***************************************************************************)
(* The inductive invariant of cepStep (picocep.c): what was put out is the *)
(* beginning of what has to come out for the items looked at, and what is  *)
(* missing of it are the frames gathered and the items kept, each in its   *)
(* place; a sentence is smoothed only when the item that ends it is at     *)
(* hand.                                                                   *)
(***************************************************************************)
THEOREM CepInvariant == CepSpec => []CepInv
<1>1. CepInv /\ [CepNext]_cepVars => CepInv' BY CepStepKeeps
<1> QED BY <1>1, CepInitially, PTL DEF CepSpec

\* A unit that found no room goes round, and a sentence that has ended is being put out.
CepRound ==
  /\ cep.jammed => CepGoesRound /\ (cep.procState = "FEED" => cep.follow = "FRAME")
  /\ cep.sentenceEnd => CepSmoothing(cep) /\ ~cep.jammed

LEMMA CepRoundFree ==
  ASSUME ~cep'.jammed, ~cep'.sentenceEnd
  PROVE  CepRound'
BY DEF CepRound

\* A step that leaves the sentence, and the item at hand, as they are.
LEMMA CepRoundMoves ==
  ASSUME CepRound, NEW y, cep' = y, y.inBuf = cep.inBuf, y.ignore = cep.ignore,
         y.index = cep.index, y.headx = cep.headx, y.cbuf = cep.cbuf,
         y.sentenceEnd = cep.sentenceEnd, y.jammed = cep.jammed, y.procState # "COLLECT",
         y.procState = "FEED" => y.follow = "FRAME",
         CepSmoothing(cep) => CepSmoothing(y)
  PROVE  CepRound'
<1>1. CepItem' = CepItem BY DEF CepItem
<1>2. CepHasRoom' <=> CepHasRoom BY <1>1 DEF CepHasRoom
<1>3. CepGoesRound => CepGoesRound' BY <1>1, <1>2 DEF CepGoesRound
<1>4. cep.sentenceEnd => CepSmoothing(cep)' BY DEF CepRound
<1> QED BY <1>3, <1>4 DEF CepRound

\* The steps that take an item, and what a unit that goes round does not do.
LEMMA CepRoundTakes ==
  ASSUME CepInv, CepRound,
         CepCollect \/ CepParseEnd \/ CepParseIgnored \/ CepParsePhone
  PROVE  CepRound'
<1> PICK x, y : x = cep /\ y = cep' OBVIOUS
<1>1. CepFields(x) BY DEF CepInv
<1>2. x.procState \in {"COLLECT", "PARSE"}
  BY DEF CepCollect, CepParseEnd, CepParseIgnored, CepParsePhone, CepParsing
<1>3. ~x.jammed
  BY DEF CepCollect, CepParseEnd, CepParseIgnored, CepParsePhone, CepParsing, CepRound, CepGoesRound
<1>4. ~x.sentenceEnd BY <1>2 DEF CepRound, CepSmoothing
<1>5. y.jammed = x.jammed /\ y.sentenceEnd = x.sentenceEnd
  <2>1. CASE CepCollect BY <1>1, <2>1 DEF CepCollect, CepFields
  <2>2. CASE CepParseEnd BY <1>1, <2>2 DEF CepParseEnd, CepFields
  <2>3. CASE CepParseIgnored BY <1>1, <2>3 DEF CepParseIgnored, CepConsumed, CepFields
  <2>4. CASE CepParsePhone
    <3>1. y = [treat_phone(x, CepItem) EXCEPT !.inBuf = <<>>] BY <2>4 DEF CepParsePhone
    <3>2. PICK index : treat_phone(x, CepItem) = [x EXCEPT !.index = index] BY DEF treat_phone
    <3> QED BY <1>1, <3>1, <3>2 DEF CepFields
  <2> QED BY <2>1, <2>2, <2>3, <2>4
<1> QED BY <1>3, <1>4, <1>5, CepRoundFree

LEMMA CepRoundCloses == ASSUME CepInv, CepRound, CepParseClose PROVE CepRound'
<1> PICK x, y : x = cep /\ y = cep' OBVIOUS
<1>1. CepFields(x) BY DEF CepInv
<1>2. ~x.jammed BY DEF CepParseClose, CepRound, CepGoesRound
<1>3. y.jammed = x.jammed /\ y.procState = "SMOOTH" BY <1>1 DEF CepParseClose, CepFields
<1> QED BY <1>2, <1>3 DEF CepRound, CepSmoothing

LEMMA CepRoundOther == ASSUME CepInv, CepRound, CepParseOther PROVE CepRound'
<1> PICK x, y, item : x = cep /\ y = cep' /\ item = CepItem OBVIOUS
<1> PICK this : this = [kind |-> "item", id |-> item.id] OBVIOUS
<1>1. CepFields(x) BY DEF CepInv
<1>2. /\ x.procState = "PARSE" /\ x.inBuf # <<>> /\ ~x.ignore /\ item.type # "PHONE"
      /\ ~(CepCloses(item) /\ x.index # <<>>) /\ ~x.sentenceEnd
  BY DEF CepParseOther, CepParsing, CepRound, CepSmoothing
<1>3. y = IF ~forwardingItem(item)
          THEN [CepConsumed EXCEPT !.ignore = CepIgnsig(item, "START")]
          ELSE IF x.index = <<>> THEN CepPut(CepConsumed, this, "PARSE")
          ELSE IF CepHasRoom
          THEN [CepConsumed EXCEPT
                  !.headx = Append(@, [what |-> this, frame |-> Len(x.index)]),
                  !.cbuf = @ + item.len]
          ELSE [x EXCEPT !.procState = "SMOOTH", !.jammed = TRUE]
  BY Zenon DEF CepParseOther
<1>4. CASE forwardingItem(item) /\ x.index # <<>> /\ ~CepHasRoom
  <2>1. y = [x EXCEPT !.procState = "SMOOTH", !.jammed = TRUE] BY <1>3, <1>4, Zenon
  <2>2. /\ y.procState = "SMOOTH" /\ y.inBuf = x.inBuf /\ y.ignore = x.ignore /\ y.index = x.index
        /\ y.headx = x.headx /\ y.cbuf = x.cbuf /\ y.sentenceEnd = x.sentenceEnd
    BY <1>1, <2>1 DEF CepFields
  <2>3. CepItem' = CepItem BY <2>2 DEF CepItem
  <2>4. CepHasRoom' <=> CepHasRoom BY <2>2, <2>3 DEF CepHasRoom
  <2>5. CepGoesRound' BY <1>2, <1>4, <2>2, <2>3, <2>4 DEF CepGoesRound
  <2> QED BY <1>2, <2>2, <2>5 DEF CepRound
<1>5. CASE ~(forwardingItem(item) /\ x.index # <<>> /\ ~CepHasRoom)
  <2>1. ~x.jammed BY <1>5 DEF CepRound, CepGoesRound
  <2>2. y.jammed = x.jammed /\ y.sentenceEnd = x.sentenceEnd
    <3>1. CASE ~forwardingItem(item)
      <4>1. y = [CepConsumed EXCEPT !.ignore = CepIgnsig(item, "START")] BY <1>3, <3>1, Zenon
      <4> QED BY <1>1, <4>1 DEF CepConsumed, CepFields
    <3>2. CASE forwardingItem(item) /\ x.index = <<>>
      <4>1. y = CepPut(CepConsumed, this, "PARSE") BY <1>3, <3>2, Zenon
      <4> QED BY <1>1, <4>1 DEF CepConsumed, CepPut, CepFields
    <3>3. CASE forwardingItem(item) /\ x.index # <<>> /\ CepHasRoom
      <4>1. y = [CepConsumed EXCEPT
                   !.headx = Append(@, [what |-> this, frame |-> Len(x.index)]),
                   !.cbuf = @ + item.len]
        BY <1>3, <3>3, Zenon
      <4> QED BY <1>1, <4>1 DEF CepConsumed, CepFields
    <3> QED BY <1>5, <3>1, <3>2, <3>3
  <2> QED BY <1>2, <2>1, <2>2, CepRoundFree
<1> QED BY <1>4, <1>5

LEMMA CepRoundPuts ==
  ASSUME CepInv, CepRound, CepSmooth \/ CepFrameItem \/ CepFrame \/ CepFeedOut
  PROVE  CepRound'
<1> PICK x, y : x = cep /\ y = cep' OBVIOUS
<1>1. CepFields(x) BY DEF CepInv
<1> DEFINE Moved ==
      /\ y.inBuf = x.inBuf /\ y.ignore = x.ignore /\ y.index = x.index /\ y.headx = x.headx
      /\ y.cbuf = x.cbuf /\ y.sentenceEnd = x.sentenceEnd /\ y.jammed = x.jammed
<1>2. CASE CepSmooth
  <2>1. Moved /\ y.procState = "FRAME" BY <1>1, <1>2 DEF CepSmooth, CepFields
  <2> QED BY <2>1, CepRoundMoves DEF CepSmoothing
<1>3. CASE CepFrameItem
  <2>1. Moved /\ y.procState = "FEED" /\ y.follow = "FRAME"
    BY <1>1, <1>3 DEF CepFrameItem, CepPut, CepFields
  <2> QED BY <2>1, CepRoundMoves DEF CepSmoothing
<1>4. CASE CepFrame
  <2>1. Moved /\ y.procState = "FEED" /\ y.follow = "FRAME"
    BY <1>1, <1>4 DEF CepFrame, CepPut, CepFields
  <2> QED BY <2>1, CepRoundMoves DEF CepSmoothing
<1>5. CASE CepFeedOut
  <2>1. Moved /\ y.procState = x.follow /\ y.procState \in {"PARSE", "FRAME"} /\ x.procState = "FEED"
    BY <1>1, <1>5 DEF CepFeedOut, CepFields
  <2>2. CepSmoothing(x) => CepSmoothing(y) BY <2>1 DEF CepSmoothing
  <2> QED BY <2>1, <2>2, CepRoundMoves
<1> QED BY <1>2, <1>3, <1>4, <1>5

LEMMA CepRoundEnds == ASSUME CepInv, CepRound, CepFramesEnd PROVE CepRound'
<1> PICK x, y : x = cep /\ y = cep' OBVIOUS
<1>1. CepFields(x) /\ y = [IF x.sentenceEnd THEN CepCleared(x) ELSE x EXCEPT !.procState = "PARSE"]
  BY DEF CepInv, CepFramesEnd
<1>2. CASE x.sentenceEnd
  <2>1. y = [CepCleared(x) EXCEPT !.procState = "PARSE"] BY <1>1, <1>2
  <2>2. y.jammed = x.jammed /\ ~y.sentenceEnd BY <1>1, <2>1 DEF CepCleared, CepFields
  <2>3. ~x.jammed BY <1>2 DEF CepRound
  <2> QED BY <2>2, <2>3, CepRoundFree
<1>3. CASE ~x.sentenceEnd
  <2>1. y = [x EXCEPT !.procState = "PARSE"] BY <1>1, <1>3
  <2>2. /\ y.inBuf = x.inBuf /\ y.ignore = x.ignore /\ y.index = x.index /\ y.headx = x.headx
        /\ y.cbuf = x.cbuf /\ y.sentenceEnd = x.sentenceEnd /\ y.jammed = x.jammed
        /\ y.procState = "PARSE"
    BY <1>1, <2>1 DEF CepFields
  <2>3. CepItem' = CepItem BY <2>2 DEF CepItem
  <2>4. CepHasRoom' <=> CepHasRoom BY <2>2, <2>3 DEF CepHasRoom
  <2>5. CepGoesRound => CepGoesRound' BY <2>2, <2>3, <2>4 DEF CepGoesRound
  <2> QED BY <1>3, <2>2, <2>5 DEF CepRound
<1> QED BY <1>2, <1>3

LEMMA CepRoundKept == ASSUME CepInv, CepRound, [CepNext]_cepVars PROVE CepRound'
<1>1. CASE UNCHANGED cep
  BY <1>1 DEF CepRound, CepGoesRound, CepItem, CepHasRoom, CepSmoothing
<1>2. CASE CepReset
  <2>1. cep' = CepFresh BY <1>2 DEF CepReset
  <2> QED BY <2>1, CepRoundFree DEF CepFresh
<1>3. (CepFeed \/ CepTake \/ UNCHANGED cepVars) => UNCHANGED cep
  BY DEF CepFeed, CepTake, cepVars
<1> QED BY <1>1, <1>2, <1>3, CepRoundTakes, CepRoundCloses, CepRoundOther, CepRoundPuts, CepRoundEnds
        DEF CepNext, CepStep

(***************************************************************************)
(* cepStep without room for an item in the middle of a sentence            *)
(* (picocep.c:1672) never takes that item, and the sentence never ends: it *)
(* goes round through SMOOTH, FRAME and PARSE until the engine is reset.   *)
(***************************************************************************)
THEOREM CepRoundInvariant == CepSpec => []CepRound
<1>1. CepInit => CepRound
  <2>1. CepInit => ~cep.jammed /\ ~cep.sentenceEnd BY DEF CepInit, CepFresh
  <2> QED BY <2>1 DEF CepRound
<1>2. CepInv /\ CepRound /\ [CepNext]_cepVars => CepRound' BY CepRoundKept
<1> QED BY <1>1, <1>2, CepInvariant, PTL DEF CepSpec

\* What was put out is a prefix of what has to come out.
LEMMA CepInvOrders == CepInv /\ CepRound => CepInOrder
<1> SUFFICES ASSUME CepInv, CepRound PROVE CepInOrder OBVIOUS
<1> PICK x : x = cep OBVIOUS
<1>1. CepFields(x) /\ CepItems(x, cepIn, cepFed) BY DEF CepInv
<1>2. Len(x.index) <= CepMaxWin /\ Len(x.headx) <= CepHeadxCap BY <1>1 DEF CepFields
<1>3. ASSUME ~x.jammed PROVE IsPrefix(cepSaid, CepExpected(cepFed))
  <2> PICK a, out : a = CepNow /\ out = CepExpected(cepFed) OBVIOUS
  <2>1. CepOrder(a, x, cepSaid) BY <1>3 DEF CepInv, CepNow
  <2>2. a.out \in Seq(CepWhat) BY CepNowTells DEF CepTelling
  <2>3. /\ out \in Seq(CepWhat) /\ Len(a.out) <= Len(out)
        /\ \A k \in 1 .. Len(a.out) : out[k] = a.out[k]
    <3>1. Len(cepFed) \in Nat /\ CepDone(x, cepIn, cepFed) \in 0 .. Len(cepFed) BY CepNowTells
    <3>2. CASE CepDone(x, cepIn, cepFed) = Len(cepFed)
      <4>1. out = a.out BY <3>2 DEF CepExpected, CepNow
      <4> QED BY <2>2, <4>1
    <3>3. CASE CepDone(x, cepIn, cepFed) # Len(cepFed)
      <4>1. CepDone(x, cepIn, cepFed) = Len(cepFed) - 1 /\ Len(cepFed) # 0
        BY <1>1, <3>3 DEF CepDone, CepItems
      <4>2. Len(cepFed) \in 1 .. Len(cepFed) /\ Listed(cepFed) /\ CepKnown(cepFed[Len(cepFed)])
        BY <1>1, <3>1, <4>1 DEF CepItems
      <4>3. CepTold(cepFed)[Len(cepFed)] = CepAdd(a, cepFed[Len(cepFed)])
        BY <4>1, <4>2, ToldStep DEF CepNow
      <4> PICK item, more : item = cepFed[Len(cepFed)] /\ more = CepAddition(a, cepFed[Len(cepFed)]) OBVIOUS
      <4>4. out = CepAdd(a, item).out BY <4>3 DEF CepExpected
      <4>5. more \in Seq(CepWhat) /\ CepAdd(a, item).out = a.out \o more
        <5>1. CepTelling(a) /\ CepKnown(item) BY <4>2, CepNowTells
        <5> QED BY <5>1, AddIs
      <4>6. out = a.out \o more BY <4>4, <4>5
      <4> QED BY ONLY <2>2, <4>5, <4>6
    <3> QED BY <3>2, <3>3
  <2>4. /\ cepSaid \in Seq(CepWhat) /\ \A k \in 1 .. Len(cepSaid) : cepSaid[k] = a.out[k]
        /\ Len(cepSaid) + CepWaits(x) = Len(a.out) - (Len(x.index) - x.readPos) - (Len(x.headx) - x.bottom)
    BY <2>1 DEF CepOrder, CepSaidRight
  <2>5. Len(cepSaid) <= Len(a.out)
    <3> PICK n, o, i, h, r, b, w : n = Len(cepSaid) /\ o = Len(a.out) /\ i = Len(x.index) /\ h = Len(x.headx)
                                   /\ r = x.readPos /\ b = x.bottom /\ w = CepWaits(x)
      OBVIOUS
    <3>1. r \in 0 .. i /\ b \in 0 .. h /\ i \in Nat /\ h \in Nat /\ w \in Nat
      <4>1. i \in Nat /\ h \in Nat BY <1>1 DEF CepFields
      <4> QED BY <2>1, <4>1 DEF CepOrder, CepReached, CepWaits
    <3>2. n + w = o - (i - r) - (h - b) BY <2>4
    <3>3. n \in Nat /\ o \in Nat BY <2>2, <2>4
    <3> QED BY ONLY <3>1, <3>2, <3>3, n = Len(cepSaid), o = Len(a.out)
  <2>6. Len(cepSaid) <= Len(out) /\ \A k \in 1 .. Len(cepSaid) : cepSaid[k] = out[k]
    <3>1. Len(cepSaid) \in Nat /\ Len(a.out) \in Nat /\ Len(out) \in Nat BY <2>2, <2>3, <2>4
    <3>2. \A k \in 1 .. Len(cepSaid) : k \in 1 .. Len(a.out) BY <2>5, <3>1
    <3> QED BY <2>3, <2>4, <2>5, <3>1, <3>2
  <2>7. SubSeq(cepSaid, 1, Len(cepSaid)) = SubSeq(out, 1, Len(cepSaid))
    BY ONLY <2>3, <2>4, <2>6
  <2>8. IsPrefix(cepSaid, out) BY <2>6, <2>7 DEF IsPrefix
  <2> QED BY <2>8
<1>4. x.jammed \in BOOLEAN BY <1>1 DEF CepFields
<1>5. x.jammed => CepGoesRound BY DEF CepRound
<1> QED BY <1>2, <1>3, <1>4, <1>5 DEF CepInOrder

(***************************************************************************)
(* For a window and a list of items of any size, any items and any resets: *)
(* frames and items come out of cepStep once, in the order they came in,   *)
(* each item between the frames of the phones around it, as long as every  *)
(* item found room, and it goes round for ever only for an item that found *)
(* none; no more is gathered than the window and the list hold             *)
(* (CepInOrder).                                                           *)
(***************************************************************************)
THEOREM CepKeepsOrder == CepSpec => []CepInOrder
BY CepInvariant, CepRoundInvariant, CepInvOrders, PTL

-----------------------------------------------------------------------------
(* Phrasing and accentuation: for any phrases, answers of the trees and full buffers, the
   trees are asked about the words and syllables that there are, and a phrase is fed as it
   was decided.  The inductive invariant. *)

AcphFields == {"type", "info1", "info2", "phones", "bstrength", "btype"}

\* The items of a phrase, with the fields that acph adds to them.
Dressed(h) ==
  /\ Listed(h) /\ Len(h) >= 1
  /\ \A i \in 1 .. Len(h) : DOMAIN h[i] = AcphFields /\ h[i].phones \in Seq(STRING)
                            /\ h[i] = [f \in AcphFields |-> h[i][f]]
  /\ AcphPunc(h[Len(h)])
  /\ \A i \in 1 .. Len(h) - 1 : AcphInside(h[i])

\* k has the items of h, its words with other accents.
Alike(h, k) ==
  /\ Listed(k) /\ Len(k) = Len(h)
  /\ \A i \in 1 .. Len(h) :
       /\ DOMAIN k[i] = AcphFields /\ k[i] = [f \in AcphFields |-> k[i][f]]
       /\ k[i].type = h[i].type /\ k[i].info1 = h[i].info1 /\ k[i].phones = h[i].phones
       /\ h[i].type = "WORDPHON" \/ k[i].info2 = h[i].info2

\* Nothing is decided yet.
Bare(h) == \A i \in 1 .. Len(h) : h[i].bstrength = "ERR" /\ h[i].btype = "NONE"

Cut(item) == item.bstrength \in {"PHR2", "PHR3"}
Cuts(h) == {i \in 2 .. Len(h) : Cut(h[i])}
Ending(h) == IF Last(h).info2 \in {"T", "Q", "E"} THEN Last(h).info2 ELSE "P"
TypeAt(h, i) == IF i = Max(Cuts(h)) THEN Ending(h) ELSE "P"
FirstType(h) == IF Cuts(h) = {} THEN Ending(h) ELSE "P"

\* The boundaries of a phrase as phrasing leaves them.
Planned(h, before) ==
  /\ Cuts(h) \subseteq AcphWords(h)
  /\ \A i \in Cuts(h) : h[i].btype = TypeAt(h, i)
  /\ h[1].bstrength = IF before = "PHRASEEND" THEN "PHR1" ELSE "SBEG"
  /\ h[1].btype = FirstType(h)

\* What a phrase gives, place by place.
CutAt(h, i) == AcphBound(h[i].bstrength, TypeAt(h, i))
Part(h, i) == (IF i \in Cuts(h) THEN <<CutAt(h, i)>> ELSE <<>>)
              \o <<[type |-> h[i].type, info1 |-> h[i].info1]>>
Opening(h, before) ==
  IF h[1].info1 = "FLUSH" THEN <<>>
  ELSE <<AcphBound(IF before = "PHRASEEND" THEN "PHR1" ELSE "SBEG", FirstType(h))>>
Closing(h) ==
  CASE Last(h).info1 = "SENTEND" -> <<AcphBound("SEND", "NA")>>
    [] Last(h).info1 = "FLUSH" -> <<AcphBound("TERM", "NA")>>
    [] OTHER -> <<>>
Upto(h, before, n) == Opening(h, before) \o FlattenSeq([i \in 1 .. n |-> Part(h, i)])
\* The first n items, with the boundary before the next or without it.
OutTo(h, before, n, due) == Upto(h, before, n) \o (IF due THEN <<CutAt(h, n + 1)>> ELSE <<>>)

Told(e) == IF e.type = "BOUND" THEN e ELSE [type |-> e.type, info1 |-> e.info1]
Tell(out) == [i \in DOMAIN out |-> Told(out[i])]

\* How far the feeding has come: bottom items are out, and perhaps the boundary before the
\* next. That boundary is known to be out from put, and after a full buffer from the
\* strength that is overwritten.
NextOf(x) == x.headx[x.bottom + 1]
BoundOut(x) == x.bottom + 1 \in Cuts(x.plan) /\ (x.put \/ ~Cut(NextOf(x)))
Fed(x) ==
  /\ x.bottom \in 0 .. Len(x.plan) - 1
  /\ Alike(x.plan, x.headx)
  /\ \A i \in 1 .. Len(x.plan) :
       /\ x.headx[i].btype = x.plan[i].btype
       /\ i > x.bottom + 1 \/ i = 1 => x.headx[i].bstrength = x.plan[i].bstrength
  /\ IF Cut(NextOf(x)) THEN NextOf(x).bstrength = x.plan[x.bottom + 1].bstrength
     ELSE x.put => x.phase = "feed"
  /\ x.put => x.bottom + 1 \in Cuts(x.plan)
  /\ x.put /\ x.phase = "feed" => ~Cut(NextOf(x))
  /\ Listed(x.out)
  /\ Tell(x.out) = OutTo(x.plan, x.before, x.bottom, BoundOut(x))

\* k has the boundaries of h.
SameBounds(h, k) == \A i \in 1 .. Len(h) : k[i].btype = h[i].btype /\ k[i].bstrength = h[i].bstrength

Opens(punc) == IF punc = "PHRASEEND" THEN "PPHR" ELSE "SSEP"
Started(x) ==
  /\ Dressed(x.headx)
  /\ x.phase = "phr" => Bare(x.headx) /\ x.bound = Opens(x.before)
  /\ x.phase # "phr" => x.bound = Opens(Last(x.headx).info1)
  /\ x.phase \in {"phr", "acc"} \/ (x.phase = "feed" /\ x.acc # <<>>) => x.bottom = 0 /\ x.out = <<>>
  /\ x.phase \in {"acc", "feed", "items"} => Dressed(x.plan) /\ Planned(x.plan, x.before)
  /\ x.phase = "acc" => x.headx = x.plan
  /\ x.phase = "feed" /\ x.acc # <<>> => Alike(x.plan, x.headx) /\ SameBounds(x.plan, x.headx)
  /\ x.phase = "feed" /\ x.acc = <<>> => Fed(x) /\ x.bottom > 0
  /\ x.phase = "items" => Fed(x) /\ x.acc = <<>>
  /\ x.phase = "collect" => x.bottom = 0

StateFields == {"phase", "headx", "bound", "bottom", "put", "fulls", "phrases", "phr", "acc", "out",
                "plan", "before"}
Holds(x) ==
  /\ DOMAIN x = StateFields
  /\ x.phase \in {"collect", "phr", "acc", "feed", "items"}
  /\ x.phrases \in Nat /\ x.put \in BOOLEAN
  /\ x.phrases = 0 => /\ x.phase = "collect" /\ x.bottom = 0 /\ x.headx = <<>>
                      /\ x.bound = "SSEP" /\ x.before = "SENTEND"
  /\ x.phrases > 0 => Started(x)

-----------------------------------------------------------------------------
(* Syllables. *)

LEMMA SyllsNat ==
  ASSUME NEW item, item.phones \in Seq(STRING)
  PROVE  acphGetNrSylls(item) \in Nat
<1> DEFINE D == DOMAIN item.phones
           B == {i \in D : item.phones[i] = "."}
<1>1. IsFiniteSet(D)
  <2>1. Len(item.phones) \in Nat /\ D = 1 .. Len(item.phones) BY LenProperties
  <2> QED BY <2>1, FS_Interval
<1>2. B \subseteq D OBVIOUS
<1> HIDE DEF D
<1>3. IsFiniteSet(B) BY <1>1, <1>2, FS_Subset
<1>4. Cardinality(B) \in Nat BY <1>3, FS_CardinalityType
<1> QED BY <1>4 DEF acphGetNrSylls, D

\* What the fold of AcphSyllsOf computes.
SyllSum(c, h, U) ==
  c = [s \in SUBSET U |-> IF s = {} THEN 0 ELSE c[s \ {First(s)}] + acphGetNrSylls(h[First(s)])]

SyllsKnown(h, U) == IsFiniteSet(U) /\ \A x \in U : h[x].phones \in Seq(STRING)

LEMMA SyllsAre ==
  ASSUME NEW U, NEW h, SyllsKnown(h, U), NEW w, \A x \in U : w[x] = acphGetNrSylls(h[x]),
         NEW f, IsSum(f, w, U), NEW S \in SUBSET U
  PROVE  AcphSyllsOf(h, S) = f[S]
<1>0. IsFiniteSet(U) /\ \A x \in U : w[x] \in Int
  <2>1. \A x \in U : acphGetNrSylls(h[x]) \in Nat BY SyllsNat DEF SyllsKnown
  <2> QED BY <2>1 DEF SyllsKnown
<1>1. \A s \in SUBSET U : f[s] \in Int BY <1>0, SumType
<1>2. ASSUME NEW s \in SUBSET S
      PROVE  f[s] = IF s = {} THEN 0 ELSE f[s \ {First(s)}] + acphGetNrSylls(h[First(s)])
  <2>0. s \in SUBSET U OBVIOUS
  <2>1. f[s] = IF s = {} THEN 0 ELSE w[First(s)] + f[s \ {First(s)}] BY <2>0, SumStep
  <2>2. CASE s # {}
    <3>1. First(s) \in s BY <2>2 DEF First
    <3>2. First(s) \in U /\ s \ {First(s)} \in SUBSET U BY <3>1
    <3>3. w[First(s)] \in Int /\ f[s \ {First(s)}] \in Int BY <3>2, <1>0, <1>1
    <3>4. w[First(s)] = acphGetNrSylls(h[First(s)]) BY <3>2
    <3> QED BY <2>1, <2>2, <3>3, <3>4
  <2> QED BY <2>1, <2>2
<1> DEFINE g == [s \in SUBSET S |-> f[s]]
           c == CHOOSE x : SyllSum(x, h, S)
<1>3. SyllSum(g, h, S)
  <2>1. \A s \in SUBSET S : g[s] = IF s = {} THEN 0
                                   ELSE g[s \ {First(s)}] + acphGetNrSylls(h[First(s)])
    BY <1>2
  <2>2. g = [s \in SUBSET S |-> g[s]] OBVIOUS
  <2> HIDE DEF g
  <2> QED BY <2>1, <2>2 DEF SyllSum
<1>4. SyllSum(c, h, S)
  <2> HIDE DEF g
  <2> QED BY <1>3
<1>5. AcphSyllsOf(h, S) = c[S]
  BY Zenon DEF AcphSyllsOf, FoldSet, MapThenFoldSet, SyllSum, First
<1>6. c[S] = f[S]
  <2> HIDE DEF c
  <2> DEFINE T == {s \in SUBSET S : c[s] # f[s]}
  <2>1. \A s \in SUBSET S : c[s] = IF s = {} THEN 0
                                   ELSE c[s \ {First(s)}] + acphGetNrSylls(h[First(s)])
    <3> PICK e : e = c OBVIOUS
    <3>1. c = [s \in SUBSET S |-> IF s = {} THEN 0 ELSE e[s \ {First(s)}] + acphGetNrSylls(h[First(s)])]
      BY <1>4 DEF SyllSum
    <3>2. \A s \in SUBSET S : c[s] = IF s = {} THEN 0
                                     ELSE e[s \ {First(s)}] + acphGetNrSylls(h[First(s)])
      BY <3>1
    <3> QED BY <3>2
  <2>2. T = {}
    <3> SUFFICES ASSUME T # {} PROVE FALSE OBVIOUS
    <3>1. \A s \in T : IsFiniteSet(s) BY <1>0, FS_Subset
    <3>2. PICK s \in T : \A t \in T : Cardinality(s) <= Cardinality(t)
      <4> HIDE DEF T
      <4> QED BY <3>1, SmallestSet
    <3>3. s \in SUBSET S /\ c[s] # f[s] OBVIOUS
    <3>4. s # {} BY <3>3, <2>1, <1>2
    <3>5. First(s) \in s BY <3>4 DEF First
    <3>6. Cardinality(s \ {First(s)}) = Cardinality(s) - 1 /\ Cardinality(s) \in Nat
      BY <3>1, <3>5, Smaller
    <3>7. s \ {First(s)} \notin T BY <3>2, <3>6
    <3>8. c[s \ {First(s)}] = f[s \ {First(s)}] BY <3>3, <3>7
    <3> QED BY <3>3, <3>4, <3>8, <2>1, <1>2
  <2> QED BY <2>2
<1> QED BY <1>5, <1>6

\* The syllables of words do not depend on the order of the words.
LEMMA SyllsAdd ==
  ASSUME NEW h, NEW S, NEW i, i \notin S, SyllsKnown(h, S \cup {i})
  PROVE  /\ AcphSyllsOf(h, S) \in Int /\ AcphSyllsOf(h, {}) = 0
         /\ AcphSyllsOf(h, S \cup {i}) = AcphSyllsOf(h, S) + acphGetNrSylls(h[i])
<1> DEFINE U == S \cup {i}
<1>1. PICK w : w = [x \in U |-> acphGetNrSylls(h[x])] OBVIOUS
<1>0. IsFiniteSet(U) /\ \A x \in U : w[x] \in Int
  <2>1. \A x \in U : acphGetNrSylls(h[x]) \in Nat BY SyllsNat DEF SyllsKnown
  <2> QED BY <1>1, <2>1 DEF SyllsKnown
<1>2. PICK f : IsSum(f, w, U)
  <2> HIDE DEF U
  <2> QED BY <1>0, SumExists
<1>3. U \in SUBSET U /\ S \in SUBSET U /\ {} \in SUBSET U /\ i \in U /\ U \ {i} = S OBVIOUS
<1>4. SyllsKnown(h, U) OBVIOUS
<1> HIDE DEF U
<1>5. \A T \in SUBSET U : AcphSyllsOf(h, T) = f[T] BY <1>1, <1>2, <1>4, SyllsAre
<1>6. f[U] = w[i] + f[S] BY <1>0, <1>2, <1>3, SumRemove
<1>7. f[{}] = 0 BY <1>2, <1>3, SumStep
<1>8. f[S] \in Int /\ w[i] \in Int BY <1>0, <1>2, <1>3, SumType
<1> QED BY <1>1, <1>3, <1>5, <1>6, <1>7, <1>8 DEF U

LEMMA SyllsSame ==
  ASSUME NEW h, NEW k, NEW S, SyllsKnown(h, S), \A x \in S : k[x].phones = h[x].phones
  PROVE  AcphSyllsOf(k, S) = AcphSyllsOf(h, S)
<1>1. PICK w : w = [x \in S |-> acphGetNrSylls(h[x])] OBVIOUS
<1>2. \A x \in S : w[x] = acphGetNrSylls(h[x]) /\ w[x] = acphGetNrSylls(k[x])
  BY <1>1 DEF acphGetNrSylls
<1>3. IsFiniteSet(S) /\ \A x \in S : w[x] \in Int
  <2>1. \A x \in S : acphGetNrSylls(h[x]) \in Nat BY SyllsNat DEF SyllsKnown
  <2> QED BY <1>2, <2>1 DEF SyllsKnown
<1>4. PICK f : IsSum(f, w, S) BY <1>3, SumExists
<1>5. SyllsKnown(k, S) BY DEF SyllsKnown
<1>6. S \in SUBSET S OBVIOUS
<1>7. AcphSyllsOf(k, S) = f[S] BY <1>2, <1>4, <1>5, <1>6, SyllsAre
<1>8. AcphSyllsOf(h, S) = f[S] BY <1>2, <1>4, <1>6, SyllsAre
<1> QED BY <1>7, <1>8

-----------------------------------------------------------------------------
(* The two passes from right to left, as chains of steps. *)

\* A step of phrasing or of accentuation, and what a fold of such steps does with each set
\* of places of m.
AcphStep(x, a, i) ==
  IF x.phr THEN AcphPhrWord(x.answers, a, i) ELSE AcphAccWord(x.answers, x.stray, a, i)
AcphFold(g, x, base, m) ==
  g = [s \in SUBSET DOMAIN m |->
         IF s = {} THEN base ELSE AcphStep(x, g[s \ {Max(s)}], m[Max(s)])]

LEMMA AcphFoldExists ==
  ASSUME NEW m, Listed(m), NEW base, NEW x
  PROVE  \E g : AcphFold(g, x, base, m)
<1> DEFINE D == DOMAIN m
           next(g, s) == AcphStep(x, g[s \ {Max(s)}], m[Max(s)])
           To(g, k) == \A s \in SUBSET D : Cardinality(s) <= k =>
                         g[s] = IF s = {} THEN base ELSE next(g, s)
           Fails == {k \in Nat : ~\E g : g = [s \in SUBSET D |-> g[s]] /\ To(g, k)}
<1>1. Len(m) \in Nat /\ D = 1 .. Len(m) BY ListedLen
<1>2. IsFiniteSet(D) BY <1>1, FS_Interval
<1>3. \A s \in SUBSET D : IsFiniteSet(s) /\ Cardinality(s) \in Nat BY <1>2, FS_Subset, FS_CardinalityType
<1>4. \A s \in SUBSET D : s # {} => Max(s) \in s BY <1>1, MaxOf
<1>5. Fails = {}
  <2> SUFFICES ASSUME Fails # {} PROVE FALSE OBVIOUS
  <2>1. PICK k \in Fails : \A y \in Fails : k <= y
    <3>1. Fails \subseteq Nat OBVIOUS
    <3> HIDE DEF Fails
    <3> QED BY <3>1, LeastNumber
  <2>2. k # 0
    <3> DEFINE g == [s \in SUBSET D |-> base]
    <3>1. \A s \in SUBSET D : Cardinality(s) <= 0 => s = {} BY <1>3, FS_EmptySet
    <3>2. To(g, 0) BY <3>1
    <3>3. g = [s \in SUBSET D |-> g[s]] OBVIOUS
    <3> HIDE DEF To, g
    <3> QED BY <3>2, <3>3
  <2>3. k - 1 \in Nat /\ k - 1 \notin Fails
    <3>1. k \in Nat OBVIOUS
    <3> HIDE DEF Fails
    <3>2. k - 1 \in Nat /\ ~(k <= k - 1) BY <2>2, <3>1
    <3> QED BY <2>1, <3>2
  <2>4. PICK g : g = [s \in SUBSET D |-> g[s]] /\ To(g, k - 1)
    <3> HIDE DEF To
    <3> QED BY <2>3
  <2> DEFINE h == [s \in SUBSET D |-> IF Cardinality(s) = k THEN next(g, s) ELSE g[s]]
  <2>5. ASSUME NEW s \in SUBSET D, Cardinality(s) <= k
        PROVE  h[s] = IF s = {} THEN base ELSE next(h, s)
    <3>1. CASE s = {}
      <4>1. Cardinality(s) = 0 /\ 0 <= k - 1 BY <3>1, <2>3, FS_EmptySet
      <4>2. h[s] = g[s]
        <5>1. Cardinality(s) # k BY <4>1, <2>3
        <5> QED BY <5>1
      <4>3. g[s] = base BY <3>1, <4>1, <2>4
      <4> HIDE DEF h
      <4> QED BY <3>1, <4>2, <4>3
    <3>2. CASE s # {}
      <4> DEFINE z == Max(s)
                 r == s \ {Max(s)}
      <4>1. r \in SUBSET D /\ Cardinality(r) = Cardinality(s) - 1
        <5>1. z \in s BY <1>4, <3>2
        <5> HIDE DEF z
        <5>2. Cardinality(s \ {z}) = Cardinality(s) - 1 BY <1>3, <5>1, Smaller
        <5> QED BY <5>2 DEF z
      <4>2. h[r] = g[r] BY <4>1, <1>3, <2>3, <2>5
      <4> HIDE DEF r
      <4>3. h[s] = next(g, s)
        <5>1. CASE Cardinality(s) = k BY <5>1
        <5>2. CASE Cardinality(s) # k
          <6>1. Cardinality(s) <= k - 1 BY <5>2, <1>3, <2>3, <2>5
          <6>2. g[s] = next(g, s) BY <6>1, <2>4, <3>2
          <6> QED BY <5>2, <6>2
        <5> QED BY <5>1, <5>2
      <4> QED BY <3>2, <4>2, <4>3 DEF r
    <3> QED BY <3>1, <3>2
  <2>6. h = [s \in SUBSET D |-> h[s]] OBVIOUS
  <2>7. To(h, k) BY <2>5
  <2> HIDE DEF h, To
  <2> QED BY <2>1, <2>6, <2>7
<1>6. Cardinality(D) \in Nat /\ \A s \in SUBSET D : Cardinality(s) <= Cardinality(D)
  BY <1>2, FS_Subset, FS_CardinalityType
<1>7. PICK g : g = [s \in SUBSET D |-> g[s]] /\ To(g, Cardinality(D))
  <2> HIDE DEF To
  <2> QED BY <1>5, <1>6
<1>8. g = [s \in SUBSET D |-> IF s = {} THEN base ELSE next(g, s)]
  BY <1>6, <1>7
<1> QED BY <1>8 DEF AcphFold

\* The steps of a fold over n places: W[k] is what the first k of them make.
Chain(W, x, base, m) ==
  /\ W[0] = base
  /\ \A k \in 1 .. Len(m) : W[k] = AcphStep(x, W[k - 1], m[k])

LEMMA FoldChain ==
  ASSUME NEW m, Listed(m), NEW base, NEW x, NEW g, AcphFold(g, x, base, m)
  PROVE  \E W : Chain(W, x, base, m) /\ g[DOMAIN m] = W[Len(m)]
<1>1. Len(m) \in Nat /\ DOMAIN m = 1 .. Len(m) BY ListedLen
<1>2. PICK W : W = [k \in 0 .. Len(m) |-> g[1 .. k]] OBVIOUS
<1>3. ASSUME NEW k \in 0 .. Len(m)
      PROVE  g[1 .. k] = IF k = 0 THEN base ELSE AcphStep(x, g[1 .. k - 1], m[k])
  <2>1. 1 .. k \in SUBSET DOMAIN m BY <1>1
  <2>2. g[1 .. k] = IF 1 .. k = {} THEN base ELSE AcphStep(x, g[(1 .. k) \ {Max(1 .. k)}], m[Max(1 .. k)])
    <3> PICK e : e = g OBVIOUS
    <3>1. g = [s \in SUBSET DOMAIN m |->
                IF s = {} THEN base ELSE AcphStep(x, e[s \ {Max(s)}], m[Max(s)])]
      BY DEF AcphFold
    <3> PICK t : t = 1 .. k OBVIOUS
    <3>2. t \in SUBSET DOMAIN m BY <2>1
    <3>3. g[t] = IF t = {} THEN base ELSE AcphStep(x, e[t \ {Max(t)}], m[Max(t)]) BY <3>1, <3>2
    <3> QED BY <3>3
  <2>3. CASE k = 0
    <3>1. 1 .. k = {} BY <2>3
    <3> QED BY <2>2, <2>3, <3>1
  <2>4. CASE k # 0
    <3>0. k \in Nat /\ k \in 1 .. k BY <1>1, <2>4
    <3>1. k \in Nat /\ k \in 1 .. k /\ 1 .. k # {} /\ 1 .. k \in SUBSET (1 .. k) BY <3>0
    <3>2. Max(1 .. k) \in 1 .. k /\ k <= Max(1 .. k) BY <3>1, MaxOf
    <3>3. Max(1 .. k) = k BY <3>1, <3>2
    <3>4. (1 .. k) \ {k} = 1 .. k - 1 BY <3>1
    <3> QED BY <2>2, <2>4, <3>1, <3>3, <3>4
  <2> QED BY <2>3, <2>4
<1>4. W[0] = base
  <2>1. 0 \in 0 .. Len(m) BY <1>1
  <2> QED BY <1>2, <1>3, <2>1
<1>5. ASSUME NEW k \in 1 .. Len(m) PROVE W[k] = AcphStep(x, W[k - 1], m[k])
  <2>1. k \in 0 .. Len(m) /\ k - 1 \in 0 .. Len(m) /\ k # 0 BY <1>1
  <2> QED BY <1>2, <1>3, <2>1
<1>6. Len(m) \in 0 .. Len(m) BY <1>1
<1> QED BY <1>1, <1>2, <1>4, <1>5, <1>6 DEF Chain

LEMMA DownFrom ==
  ASSUME NEW n \in Nat, NEW to \in Nat, to <= n + 1
  PROVE  /\ Listed(AcphDownFrom(n, to)) /\ Len(AcphDownFrom(n, to)) = n + 1 - to
         /\ \A k \in 1 .. n + 1 - to : AcphDownFrom(n, to)[k] = n + 1 - k
<1> DEFINE d == AcphDownFrom(n, to)
<1>1. n + 1 - to \in Nat OBVIOUS
<1>2. d \in Seq(Int) /\ Len(d) = n + 1 - to BY <1>1 DEF AcphDownFrom
<1>3. \A k \in 1 .. n + 1 - to : d[k] = n + 1 - k BY DEF AcphDownFrom
<1> HIDE DEF d
<1>4. Listed(d) BY <1>1, <1>2, ListedSeq
<1> QED BY <1>2, <1>3, <1>4 DEF d

PhrFold(answers, base, m) == FoldLeft(LAMBDA y, i : AcphPhrWord(answers, y, i), base, m)
AccFold(answers, stray, base, m) == FoldLeft(LAMBDA y, i : AcphAccWord(answers, stray, y, i), base, m)

PhrStep(answers) == [phr |-> TRUE, answers |-> answers]
AccStep(answers, stray) == [phr |-> FALSE, answers |-> answers, stray |-> stray]

LEMMA PhrChain ==
  ASSUME NEW m, Listed(m), NEW base, NEW answers
  PROVE  \E W : /\ Chain(W, PhrStep(answers), base, m)
                /\ PhrFold(answers, base, m) = W[Len(m)]
<1> DEFINE Is(g) == g = [s \in SUBSET DOMAIN m |->
                           IF s = {} THEN base ELSE AcphPhrWord(answers, g[s \ {Max(s)}], m[Max(s)])]
           c == CHOOSE g : Is(g)
<1>1. \A a, i : AcphStep(PhrStep(answers), a, i) = AcphPhrWord(answers, a, i)
  BY DEF AcphStep, PhrStep
<1>2. \A g : Is(g) <=> AcphFold(g, PhrStep(answers), base, m) BY <1>1 DEF AcphFold
<1>3. \E g : Is(g)
  <2> HIDE DEF Is
  <2> QED BY <1>2, AcphFoldExists
<1>4. Is(c)
  <2> HIDE DEF Is
  <2> QED BY <1>3
<1>5. PhrFold(answers, base, m) = c[DOMAIN m]
  BY Zenon DEF PhrFold, FoldLeft, MapThenFoldSet
<1> HIDE DEF Is, c
<1>6. AcphFold(c, PhrStep(answers), base, m) BY <1>2, <1>4
<1>7. PICK W : Chain(W, PhrStep(answers), base, m) /\ c[DOMAIN m] = W[Len(m)] BY <1>6, FoldChain
<1> QED BY <1>5, <1>7, Zenon

LEMMA AccChain ==
  ASSUME NEW m, Listed(m), NEW base, NEW answers, NEW stray
  PROVE  \E W : /\ Chain(W, AccStep(answers, stray), base, m)
                /\ AccFold(answers, stray, base, m) = W[Len(m)]
<1> DEFINE Is(g) == g = [s \in SUBSET DOMAIN m |->
                           IF s = {} THEN base ELSE AcphAccWord(answers, stray, g[s \ {Max(s)}], m[Max(s)])]
           c == CHOOSE g : Is(g)
<1>1. \A a, i : AcphStep(AccStep(answers, stray), a, i) = AcphAccWord(answers, stray, a, i)
  BY DEF AcphStep, AccStep
<1>2. \A g : Is(g) <=> AcphFold(g, AccStep(answers, stray), base, m) BY <1>1 DEF AcphFold
<1>3. \E g : Is(g)
  <2> HIDE DEF Is
  <2> QED BY <1>2, AcphFoldExists
<1>4. Is(c)
  <2> HIDE DEF Is
  <2> QED BY <1>3
<1>5. AccFold(answers, stray, base, m) = c[DOMAIN m]
  BY Zenon DEF AccFold, FoldLeft, MapThenFoldSet
<1> HIDE DEF Is, c
<1>6. AcphFold(c, AccStep(answers, stray), base, m) BY <1>2, <1>4
<1>7. PICK W : Chain(W, AccStep(answers, stray), base, m) /\ c[DOMAIN m] = W[Len(m)] BY <1>6, FoldChain
<1> QED BY <1>5, <1>7, Zenon

-----------------------------------------------------------------------------
(* Phrasing: the words to the left, and those up to the next boundary.     *)

LEMMA WordsIn ==
  ASSUME NEW h, Dressed(h)
  PROVE  /\ Len(h) \in Nat \ {0} /\ DOMAIN h = 1 .. Len(h)
         /\ AcphWords(h) \subseteq 1 .. Len(h) - 1
         /\ \A S : S \subseteq AcphWords(h) =>
              IsFiniteSet(S) /\ Cardinality(S) \in Nat /\ SyllsKnown(h, S)
         /\ Last(h).info2 \in {"T", "Q", "E", "PHRASE", "FORCED"} /\ Last(h) = h[Len(h)]
<1>1. Len(h) \in Nat \ {0} /\ DOMAIN h = 1 .. Len(h)
  <2>1. Listed(h) /\ Len(h) >= 1 BY DEF Dressed
  <2> QED BY <2>1, ListedLen
<1>2. AcphWords(h) \subseteq 1 .. Len(h) - 1
  <2>1. ASSUME NEW i \in AcphWords(h) PROVE i \in 1 .. Len(h) - 1
    <3>1. i \in 1 .. Len(h) /\ h[i].type = "WORDPHON" BY <1>1 DEF AcphWords, AcphIsWord
    <3>2. h[Len(h)].type = "PUNC" BY DEF Dressed, AcphPunc
    <3>3. i # Len(h) BY <3>1, <3>2
    <3>4. \A n \in Nat : \A j \in 1 .. n : j # n => j \in 1 .. n - 1 OBVIOUS
    <3> QED BY <1>1, <3>1, <3>3, <3>4
  <2> QED BY <2>1, SMTT(20)
<1>3. IsFiniteSet(1 .. Len(h) - 1)
  <2>1. 1 \in Int /\ Len(h) - 1 \in Int BY <1>1
  <2> QED BY <2>1, FS_Interval
<1>4. ASSUME NEW S, S \subseteq AcphWords(h)
      PROVE  IsFiniteSet(S) /\ Cardinality(S) \in Nat /\ SyllsKnown(h, S)
  <2>1. S \subseteq 1 .. Len(h) - 1 BY <1>2, <1>4
  <2>2. IsFiniteSet(S) BY <1>3, <2>1, FS_Subset
  <2>3. \A x \in S : x \in 1 .. Len(h) BY <1>1, <2>1
  <2>4. \A x \in S : h[x].phones \in Seq(STRING) BY <2>3 DEF Dressed
  <2> QED BY <2>2, <2>4, FS_CardinalityType DEF SyllsKnown
<1>5. Last(h) = h[Len(h)] BY DEF Last
<1>6. h[Len(h)].info2 \in {"T", "Q", "E", "PHRASE", "FORCED"} BY DEF Dressed, AcphPunc
<1> QED BY <1>1, <1>2, <1>4, <1>5, <1>6

LEMMA AlikeKeeps ==
  ASSUME NEW h, Dressed(h), NEW k, Alike(h, k)
  PROVE  /\ Dressed(k) /\ AcphWords(k) = AcphWords(h) /\ Ending(k) = Ending(h)
         /\ Last(k).info1 = Last(h).info1
<1>1. Len(h) \in Nat \ {0} /\ DOMAIN h = 1 .. Len(h) BY WordsIn
<1>2. Listed(k) /\ Len(k) = Len(h) /\ DOMAIN k = 1 .. Len(h)
  <2>1. Listed(k) /\ Len(k) = Len(h) BY DEF Alike
  <2> QED BY <2>1, ListedLen
<1>3. Len(h) \in 1 .. Len(h) BY <1>1
<1>4. AcphPunc(k[Len(h)]) /\ k[Len(h)].info2 = h[Len(h)].info2 /\ k[Len(h)].info1 = h[Len(h)].info1
  <2>1. AcphPunc(h[Len(h)]) BY DEF Dressed
  <2>2. h[Len(h)].type # "WORDPHON" BY <2>1 DEF AcphPunc
  <2>3. /\ k[Len(h)].type = h[Len(h)].type /\ k[Len(h)].info1 = h[Len(h)].info1
        /\ k[Len(h)].info2 = h[Len(h)].info2
    BY <1>3, <2>2 DEF Alike
  <2> QED BY <2>1, <2>3 DEF AcphPunc
<1>5. ASSUME NEW i \in 1 .. Len(h) - 1 PROVE AcphInside(k[i])
  <2>1. i \in 1 .. Len(h) BY <1>1
  <2>2. AcphInside(h[i]) BY DEF Dressed
  <2>3. k[i].type = h[i].type /\ (h[i].type = "WORDPHON" \/ k[i].info2 = h[i].info2) BY <2>1 DEF Alike
  <2> QED BY <2>2, <2>3 DEF AcphInside
<1>6. \A i \in 1 .. Len(h) : /\ DOMAIN k[i] = AcphFields /\ k[i].phones \in Seq(STRING)
                             /\ k[i] = [f \in AcphFields |-> k[i][f]]
  BY DEF Alike, Dressed
<1>7. Dressed(k) BY <1>1, <1>2, <1>4, <1>5, <1>6 DEF Dressed
<1>8. AcphWords(k) = AcphWords(h) BY <1>1, <1>2 DEF AcphWords, AcphIsWord, Alike
<1> QED BY <1>2, <1>4, <1>7, <1>8 DEF Last, Ending

WordsTo(h, m) == {j \in AcphWords(h) : j <= m}
WordsBefore(h, i) == {j \in AcphWords(h) : j < i}
Marks(h, m) == {Len(h) + 1} \cup {j \in AcphWords(h) : j > m /\ Cut(h[j])}
Stop(h, m) == Min(Marks(h, m))
RightOf(h, m) == {j \in AcphWords(h) : j > m /\ j < Stop(h, m)}
RightFrom(h, i) == {j \in AcphWords(h) : j >= i /\ j < Stop(h, i)}

LEMMA StopIs ==
  ASSUME NEW h, Dressed(h), NEW m \in Nat
  PROVE  /\ Stop(h, m) \in Nat /\ Stop(h, m) \in Marks(h, m)
         /\ \A y \in Marks(h, m) : Stop(h, m) <= y
<1>1. Len(h) \in Nat \ {0} /\ AcphWords(h) \subseteq 1 .. Len(h) - 1 BY WordsIn
<1>2. Marks(h, m) \in SUBSET Nat /\ Marks(h, m) # {} BY <1>1 DEF Marks
<1> QED BY <1>2, MinOf DEF Stop

LEMMA StopStep ==
  ASSUME NEW h, Dressed(h), NEW m \in 1 .. Len(h)
  PROVE  /\ m \notin AcphWords(h) => RightOf(h, m - 1) = RightOf(h, m)
         /\ m \in AcphWords(h) =>
              /\ RightFrom(h, m) = RightOf(h, m) \cup {m} /\ m \notin RightOf(h, m)
              /\ RightOf(h, m - 1) = IF Cut(h[m]) THEN {} ELSE RightOf(h, m) \cup {m}
<1>1. Len(h) \in Nat \ {0} /\ AcphWords(h) \subseteq 1 .. Len(h) - 1 BY WordsIn
<1>2. m \in Nat /\ m - 1 \in Nat BY <1>1
<1>3. /\ Stop(h, m) \in Nat /\ Stop(h, m) \in Marks(h, m)
      /\ \A y \in Marks(h, m) : Stop(h, m) <= y
  BY <1>2, StopIs
<1>4. /\ Stop(h, m - 1) \in Nat /\ Stop(h, m - 1) \in Marks(h, m - 1)
      /\ \A y \in Marks(h, m - 1) : Stop(h, m - 1) <= y
  BY <1>2, StopIs
<1>5. \A j \in AcphWords(h) : j \in Nat /\ (j > m - 1 <=> j > m \/ j = m) BY <1>1, <1>2
<1>6. Stop(h, m) > m BY <1>1, <1>2, <1>3 DEF Marks
<1>7. CASE m \notin AcphWords(h)
  <2>1. Marks(h, m - 1) = Marks(h, m) BY <1>5, <1>7 DEF Marks
  <2>2. Stop(h, m - 1) = Stop(h, m) BY <2>1 DEF Stop
  <2> QED BY <1>5, <1>7, <2>2 DEF RightOf
<1>8. CASE m \in AcphWords(h)
  <2>1. RightFrom(h, m) = RightOf(h, m) \cup {m} /\ m \notin RightOf(h, m)
    <3>1. \A j \in AcphWords(h) : j >= m <=> j > m \/ j = m BY <1>5, <1>2
    <3>2. ~(m > m) /\ m >= m BY <1>2
    <3>3. m \notin RightOf(h, m) BY <3>2 DEF RightOf
    <3>4. \A j : j \in RightFrom(h, m) <=> j \in RightOf(h, m) \/ j = m
      BY <1>6, <1>8, <3>1, <3>2 DEF RightFrom, RightOf
    <3> QED BY <3>3, <3>4
  <2>2. CASE Cut(h[m])
    <3>1. m \in Marks(h, m - 1) BY <1>5, <1>8, <1>2, <2>2 DEF Marks
    <3>2. Stop(h, m - 1) <= m BY <1>4, <3>1
    <3>3. \A j \in AcphWords(h) : ~(j > m - 1 /\ j < Stop(h, m - 1)) BY <1>2, <1>4, <1>5, <3>2
    <3>4. RightOf(h, m - 1) = {} BY <3>3 DEF RightOf
    <3> QED BY <1>8, <2>1, <2>2, <3>4
  <2>3. CASE ~Cut(h[m])
    <3>1. Marks(h, m - 1) = Marks(h, m) BY <1>5, <2>3 DEF Marks
    <3>2. Stop(h, m - 1) = Stop(h, m) BY <3>1 DEF Stop
    <3>3. RightOf(h, m - 1) = RightOf(h, m) \cup {m} BY <1>5, <1>6, <1>8, <3>2 DEF RightOf
    <3> QED BY <1>8, <2>1, <2>3, <3>3
  <2> QED BY <2>2, <2>3
<1> QED BY <1>7, <1>8

\* What is to the right of a word does not depend on what is to its left.
SameRight(h, k, m) == \A j \in AcphWords(h) : j > m => (Cut(k[j]) <=> Cut(h[j]))

LEMMA RightSame ==
  ASSUME NEW h, Dressed(h), NEW k, Alike(h, k), NEW m \in Nat, SameRight(h, k, m)
  PROVE  /\ RightOf(k, m) = RightOf(h, m) /\ RightFrom(k, m) = RightFrom(h, m)
         /\ AcphSyllsOf(k, RightOf(h, m)) = AcphSyllsOf(h, RightOf(h, m))
         /\ AcphSyllsOf(k, RightFrom(h, m)) = AcphSyllsOf(h, RightFrom(h, m))
<1>1. AcphWords(k) = AcphWords(h) /\ Len(k) = Len(h) BY AlikeKeeps DEF Alike
<1>2. Marks(k, m) = Marks(h, m) BY <1>1 DEF Marks, SameRight
<1>3. Stop(k, m) = Stop(h, m) BY <1>2 DEF Stop
<1>4. RightOf(k, m) = RightOf(h, m) /\ RightFrom(k, m) = RightFrom(h, m)
  BY <1>1, <1>3 DEF RightOf, RightFrom
<1>5. ASSUME NEW S, S \subseteq AcphWords(h) PROVE AcphSyllsOf(k, S) = AcphSyllsOf(h, S)
  <2>1. SyllsKnown(h, S) BY <1>5, WordsIn
  <2>2. \A x \in S : x \in 1 .. Len(h)
    <3>1. Len(h) \in Nat /\ AcphWords(h) \subseteq 1 .. Len(h) - 1 BY WordsIn
    <3> QED BY <1>5, <3>1
  <2>3. \A x \in S : k[x].phones = h[x].phones BY <2>2 DEF Alike
  <2> QED BY <2>1, <2>3, SyllsSame
<1>6. RightOf(h, m) \subseteq AcphWords(h) /\ RightFrom(h, m) \subseteq AcphWords(h)
  BY DEF RightOf, RightFrom
<1> QED BY <1>4, <1>5, <1>6

\* What phrasing was asked about the word at i.
PhrAsked(h, asked, i) ==
  /\ asked[i].pre = Cardinality(WordsBefore(h, i))
  /\ asked[i].fol = Cardinality(RightFrom(h, i))
  /\ asked[i].sylls = AcphSyllsOf(h, RightFrom(h, i))
Inner(h, i) == i \in AcphWords(h) /\ WordsBefore(h, i) # {}

\* Phrasing when the items behind m are done.
PhrInv(items, a, m) ==
  /\ Alike(items, a.headx)
  /\ \A i \in 1 .. Len(items) :
       i <= m \/ i \notin AcphWords(items) => a.headx[i].bstrength = "ERR" /\ a.headx[i].btype = "NONE"
  /\ DOMAIN a.asked = 1 .. Len(items)
  /\ a.nosub = (Cuts(a.headx) = {})
  /\ \A i \in Cuts(a.headx) : a.headx[i].btype = TypeAt(a.headx, i)
  /\ a.pre = IF WordsTo(items, m) = {} THEN 1 ELSE Cardinality(WordsTo(items, m))
  /\ WordsTo(items, m) # {} => /\ a.fol = Cardinality(RightOf(a.headx, m))
                               /\ a.sylls = AcphSyllsOf(a.headx, RightOf(a.headx, m))
  /\ \A i \in 1 .. Len(items) : i > m /\ Inner(items, i) => PhrAsked(a.headx, a.asked, i)

LEMMA WordsStep ==
  ASSUME NEW h, Dressed(h), NEW m \in 1 .. Len(h)
  PROVE  /\ m \notin AcphWords(h) => WordsTo(h, m - 1) = WordsTo(h, m)
         /\ m \in AcphWords(h) =>
              /\ WordsTo(h, m - 1) = WordsBefore(h, m) /\ WordsTo(h, m) # {}
              /\ Cardinality(WordsTo(h, m)) = Cardinality(WordsBefore(h, m)) + 1
         /\ Cardinality(WordsBefore(h, m)) \in Nat
         /\ WordsBefore(h, m) = {} <=> Cardinality(WordsBefore(h, m)) = 0
<1>1. Len(h) \in Nat \ {0} /\ AcphWords(h) \subseteq 1 .. Len(h) - 1 BY WordsIn
<1>2. \A j \in AcphWords(h) : j \in Nat BY <1>1
<1>3. WordsTo(h, m) \subseteq AcphWords(h) /\ WordsBefore(h, m) \subseteq AcphWords(h)
  BY DEF WordsTo, WordsBefore
<1>4. /\ IsFiniteSet(WordsTo(h, m)) /\ IsFiniteSet(WordsBefore(h, m))
      /\ Cardinality(WordsBefore(h, m)) \in Nat
  BY <1>3, WordsIn
<1>5. m \in Nat BY <1>1
<1>6. CASE m \notin AcphWords(h)
  <2>1. \A j \in AcphWords(h) : j <= m - 1 <=> j <= m BY <1>2, <1>5, <1>6
  <2>2. WordsTo(h, m - 1) = WordsTo(h, m) BY <2>1 DEF WordsTo
  <2> QED BY <1>4, <1>6, <2>2, FS_EmptySet
<1>7. CASE m \in AcphWords(h)
  <2>1. \A j \in AcphWords(h) : (j <= m - 1 <=> j < m) /\ (j <= m <=> j < m \/ j = m)
    BY <1>2, <1>5
  <2>2. WordsTo(h, m - 1) = WordsBefore(h, m) BY <2>1 DEF WordsTo, WordsBefore
  <2>3. m \in WordsTo(h, m) /\ WordsTo(h, m) \ {m} = WordsBefore(h, m)
    <3>1. ~(m < m) /\ m <= m BY <1>5
    <3> QED BY <1>7, <2>1, <3>1 DEF WordsTo, WordsBefore
  <2>4. /\ Cardinality(WordsTo(h, m) \ {m}) = Cardinality(WordsTo(h, m)) - 1
        /\ Cardinality(WordsTo(h, m)) \in Nat
    <3> HIDE DEF WordsTo
    <3>1. IsFiniteSet(WordsTo(h, m)) /\ m \in WordsTo(h, m) BY <1>4, <2>3
    <3> QED BY <3>1, Smaller
  <2>5. WordsTo(h, m) # {} BY <2>3
  <2>6. Cardinality(WordsTo(h, m)) = Cardinality(WordsBefore(h, m)) + 1
    <3>1. Cardinality(WordsTo(h, m)) - 1 = Cardinality(WordsBefore(h, m)) BY <2>3, <2>4, Zenon
    <3> QED BY <2>4, <3>1
  <2>7. WordsBefore(h, m) = {} <=> Cardinality(WordsBefore(h, m)) = 0 BY <1>4, FS_EmptySet
  <2> QED BY <1>4, <1>7, <2>2, <2>5, <2>6, <2>7
<1> QED BY <1>6, <1>7

\* One boundary of h is decided.
Bounded(h, i, s, t, k) == k = [h EXCEPT ![i].bstrength = s, ![i].btype = t]

LEMMA BoundSet ==
  ASSUME NEW h, Dressed(h), NEW i \in 1 .. Len(h), NEW s, NEW t, NEW k, Bounded(h, i, s, t, k)
  PROVE  /\ Alike(h, k) /\ k[i].bstrength = s /\ k[i].btype = t
         /\ \A j \in 1 .. Len(h) : j # i => k[j] = h[j]
<1>0. k = [h EXCEPT ![i].bstrength = s, ![i].btype = t] BY DEF Bounded
<1>1. Listed(h) /\ Len(h) \in Nat /\ DOMAIN h = 1 .. Len(h) BY WordsIn DEF Dressed
<1>2. DOMAIN k = 1 .. Len(h) /\ k = [j \in 1 .. Len(h) |-> k[j]]
  BY <1>0, <1>1
<1>3. Listed(k) BY <1>1, <1>2 DEF Listed
<1>4. Len(k) = Len(h)
  <2>1. Len(k) \in Nat /\ DOMAIN k = 1 .. Len(k) BY <1>3, ListedLen
  <2>2. \A u, v \in Nat : 1 .. u = 1 .. v => u = v
    <3>1. ASSUME NEW u \in Nat, NEW v \in Nat, 1 .. u = 1 .. v, u < v PROVE FALSE
      <4>1. v \in 1 .. v /\ v \notin 1 .. u BY <3>1
      <4> QED BY <3>1, <4>1
    <3> QED BY <3>1
  <2> QED BY <1>1, <1>2, <2>1, <2>2
<1>5. \A j \in 1 .. Len(h) : j # i => k[j] = h[j] BY <1>0, <1>1
<1>6. k[i] = [[h[i] EXCEPT !.bstrength = s] EXCEPT !.btype = t] BY <1>0, <1>1
<1>7. DOMAIN h[i] = AcphFields /\ h[i] = [f \in AcphFields |-> h[i][f]] BY DEF Dressed
<1>8. /\ DOMAIN k[i] = AcphFields /\ k[i] = [f \in AcphFields |-> k[i][f]]
      /\ k[i].bstrength = s /\ k[i].btype = t /\ k[i].type = h[i].type /\ k[i].info1 = h[i].info1
      /\ k[i].info2 = h[i].info2 /\ k[i].phones = h[i].phones
  <2> PICK r : r = h[i] OBVIOUS
  <2> PICK q : q = [r EXCEPT !.bstrength = s] OBVIOUS
  <2> PICK z : z = [q EXCEPT !.btype = t] OBVIOUS
  <2>1. DOMAIN r = AcphFields /\ r = [f \in AcphFields |-> r[f]] BY <1>7
  <2>2. q = [f \in AcphFields |-> IF f = "bstrength" THEN s ELSE r[f]] BY <2>1
  <2>3. DOMAIN q = AcphFields BY <2>2
  <2>4. z = [f \in AcphFields |-> IF f = "btype" THEN t ELSE q[f]] BY <2>2, <2>3
  <2>5. DOMAIN z = AcphFields /\ z = [f \in AcphFields |-> z[f]] BY <2>4
  <2>6. /\ z.bstrength = s /\ z.btype = t /\ z.type = r.type /\ z.info1 = r.info1
        /\ z.info2 = r.info2 /\ z.phones = r.phones
    BY <2>2, <2>4 DEF AcphFields
  <2>7. k[i] = z BY <1>6
  <2> QED BY <2>5, <2>6, <2>7, ZenonT(30)
<1>9. ASSUME NEW j \in 1 .. Len(h)
      PROVE  /\ DOMAIN k[j] = AcphFields /\ k[j] = [f \in AcphFields |-> k[j][f]]
             /\ k[j].type = h[j].type /\ k[j].info1 = h[j].info1 /\ k[j].phones = h[j].phones
             /\ k[j].info2 = h[j].info2
  <2>1. CASE j = i BY <1>8, <2>1
  <2>2. CASE j # i
    <3>1. DOMAIN h[j] = AcphFields /\ h[j] = [f \in AcphFields |-> h[j][f]] BY DEF Dressed
    <3>2. k[j] = h[j] BY <1>5, <2>2
    <3> QED BY <3>1, <3>2
  <2> QED BY <2>1, <2>2
<1>10. Alike(h, k)
  <2> HIDE DEF AcphFields
  <2> QED BY <1>3, <1>4, <1>9 DEF Alike
<1> QED BY <1>5, <1>8, <1>10

LEMMA AlikeTrans ==
  ASSUME NEW h, NEW k, NEW l, Alike(h, k), Alike(k, l)
  PROVE  Alike(h, l)
BY DEF Alike

LEMMA AlikeSelf == ASSUME NEW h, Dressed(h) PROVE Alike(h, h)
BY DEF Alike, Dressed

\* One more boundary, to the left of the others.
LeftOfCuts(i, h) == \A j \in Cuts(h) : i < j

LEMMA CutsAdd ==
  ASSUME NEW h, Dressed(h), NEW i \in 2 .. Len(h), NEW s, NEW t, ~Cut(h[i]),
         LeftOfCuts(i, h),
         NEW k, Bounded(h, i, s, t, k)
  PROVE  /\ Cuts(k) = (IF s \in {"PHR2", "PHR3"} THEN Cuts(h) \cup {i} ELSE Cuts(h))
         /\ s \in {"PHR2", "PHR3"} => Max(Cuts(k)) = IF Cuts(h) = {} THEN i ELSE Max(Cuts(h))
<1> USE DEF LeftOfCuts
<1>1. i \in 1 .. Len(h) /\ Len(h) \in Nat BY WordsIn
<1>2. /\ Alike(h, k) /\ k[i].bstrength = s
      /\ \A j \in 1 .. Len(h) : j # i => k[j] = h[j]
  BY <1>1, BoundSet
<1>3. Len(k) = Len(h) BY <1>2 DEF Alike
<1>4. \A j \in 2 .. Len(h) : j # i => k[j] = h[j]
  <2>1. \A j \in 2 .. Len(h) : j \in 1 .. Len(h) BY <1>1
  <2> QED BY <1>2, <2>1
<1>5. i \notin Cuts(h) BY DEF Cuts
<1>6. Cuts(k) = IF s \in {"PHR2", "PHR3"} THEN Cuts(h) \cup {i} ELSE Cuts(h)
  <2>1. \A j : j \in Cuts(k) <=> j \in Cuts(h) \/ (j = i /\ s \in {"PHR2", "PHR3"})
    BY <1>2, <1>3, <1>4, <1>5 DEF Cuts, Cut
  <2> QED BY <2>1
<1>7. ASSUME s \in {"PHR2", "PHR3"}
      PROVE  Max(Cuts(k)) = IF Cuts(h) = {} THEN i ELSE Max(Cuts(h))
  <2>1. Cuts(k) = Cuts(h) \cup {i} BY <1>6, <1>7
  <2>2. Cuts(k) \in SUBSET (1 .. Len(h)) /\ Cuts(h) \in SUBSET (1 .. Len(h))
    <3>1. \A j \in 2 .. Len(h) : j \in 1 .. Len(h) BY <1>1
    <3> QED BY <1>3, <3>1 DEF Cuts
  <2>3. Max(Cuts(k)) \in Cuts(k) /\ \A y \in Cuts(k) : y <= Max(Cuts(k)) BY <1>1, <2>1, <2>2, MaxOf
  <2>4. CASE Cuts(h) = {} BY <2>1, <2>3, <2>4
  <2>5. CASE Cuts(h) # {}
    <3>1. Max(Cuts(h)) \in Cuts(h) /\ \A y \in Cuts(h) : y <= Max(Cuts(h)) BY <1>1, <2>2, <2>5, MaxOf
    <3>6. \A y \in Cuts(h) \cup Cuts(k) : y \in Nat BY <1>1, <2>2
    <3>2. Max(Cuts(h)) \in Nat /\ Max(Cuts(k)) \in Nat /\ i \in Nat BY <2>3, <3>1, <3>6, <1>1
    <3>3. Max(Cuts(h)) <= Max(Cuts(k)) /\ i < Max(Cuts(h)) BY <2>1, <2>3, <3>1
    <3>4. Max(Cuts(k)) \in Cuts(h)
      <4>1. Max(Cuts(k)) # i BY <3>2, <3>3
      <4> QED BY <2>1, <2>3, <4>1
    <3>5. Max(Cuts(k)) <= Max(Cuts(h)) BY <3>1, <3>4
    <3> QED BY <2>5, <3>2, <3>3, <3>5
  <2> QED BY <2>4, <2>5
<1> QED BY <1>6, <1>7

LEMMA PhrStepKeeps ==
  ASSUME NEW items, Dressed(items), NEW m \in 2 .. Len(items), NEW a, PhrInv(items, a, m),
         NEW answers
  PROVE  PhrInv(items, AcphPhrWord(answers, a, m), m - 1)
<1> DEFINE h == a.headx
           b == AcphPhrWord(answers, a, m)
<1> SUFFICES PhrInv(items, b, m - 1) OBVIOUS
<1>1. Alike(items, h) /\ Dressed(h) /\ AcphWords(h) = AcphWords(items) /\ Len(h) = Len(items)
  <2>1. Alike(items, h) BY DEF PhrInv
  <2> QED BY <2>1, AlikeKeeps DEF Alike
<1>2. Len(items) \in Nat /\ m \in 1 .. Len(items) /\ m - 1 \in Nat /\ m \in Nat BY WordsIn
<1>3. AcphIsWord(h, m) <=> m \in AcphWords(items)
  <2>1. DOMAIN h = 1 .. Len(items) BY <1>1, WordsIn
  <2>2. m \in AcphWords(h) <=> AcphIsWord(h, m) BY <1>2, <2>1 DEF AcphWords
  <2> QED BY <1>1, <2>2
<1>4. /\ \A i \in 1 .. Len(items) : i <= m - 1 => i <= m
      /\ \A i \in 1 .. Len(items) : i > m - 1 <=> i > m \/ i = m
  BY <1>2
<1>5. CASE m \notin AcphWords(items)
  <2>1. b = a BY <1>3, <1>5 DEF AcphPhrWord
  <2>2. RightOf(h, m - 1) = RightOf(h, m) BY <1>1, <1>2, <1>5, StopStep
  <2>3. WordsTo(items, m - 1) = WordsTo(items, m) BY <1>2, <1>5, WordsStep
  <2>4. ~Inner(items, m) BY <1>5 DEF Inner
  <2> HIDE DEF b
  <2>5. /\ \A i \in 1 .. Len(items) : i <= m - 1 \/ i \notin AcphWords(items) =>
              h[i].bstrength = "ERR" /\ h[i].btype = "NONE"
        /\ \A i \in 1 .. Len(items) : i > m - 1 /\ Inner(items, i) => PhrAsked(h, a.asked, i)
    BY <1>4, <2>4 DEF PhrInv
  <2>6. PhrInv(items, a, m - 1) BY <2>2, <2>3, <2>5, Zenon DEF PhrInv
  <2> QED BY <2>1, <2>6
<1>6. CASE m \in AcphWords(items) /\ a.pre <= 1
  <2>1. b = a BY <1>3, <1>6 DEF AcphPhrWord
  <2>2. /\ WordsTo(items, m - 1) = WordsBefore(items, m) /\ WordsTo(items, m) # {}
        /\ Cardinality(WordsTo(items, m)) = Cardinality(WordsBefore(items, m)) + 1
        /\ Cardinality(WordsBefore(items, m)) \in Nat
        /\ WordsBefore(items, m) = {} <=> Cardinality(WordsBefore(items, m)) = 0
    BY <1>2, <1>6, WordsStep
  <2>3. a.pre = Cardinality(WordsTo(items, m)) BY <2>2 DEF PhrInv
  <2>4. a.pre = 1 /\ WordsTo(items, m - 1) = {} BY <1>6, <2>2, <2>3
  <2>5. ~Inner(items, m) BY <2>2, <2>4 DEF Inner
  <2> HIDE DEF b
  <2>6. /\ \A i \in 1 .. Len(items) : i <= m - 1 \/ i \notin AcphWords(items) =>
              h[i].bstrength = "ERR" /\ h[i].btype = "NONE"
        /\ \A i \in 1 .. Len(items) : i > m - 1 /\ Inner(items, i) => PhrAsked(h, a.asked, i)
    BY <1>4, <2>5 DEF PhrInv
  <2>7. PhrInv(items, a, m - 1) BY <2>4, <2>6, Zenon DEF PhrInv
  <2> QED BY <2>1, <2>7
<1>7. CASE m \in AcphWords(items) /\ ~(a.pre <= 1)
  <2> DEFINE cut == answers[m] \in {"PHR2", "PHR3"}
             type == IF a.nosub THEN AcphBoundType(Last(h), h[m].btype) ELSE "P"
             t == IF cut THEN type ELSE h[m].btype
             k == [h EXCEPT ![m].bstrength = answers[m], ![m].btype = t]
             ask == [vals |-> AcphSlide(h, a.w, m).vals, pre |-> a.pre - 1, fol |-> a.fol + 1,
                     sylls |-> a.sylls + acphGetNrSylls(h[m])]
  <2>1. /\ b.headx = [h EXCEPT ![m].bstrength = answers[m], ![m].btype = IF cut THEN type ELSE @]
        /\ b.nosub = (a.nosub /\ ~cut) /\ b.pre = a.pre - 1
        /\ b.fol = (IF cut THEN 0 ELSE a.fol + 1)
        /\ b.sylls = (IF cut THEN 0 ELSE a.sylls + acphGetNrSylls(h[m]))
        /\ b.asked = [a.asked EXCEPT ![m] = ask]
    BY <1>3, <1>7 DEF AcphPhrWord
  <2>2. b.headx = k
    <3> HIDE DEF b
    <3>1. DOMAIN h = 1 .. Len(items) BY <1>1, WordsIn
    <3>2. DOMAIN h[m] = AcphFields BY <1>1, <1>2 DEF Dressed
    <3> PICK r : r = h[m] OBVIOUS
    <3>3. [r EXCEPT !.bstrength = answers[m]].btype = r.btype BY <3>2 DEF AcphFields
    <3> QED BY <1>2, <2>1, <3>1, <3>3
  <2>22. Bounded(h, m, answers[m], t, k) BY DEF Bounded
  <2> HIDE DEF b, k, t
  <2>3. /\ Alike(h, k) /\ k[m].bstrength = answers[m] /\ k[m].btype = t
        /\ \A j \in 1 .. Len(items) : j # m => k[j] = h[j]
    BY <1>1, <1>2, <2>22, BoundSet
  <2>4. Alike(items, k) /\ Dressed(k) /\ Ending(k) = Ending(items) /\ Ending(h) = Ending(items)
        /\ Len(k) = Len(items) /\ AcphWords(k) = AcphWords(items)
    <3>1. Alike(items, k) BY <1>1, <2>3, AlikeTrans
    <3> QED BY <1>1, <3>1, AlikeKeeps DEF Alike
  <2>5. /\ h[m].bstrength = "ERR" /\ h[m].btype = "NONE" /\ ~Cut(h[m])
    <3>1. m <= m BY <1>2
    <3> QED BY <1>2, <3>1 DEF PhrInv, Cut
  <2>6. \A j \in Cuts(h) : m < j
    <3>1. ASSUME NEW j \in Cuts(h) PROVE m < j
      <4>1. j \in 1 .. Len(items) /\ Cut(h[j]) BY <1>1, <1>2 DEF Cuts
      <4>2. ~(j <= m) BY <4>1 DEF PhrInv, Cut
      <4> QED BY <1>2, <4>1, <4>2
    <3> QED BY <3>1
  <2>7. /\ Cuts(k) = IF cut THEN Cuts(h) \cup {m} ELSE Cuts(h)
        /\ cut => Max(Cuts(k)) = IF Cuts(h) = {} THEN m ELSE Max(Cuts(h))
    <3>1. m \in 2 .. Len(h) BY <1>1
    <3> PICK g : g = h OBVIOUS
    <3> PICK s : s = answers[m] OBVIOUS
    <3>2. Dressed(g) /\ ~Cut(g[m]) /\ Bounded(g, m, s, t, k) /\ m \in 2 .. Len(g)
      BY <1>1, <2>5, <2>22, <3>1
    <3>3. LeftOfCuts(m, g) BY <2>6 DEF LeftOfCuts
    <3>4. /\ Cuts(k) = (IF s \in {"PHR2", "PHR3"} THEN Cuts(g) \cup {m} ELSE Cuts(g))
          /\ s \in {"PHR2", "PHR3"} => Max(Cuts(k)) = IF Cuts(g) = {} THEN m ELSE Max(Cuts(g))
      BY ONLY <3>2, <3>3, CutsAdd
    <3> QED BY <3>4
  <2>8. /\ WordsTo(items, m - 1) = WordsBefore(items, m) /\ WordsTo(items, m) # {}
        /\ Cardinality(WordsTo(items, m)) = Cardinality(WordsBefore(items, m)) + 1
        /\ Cardinality(WordsBefore(items, m)) \in Nat
        /\ WordsBefore(items, m) = {} <=> Cardinality(WordsBefore(items, m)) = 0
    BY <1>2, <1>7, WordsStep
  <2>9. /\ a.pre = Cardinality(WordsTo(items, m)) /\ a.fol = Cardinality(RightOf(h, m))
        /\ a.sylls = AcphSyllsOf(h, RightOf(h, m))
    BY <2>8 DEF PhrInv
  <2>10. WordsBefore(items, m) # {} /\ a.pre - 1 = Cardinality(WordsBefore(items, m))
    BY <1>7, <2>8, <2>9
  <2>11. SameRight(h, k, m)
    <3>1. \A j \in AcphWords(h) : j > m => j \in 1 .. Len(items) /\ j # m
      <4>1. AcphWords(h) \subseteq 1 .. Len(items) - 1 BY <1>1, WordsIn
      <4> QED BY <1>2, <4>1
    <3> QED BY <2>3, <3>1 DEF SameRight
  <2>12. /\ RightOf(k, m) = RightOf(h, m) /\ RightFrom(k, m) = RightFrom(h, m)
         /\ AcphSyllsOf(k, RightFrom(h, m)) = AcphSyllsOf(h, RightFrom(h, m))
    BY <1>1, <1>2, <2>3, <2>11, RightSame
  <2>13. /\ RightFrom(h, m) = RightOf(h, m) \cup {m} /\ m \notin RightOf(h, m)
         /\ RightOf(k, m - 1) = IF cut THEN {} ELSE RightOf(k, m) \cup {m}
    <3>1. RightFrom(h, m) = RightOf(h, m) \cup {m} /\ m \notin RightOf(h, m)
      BY <1>1, <1>2, <1>7, StopStep
    <3>2. RightOf(k, m - 1) = IF Cut(k[m]) THEN {} ELSE RightOf(k, m) \cup {m}
      BY <1>2, <1>7, <2>4, StopStep
    <3> QED BY <2>3, <3>1, <3>2 DEF Cut
  <2>14. /\ Cardinality(RightFrom(h, m)) = a.fol + 1
         /\ AcphSyllsOf(h, RightFrom(h, m)) = a.sylls + acphGetNrSylls(h[m])
         /\ AcphSyllsOf(k, {}) = 0 /\ Cardinality({}) = 0
    <3>1. RightFrom(h, m) \subseteq AcphWords(h) /\ RightOf(h, m) \subseteq AcphWords(h)
      BY DEF RightFrom, RightOf
    <3>2. IsFiniteSet(RightFrom(h, m)) /\ SyllsKnown(h, RightFrom(h, m)) /\ IsFiniteSet(RightOf(h, m))
      BY <1>1, <3>1, WordsIn
    <3>3. AcphSyllsOf(h, RightFrom(h, m)) = a.sylls + acphGetNrSylls(h[m])
      BY <2>9, <2>13, <3>2, SyllsAdd
    <3>4. Cardinality(RightFrom(h, m)) = a.fol + 1
      BY <2>9, <2>13, <3>2, FS_AddElement
    <3>5. SyllsKnown(k, {} \cup {m})
      <4>1. {m} \subseteq AcphWords(k) BY <1>7, <2>4
      <4>2. SyllsKnown(k, {m}) BY <2>4, <4>1, WordsIn
      <4> QED BY <4>2
    <3>6. AcphSyllsOf(k, {}) = 0 BY <3>5, SyllsAdd
    <3> QED BY <3>3, <3>4, <3>6, FS_EmptySet
  <2> HIDE DEF ask
  <2>15. \A i \in 1 .. Len(items) : i <= m - 1 \/ i \notin AcphWords(items) =>
            k[i].bstrength = "ERR" /\ k[i].btype = "NONE"
    <3>1. \A i \in 1 .. Len(items) : i <= m - 1 \/ i \notin AcphWords(items) => i # m /\ (i <= m \/ i \notin AcphWords(items))
      BY <1>2, <1>7
    <3> QED BY <2>3, <3>1 DEF PhrInv
  <2>16. (a.nosub /\ ~cut) = (Cuts(k) = {}) /\ a.nosub = (Cuts(h) = {})
    <3>1. a.nosub = (Cuts(h) = {}) BY DEF PhrInv
    <3> QED BY <2>7, <3>1
  <2>17. ASSUME NEW i \in Cuts(k) PROVE k[i].btype = TypeAt(k, i)
    <3>1. CASE i = m
      <4>1. cut BY <2>6, <2>7, <3>1, <1>2
      <4>2. Max(Cuts(k)) = m <=> Cuts(h) = {}
        <5>1. Cuts(h) # {} => Max(Cuts(h)) \in Cuts(h)
          <6>1. Cuts(h) \in SUBSET (1 .. Len(items)) BY <1>1, <1>2 DEF Cuts
          <6> QED BY <1>2, <6>1, MaxOf
        <5> QED BY <1>2, <2>6, <2>7, <4>1, <5>1
      <4>3. AcphBoundType(Last(h), "NONE") = Ending(h)
        <5>1. Last(h).info2 \in {"T", "Q", "E", "PHRASE", "FORCED"} BY <1>1, WordsIn
        <5> QED BY <5>1 DEF AcphBoundType, Ending
      <4> QED BY <2>3, <2>4, <2>5, <2>16, <3>1, <4>1, <4>2, <4>3 DEF TypeAt, t
    <3>2. CASE i # m
      <4>1. i \in Cuts(h) BY <2>7, <3>2
      <4>2. h[i].btype = TypeAt(h, i) BY <4>1 DEF PhrInv
      <4>3. i \in 1 .. Len(items) BY <1>1, <1>2, <4>1 DEF Cuts
      <4>4. k[i] = h[i] BY <2>3, <3>2, <4>3
      <4>5. Max(Cuts(k)) = Max(Cuts(h)) BY <2>7, <4>1
      <4> QED BY <2>4, <4>2, <4>4, <4>5 DEF TypeAt
    <3> QED BY <3>1, <3>2
  <2>18. DOMAIN b.asked = 1 .. Len(items) /\ b.asked[m] = ask
         /\ \A i \in 1 .. Len(items) : i # m => b.asked[i] = a.asked[i]
    <3>1. DOMAIN a.asked = 1 .. Len(items) BY DEF PhrInv
    <3> QED BY <1>2, <2>1, <3>1
  <2>19. ASSUME NEW i \in 1 .. Len(items), i > m - 1, Inner(items, i)
         PROVE  PhrAsked(k, b.asked, i)
    <3>1. CASE i = m
      <4>1. WordsBefore(k, m) = WordsBefore(items, m) BY <2>4 DEF WordsBefore
      <4> QED BY <2>10, <2>12, <2>14, <2>18, <3>1, <4>1 DEF PhrAsked, ask
    <3>2. CASE i # m
      <4>1. i > m /\ i \in Nat BY <1>4, <2>19, <3>2
      <4>2. PhrAsked(h, a.asked, i) BY <2>19, <4>1 DEF PhrInv
      <4>3. SameRight(h, k, i)
        <5>1. \A j \in AcphWords(h) : j > i => j > m
          <6>1. AcphWords(h) \subseteq 1 .. Len(items) - 1 BY <1>1, WordsIn
          <6> QED BY <1>2, <4>1, <6>1
        <5> QED BY <2>11, <5>1 DEF SameRight
      <4>4. /\ RightFrom(k, i) = RightFrom(h, i)
            /\ AcphSyllsOf(k, RightFrom(h, i)) = AcphSyllsOf(h, RightFrom(h, i))
        BY <1>1, <2>3, <4>1, <4>3, RightSame
      <4>5. WordsBefore(k, i) = WordsBefore(h, i) BY <1>1, <2>4 DEF WordsBefore
      <4> QED BY <2>18, <3>2, <4>2, <4>4, <4>5 DEF PhrAsked
    <3> QED BY <3>1, <3>2
  <2>20. /\ b.fol = Cardinality(RightOf(k, m - 1))
         /\ b.sylls = AcphSyllsOf(k, RightOf(k, m - 1))
    BY <2>1, <2>12, <2>13, <2>14
  <2>21. b.pre = IF WordsTo(items, m - 1) = {} THEN 1 ELSE Cardinality(WordsTo(items, m - 1))
    BY <2>1, <2>8, <2>10
  <2>23. b.nosub = (Cuts(k) = {}) BY <2>1, <2>16
  <2> QED BY <2>2, <2>4, <2>15, <2>17, <2>18, <2>19, <2>20, <2>21, <2>23, Zenon DEF PhrInv
<1> QED BY <1>5, <1>6, <1>7

PhrStart(items) ==
  LET upbound == Max({1} \cup AcphWords(items))
  IN  [headx |-> items, w |-> AcphFirstWindow(items, upbound), nosub |-> TRUE,
       pre |-> 1 + Cardinality({i \in AcphWords(items) : i < upbound}), fol |-> 0, sylls |-> 0,
       asked |-> [i \in DOMAIN items |-> [vals |-> <<>>, pre |-> 0, fol |-> 0, sylls |-> 0]]]

LEMMA UpboundIs ==
  ASSUME NEW h, Dressed(h), NEW u, u = Max({1} \cup AcphWords(h))
  PROVE  /\ u \in 1 .. Len(h) /\ \A j \in AcphWords(h) : j <= u
         /\ u \in AcphWords(h) \/ (AcphWords(h) = {} /\ u = 1)
<1>1. Len(h) \in Nat \ {0} /\ AcphWords(h) \subseteq 1 .. Len(h) - 1 BY WordsIn
<1>2. PICK S : S = {1} \cup AcphWords(h) OBVIOUS
<1>3. S \in SUBSET (1 .. Len(h)) /\ S # {} BY <1>1, <1>2
<1>4. u \in S /\ \A y \in S : y <= u BY <1>1, <1>2, <1>3, MaxOf
<1>5. CASE AcphWords(h) = {} BY <1>2, <1>3, <1>4, <1>5
<1>6. CASE AcphWords(h) # {}
  <2>1. PICK j \in AcphWords(h) : TRUE BY <1>6
  <2>2. j <= u /\ j \in 1 .. Len(h) BY <1>2, <1>3, <1>4, <2>1
  <2>3. u = 1 => j = 1 BY <1>1, <2>2
  <2>4. u \in AcphWords(h) BY <1>2, <1>4, <2>1, <2>3
  <2> QED BY <1>2, <1>3, <1>4, <2>4
<1> QED BY <1>5, <1>6

LEMMA PhrStarts ==
  ASSUME NEW items, Dressed(items), Bare(items), NEW u, u = Max({1} \cup AcphWords(items))
  PROVE  PhrInv(items, PhrStart(items), u)
<1>0. PICK a : a = PhrStart(items) OBVIOUS
<1>1. /\ a.headx = items /\ a.nosub = TRUE /\ a.fol = 0 /\ a.sylls = 0
      /\ a.pre = 1 + Cardinality(WordsBefore(items, u))
      /\ DOMAIN a.asked = DOMAIN items
  BY <1>0 DEF PhrStart, WordsBefore
<1>2. /\ u \in 1 .. Len(items) /\ \A j \in AcphWords(items) : j <= u
      /\ u \in AcphWords(items) \/ (AcphWords(items) = {} /\ u = 1)
  BY UpboundIs
<1>3. Len(items) \in Nat /\ DOMAIN items = 1 .. Len(items) /\ AcphWords(items) \subseteq 1 .. Len(items) - 1
  BY WordsIn
<1>4. Cuts(items) = {}
  <2>1. \A i \in 2 .. Len(items) : i \in 1 .. Len(items) BY <1>3
  <2> QED BY <2>1 DEF Cuts, Cut, Bare
<1>5. Alike(items, items) BY AlikeSelf
<1>6. a.pre = IF WordsTo(items, u) = {} THEN 1 ELSE Cardinality(WordsTo(items, u))
  <2>1. CASE u \in AcphWords(items)
    <3>1. /\ WordsTo(items, u) # {}
          /\ Cardinality(WordsTo(items, u)) = Cardinality(WordsBefore(items, u)) + 1
          /\ Cardinality(WordsBefore(items, u)) \in Nat
      BY <1>2, <2>1, WordsStep
    <3> QED BY <1>1, <3>1
  <2>2. CASE AcphWords(items) = {}
    <3>1. WordsTo(items, u) = {} /\ WordsBefore(items, u) = {} BY <2>2 DEF WordsTo, WordsBefore
    <3>2. Cardinality({}) = 0 BY FS_EmptySet
    <3> QED BY <1>1, <3>1, <3>2
  <2> QED BY <1>2, <2>1, <2>2
<1>7. \A j \in AcphWords(items) : ~(j > u)
  <2>1. u \in Nat BY <1>2, <1>3
  <2>2. ASSUME NEW j \in AcphWords(items) PROVE ~(j > u)
    <3>1. j \in Nat BY <1>3
    <3>2. j <= u BY <1>2
    <3> QED BY <2>1, <3>1, <3>2
  <2> QED BY <2>2
<1>8. RightOf(items, u) = {} BY <1>7 DEF RightOf
<1>9. WordsTo(items, u) # {} => AcphSyllsOf(items, {}) = 0 /\ Cardinality({}) = 0
  <2>1. SyllsKnown(items, {} \cup {u}) \/ AcphWords(items) = {}
    <3>1. CASE u \in AcphWords(items)
      <4>1. {u} \subseteq AcphWords(items) BY <3>1
      <4>2. SyllsKnown(items, {u}) BY <4>1, WordsIn
      <4> QED BY <4>2
    <3> QED BY <1>2, <3>1
  <2>2. AcphWords(items) = {} => WordsTo(items, u) = {} BY DEF WordsTo
  <2>3. SyllsKnown(items, {} \cup {u}) => AcphSyllsOf(items, {}) = 0 BY SyllsAdd
  <2> QED BY <2>1, <2>2, <2>3, FS_EmptySet
<1>10. \A i \in 1 .. Len(items) : ~(i > u /\ Inner(items, i)) BY <1>7 DEF Inner
<1>11. \A i \in 1 .. Len(items) : items[i].bstrength = "ERR" /\ items[i].btype = "NONE" BY DEF Bare
<1>12. a.nosub = (Cuts(items) = {}) BY <1>1, <1>4
<1>13. WordsTo(items, u) # {} => /\ a.fol = Cardinality(RightOf(items, u))
                                 /\ a.sylls = AcphSyllsOf(items, RightOf(items, u))
  BY <1>1, <1>8, <1>9
<1>14. \A i \in Cuts(items) : items[i].btype = TypeAt(items, i) BY <1>4
<1>15. a.headx = items /\ DOMAIN a.asked = 1 .. Len(items) BY <1>1, <1>3
<1>16. PhrInv(items, a, u)
  BY <1>5, <1>6, <1>10, <1>11, <1>12, <1>13, <1>14, <1>15, Zenon DEF PhrInv
<1> QED BY <1>0, <1>16

LEMMA PhrEnds ==
  ASSUME NEW items, Dressed(items), Bare(items), NEW answers, NEW u, u = Max({1} \cup AcphWords(items))
  PROVE  PhrInv(items, PhrFold(answers, PhrStart(items), AcphDownFrom(u, 2)), 1)
<1>1. u \in 1 .. Len(items) /\ Len(items) \in Nat
  <2>1. u \in 1 .. Len(items) BY UpboundIs
  <2> QED BY <2>1, WordsIn
<1>2. PICK m : m = AcphDownFrom(u, 2) OBVIOUS
<1>3. /\ Listed(m) /\ Len(m) = u - 1
      /\ \A k \in 1 .. u - 1 : m[k] = u + 1 - k
  <2>1. u \in Nat /\ 2 \in Nat /\ 2 <= u + 1 /\ u + 1 - 2 = u - 1 BY <1>1
  <2>2. /\ Listed(m) /\ Len(m) = u + 1 - 2
        /\ \A k \in 1 .. u + 1 - 2 : m[k] = u + 1 - k
    BY <1>2, <2>1, DownFrom
  <2> QED BY <2>1, <2>2
<1>4. PICK W : /\ Chain(W, PhrStep(answers), PhrStart(items), m)
               /\ PhrFold(answers, PhrStart(items), m) = W[Len(m)]
  BY <1>3, PhrChain
<1>5. W[0] = PhrStart(items) BY <1>4 DEF Chain
<1>6. \A k \in 1 .. u - 1 : W[k] = AcphPhrWord(answers, W[k - 1], u + 1 - k)
  BY <1>3, <1>4 DEF Chain, AcphStep, PhrStep
<1> DEFINE T == {k \in 0 .. u - 1 : ~PhrInv(items, W[k], u - k)}
<1>7. T = {}
  <2> SUFFICES ASSUME T # {} PROVE FALSE OBVIOUS
  <2>1. PICK k \in T : \A y \in T : k <= y
    <3>1. T \subseteq Nat BY <1>1
    <3> HIDE DEF T
    <3> QED BY <3>1, LeastNumber
  <2>2. k \in 0 .. u - 1 /\ ~PhrInv(items, W[k], u - k) OBVIOUS
  <2>3. k # 0
    <3>1. u - 0 = u BY <1>1
    <3>2. PhrInv(items, W[0], u - 0) BY <1>5, <3>1, PhrStarts
    <3> QED BY <2>2, <3>2
  <2>4. k - 1 \in 0 .. u - 1 /\ ~(k <= k - 1) /\ k \in 1 .. u - 1 BY <1>1, <2>2, <2>3
  <2>5. k - 1 \notin T
    <3> HIDE DEF T
    <3> QED BY <2>1, <2>4
  <2>6. PhrInv(items, W[k - 1], u - (k - 1)) BY <2>4, <2>5
  <2>7. u - (k - 1) = u + 1 - k /\ (u + 1 - k) - 1 = u - k /\ u + 1 - k \in 2 .. Len(items)
    BY <1>1, <2>4
  <2>8. PhrInv(items, AcphPhrWord(answers, W[k - 1], u + 1 - k), (u + 1 - k) - 1)
    BY <2>6, <2>7, PhrStepKeeps
  <2> QED BY <1>6, <2>2, <2>4, <2>7, <2>8
<1>8. u - 1 \in 0 .. u - 1 /\ u - (u - 1) = 1 BY <1>1
<1>9. PhrInv(items, W[u - 1], 1)
  <2>1. u - 1 \notin T BY <1>7
  <2>2. PhrInv(items, W[u - 1], u - (u - 1)) BY <1>8, <2>1
  <2> QED BY <1>8, <2>2
<1>10. PhrFold(answers, PhrStart(items), AcphDownFrom(u, 2)) = W[u - 1] BY <1>2, <1>3, <1>4
<1> QED BY <1>9, <1>10

\* What phrasing leaves: the boundaries as Planned says, and true answers to its trees.
LEMMA SubPhrased ==
  ASSUME NEW items, Dressed(items), Bare(items), NEW answers, NEW before, NEW bound,
         bound = Opens(before), NEW a, a = acphSubPhrasing(items, bound, answers)
  PROVE  /\ Alike(items, a.headx) /\ Planned(a.headx, before) /\ a.bound = Opens(Last(items).info1)
         /\ \A i \in 1 .. Len(items) : Inner(items, i) => PhrAsked(a.headx, a.asked, i)
<1>1. PICK u : u = Max({1} \cup AcphWords(items)) OBVIOUS
<1>2. PICK f : f = PhrFold(answers, PhrStart(items), AcphDownFrom(u, 2)) OBVIOUS
<1>3. a = AcphPhrOpened(items, bound, f)
  <2>1. acphSubPhrasing(items, bound, answers) =
          AcphPhrOpened(items, bound, PhrFold(answers, PhrStart(items),
                                              AcphDownFrom(Max({1} \cup AcphWords(items)), 2)))
    BY Zenon DEF acphSubPhrasing, PhrFold, PhrStart
  <2> QED BY <1>1, <1>2, <2>1
<1>4. PhrInv(items, f, 1) BY <1>1, <1>2, PhrEnds
<1> DEFINE s == IF bound = "SSEP" THEN "SBEG" ELSE "PHR1"
           t == IF f.nosub THEN AcphBoundType(Last(items), items[1].btype) ELSE "P"
<1>5. /\ a.headx = [f.headx EXCEPT ![1].bstrength = s, ![1].btype = t]
      /\ a.asked = f.asked
      /\ a.bound = CASE Last(items).info1 \in {"SENTEND", "FLUSH"} -> "SSEP"
                     [] Last(items).info1 = "PHRASEEND" -> "PPHR"
                     [] OTHER -> bound
  BY <1>3 DEF AcphPhrOpened
<1> PICK h : h = f.headx OBVIOUS
<1> PICK k : k = a.headx OBVIOUS
<1>6. Bounded(h, 1, s, t, k) BY <1>5 DEF Bounded
<1> HIDE DEF s, t
<1>7. /\ Alike(items, h) /\ Dressed(h) /\ AcphWords(h) = AcphWords(items) /\ Len(h) = Len(items)
      /\ Ending(h) = Ending(items)
  <2>1. Alike(items, h) BY <1>4 DEF PhrInv
  <2> QED BY <2>1, AlikeKeeps DEF Alike
<1>8. Len(items) \in Nat \ {0} /\ 1 \in 1 .. Len(items) BY WordsIn
<1>9. /\ Alike(h, k) /\ k[1].bstrength = s /\ k[1].btype = t
      /\ \A j \in 1 .. Len(items) : j # 1 => k[j] = h[j]
  BY <1>6, <1>7, <1>8, BoundSet
<1>10. /\ Alike(items, k) /\ Len(k) = Len(items) /\ Ending(k) = Ending(items)
       /\ AcphWords(k) = AcphWords(items)
  <2>1. Alike(items, k) BY <1>7, <1>9, AlikeTrans
  <2> QED BY <2>1, AlikeKeeps, ZenonT(30) DEF Alike
<1>11. \A j \in 2 .. Len(items) : j \in 1 .. Len(items) /\ k[j] = h[j]
  <2>1. \A j \in 2 .. Len(items) : j \in 1 .. Len(items) /\ j # 1 BY <1>8
  <2> QED BY <1>9, <2>1
<1>12. Cuts(k) = Cuts(h) /\ Cuts(h) \subseteq 2 .. Len(items) BY <1>7, <1>10, <1>11 DEF Cuts
<1>13. Cuts(k) \subseteq AcphWords(items)
  <2>1. ASSUME NEW i \in Cuts(h), i \notin AcphWords(items) PROVE FALSE
    <3>1. i \in 1 .. Len(items) /\ Cut(h[i]) BY <1>7, <1>11 DEF Cuts
    <3>2. h[i].bstrength = "ERR" BY <1>4, <2>1, <3>1 DEF PhrInv
    <3> QED BY <3>1, <3>2 DEF Cut
  <2> QED BY <1>12, <2>1
<1>14. ASSUME NEW i \in Cuts(k) PROVE k[i].btype = TypeAt(k, i)
  <2>1. h[i].btype = TypeAt(h, i) BY <1>4, <1>12 DEF PhrInv
  <2>2. k[i] = h[i] BY <1>11, <1>12
  <2> QED BY <1>7, <1>10, <1>12, <2>1, <2>2 DEF TypeAt
<1>15. k[1].btype = FirstType(k)
  <2>1. f.nosub = (Cuts(k) = {}) BY <1>4, <1>12 DEF PhrInv
  <2>2. items[1].btype = "NONE" BY <1>8 DEF Bare
  <2>3. AcphBoundType(Last(items), "NONE") = Ending(items)
    <3>1. Last(items).info2 \in {"T", "Q", "E", "PHRASE", "FORCED"} BY WordsIn
    <3> QED BY <3>1 DEF AcphBoundType, Ending
  <2> QED BY <1>9, <1>10, <2>1, <2>2, <2>3 DEF FirstType, t
<1>16. k[1].bstrength = IF before = "PHRASEEND" THEN "PHR1" ELSE "SBEG"
  BY <1>9 DEF Opens, s
<1>17. Planned(k, before) BY <1>10, <1>13, <1>14, <1>15, <1>16 DEF Planned
<1>18. a.bound = Opens(Last(items).info1)
  <2>1. Last(items).info1 \in {"SENTEND", "PHRASEEND", "FLUSH"}
    <3>1. AcphPunc(items[Len(items)]) /\ Last(items) = items[Len(items)] BY WordsIn DEF Dressed
    <3> QED BY <3>1 DEF AcphPunc
  <2> QED BY <1>5, <2>1 DEF Opens
<1>19. ASSUME NEW i \in 1 .. Len(items), Inner(items, i) PROVE PhrAsked(k, a.asked, i)
  <2>1. i > 1 /\ i \in Nat
    <3>1. PICK j \in AcphWords(items) : j < i BY <1>19 DEF Inner, WordsBefore
    <3>2. j \in 1 .. Len(items) - 1 BY WordsIn
    <3> QED BY <1>8, <3>1, <3>2
  <2>2. PhrAsked(h, f.asked, i) BY <1>4, <1>19, <2>1 DEF PhrInv
  <2>3. SameRight(h, k, i)
    <3>1. \A j \in AcphWords(h) : j > i => j \in 2 .. Len(items)
      <4>1. AcphWords(h) \subseteq 1 .. Len(items) - 1 BY <1>7, WordsIn
      <4> QED BY <2>1, <1>8, <4>1
    <3> QED BY <1>11, <3>1 DEF SameRight
  <2>4. /\ RightFrom(k, i) = RightFrom(h, i)
        /\ AcphSyllsOf(k, RightFrom(h, i)) = AcphSyllsOf(h, RightFrom(h, i))
    BY <1>7, <1>9, <2>1, <2>3, RightSame
  <2>5. WordsBefore(k, i) = WordsBefore(h, i) BY <1>7, <1>10 DEF WordsBefore
  <2> QED BY <1>5, <2>2, <2>4, <2>5 DEF PhrAsked
<1> QED BY <1>10, <1>17, <1>18, <1>19

-----------------------------------------------------------------------------
(* Accentuation: the feet.                                                 *)

Accents(h, i) == {Len(h) + 1} \cup {j \in AcphWords(h) : j > i /\ h[j].info2 = "ACC1"}
Foot(h, i) == {j \in AcphWords(h) : i < j /\ j < Min(Accents(h, i))}

\* The code counts up to any item with the accent: only words have one.
LEMMA FootAsked ==
  ASSUME NEW h, Dressed(h), NEW i \in 1 .. Len(h)
  PROVE  acphAccGetNrsRight(h, i).footwords = Cardinality(Foot(h, i))
<1>1. /\ Len(h) \in Nat \ {0} /\ DOMAIN h = 1 .. Len(h)
      /\ AcphWords(h) \subseteq 1 .. Len(h) - 1
  BY WordsIn
<1> DEFINE A == {j \in i + 1 .. Len(h) : h[j].info2 = "ACC1"}
<1>2. A = {j \in AcphWords(h) : j > i /\ h[j].info2 = "ACC1"}
  <2>1. ASSUME NEW j \in A PROVE j \in AcphWords(h) /\ j > i /\ h[j].info2 = "ACC1"
    <3>1. j \in 1 .. Len(h) /\ j > i /\ h[j].info2 = "ACC1" BY <1>1
    <3>2. j # Len(h) BY <3>1 DEF Dressed, AcphPunc
    <3>3. j \in 1 .. Len(h) - 1
      <4>1. \A n \in Nat : \A y \in 1 .. n : y # n => y \in 1 .. n - 1 OBVIOUS
      <4> HIDE DEF A
      <4> QED BY <1>1, <3>1, <3>2, <4>1
    <3>4. AcphInside(h[j]) BY <3>3 DEF Dressed
    <3>5. h[j].type = "WORDPHON" BY <3>1, <3>4 DEF AcphInside
    <3> QED BY <1>1, <3>1, <3>5 DEF AcphWords, AcphIsWord
  <2>2. ASSUME NEW j \in AcphWords(h), j > i, h[j].info2 = "ACC1" PROVE j \in A
    <3>1. j \in i + 1 .. Len(h) BY <1>1, <2>2
    <3> QED BY <2>2, <3>1
  <2> HIDE DEF A
  <2> QED BY <2>1, <2>2
<1>3. {Len(h) + 1} \cup A = Accents(h, i) BY <1>2 DEF Accents
<1>4. \A j \in AcphWords(h) : j > i <=> i < j BY <1>1
<1>5. PICK f : f = Min({Len(h) + 1} \cup A) OBVIOUS
<1>6. {j \in AcphWords(h) : j > i /\ j < f} = Foot(h, i) BY <1>3, <1>4, <1>5 DEF Foot
<1>7. acphAccGetNrsRight(h, i).footwords =
        Cardinality({j \in AcphWords(h) : j > i /\ j < Min({Len(h) + 1} \cup A)})
  BY Zenon DEF acphAccGetNrsRight
<1> HIDE DEF A
<1> QED BY <1>5, <1>6, <1>7

\* One accent of h is decided.
AccentedAt(h, i, s, k) == k = [h EXCEPT ![i].info2 = s]

LEMMA AccentSet ==
  ASSUME NEW h, Dressed(h), NEW i \in AcphWords(h), NEW s, NEW k, AccentedAt(h, i, s, k)
  PROVE  /\ Alike(h, k)
         /\ \A j \in 1 .. Len(h) : k[j].bstrength = h[j].bstrength /\ k[j].btype = h[j].btype
         /\ \A j \in 1 .. Len(h) : j # i => k[j] = h[j]
<1>0. k = [h EXCEPT ![i].info2 = s] BY DEF AccentedAt
<1>1. Listed(h) /\ Len(h) \in Nat /\ DOMAIN h = 1 .. Len(h) /\ i \in 1 .. Len(h)
  BY WordsIn DEF Dressed
<1>2. DOMAIN k = 1 .. Len(h) /\ k = [j \in 1 .. Len(h) |-> k[j]]
  BY <1>0, <1>1
<1>3. Listed(k) BY <1>1, <1>2 DEF Listed
<1>4. Len(k) = Len(h)
  <2>1. Len(k) \in Nat /\ DOMAIN k = 1 .. Len(k) BY <1>3, ListedLen
  <2>2. \A u, v \in Nat : 1 .. u = 1 .. v => u = v
    <3>1. ASSUME NEW u \in Nat, NEW v \in Nat, 1 .. u = 1 .. v, u < v PROVE FALSE
      <4>1. v \in 1 .. v /\ v \notin 1 .. u BY <3>1
      <4> QED BY <3>1, <4>1
    <3> QED BY <3>1
  <2> QED BY <1>1, <1>2, <2>1, <2>2
<1>5. \A j \in 1 .. Len(h) : j # i => k[j] = h[j] BY <1>0, <1>1
<1>6. k[i] = [h[i] EXCEPT !.info2 = s] BY <1>0, <1>1
<1>7. DOMAIN h[i] = AcphFields /\ h[i] = [f \in AcphFields |-> h[i][f]] BY <1>1 DEF Dressed
<1>8. /\ DOMAIN k[i] = AcphFields /\ k[i] = [f \in AcphFields |-> k[i][f]]
      /\ k[i].bstrength = h[i].bstrength /\ k[i].btype = h[i].btype
      /\ k[i].type = h[i].type /\ k[i].info1 = h[i].info1 /\ k[i].phones = h[i].phones
  <2> PICK r : r = h[i] OBVIOUS
  <2> PICK q : q = [r EXCEPT !.info2 = s] OBVIOUS
  <2>1. DOMAIN r = AcphFields /\ r = [f \in AcphFields |-> r[f]] BY <1>7
  <2>2. q = [f \in AcphFields |-> IF f = "info2" THEN s ELSE r[f]] BY <2>1
  <2>3. DOMAIN q = AcphFields /\ q = [f \in AcphFields |-> q[f]] BY <2>2
  <2>4. /\ q.bstrength = r.bstrength /\ q.btype = r.btype /\ q.type = r.type
        /\ q.info1 = r.info1 /\ q.phones = r.phones
    BY <2>2 DEF AcphFields
  <2>5. k[i] = q BY <1>6
  <2> QED BY <2>3, <2>4, <2>5
<1>9. h[i].type = "WORDPHON" BY DEF AcphWords, AcphIsWord
<1>10. ASSUME NEW j \in 1 .. Len(h)
      PROVE  /\ DOMAIN k[j] = AcphFields /\ k[j] = [f \in AcphFields |-> k[j][f]]
             /\ k[j].type = h[j].type /\ k[j].info1 = h[j].info1 /\ k[j].phones = h[j].phones
             /\ k[j].bstrength = h[j].bstrength /\ k[j].btype = h[j].btype
             /\ h[j].type = "WORDPHON" \/ k[j].info2 = h[j].info2
  <2>1. CASE j = i BY <1>8, <1>9, <2>1
  <2>2. CASE j # i
    <3>1. DOMAIN h[j] = AcphFields /\ h[j] = [f \in AcphFields |-> h[j][f]] BY DEF Dressed
    <3>2. k[j] = h[j] BY <1>5, <2>2
    <3> QED BY <3>1, <3>2
  <2> QED BY <2>1, <2>2
<1>11. Alike(h, k)
  <2> HIDE DEF AcphFields
  <2> QED BY <1>3, <1>4, <1>10 DEF Alike
<1> QED BY <1>5, <1>10, <1>11

\* The foot of a word does not depend on what is up to it.
SameFeet(h, k, m) == \A j \in AcphWords(h) : j > m => k[j].info2 = h[j].info2

LEMMA FootSame ==
  ASSUME NEW h, Dressed(h), NEW k, Alike(h, k), NEW m, SameFeet(h, k, m)
  PROVE  Foot(k, m) = Foot(h, m)
<1>1. AcphWords(k) = AcphWords(h) /\ Len(k) = Len(h) BY AlikeKeeps DEF Alike
<1>2. Accents(k, m) = Accents(h, m) BY <1>1 DEF Accents, SameFeet
<1> QED BY <1>1, <1>2 DEF Foot

\* Accentuation when the items behind m are done.
AccInv(items, a, m) ==
  /\ Alike(items, a.headx)
  /\ \A i \in 1 .. Len(items) : /\ a.headx[i].bstrength = items[i].bstrength
                                /\ a.headx[i].btype = items[i].btype
  /\ DOMAIN a.asked = 1 .. Len(items)
  /\ \A i \in AcphWords(items) : i > m => a.asked[i].right.footwords = Cardinality(Foot(a.headx, i))

LEMMA AccStepKeeps ==
  ASSUME NEW items, Dressed(items), NEW m \in 1 .. Len(items), NEW a, AccInv(items, a, m),
         NEW answers, NEW stray
  PROVE  AccInv(items, AcphAccWord(answers, stray, a, m), m - 1)
<1> PICK h : h = a.headx OBVIOUS
<1> PICK b : b = AcphAccWord(answers, stray, a, m) OBVIOUS
<1> SUFFICES AccInv(items, b, m - 1) OBVIOUS
<1>1. Alike(items, h) /\ Dressed(h) /\ AcphWords(h) = AcphWords(items) /\ Len(h) = Len(items)
  <2>1. Alike(items, h) BY DEF AccInv
  <2> QED BY <2>1, AlikeKeeps DEF Alike
<1>2. /\ Len(items) \in Nat /\ AcphWords(items) \subseteq 1 .. Len(items) - 1
      /\ m \in 1 .. Len(h) /\ m \in Nat
  <2>1. Len(items) \in Nat /\ AcphWords(items) \subseteq 1 .. Len(items) - 1 BY WordsIn
  <2> QED BY <1>1, <2>1
<1>3. AcphIsWord(h, m) <=> m \in AcphWords(items)
  <2>1. DOMAIN h = 1 .. Len(items) BY <1>1, WordsIn
  <2>2. m \in AcphWords(h) <=> AcphIsWord(h, m) BY <2>1 DEF AcphWords
  <2> QED BY <1>1, <2>2
<1>4. \A i \in AcphWords(items) : i > m - 1 <=> i > m \/ i = m BY <1>2
<1>5. CASE m \notin AcphWords(items)
  <2>1. b = a BY <1>3, <1>5 DEF AcphAccWord
  <2>2. \A i \in AcphWords(items) : i > m - 1 => i > m BY <1>4, <1>5
  <2> QED BY <2>1, <2>2 DEF AccInv
<1>6. CASE m \in AcphWords(items)
  <2> DEFINE accent == IF answers[m] = "none" THEN h[m].info2
                       ELSE IF acphIsWordWithoutStress(h[m]) /\ answers[m] # "ACC0" THEN "ACC3"
                       ELSE answers[m]
             ask == [vals |-> AcphSlide(h, a.w, m).vals, hist |-> <<a.prev, a.hist[1]>>,
                     right |-> acphAccGetNrsRight(h, m), left |-> acphAccGetNrsLeft(h, m, stray)]
  <2>1. b.headx = [h EXCEPT ![m].info2 = accent] /\ b.asked = [a.asked EXCEPT ![m] = ask]
    BY <1>3, <1>6 DEF AcphAccWord
  <2>2. ask.right.footwords = Cardinality(Foot(h, m)) BY <1>1, <1>2, FootAsked
  <2> PICK k : k = b.headx OBVIOUS
  <2>3. AccentedAt(h, m, accent, k) BY <2>1 DEF AccentedAt
  <2> HIDE DEF accent, ask
  <2>4. /\ Alike(h, k)
        /\ \A j \in 1 .. Len(items) : k[j].bstrength = h[j].bstrength /\ k[j].btype = h[j].btype
        /\ \A j \in 1 .. Len(items) : j # m => k[j] = h[j]
    BY <1>1, <1>6, <2>3, AccentSet
  <2>5. Alike(items, k) BY <1>1, <2>4, AlikeTrans
  <2>6. \A j \in 1 .. Len(items) : k[j].bstrength = items[j].bstrength /\ k[j].btype = items[j].btype
    BY <2>4 DEF AccInv
  <2>7. DOMAIN b.asked = 1 .. Len(items) /\ b.asked[m] = ask
        /\ \A i \in 1 .. Len(items) : i # m => b.asked[i] = a.asked[i]
    <3>1. DOMAIN a.asked = 1 .. Len(items) BY DEF AccInv
    <3> QED BY <2>1, <3>1
  <2>8. ASSUME NEW i \in AcphWords(items), i > m - 1
        PROVE  b.asked[i].right.footwords = Cardinality(Foot(k, i))
    <3>1. SameFeet(h, k, i)
      <4>1. \A j \in AcphWords(items) : j > i => j \in 1 .. Len(items) /\ j # m BY <1>2, <1>4, <2>8
      <4> QED BY <1>1, <2>4, <4>1 DEF SameFeet
    <3>2. Foot(k, i) = Foot(h, i) BY <1>1, <2>4, <3>1, FootSame
    <3>3. i \in 1 .. Len(items) BY <1>2
    <3>4. CASE i = m BY <2>2, <2>7, <3>2, <3>4
    <3>5. CASE i # m
      <4>1. i > m BY <1>4, <2>8, <3>5
      <4>2. a.asked[i].right.footwords = Cardinality(Foot(h, i)) BY <4>1 DEF AccInv
      <4> QED BY <2>7, <3>2, <3>3, <3>5, <4>2
    <3> QED BY <3>4, <3>5
  <2> QED BY <2>5, <2>6, <2>7, <2>8 DEF AccInv
<1> QED BY <1>5, <1>6

AccStart(headx) ==
  LET none == [vals |-> <<>>]
  IN  [headx |-> headx, w |-> AcphFirstWindow(headx, Max(AcphWords(headx))),
       hist |-> <<"ZERO", "ZERO">>, prev |-> "ZERO", asked |-> [i \in DOMAIN headx |-> none]]

LEMMA AccEnds ==
  ASSUME NEW items, Dressed(items), NEW answers, NEW stray, AcphWords(items) # {},
         NEW u, u = Max(AcphWords(items))
  PROVE  AccInv(items, AccFold(answers, stray, AccStart(items), AcphDownFrom(u, 1)), 0)
<1>1. /\ u \in 1 .. Len(items) /\ Len(items) \in Nat /\ DOMAIN items = 1 .. Len(items)
      /\ \A y \in AcphWords(items) : y <= u /\ y \in Nat
  <2>1. Len(items) \in Nat /\ AcphWords(items) \subseteq 1 .. Len(items) - 1
        /\ DOMAIN items = 1 .. Len(items)
    BY WordsIn
  <2>2. AcphWords(items) \in SUBSET (1 .. Len(items)) BY <2>1
  <2>3. u \in AcphWords(items) /\ \A y \in AcphWords(items) : y <= u BY <2>1, <2>2, MaxOf
  <2> QED BY <2>1, <2>2, <2>3
<1>2. PICK m : m = AcphDownFrom(u, 1) OBVIOUS
<1>3. /\ Listed(m) /\ Len(m) = u
      /\ \A k \in 1 .. u : m[k] = u + 1 - k
  <2>1. u \in Nat /\ 1 \in Nat /\ 1 <= u + 1 /\ u + 1 - 1 = u BY <1>1
  <2>2. /\ Listed(m) /\ Len(m) = u + 1 - 1
        /\ \A k \in 1 .. u + 1 - 1 : m[k] = u + 1 - k
    BY <1>2, <2>1, DownFrom
  <2> QED BY <2>1, <2>2
<1>4. PICK W : /\ Chain(W, AccStep(answers, stray), AccStart(items), m)
               /\ AccFold(answers, stray, AccStart(items), m) = W[Len(m)]
  BY <1>3, AccChain
<1>5. W[0] = AccStart(items) BY <1>4 DEF Chain
<1>6. \A k \in 1 .. u : W[k] = AcphAccWord(answers, stray, W[k - 1], u + 1 - k)
  BY <1>3, <1>4 DEF Chain, AcphStep, AccStep
<1>7. AccInv(items, W[0], u)
  <2>1. Alike(items, items) BY AlikeSelf
  <2>2. W[0].headx = items /\ DOMAIN W[0].asked = DOMAIN items BY <1>5 DEF AccStart
  <2>3. \A i \in AcphWords(items) : ~(i > u) BY <1>1
  <2> QED BY <1>1, <2>1, <2>2, <2>3 DEF AccInv
<1> DEFINE T == {k \in 0 .. u : ~AccInv(items, W[k], u - k)}
<1>8. T = {}
  <2> SUFFICES ASSUME T # {} PROVE FALSE OBVIOUS
  <2>1. PICK k \in T : \A y \in T : k <= y
    <3>1. T \subseteq Nat BY <1>1
    <3> HIDE DEF T
    <3> QED BY <3>1, LeastNumber
  <2>2. k \in 0 .. u /\ ~AccInv(items, W[k], u - k) OBVIOUS
  <2>3. k # 0
    <3>1. u - 0 = u BY <1>1
    <3> QED BY <1>7, <2>2, <3>1
  <2>4. k - 1 \in 0 .. u /\ ~(k <= k - 1) /\ k \in 1 .. u BY <1>1, <2>2, <2>3
  <2>5. k - 1 \notin T
    <3> HIDE DEF T
    <3> QED BY <2>1, <2>4
  <2>6. AccInv(items, W[k - 1], u - (k - 1)) BY <2>4, <2>5
  <2>7. u - (k - 1) = u + 1 - k /\ (u + 1 - k) - 1 = u - k /\ u + 1 - k \in 1 .. Len(items)
    BY <1>1, <2>4
  <2>8. AccInv(items, AcphAccWord(answers, stray, W[k - 1], u + 1 - k), (u + 1 - k) - 1)
    BY <2>6, <2>7, AccStepKeeps
  <2> QED BY <1>6, <2>2, <2>4, <2>7, <2>8
<1>9. u \in 0 .. u /\ u - u = 0 BY <1>1
<1>10. AccInv(items, W[u], 0)
  <2>1. u \notin T BY <1>8
  <2>2. AccInv(items, W[u], u - u) BY <1>9, <2>1
  <2> QED BY <1>9, <2>2
<1>11. AccFold(answers, stray, AccStart(items), AcphDownFrom(u, 1)) = W[u] BY <1>2, <1>3, <1>4
<1> QED BY <1>10, <1>11

\* What accentuation leaves: the boundaries as they were, and true answers to its trees.
LEMMA Accented ==
  ASSUME NEW items, Dressed(items), NEW answers, NEW stray,
         NEW a, a = acphAccentuation(items, answers, stray)
  PROVE  AccInv(items, a, 0)
<1>1. CASE AcphWords(items) = {}
  <2>1. a.headx = items /\ DOMAIN a.asked = DOMAIN items BY <1>1 DEF acphAccentuation
  <2>2. Alike(items, items) /\ DOMAIN items = 1 .. Len(items) BY AlikeSelf, WordsIn
  <2> QED BY <1>1, <2>1, <2>2 DEF AccInv
<1>2. CASE AcphWords(items) # {}
  <2>1. acphAccentuation(items, answers, stray) =
          AccFold(answers, stray, AccStart(items), AcphDownFrom(Max(AcphWords(items)), 1))
    BY <1>2, Zenon DEF acphAccentuation, AccFold, AccStart
  <2> QED BY <1>2, <2>1, AccEnds
<1> QED BY <1>1, <1>2

-----------------------------------------------------------------------------
(* Feeding: what is told of the items that are out.                        *)

LEMMA TellAppend ==
  ASSUME NEW out, Listed(out), NEW e
  PROVE  Listed(Append(out, e)) /\ Tell(Append(out, e)) = Append(Tell(out), Told(e))
<1> PICK t : t = Append(out, e) OBVIOUS
<1>1. /\ Listed(t) /\ Len(t) = Len(out) + 1 /\ t[Len(out) + 1] = e
      /\ \A i \in 1 .. Len(out) : t[i] = out[i]
  BY ListedAppend
<1>2. Len(out) \in Nat /\ DOMAIN out = 1 .. Len(out) /\ DOMAIN t = 1 .. Len(out) + 1
  BY <1>1, ListedLen
<1> PICK n \in Nat : n = Len(out) BY <1>2
<1> PICK T : T = Tell(out) OBVIOUS
<1>3. T = [i \in 1 .. n |-> Told(out[i])] BY <1>2 DEF Tell
<1>4. Listed(T) /\ Len(T) = n
  <2> DEFINE R == {Told(out[i]) : i \in 1 .. n}
  <2>1. T \in [1 .. n -> R] BY <1>3
  <2>2. T \in Seq(R) /\ Len(T) = n BY <2>1
  <2> HIDE DEF R
  <2> QED BY <2>2, ListedSeq
<1> PICK d : d = Told(e) OBVIOUS
<1> PICK u : u = Append(T, d) OBVIOUS
<1>5. /\ Listed(u) /\ Len(u) = n + 1 /\ u[n + 1] = d
      /\ \A i \in 1 .. n : u[i] = T[i]
  BY <1>4, ListedAppend
<1>6. DOMAIN u = 1 .. n + 1 /\ u = [i \in 1 .. n + 1 |-> u[i]]
  <2>1. DOMAIN u = 1 .. n + 1 BY <1>5, ListedLen
  <2> QED BY <1>5, <2>1 DEF Listed
<1>7. \A i \in 1 .. n + 1 : u[i] = Told(t[i])
  <2>1. ASSUME NEW i \in 1 .. n + 1 PROVE u[i] = Told(t[i])
    <3>1. CASE i = n + 1 BY <1>1, <1>5, <3>1
    <3>2. CASE i # n + 1
      <4>1. i \in 1 .. n BY <3>2
      <4> QED BY <1>1, <1>3, <1>5, <4>1
    <3> QED BY <3>1, <3>2
  <2> QED BY <2>1
<1>8. Tell(t) = u
  <2>1. Tell(t) = [i \in 1 .. n + 1 |-> Told(t[i])] BY <1>2 DEF Tell
  <2> QED BY <1>6, <1>7, <2>1
<1> QED BY <1>1, <1>8

ToldItem(h, i) == [type |-> h[i].type, info1 |-> h[i].info1]

\* The values that are told of a phrase.
AllTold(h, before) ==
  {CutAt(h, i) : i \in 1 .. Len(h)} \cup {ToldItem(h, i) : i \in 1 .. Len(h)}
    \cup {AcphBound(IF before = "PHRASEEND" THEN "PHR1" ELSE "SBEG", FirstType(h))}
    \cup {AcphBound("SEND", "NA"), AcphBound("TERM", "NA")}

LEMMA UptoNext ==
  ASSUME NEW h, Dressed(h), NEW before, NEW n \in 0 .. Len(h) - 1
  PROVE  /\ Upto(h, before, 0) = Opening(h, before)
         /\ Upto(h, before, n) \in Seq(AllTold(h, before))
         /\ Upto(h, before, n + 1) = Upto(h, before, n) \o Part(h, n + 1)
<1>0. Len(h) \in Nat \ {0} BY WordsIn
<1> PICK S : S = AllTold(h, before) OBVIOUS
<1>1. Opening(h, before) \in Seq(S)
  <2> PICK o : o = AcphBound(IF before = "PHRASEEND" THEN "PHR1" ELSE "SBEG", FirstType(h)) OBVIOUS
  <2>1. o \in S BY DEF AllTold
  <2>2. Opening(h, before) = IF h[1].info1 = "FLUSH" THEN <<>> ELSE <<o>> BY DEF Opening
  <2> QED BY <2>1, <2>2
<1>2. \A i \in 1 .. Len(h) : Part(h, i) \in Seq(S)
  <2>1. ASSUME NEW i \in 1 .. Len(h) PROVE Part(h, i) \in Seq(S)
    <3>1. CutAt(h, i) \in S /\ ToldItem(h, i) \in S BY DEF AllTold
    <3> PICK c : c = CutAt(h, i) OBVIOUS
    <3> PICK d : d = ToldItem(h, i) OBVIOUS
    <3>2. <<c>> \in Seq(S) /\ <<d>> \in Seq(S) /\ <<>> \in Seq(S) BY <3>1
    <3>3. Part(h, i) = (IF i \in Cuts(h) THEN <<c>> ELSE <<>>) \o <<d>>
      BY Zenon DEF Part, ToldItem
    <3> QED BY <3>2, <3>3
  <2> QED BY <2>1
<1> PICK P : P = [i \in 1 .. Len(h) |-> Part(h, i)] OBVIOUS
<1>3. \A i \in 1 .. Len(h) : P[i] = Part(h, i) /\ P[i] \in Seq(S) BY <1>2
<1>4. ASSUME NEW m \in 0 .. Len(h) PROVE Upto(h, before, m) = Opening(h, before) \o FlattenSeq([i \in 1 .. m |-> P[i]])
  <2>1. \A i \in 1 .. m : i \in 1 .. Len(h) BY <1>0
  <2>2. [i \in 1 .. m |-> P[i]] = [i \in 1 .. m |-> Part(h, i)] BY <1>3, <2>1
  <2> QED BY <2>2, Zenon DEF Upto
<1>5. ASSUME NEW m \in 0 .. Len(h) - 1
      PROVE  /\ FlattenSeq([k \in 1 .. m + 1 |-> P[k]]) = FlattenSeq([k \in 1 .. m |-> P[k]]) \o P[m + 1]
             /\ FlattenSeq([k \in 1 .. m |-> P[k]]) \in Seq(S)
  <2>1. m \in Nat /\ \A k \in 1 .. m + 1 : k \in 1 .. Len(h) BY <1>0
  <2>2. \A k \in 1 .. m + 1 : P[k] \in Seq(S) BY <1>3, <2>1
  <2>3. m \in Nat BY <2>1
  <2> QED BY ONLY <2>2, <2>3, FlattenNext
<1>6. Upto(h, before, 0) = Opening(h, before)
  <2>1. 0 \in 0 .. Len(h) BY <1>0
  <2> PICK e : e = [i \in 1 .. 0 |-> P[i]] OBVIOUS
  <2>2. e = <<>> /\ Len(e) = 0 OBVIOUS
  <2>3. FlattenSeq(e) = e BY <2>2 DEF FlattenSeq
  <2>4. Upto(h, before, 0) = Opening(h, before) \o e BY <1>4, <2>1, <2>3
  <2>5. Opening(h, before) \o <<>> = Opening(h, before) BY <1>1, ConcatEmptySeq
  <2> QED BY <2>2, <2>4, <2>5
<1>7. n \in 0 .. Len(h) /\ n + 1 \in 0 .. Len(h) /\ n + 1 \in 1 .. Len(h) BY <1>0
<1> PICK f : f = FlattenSeq([i \in 1 .. n |-> P[i]]) OBVIOUS
<1>8. f \in Seq(S) /\ Upto(h, before, n) = Opening(h, before) \o f BY <1>4, <1>5, <1>7
<1>9. Upto(h, before, n) \in Seq(S) BY <1>1, <1>8, ConcatProperties
<1>10. Upto(h, before, n + 1) = Opening(h, before) \o (f \o Part(h, n + 1))
  BY <1>3, <1>4, <1>5, <1>7
<1>11. (Opening(h, before) \o f) \o Part(h, n + 1) = Opening(h, before) \o (f \o Part(h, n + 1))
  BY <1>1, <1>2, <1>7, <1>8, ConcatAssociative
<1> QED BY <1>6, <1>8, <1>9, <1>10, <1>11

LEMMA CutOut ==
  ASSUME NEW h, Dressed(h), NEW before, NEW n \in 0 .. Len(h) - 1, NEW out, Listed(out),
         Tell(out) = OutTo(h, before, n, FALSE)
  PROVE  Tell(Append(out, CutAt(h, n + 1))) = OutTo(h, before, n, TRUE)
<1> PICK c : c = CutAt(h, n + 1) OBVIOUS
<1> PICK u : u = Upto(h, before, n) OBVIOUS
<1> PICK S : S = AllTold(h, before) OBVIOUS
<1>1. u \in Seq(S) BY UptoNext
<1>2. c \in S
  <2>1. Len(h) \in Nat BY WordsIn
  <2>2. n + 1 \in 1 .. Len(h) BY <2>1
  <2> QED BY <2>2 DEF AllTold
<1>3. Told(c) = c BY DEF Told, CutAt, AcphBound
<1>4. Tell(Append(out, c)) = Append(Tell(out), c) BY <1>3, TellAppend
<1>5. Tell(out) = u \o <<>> BY Zenon DEF OutTo
<1>6. u \o <<>> = u BY <1>1, ConcatEmptySeq
<1>7. Append(u, c) = u \o <<c>> BY <1>1, <1>2
<1>8. OutTo(h, before, n, TRUE) = u \o <<c>> BY Zenon DEF OutTo
<1> QED BY <1>4, <1>5, <1>6, <1>7, <1>8

LEMMA ItemOut ==
  ASSUME NEW h, Dressed(h), NEW before, NEW n \in 0 .. Len(h) - 1, NEW out, Listed(out),
         Tell(out) = OutTo(h, before, n, n + 1 \in Cuts(h)),
         NEW e, e.type # "BOUND", e.type = h[n + 1].type, e.info1 = h[n + 1].info1
  PROVE  Tell(Append(out, e)) = OutTo(h, before, n + 1, FALSE)
<1> PICK c : c = CutAt(h, n + 1) OBVIOUS
<1> PICK d : d = ToldItem(h, n + 1) OBVIOUS
<1> PICK u : u = Upto(h, before, n) OBVIOUS
<1> PICK v : v = Upto(h, before, n + 1) OBVIOUS
<1> PICK S : S = AllTold(h, before) OBVIOUS
<1>1. u \in Seq(S) /\ v = u \o Part(h, n + 1) BY UptoNext
<1>2. c \in S /\ d \in S
  <2>1. Len(h) \in Nat BY WordsIn
  <2>2. n + 1 \in 1 .. Len(h) BY <2>1
  <2> QED BY <2>2 DEF AllTold
<1>3. Told(e) = d BY DEF Told, ToldItem
<1>4. Tell(Append(out, e)) = Append(Tell(out), d) BY <1>3, TellAppend
<1> PICK p : p = IF n + 1 \in Cuts(h) THEN <<c>> ELSE <<>> OBVIOUS
<1>5. p \in Seq(S) BY <1>2
<1>6. Tell(out) = u \o p BY Zenon DEF OutTo
<1>7. Part(h, n + 1) = p \o <<d>> BY Zenon DEF Part, ToldItem
<1>8. u \o p \in Seq(S) BY <1>1, <1>5, ConcatProperties
<1>9. Append(u \o p, d) = (u \o p) \o <<d>> BY <1>2, <1>8
<1> PICK q : q = <<d>> OBVIOUS
<1>10. q \in Seq(S) BY <1>2
<1>14. (u \o p) \o q = u \o (p \o q)
  <2>1. u \in Seq(S) BY <1>1
  <2> QED BY ONLY <1>5, <1>10, <2>1, ConcatAssociative
<1>11. v \in Seq(S)
  <2>1. p \o q \in Seq(S) BY <1>5, <1>10, ConcatProperties
  <2>2. v = u \o (p \o q) BY <1>1, <1>7
  <2> QED BY <1>1, <2>1, <2>2, ConcatProperties
<1>12. OutTo(h, before, n + 1, FALSE) = v \o <<>> BY Zenon DEF OutTo
<1>13. v \o <<>> = v BY <1>11, ConcatEmptySeq
<1> QED BY <1>1, <1>4, <1>6, <1>7, <1>9, <1>12, <1>13, <1>14

\* The closing PUNC becomes the boundary that ends the phrase, or nothing.
LEMMA EndOut ==
  ASSUME NEW h, Dressed(h), NEW before, NEW out, Listed(out),
         Tell(out) = OutTo(h, before, Len(h) - 1, FALSE)
  PROVE  Tell(out \o Closing(h)) = Upto(h, before, Len(h) - 1) \o Closing(h)
<1>0. Len(h) - 1 \in 0 .. Len(h) - 1
  <2>1. Len(h) \in Nat \ {0} BY WordsIn
  <2> QED BY <2>1
<1> PICK u : u = Upto(h, before, Len(h) - 1) OBVIOUS
<1> PICK S : S = AllTold(h, before) OBVIOUS
<1>1. u \in Seq(S) BY <1>0, UptoNext
<1>2. Tell(out) = u \o <<>> BY Zenon DEF OutTo
<1>3. Tell(out) = u BY <1>1, <1>2, ConcatEmptySeq
<1> DEFINE R == {out[i] : i \in DOMAIN out}
<1>4. out \in Seq(R) BY ListedLen
<1>5. ASSUME NEW c, c.type = "BOUND", c \in S PROVE Tell(out \o <<c>>) = u \o <<c>>
  <2> DEFINE Q == R \cup {c}
  <2>1. out \in Seq(Q) /\ c \in Q
    <3>1. \A i \in DOMAIN out : out[i] \in Q OBVIOUS
    <3> HIDE DEF Q
    <3>2. out \in Seq(Q) BY <3>1, ListedIn
    <3> QED BY <3>2 DEF Q
  <2> HIDE DEF Q
  <2>2. out \o <<c>> = Append(out, c) BY <2>1
  <2>3. Told(c) = c BY <1>5 DEF Told
  <2>4. Tell(Append(out, c)) = Append(u, c) BY <1>3, <2>3, TellAppend
  <2>5. Append(u, c) = u \o <<c>> BY <1>1, <1>5
  <2> QED BY <2>2, <2>4, <2>5
<1>6. CASE Closing(h) = <<>>
  <2> HIDE DEF R
  <2>1. out \o <<>> = out BY <1>4, ConcatEmptySeq
  <2> QED BY <1>2, <1>3, <1>6, <2>1
<1>7. CASE Closing(h) # <<>>
  <2> PICK a : a = AcphBound("SEND", "NA") OBVIOUS
  <2> PICK b : b = AcphBound("TERM", "NA") OBVIOUS
  <2>1. a \in S /\ b \in S /\ a.type = "BOUND" /\ b.type = "BOUND" BY DEF AllTold, AcphBound
  <2>2. Closing(h) = <<a>> \/ Closing(h) = <<b>> BY <1>7 DEF Closing
  <2> QED BY <1>5, <2>1, <2>2
<1> QED BY <1>6, <1>7

\* The places of a phrase with nothing before them but words and the like.
LEMMA PuncLast ==
  ASSUME NEW h, Dressed(h), NEW before, Planned(h, before), NEW k, Alike(h, k), NEW n \in 0 .. Len(h) - 1
  PROVE  /\ n + 1 \in 1 .. Len(h) /\ Len(h) \in Nat \ {0}
         /\ k[n + 1].type = h[n + 1].type /\ k[n + 1].info1 = h[n + 1].info1
         /\ k[n + 1].type = "PUNC" <=> n = Len(h) - 1
         /\ k[n + 1].type # "BOUND"
         /\ n + 1 \in Cuts(h) <=> Cut(h[n + 1])
         /\ Len(h) \notin Cuts(h)
<1>1. Len(h) \in Nat \ {0} /\ AcphWords(h) \subseteq 1 .. Len(h) - 1 BY WordsIn
<1>2. n + 1 \in 1 .. Len(h) /\ n \in Nat BY <1>1
<1>3. k[n + 1].type = h[n + 1].type /\ k[n + 1].info1 = h[n + 1].info1 BY <1>2 DEF Alike
<1>4. n = Len(h) - 1 => h[n + 1].type = "PUNC"
  <2>1. n = Len(h) - 1 => n + 1 = Len(h) BY <1>1
  <2> QED BY <2>1 DEF Dressed, AcphPunc
<1>5. n # Len(h) - 1 => h[n + 1].type \notin {"PUNC", "BOUND"}
  <2>1. n # Len(h) - 1 => n + 1 \in 1 .. Len(h) - 1 BY <1>1, <1>2
  <2> QED BY <2>1 DEF Dressed, AcphInside
<1>6. Len(h) \notin Cuts(h) BY <1>1 DEF Planned
<1>7. n + 1 \in Cuts(h) <=> Cut(h[n + 1])
  <2>1. CASE n = 0
    <3>1. ~Cut(h[n + 1]) BY <2>1 DEF Planned, Cut
    <3>2. n + 1 \notin 2 .. Len(h) BY <2>1
    <3> QED BY <3>1, <3>2 DEF Cuts
  <2>2. CASE n # 0
    <3>1. n + 1 \in 2 .. Len(h) BY <1>2, <2>2
    <3> QED BY <3>1 DEF Cuts
  <2> QED BY <2>1, <2>2
<1> QED BY <1>1, <1>2, <1>3, <1>4, <1>5, <1>6, <1>7

-----------------------------------------------------------------------------
(* The steps of the feeding, with x before the step and y after it.        *)

Ready(x) == Dressed(x.plan) /\ Planned(x.plan, x.before)

\* The first feed of a phrase.
FirstFeed(x, y) ==
  /\ x.bottom = 0 /\ x.out = <<>>
  /\ y.plan = x.plan /\ y.before = x.before /\ y.headx = x.headx /\ y.bottom = 0
  /\ y.put = FALSE /\ y.phase = "items"
  /\ y.out = IF x.headx[1].info1 # "FLUSH"
             THEN Append(<<>>, AcphBound(x.headx[1].bstrength, x.headx[1].btype)) ELSE <<>>

LEMMA FedFirst ==
  ASSUME NEW x, Ready(x), Alike(x.plan, x.headx), SameBounds(x.plan, x.headx),
         NEW y, FirstFeed(x, y)
  PROVE  Fed(y)
<1> PICK h : h = x.plan OBVIOUS
<1> PICK k : k = x.headx OBVIOUS
<1>0. Dressed(h) /\ Planned(h, x.before) /\ Alike(h, k) /\ SameBounds(h, k) BY DEF Ready
<1>1. Len(h) \in Nat \ {0} /\ 1 \in 1 .. Len(h) /\ 0 \in 0 .. Len(h) - 1
  <2>1. Len(h) \in Nat \ {0} BY <1>0, WordsIn
  <2> QED BY <2>1
<1>2. /\ y.plan = h /\ y.before = x.before /\ y.headx = k /\ y.bottom = 0 /\ y.put = FALSE
      /\ y.phase = "items"
  BY DEF FirstFeed
<1>3. /\ k[1].info1 = h[1].info1 /\ k[1].bstrength = h[1].bstrength /\ k[1].btype = h[1].btype
  BY <1>0, <1>1 DEF Alike, SameBounds
<1>4. /\ h[1].bstrength = IF x.before = "PHRASEEND" THEN "PHR1" ELSE "SBEG"
      /\ h[1].btype = FirstType(h)
  BY <1>0 DEF Planned
<1>5. ~Cut(k[1]) /\ ~Cut(h[1]) BY <1>3, <1>4 DEF Cut
<1>6. 1 \notin Cuts(h)
  <2>1. 1 \notin 2 .. Len(h) BY <1>1
  <2> QED BY <2>1 DEF Cuts
<1> PICK o : o = AcphBound(IF x.before = "PHRASEEND" THEN "PHR1" ELSE "SBEG", FirstType(h)) OBVIOUS
<1>7. y.out = IF h[1].info1 # "FLUSH" THEN Append(<<>>, o) ELSE <<>>
  BY <1>3, <1>4 DEF FirstFeed
<1>8. Opening(h, x.before) = IF h[1].info1 = "FLUSH" THEN <<>> ELSE <<o>> BY DEF Opening
<1>9. Told(o) = o BY DEF Told, AcphBound
<1>10. Tell(<<>>) = <<>>
  <2>1. DOMAIN <<>> = {} OBVIOUS
  <2> QED BY <2>1 DEF Tell
<1>11. Append(<<>>, o) = <<o>> OBVIOUS
<1>12. Listed(y.out) /\ Tell(y.out) = Opening(h, x.before)
  <2>1. Listed(<<>>) BY ListedEmpty
  <2>2. Listed(Append(<<>>, o)) /\ Tell(Append(<<>>, o)) = Append(Tell(<<>>), Told(o))
    BY <2>1, TellAppend
  <2> QED BY <1>7, <1>8, <1>9, <1>10, <1>11, <2>1, <2>2
<1>13. OutTo(h, x.before, 0, FALSE) = Opening(h, x.before)
  <2> PICK u : u = Upto(h, x.before, 0) OBVIOUS
  <2>1. u = Opening(h, x.before) /\ u \in Seq(AllTold(h, x.before)) BY <1>0, <1>1, UptoNext
  <2>2. u \o <<>> = u BY <2>1, ConcatEmptySeq
  <2>3. OutTo(h, x.before, 0, FALSE) = u \o <<>> BY Zenon DEF OutTo
  <2> QED BY <2>1, <2>2, <2>3
<1>14. BoundOut(y) = FALSE /\ NextOf(y) = k[1]
  BY <1>2, <1>6 DEF BoundOut, NextOf
<1>15. Tell(y.out) = OutTo(y.plan, y.before, y.bottom, BoundOut(y))
  BY <1>2, <1>12, <1>13, <1>14
<1>16. \A i \in 1 .. Len(h) : k[i].btype = h[i].btype /\ k[i].bstrength = h[i].bstrength
  BY <1>0 DEF SameBounds
<1> QED BY <1>0, <1>1, <1>2, <1>5, <1>12, <1>14, <1>15, <1>16 DEF Fed

\* Another feed, after a full buffer.
LEMMA FedAgain ==
  ASSUME NEW x, Fed(x), x.phase = "feed", x.put \in BOOLEAN,
         NEW y, y.plan = x.plan, y.before = x.before, y.headx = x.headx, y.bottom = x.bottom,
         y.put = FALSE, y.phase = "items", y.out = x.out
  PROVE  Fed(y)
<1>1. NextOf(y) = NextOf(x) BY DEF NextOf
<1>2. x.put => ~Cut(NextOf(x)) BY DEF Fed
<1>3. BoundOut(y) = BoundOut(x) BY <1>1, <1>2 DEF BoundOut
<1>4. Tell(y.out) = OutTo(y.plan, y.before, y.bottom, BoundOut(y)) BY <1>3 DEF Fed
<1> QED BY <1>1, <1>4 DEF Fed

\* The boundary before the next item.
LEMMA FedBound ==
  ASSUME NEW x, Ready(x), Fed(x), Cut(NextOf(x)), x.put = FALSE,
         NEW y, y.plan = x.plan, y.before = x.before, y.headx = x.headx, y.bottom = x.bottom,
         y.put = TRUE, y.phase = "items",
         y.out = Append(x.out, AcphBound(NextOf(x).bstrength, NextOf(x).btype))
  PROVE  Fed(y)
<1> PICK h : h = x.plan OBVIOUS
<1> PICK n : n = x.bottom OBVIOUS
<1>0. Dressed(h) /\ Planned(h, x.before) /\ Alike(h, x.headx) /\ n \in 0 .. Len(h) - 1
  BY DEF Ready, Fed
<1>1. n + 1 \in 1 .. Len(h) /\ (n + 1 \in Cuts(h) <=> Cut(h[n + 1])) BY <1>0, PuncLast
<1>2. NextOf(y) = NextOf(x) /\ NextOf(x) = x.headx[n + 1] BY DEF NextOf
<1>3. NextOf(x).bstrength = h[n + 1].bstrength /\ NextOf(x).btype = h[n + 1].btype
  BY <1>1, <1>2 DEF Fed
<1>4. n + 1 \in Cuts(h) BY <1>1, <1>3 DEF Cut
<1>5. h[n + 1].btype = TypeAt(h, n + 1) BY <1>0, <1>4 DEF Planned
<1>6. AcphBound(NextOf(x).bstrength, NextOf(x).btype) = CutAt(h, n + 1) BY <1>3, <1>5 DEF CutAt
<1>7. BoundOut(x) = FALSE /\ BoundOut(y) = TRUE BY <1>2, <1>4 DEF BoundOut
<1>8. Listed(x.out) /\ Tell(x.out) = OutTo(h, x.before, n, FALSE) BY <1>7 DEF Fed
<1>9. Tell(y.out) = OutTo(h, x.before, n, TRUE)
  <2> PICK out : out = x.out OBVIOUS
  <2>1. Dressed(h) /\ n \in 0 .. Len(h) - 1 /\ Listed(out) /\ Tell(out) = OutTo(h, x.before, n, FALSE)
    BY <1>0, <1>8
  <2>2. Tell(Append(out, CutAt(h, n + 1))) = OutTo(h, x.before, n, TRUE) BY ONLY <2>1, CutOut
  <2> QED BY <1>6, <2>2
<1>10. Tell(y.out) = OutTo(y.plan, y.before, y.bottom, BoundOut(y)) BY <1>7, <1>9
<1>11. Listed(y.out) BY <1>8, ListedAppend
<1> QED BY <1>2, <1>4, <1>10, <1>11 DEF Fed

\* The next item.
LEMMA FedItem ==
  ASSUME NEW x, Ready(x), Fed(x), NextOf(x).type # "PUNC", ~(Cut(NextOf(x)) /\ x.put = FALSE),
         x.put \in BOOLEAN,
         NEW y, y.plan = x.plan, y.before = x.before, y.headx = x.headx, y.bottom = x.bottom + 1,
         y.put = FALSE, y.phase = "items", y.out = Append(x.out, AcphItem(NextOf(x)))
  PROVE  Fed(y)
<1> PICK h : h = x.plan OBVIOUS
<1> PICK k : k = x.headx OBVIOUS
<1> PICK n : n = x.bottom OBVIOUS
<1>0. Dressed(h) /\ Planned(h, x.before) /\ Alike(h, k) /\ n \in 0 .. Len(h) - 1
  BY DEF Ready, Fed
<1>1. /\ n + 1 \in 1 .. Len(h) /\ Len(h) \in Nat \ {0}
      /\ k[n + 1].type = h[n + 1].type /\ k[n + 1].info1 = h[n + 1].info1
      /\ k[n + 1].type = "PUNC" <=> n = Len(h) - 1
      /\ k[n + 1].type # "BOUND"
  BY <1>0, PuncLast
<1>2. NextOf(x) = k[n + 1] BY DEF NextOf
<1>3. n + 1 \in 0 .. Len(h) - 1
  <2>1. n # Len(h) - 1 BY <1>1, <1>2
  <2> QED BY ONLY <1>0, <1>1, <2>1
<1> PICK m : m = n + 1 OBVIOUS
<1>4. NextOf(y) = k[m + 1] /\ y.bottom = m BY DEF NextOf
<1>5. m + 1 \in 1 .. Len(h) /\ (m + 1 \in Cuts(h) <=> Cut(h[m + 1])) BY <1>0, <1>3, PuncLast
<1>6. k[m + 1].bstrength = h[m + 1].bstrength
  <2>1. m + 1 > n + 1 BY <1>0
  <2> QED BY <1>5, <2>1 DEF Fed
<1>7. BoundOut(y) = FALSE BY <1>4, <1>5, <1>6 DEF BoundOut, Cut
<1>8. BoundOut(x) = (n + 1 \in Cuts(h)) BY DEF BoundOut
<1>9. Listed(x.out) /\ Tell(x.out) = OutTo(h, x.before, n, n + 1 \in Cuts(h)) BY <1>8 DEF Fed
<1> PICK e : e = AcphItem(NextOf(x)) OBVIOUS
<1>10. e.type # "BOUND" /\ e.type = h[n + 1].type /\ e.info1 = h[n + 1].info1
  BY <1>1, <1>2 DEF AcphItem
<1>11. Tell(Append(x.out, e)) = OutTo(h, x.before, n + 1, FALSE)
  <2> PICK out : out = x.out OBVIOUS
  <2>1. /\ Dressed(h) /\ n \in 0 .. Len(h) - 1 /\ Listed(out)
        /\ Tell(out) = OutTo(h, x.before, n, n + 1 \in Cuts(h))
    BY <1>0, <1>9
  <2>2. Tell(Append(out, e)) = OutTo(h, x.before, n + 1, FALSE) BY ONLY <1>10, <2>1, ItemOut
  <2> QED BY <2>2
<1>12. Listed(y.out) /\ Tell(y.out) = OutTo(h, x.before, m, FALSE) BY <1>9, <1>11, ListedAppend
<1>13. Tell(y.out) = OutTo(y.plan, y.before, y.bottom, BoundOut(y)) BY <1>4, <1>7, <1>12
<1>14. \A i \in 1 .. Len(h) : k[i].btype = h[i].btype /\ (i > m + 1 \/ i = 1 => k[i].bstrength = h[i].bstrength)
  <2>1. \A i \in 1 .. Len(h) : i > m + 1 => i > n + 1 BY <1>0
  <2> QED BY <2>1 DEF Fed
<1> QED BY <1>0, <1>3, <1>4, <1>6, <1>12, <1>13, <1>14 DEF Fed

\* A full buffer before the next item: its boundary, if it is out, is not put again.
LEMMA FedFull ==
  ASSUME NEW x, Ready(x), Fed(x), x.bottom > 0, x.put \in BOOLEAN,
         NEW k, IF NextOf(x).type # "PUNC" /\ ~(Cut(NextOf(x)) /\ x.put = FALSE)
                THEN Bounded(x.headx, x.bottom + 1, "ERR", NextOf(x).btype, k) ELSE k = x.headx,
         NEW y, y.plan = x.plan, y.before = x.before, y.headx = k, y.bottom = x.bottom,
         y.put = x.put, y.phase = "feed", y.out = x.out
  PROVE  Fed(y)
<1> PICK h : h = x.plan OBVIOUS
<1> PICK g : g = x.headx OBVIOUS
<1> PICK n : n = x.bottom OBVIOUS
<1>0. Dressed(h) /\ Planned(h, x.before) /\ Alike(h, g) /\ n \in 0 .. Len(h) - 1 /\ Dressed(g)
      /\ Len(g) = Len(h)
  BY AlikeKeeps, ZenonT(30) DEF Ready, Fed, Alike
<1>1. /\ n + 1 \in 1 .. Len(h) /\ Len(h) \in Nat \ {0}
      /\ g[n + 1].type = "PUNC" <=> n = Len(h) - 1
      /\ Len(h) \notin Cuts(h)
  BY <1>0, PuncLast
<1>2. NextOf(x) = g[n + 1] /\ NextOf(y) = k[n + 1] BY DEF NextOf
<1>3. Tell(x.out) = OutTo(h, x.before, n, BoundOut(x)) /\ Listed(x.out) BY DEF Fed
<1>4. CASE g[n + 1].type # "PUNC" /\ ~(Cut(g[n + 1]) /\ x.put = FALSE)
  <2>1. Bounded(g, n + 1, "ERR", g[n + 1].btype, k) BY <1>2, <1>4
  <2>2. /\ Alike(g, k) /\ k[n + 1].bstrength = "ERR" /\ k[n + 1].btype = g[n + 1].btype
        /\ \A j \in 1 .. Len(h) : j # n + 1 => k[j] = g[j]
    BY <1>0, <1>1, <2>1, BoundSet
  <2>3. Alike(h, k) BY <1>0, <2>2, AlikeTrans
  <2>4. ~Cut(k[n + 1]) BY <2>2 DEF Cut
  <2>5. BoundOut(y) = BoundOut(x) BY <1>2, <1>4, <2>4 DEF BoundOut
  <2>6. Tell(y.out) = OutTo(y.plan, y.before, y.bottom, BoundOut(y)) BY <1>3, <2>5
  <2>7. \A i \in 1 .. Len(h) : k[i].btype = h[i].btype /\ (i > n + 1 \/ i = 1 => k[i].bstrength = h[i].bstrength)
    <3>1. \A i \in 1 .. Len(h) : i > n + 1 \/ i = 1 => i # n + 1 BY <1>0
    <3> QED BY <2>2, <3>1 DEF Fed
  <2>8. x.put => n + 1 \in Cuts(h) BY DEF Fed
  <2> QED BY <1>0, <1>2, <1>3, <2>3, <2>4, <2>6, <2>7, <2>8 DEF Fed
<1>5. CASE ~(g[n + 1].type # "PUNC" /\ ~(Cut(g[n + 1]) /\ x.put = FALSE))
  <2>1. k = g BY <1>2, <1>5
  <2>2. NextOf(y) = NextOf(x) BY <1>2, <2>1
  <2>3. BoundOut(y) = BoundOut(x) BY <2>2 DEF BoundOut
  <2>4. x.put = FALSE
    <3>1. CASE Cut(g[n + 1]) /\ x.put = FALSE BY <3>1
    <3>2. CASE g[n + 1].type = "PUNC"
      <4>1. n + 1 = Len(h) BY <1>1, <3>2
      <4>2. x.put => n + 1 \in Cuts(h) BY DEF Fed
      <4> QED BY <1>1, <4>1, <4>2
    <3> QED BY <1>5, <3>1, <3>2
  <2>5. Tell(y.out) = OutTo(y.plan, y.before, y.bottom, BoundOut(y)) BY <1>3, <2>3
  <2> QED BY <1>3, <2>1, <2>2, <2>4, <2>5 DEF Fed
<1> QED BY <1>4, <1>5

-----------------------------------------------------------------------------
(* The properties, of a state. *)

Counted(x) ==
  /\ x.phase = "acc" =>
       \A i \in AcphWords(x.headx) : WordsBefore(x.headx, i) # {} => PhrAsked(x.headx, x.phr, i)
  /\ x.phase = "feed" /\ x.acc # <<>> =>
       \A i \in AcphWords(x.headx) : x.acc[i].right.footwords = Cardinality(Foot(x.headx, i))
Spoken(x) ==
  x.phase = "collect" /\ x.phrases > 0 =>
    Tell(x.out) = Upto(x.plan, x.before, Len(x.plan) - 1) \o Closing(x.plan)

LEMMA CountsThen ==
  /\ Counted(acph) => AcphCounts
  /\ Counted(acph') => AcphCounts'
<1>1. ASSUME NEW x PROVE \A i \in {k \in AcphWords(x) : \E j \in AcphWords(x) : j < k} :
                           i \in AcphWords(x) /\ WordsBefore(x, i) # {}
  BY DEF WordsBefore
<1>2. Counted(acph) => AcphCounts
  <2> SUFFICES ASSUME Counted(acph) PROVE AcphCounts OBVIOUS
  <2> DEFINE h == acph.headx
  <2>1. acph.phase = "acc" => \A i \in {k \in AcphWords(h) : \E j \in AcphWords(h) : j < k} : PhrAsked(h, acph.phr, i)
    BY <1>1 DEF Counted
  <2>2. acph.phase = "feed" /\ acph.acc # <<>> =>
          \A i \in AcphWords(h) : acph.acc[i].right.footwords = Cardinality(Foot(h, i))
    BY DEF Counted
  <2> QED BY <2>1, <2>2, Zenon
     DEF AcphCounts, PhrAsked, WordsBefore, RightFrom, Stop, Marks, Cut, Foot, Accents
<1>3. Counted(acph') => AcphCounts'
  <2> SUFFICES ASSUME Counted(acph') PROVE AcphCounts' OBVIOUS
  <2> DEFINE h == acph'.headx
  <2>1. acph'.phase = "acc" => \A i \in {k \in AcphWords(h) : \E j \in AcphWords(h) : j < k} : PhrAsked(h, acph'.phr, i)
    BY <1>1 DEF Counted
  <2>2. acph'.phase = "feed" /\ acph'.acc # <<>> =>
          \A i \in AcphWords(h) : acph'.acc[i].right.footwords = Cardinality(Foot(h, i))
    BY DEF Counted
  <2> QED BY <2>1, <2>2, Zenon
     DEF AcphCounts, PhrAsked, WordsBefore, RightFrom, Stop, Marks, Cut, Foot, Accents
<1> QED BY <1>2, <1>3

LEMMA SpokenThen ==
  /\ Spoken(acph) => AcphAsDecided
  /\ Spoken(acph') => AcphAsDecided'
<1>1. Spoken(acph) => AcphAsDecided
  BY Zenon DEF Spoken, AcphAsDecided, Tell, Told, Upto, Opening, Closing, Part, CutAt, TypeAt, FirstType,
               Ending, Cuts, Cut
<1>2. Spoken(acph') => AcphAsDecided'
  BY Zenon DEF Spoken, AcphAsDecided, Tell, Told, Upto, Opening, Closing, Part, CutAt, TypeAt, FirstType,
               Ending, Cuts, Cut
<1> QED BY <1>1, <1>2

AcphInv == Holds(acph) /\ Counted(acph) /\ Spoken(acph)

-----------------------------------------------------------------------------
(* The actions. *)

LEMMA InvStarts == AcphInit => AcphInv
<1> SUFFICES ASSUME AcphInit PROVE AcphInv OBVIOUS
<1>1. /\ DOMAIN acph = StateFields /\ acph.phase = "collect" /\ acph.phrases = 0 /\ acph.put = FALSE
      /\ acph.bottom = 0 /\ acph.headx = <<>> /\ acph.bound = "SSEP" /\ acph.before = "SENTEND"
  BY DEF AcphInit, StateFields
<1>2. ~(acph.phrases > 0) /\ acph.phrases \in Nat BY <1>1
<1>3. acph.put \in BOOLEAN BY <1>1
<1>4. Holds(acph) BY <1>1, <1>2, <1>3, Zenon DEF Holds
<1>5. Counted(acph) /\ Spoken(acph) BY <1>1, <1>2 DEF Counted, Spoken
<1> QED BY <1>4, <1>5 DEF AcphInv

\* A phrase as it is collected.
DressedPhrase(phrase) ==
  [i \in DOMAIN phrase |->
     [type |-> phrase[i].type, info1 |-> phrase[i].info1, info2 |-> phrase[i].info2,
      phones |-> phrase[i].phones, bstrength |-> "ERR", btype |-> "NONE"]]

LEMMA PhraseDressed ==
  ASSUME NEW phrase \in AcphPhrases
  PROVE  Dressed(DressedPhrase(phrase)) /\ Bare(DressedPhrase(phrase))
<1> DEFINE R == [type : STRING, info1 : STRING, info2 : STRING, phones : Seq(STRING)]
<1>1. /\ phrase \in Seq(R) /\ phrase # <<>> /\ AcphPunc(Last(phrase))
      /\ \A i \in 1 .. Len(phrase) - 1 : AcphInside(phrase[i])
  BY AcphAssumption
<1>2. Len(phrase) \in Nat \ {0} /\ DOMAIN phrase = 1 .. Len(phrase) /\ Last(phrase) = phrase[Len(phrase)]
  BY <1>1 DEF Last
<1> PICK h : h = DressedPhrase(phrase) OBVIOUS
<1> PICK n \in Nat \ {0} : n = Len(phrase) BY <1>2
<1> DEFINE Item(i) == [type |-> phrase[i].type, info1 |-> phrase[i].info1, info2 |-> phrase[i].info2,
                       phones |-> phrase[i].phones, bstrength |-> "ERR", btype |-> "NONE"]
<1>3. h = [i \in 1 .. n |-> Item(i)] BY <1>2 DEF DressedPhrase
<1>4. Listed(h) /\ Len(h) = n
  <2> DEFINE Q == {Item(i) : i \in 1 .. n}
  <2>1. h \in [1 .. n -> Q] BY <1>3
  <2>2. h \in Seq(Q) /\ Len(h) = n BY <2>1
  <2> HIDE DEF Q
  <2> QED BY <2>2, ListedSeq
<1>5. \A i \in 1 .. n : phrase[i].phones \in Seq(STRING)
  <2>1. \A i \in 1 .. n : phrase[i] \in R
    <3> HIDE DEF R
    <3> QED BY <1>1, <1>2
  <2> QED BY <2>1
<1>6. ASSUME NEW i \in 1 .. n
      PROVE  /\ DOMAIN h[i] = AcphFields /\ h[i] = [f \in AcphFields |-> h[i][f]]
             /\ h[i].type = phrase[i].type /\ h[i].info1 = phrase[i].info1 /\ h[i].info2 = phrase[i].info2
             /\ h[i].phones \in Seq(STRING) /\ h[i].bstrength = "ERR" /\ h[i].btype = "NONE"
  <2>1. h[i] = Item(i) BY <1>3
  <2> PICK r : r = Item(i) OBVIOUS
  <2>2. DOMAIN r = AcphFields BY DEF AcphFields
  <2>3. r = [f \in AcphFields |-> r[f]] BY <2>2 DEF AcphFields
  <2>4. /\ r.type = phrase[i].type /\ r.info1 = phrase[i].info1 /\ r.info2 = phrase[i].info2
        /\ r.phones = phrase[i].phones /\ r.bstrength = "ERR" /\ r.btype = "NONE"
    OBVIOUS
  <2>5. h[i] = r BY <2>1
  <2> QED BY <1>5, <2>2, <2>3, <2>4, <2>5
<1> HIDE DEF Item, R
<1>7. n \in 1 .. n /\ \A i \in 1 .. n - 1 : i \in 1 .. n OBVIOUS
<1>8. AcphPunc(h[n]) BY <1>1, <1>2, <1>6, <1>7, ZenonT(30) DEF AcphPunc
<1>9. ASSUME NEW i \in 1 .. n - 1 PROVE AcphInside(h[i])
  <2>1. i \in 1 .. n /\ i \in 1 .. Len(phrase) - 1 BY <1>7
  <2>2. h[i].type = phrase[i].type /\ h[i].info2 = phrase[i].info2 BY <1>6, <2>1
  <2>3. AcphInside(phrase[i]) BY <1>1, <2>1
  <2> QED BY ONLY <2>2, <2>3 DEF AcphInside
<1>10. Dressed(h)
  <2>1. Len(h) >= 1 BY <1>4
  <2> QED BY <1>4, <1>6, <1>8, <1>9, <2>1 DEF Dressed
<1>11. Bare(h) BY <1>4, <1>6 DEF Bare
<1> QED BY <1>10, <1>11

LEMMA CollectKeeps == AcphInv /\ AcphCollect => AcphInv'
<1> SUFFICES ASSUME AcphInv, AcphCollect PROVE AcphInv' OBVIOUS
<1> PICK x : x = acph OBVIOUS
<1> PICK y : y = acph' OBVIOUS
<1>1. PICK phrase \in AcphPhrases :
        y = [x EXCEPT !.phase = "phr", !.phrases = @ + 1, !.out = <<>>,
                      !.before = IF x.headx = <<>> THEN @ ELSE Last(x.headx).info1,
                      !.headx = DressedPhrase(phrase)]
  BY DEF AcphCollect, DressedPhrase
<1>2. x.phase = "collect" /\ Holds(x) BY DEF AcphCollect, AcphInv
<1>3. /\ y.phase = "phr" /\ y.phrases = x.phrases + 1 /\ y.out = <<>> /\ y.headx = DressedPhrase(phrase)
      /\ y.before = (IF x.headx = <<>> THEN x.before ELSE Last(x.headx).info1)
      /\ y.bound = x.bound /\ y.bottom = x.bottom /\ y.put = x.put /\ DOMAIN y = StateFields
  BY <1>1, <1>2 DEF Holds, StateFields
<1>4. Dressed(y.headx) /\ Bare(y.headx) BY <1>3, PhraseDressed
<1>5. y.bound = Opens(y.before) /\ y.bottom = 0
  <2>1. CASE x.phrases = 0 BY <1>2, <1>3, <2>1 DEF Holds, Opens
  <2>2. CASE x.phrases # 0
    <3>1. Started(x) BY <1>2, <2>2 DEF Holds
    <3>2. x.headx # <<>>
      <4>1. Listed(x.headx) /\ Len(x.headx) >= 1 BY <3>1 DEF Started, Dressed
      <4> QED BY <4>1, ListedLen
    <3> QED BY <1>2, <1>3, <3>1, <3>2 DEF Started
  <2> QED BY <2>1, <2>2
<1>6. Started(y) BY <1>3, <1>4, <1>5 DEF Started
<1>7. Holds(y) BY <1>2, <1>3, <1>6 DEF Holds
<1>8. Counted(y) /\ Spoken(y) BY <1>3 DEF Counted, Spoken
<1> QED BY <1>7, <1>8 DEF AcphInv

LEMMA PhrKeeps == AcphInv /\ AcphProcessPhr => AcphInv'
<1> SUFFICES ASSUME AcphInv, AcphProcessPhr PROVE AcphInv' OBVIOUS
<1> PICK x : x = acph OBVIOUS
<1> PICK y : y = acph' OBVIOUS
<1>1. PICK answers : y = AcphPhrased(acphSubPhrasing(x.headx, x.bound, answers))
  BY DEF AcphProcessPhr
<1> PICK a : a = acphSubPhrasing(x.headx, x.bound, answers) OBVIOUS
<1>2. y = [x EXCEPT !.phase = "acc", !.headx = a.headx, !.bound = a.bound, !.phr = a.asked, !.plan = a.headx]
  BY <1>1 DEF AcphPhrased
<1>3. x.phase = "phr" /\ Holds(x) BY DEF AcphProcessPhr, AcphInv
<1>4. /\ y.phase = "acc" /\ y.headx = a.headx /\ y.bound = a.bound /\ y.phr = a.asked /\ y.plan = a.headx
      /\ y.before = x.before /\ y.bottom = x.bottom /\ y.put = x.put /\ y.out = x.out
      /\ y.phrases = x.phrases /\ DOMAIN y = StateFields
  BY <1>2, <1>3 DEF Holds, StateFields
<1>5. x.phrases # 0 /\ Started(x) BY <1>3 DEF Holds
<1>6. /\ Dressed(x.headx) /\ Bare(x.headx) /\ x.bound = Opens(x.before)
      /\ x.bottom = 0 /\ x.out = <<>>
  BY <1>3, <1>5 DEF Started
<1>7. /\ Alike(x.headx, a.headx) /\ Planned(a.headx, x.before) /\ a.bound = Opens(Last(x.headx).info1)
      /\ \A i \in 1 .. Len(x.headx) : Inner(x.headx, i) => PhrAsked(a.headx, a.asked, i)
  BY <1>6, SubPhrased
<1>8. /\ Dressed(a.headx) /\ AcphWords(a.headx) = AcphWords(x.headx)
      /\ Last(a.headx).info1 = Last(x.headx).info1
  BY <1>6, <1>7, AlikeKeeps
<1>9. Started(y) BY <1>4, <1>6, <1>7, <1>8 DEF Started
<1>10. Holds(y) BY <1>3, <1>4, <1>5, <1>9 DEF Holds
<1>11. ASSUME NEW i \in AcphWords(y.headx), WordsBefore(y.headx, i) # {}
       PROVE  PhrAsked(y.headx, y.phr, i)
  <2>1. i \in AcphWords(x.headx) /\ WordsBefore(x.headx, i) # {}
    BY <1>4, <1>8, <1>11 DEF WordsBefore
  <2>2. i \in 1 .. Len(x.headx) BY <1>6, <2>1, WordsIn
  <2> QED BY <1>4, <1>7, <2>1, <2>2 DEF Inner
<1>12. Counted(y) /\ Spoken(y) BY <1>4, <1>11 DEF Counted, Spoken
<1> QED BY <1>10, <1>12 DEF AcphInv

LEMMA AccKeeps == AcphInv /\ AcphProcessAcc => AcphInv'
<1> SUFFICES ASSUME AcphInv, AcphProcessAcc PROVE AcphInv' OBVIOUS
<1> PICK x : x = acph OBVIOUS
<1> PICK y : y = acph' OBVIOUS
<1>1. PICK answers, stray : y = AcphAccented(acphAccentuation(x.headx, answers, stray))
  BY DEF AcphProcessAcc
<1> PICK a : a = acphAccentuation(x.headx, answers, stray) OBVIOUS
<1>2. y = [x EXCEPT !.phase = "feed", !.headx = a.headx, !.acc = a.asked]
  BY <1>1 DEF AcphAccented
<1>3. x.phase = "acc" /\ Holds(x) BY DEF AcphProcessAcc, AcphInv
<1>4. /\ y.phase = "feed" /\ y.headx = a.headx /\ y.bound = x.bound /\ y.acc = a.asked /\ y.plan = x.plan
      /\ y.before = x.before /\ y.bottom = x.bottom /\ y.put = x.put /\ y.out = x.out
      /\ y.phrases = x.phrases /\ DOMAIN y = StateFields
  BY <1>2, <1>3 DEF Holds, StateFields
<1>5. x.phrases # 0 /\ Started(x) BY <1>3 DEF Holds
<1>6. /\ Dressed(x.headx) /\ x.bound = Opens(Last(x.headx).info1) /\ x.plan = x.headx
      /\ Planned(x.plan, x.before) /\ x.bottom = 0 /\ x.out = <<>>
  BY <1>3, <1>5 DEF Started
<1>7. AccInv(x.headx, a, 0) BY <1>6, Accented
<1>8. Alike(x.headx, a.headx) /\ SameBounds(x.headx, a.headx) /\ DOMAIN a.asked = 1 .. Len(x.headx)
  BY <1>7 DEF AccInv, SameBounds
<1>9. /\ Dressed(a.headx) /\ AcphWords(a.headx) = AcphWords(x.headx)
      /\ Last(a.headx).info1 = Last(x.headx).info1
  BY <1>6, <1>8, AlikeKeeps
<1>10. Len(x.headx) \in Nat \ {0} /\ \A i \in AcphWords(x.headx) : i > 0
  BY <1>6, WordsIn
<1>11. a.asked # <<>>
  <2>1. 1 \in DOMAIN a.asked BY <1>8, <1>10
  <2>2. DOMAIN <<>> = {} OBVIOUS
  <2> QED BY <2>1, <2>2
<1>12. Started(y) BY <1>4, <1>6, <1>8, <1>9, <1>11 DEF Started
<1>13. Holds(y) BY <1>3, <1>4, <1>5, <1>12 DEF Holds
<1>14. \A i \in AcphWords(y.headx) : y.acc[i].right.footwords = Cardinality(Foot(y.headx, i))
  BY <1>4, <1>7, <1>9, <1>10 DEF AccInv
<1>15. Counted(y) /\ Spoken(y) BY <1>4, <1>14 DEF Counted, Spoken
<1> QED BY <1>13, <1>15 DEF AcphInv

\* What holds in every state in which a phrase is fed.
LEMMA InFeed ==
  ASSUME NEW x, Holds(x), x.phase \in {"feed", "items"}
  PROVE  /\ DOMAIN x = StateFields /\ x.put \in BOOLEAN /\ x.phrases \in Nat /\ x.phrases # 0
         /\ Started(x) /\ Ready(x) /\ Dressed(x.headx) /\ x.bound = Opens(Last(x.headx).info1)
         /\ x.phase = "items" => Fed(x) /\ x.acc = <<>>
<1>1. x.phrases # 0 BY DEF Holds
<1>2. Started(x) BY <1>1 DEF Holds
<1> QED BY <1>1, <1>2 DEF Holds, Started, Ready

\* A step of the feeding: the phrase stays, and no tree is asked.
Feeding(x, y) ==
  /\ DOMAIN y = StateFields /\ y.phrases = x.phrases /\ y.put \in BOOLEAN
  /\ y.plan = x.plan /\ y.before = x.before /\ y.bound = x.bound /\ y.acc = <<>>
  /\ y.phase = "items" \/ (y.phase = "feed" /\ y.bottom > 0)

LEMMA FedHolds ==
  ASSUME NEW x, Holds(x), x.phase \in {"feed", "items"}, NEW y, Feeding(x, y), Fed(y),
         Last(y.headx).info1 = Last(x.headx).info1
  PROVE  Holds(y) /\ Counted(y) /\ Spoken(y)
<1>1. /\ x.phrases \in Nat /\ x.phrases # 0 /\ Ready(x) /\ x.bound = Opens(Last(x.headx).info1)
  BY InFeed
<1>2. Dressed(y.plan) /\ Planned(y.plan, y.before) BY <1>1 DEF Ready, Feeding
<1>3. Dressed(y.headx)
  <2>1. Alike(y.plan, y.headx) BY DEF Fed
  <2> QED BY <1>2, <2>1, AlikeKeeps
<1>4. y.bound = Opens(Last(y.headx).info1) BY <1>1 DEF Feeding
<1>5. y.phase \in {"feed", "items"} /\ y.acc = <<>> /\ (y.phase = "feed" => y.bottom > 0) BY DEF Feeding
<1>6. Started(y) BY <1>2, <1>3, <1>4, <1>5 DEF Started
<1>7. Holds(y) BY <1>1, <1>5, <1>6 DEF Holds, Feeding
<1>8. Counted(y) /\ Spoken(y) BY <1>5 DEF Counted, Spoken
<1> QED BY <1>7, <1>8

LEMMA FeedKeeps == AcphInv /\ AcphFeed => AcphInv'
<1> SUFFICES ASSUME AcphInv, AcphFeed PROVE AcphInv' OBVIOUS
<1> PICK x : x = acph OBVIOUS
<1> PICK y : y = acph' OBVIOUS
<1>1. /\ x.phase = "feed" /\ Holds(x)
      /\ y = [x EXCEPT !.phase = "items", !.put = FALSE, !.phr = <<>>, !.acc = <<>>,
                       !.out = IF x.bottom = 0 /\ x.headx[1].info1 # "FLUSH"
                               THEN Append(@, AcphBound(x.headx[1].bstrength, x.headx[1].btype))
                               ELSE @]
  BY DEF AcphFeed, AcphInv
<1>2. DOMAIN x = StateFields /\ Ready(x) /\ Started(x) BY <1>1, InFeed
<1>3. /\ DOMAIN y = StateFields /\ y.phase = "items" /\ y.put = FALSE /\ y.acc = <<>>
      /\ y.headx = x.headx /\ y.bound = x.bound /\ y.bottom = x.bottom /\ y.phrases = x.phrases
      /\ y.plan = x.plan /\ y.before = x.before
      /\ y.out = IF x.bottom = 0 /\ x.headx[1].info1 # "FLUSH"
                 THEN Append(x.out, AcphBound(x.headx[1].bstrength, x.headx[1].btype)) ELSE x.out
  BY <1>1, <1>2 DEF StateFields
<1>4. Fed(y)
  <2>1. CASE x.acc # <<>>
    <3>1. x.bottom = 0 /\ x.out = <<>> /\ Alike(x.plan, x.headx) /\ SameBounds(x.plan, x.headx)
      BY <1>1, <1>2, <2>1 DEF Started
    <3>2. FirstFeed(x, y) BY <1>3, <3>1 DEF FirstFeed
    <3> QED BY <1>2, <3>1, <3>2, FedFirst
  <2>2. CASE x.acc = <<>>
    <3>1. Fed(x) /\ x.bottom > 0 BY <1>1, <1>2, <2>2 DEF Started
    <3>2. x.bottom # 0
      <4>1. ~(0 > 0) OBVIOUS
      <4> QED BY <3>1, <4>1
    <3>3. y.out = x.out BY <1>3, <3>2
    <3>4. x.put \in BOOLEAN BY <1>1, InFeed
    <3> QED BY <1>1, <1>3, <3>1, <3>3, <3>4, FedAgain
  <2> QED BY <2>1, <2>2
<1>5. Feeding(x, y) /\ Last(y.headx).info1 = Last(x.headx).info1 BY <1>3 DEF Feeding
<1>6. x.phase \in {"feed", "items"} BY <1>1
<1> QED BY <1>1, <1>4, <1>5, <1>6, FedHolds DEF AcphInv

LEMMA BoundKeeps == AcphInv /\ acphPutBoundItem => AcphInv'
<1> SUFFICES ASSUME AcphInv, acphPutBoundItem PROVE AcphInv' OBVIOUS
<1> PICK x : x = acph OBVIOUS
<1> PICK y : y = acph' OBVIOUS
<1>1. /\ x.phase = "items" /\ Holds(x) /\ Cut(NextOf(x)) /\ ~x.put
      /\ y = [x EXCEPT !.put = TRUE, !.out = Append(@, AcphBound(NextOf(x).bstrength, NextOf(x).btype))]
  BY DEF acphPutBoundItem, AcphInv, AcphNextItem, AcphBoundDue, NextOf, Cut
<1>2. DOMAIN x = StateFields /\ Ready(x) /\ Fed(x) /\ x.acc = <<>> /\ x.put \in BOOLEAN BY <1>1, InFeed
<1>3. /\ DOMAIN y = StateFields /\ y.phase = "items" /\ y.put = TRUE /\ y.acc = <<>>
      /\ y.headx = x.headx /\ y.bound = x.bound /\ y.bottom = x.bottom /\ y.phrases = x.phrases
      /\ y.plan = x.plan /\ y.before = x.before
      /\ y.out = Append(x.out, AcphBound(NextOf(x).bstrength, NextOf(x).btype))
  BY <1>1, <1>2 DEF StateFields
<1>4. x.put = FALSE BY <1>1, <1>2
<1>5. Fed(y) BY <1>1, <1>2, <1>3, <1>4, FedBound
<1>6. Feeding(x, y) /\ Last(y.headx).info1 = Last(x.headx).info1 BY <1>3 DEF Feeding
<1>7. x.phase \in {"feed", "items"} BY <1>1
<1> QED BY <1>1, <1>5, <1>6, <1>7, FedHolds DEF AcphInv

LEMMA ItemKeeps == AcphInv /\ AcphPutItem => AcphInv'
<1> SUFFICES ASSUME AcphInv, AcphPutItem PROVE AcphInv' OBVIOUS
<1> PICK x : x = acph OBVIOUS
<1> PICK y : y = acph' OBVIOUS
<1>1. /\ x.phase = "items" /\ Holds(x) /\ NextOf(x).type # "PUNC" /\ ~(Cut(NextOf(x)) /\ ~x.put)
      /\ y = [x EXCEPT !.put = FALSE, !.bottom = @ + 1, !.out = Append(@, AcphItem(NextOf(x)))]
  BY DEF AcphPutItem, AcphInv, AcphNextItem, AcphBoundDue, NextOf, Cut
<1>2. DOMAIN x = StateFields /\ Ready(x) /\ Fed(x) /\ x.acc = <<>> /\ x.put \in BOOLEAN BY <1>1, InFeed
<1>3. /\ DOMAIN y = StateFields /\ y.phase = "items" /\ y.put = FALSE /\ y.acc = <<>>
      /\ y.headx = x.headx /\ y.bound = x.bound /\ y.bottom = x.bottom + 1 /\ y.phrases = x.phrases
      /\ y.plan = x.plan /\ y.before = x.before /\ y.out = Append(x.out, AcphItem(NextOf(x)))
  BY <1>1, <1>2 DEF StateFields
<1>4. ~(Cut(NextOf(x)) /\ x.put = FALSE) BY <1>1, <1>2
<1>5. Fed(y) BY <1>1, <1>2, <1>3, <1>4, FedItem
<1>6. Feeding(x, y) /\ Last(y.headx).info1 = Last(x.headx).info1 BY <1>3 DEF Feeding
<1>7. x.phase \in {"feed", "items"} BY <1>1
<1> QED BY <1>1, <1>5, <1>6, <1>7, FedHolds DEF AcphInv

LEMMA FullKeeps == AcphInv /\ AcphOutFull => AcphInv'
<1> SUFFICES ASSUME AcphInv, AcphOutFull PROVE AcphInv' OBVIOUS
<1> PICK x : x = acph OBVIOUS
<1> PICK y : y = acph' OBVIOUS
<1>1. /\ x.phase = "items" /\ Holds(x) /\ x.bottom > 0
      /\ y = [x EXCEPT !.phase = "feed", !.fulls = @ + 1,
                       !.headx = IF NextOf(x).type # "PUNC" /\ ~(Cut(NextOf(x)) /\ ~x.put)
                                 THEN [@ EXCEPT ![x.bottom + 1].bstrength = "ERR"] ELSE @]
  BY DEF AcphOutFull, AcphInv, AcphNextItem, AcphBoundDue, NextOf, Cut
<1>2. DOMAIN x = StateFields /\ Ready(x) /\ Fed(x) /\ x.acc = <<>> /\ x.put \in BOOLEAN
      /\ Dressed(x.headx)
  BY <1>1, InFeed
<1> PICK h : h = x.headx OBVIOUS
<1> PICK n : n = x.bottom OBVIOUS
<1> PICK k : k = IF NextOf(x).type # "PUNC" /\ ~(Cut(NextOf(x)) /\ x.put = FALSE)
                 THEN [h EXCEPT ![n + 1].bstrength = "ERR"] ELSE h
  OBVIOUS
<1>3. /\ DOMAIN y = StateFields /\ y.phase = "feed" /\ y.put = x.put /\ y.acc = <<>>
      /\ y.headx = k /\ y.bound = x.bound /\ y.bottom = n /\ y.phrases = x.phrases
      /\ y.plan = x.plan /\ y.before = x.before /\ y.out = x.out
  BY <1>1, <1>2 DEF StateFields
<1>4. n + 1 \in 1 .. Len(h) /\ NextOf(x) = h[n + 1]
  <2>1. Len(x.plan) = Len(h) /\ n \in 0 .. Len(x.plan) - 1 BY <1>2 DEF Fed, Alike
  <2>2. Len(h) \in Nat BY <1>2, WordsIn
  <2> QED BY <2>1, <2>2 DEF NextOf
<1>5. IF NextOf(x).type # "PUNC" /\ ~(Cut(NextOf(x)) /\ x.put = FALSE)
      THEN Bounded(h, n + 1, "ERR", NextOf(x).btype, k) ELSE k = h
  <2>1. [h EXCEPT ![n + 1].bstrength = "ERR"]
          = [h EXCEPT ![n + 1].bstrength = "ERR", ![n + 1].btype = h[n + 1].btype]
    <3> PICK r : r = h[n + 1] OBVIOUS
    <3> PICK q : q = [r EXCEPT !.bstrength = "ERR"] OBVIOUS
    <3>1. DOMAIN r = AcphFields /\ r = [f \in AcphFields |-> r[f]] BY <1>2, <1>4 DEF Dressed
    <3>2. q = [f \in AcphFields |-> IF f = "bstrength" THEN "ERR" ELSE r[f]] BY <3>1
    <3>3. [q EXCEPT !.btype = r.btype] = q BY <3>1, <3>2 DEF AcphFields
    <3>4. DOMAIN h = 1 .. Len(h) BY <1>2, WordsIn
    <3> QED BY <1>4, <3>3, <3>4
  <2> QED BY <1>4, <2>1 DEF Bounded
<1>6. Fed(y)
  <2>1. x.bottom > 0 /\ y.bottom = x.bottom BY <1>1, <1>3
  <2> QED BY <1>2, <1>3, <1>5, <2>1, FedFull, ZenonT(30)
<1>7. Last(y.headx).info1 = Last(x.headx).info1
  <2>1. Alike(x.plan, x.headx) /\ Alike(x.plan, y.headx) /\ Dressed(x.plan)
    BY <1>2, <1>3, <1>6 DEF Fed, Ready
  <2> QED BY <2>1, AlikeKeeps
<1>8. Feeding(x, y) BY <1>1, <1>2, <1>3 DEF Feeding
<1>9. x.phase \in {"feed", "items"} BY <1>1
<1> QED BY <1>1, <1>6, <1>7, <1>8, <1>9, FedHolds DEF AcphInv

LEMMA PuncKeeps == AcphInv /\ AcphPutPunc => AcphInv'
<1> SUFFICES ASSUME AcphInv, AcphPutPunc PROVE AcphInv' OBVIOUS
<1> PICK x : x = acph OBVIOUS
<1> PICK y : y = acph' OBVIOUS
<1> PICK end : end = CASE NextOf(x).info1 = "SENTEND" -> <<AcphBound("SEND", "NA")>>
                       [] NextOf(x).info1 = "FLUSH" -> <<AcphBound("TERM", "NA")>>
                       [] OTHER -> <<>>
  OBVIOUS
<1>1. /\ x.phase = "items" /\ Holds(x) /\ NextOf(x).type = "PUNC"
      /\ y = [x EXCEPT !.phase = "collect", !.bottom = 0, !.out = @ \o end]
  BY DEF AcphPutPunc, AcphInv, AcphNextItem, NextOf
<1>2. /\ DOMAIN x = StateFields /\ Ready(x) /\ Fed(x) /\ x.acc = <<>> /\ x.put \in BOOLEAN
      /\ Dressed(x.headx) /\ x.phrases \in Nat /\ x.phrases # 0
      /\ x.bound = Opens(Last(x.headx).info1)
  BY <1>1, InFeed
<1>3. /\ DOMAIN y = StateFields /\ y.phase = "collect" /\ y.put = x.put /\ y.bottom = 0
      /\ y.headx = x.headx /\ y.bound = x.bound /\ y.phrases = x.phrases
      /\ y.plan = x.plan /\ y.before = x.before /\ y.out = x.out \o end
  BY <1>1, <1>2 DEF StateFields
<1>4. Started(y) BY <1>2, <1>3 DEF Started
<1>5. Holds(y) BY <1>2, <1>3, <1>4 DEF Holds
<1> PICK h : h = x.plan OBVIOUS
<1> PICK n : n = x.bottom OBVIOUS
<1>6. Dressed(h) /\ Planned(h, x.before) /\ Alike(h, x.headx) /\ n \in 0 .. Len(h) - 1
  BY <1>2 DEF Ready, Fed
<1>7. /\ Len(h) \in Nat \ {0} /\ NextOf(x).info1 = h[n + 1].info1
      /\ n = Len(h) - 1 /\ Len(h) \notin Cuts(h)
  <2>1. NextOf(x) = x.headx[n + 1] BY DEF NextOf
  <2> QED BY <1>1, <1>6, <2>1, PuncLast
<1>8. end = Closing(h)
  <2>1. n + 1 = Len(h) BY <1>7
  <2>2. Last(h) = h[Len(h)] BY <1>6, WordsIn
  <2>3. NextOf(x).info1 = Last(h).info1 BY <1>7, <2>1, <2>2
  <2> QED BY <2>3 DEF Closing
<1>9. BoundOut(x) = FALSE
  <2>1. n + 1 = Len(h) BY <1>7
  <2> QED BY <1>7, <2>1 DEF BoundOut
<1>10. Listed(x.out) /\ Tell(x.out) = OutTo(h, x.before, Len(h) - 1, FALSE) BY <1>2, <1>7, <1>9 DEF Fed
<1>11. Tell(y.out) = Upto(h, x.before, Len(h) - 1) \o Closing(h)
  <2> PICK out : out = x.out OBVIOUS
  <2>1. Dressed(h) /\ Listed(out) /\ Tell(out) = OutTo(h, x.before, Len(h) - 1, FALSE)
    BY <1>6, <1>10
  <2>2. Tell(out \o Closing(h)) = Upto(h, x.before, Len(h) - 1) \o Closing(h) BY ONLY <2>1, EndOut
  <2> QED BY <1>3, <1>8, <2>2
<1>12. Counted(y) /\ Spoken(y) BY <1>3, <1>11 DEF Counted, Spoken
<1> QED BY <1>5, <1>12 DEF AcphInv

\* Phrasing and accentuation keep their state in order: what is to be fed is the phrase
\* as it was decided, and what is out is what has been fed of it (acphStep).
THEOREM AcphInvariant == AcphSpec => []AcphInv
<1>1. AcphInit => AcphInv BY InvStarts
<1>2. AcphInv /\ [AcphNext]_acph => AcphInv'
  <2> SUFFICES ASSUME AcphInv, [AcphNext]_acph PROVE AcphInv' OBVIOUS
  <2>1. CASE AcphCollect BY <2>1, CollectKeeps
  <2>2. CASE AcphProcessPhr BY <2>2, PhrKeeps
  <2>3. CASE AcphProcessAcc BY <2>3, AccKeeps
  <2>4. CASE AcphFeed BY <2>4, FeedKeeps
  <2>5. CASE acphPutBoundItem BY <2>5, BoundKeeps
  <2>6. CASE AcphPutItem BY <2>6, ItemKeeps
  <2>7. CASE AcphOutFull BY <2>7, FullKeeps
  <2>8. CASE AcphPutPunc BY <2>8, PuncKeeps
  <2>9. CASE UNCHANGED acph BY <2>9 DEF AcphInv
  <2> QED BY <2>1, <2>2, <2>3, <2>4, <2>5, <2>6, <2>7, <2>8, <2>9 DEF AcphNext
<1> QED BY <1>1, <1>2, PTL DEF AcphSpec

\* Whatever the phrases, the answers of the trees and the full buffers: the trees are
\* asked about the words and syllables that there are, and a phrase comes out as it was
\* decided, each boundary once and in its place (acphSubPhrasing, acphAccentuation,
\* acphStep).
THEOREM AcphSpeaksAsDecided == AcphSpec => []AcphSound
<1>1. AcphInv => AcphSound BY CountsThen, SpokenThen DEF AcphInv, AcphSound
<1> QED BY <1>1, AcphInvariant, PTL

-----------------------------------------------------------------------------
(* Sentence phonology. *)

\* The fields of the sub object.
SphoFieldNames ==
  {"procState", "follow", "needMore", "curFst", "suppressParse", "suppressRecomb", "force",
   "breakPending", "breakTime", "wordStarted", "sentenceStarted", "headx", "readPos",
   "outReadPos", "phon", "phonReadPos", "activeStart", "penultima", "activeEnd", "lastBound",
   "lastType", "outBuf", "failed"}

\* A strength that the bound of an item may be put out with.
SphoRightBound(item, strength) ==
  SphoIsBound(item) =>
    /\ item.info1 = "PHR1" => strength # "PHR0"
    /\ item.info1 \notin SphoPhraseBounds => strength = item.info1

\* Items are numbered; what is held is one of them, with its own bound or none.
SphoFedWell(fed) ==
  /\ Listed(fed)
  /\ \A k \in 1 .. Len(fed) :
       /\ fed[k].id = k
       /\ SphoIsBound(fed[k]) => fed[k].info1 \in SphoPhraseBounds \cup SphoSentenceBounds
SphoOneOf(fed, item) == \E k \in 1 .. Len(fed) : item = fed[k]
SphoCell(fed, h) ==
  /\ DOMAIN h = {"item", "strength", "type", "sildur"} /\ SphoOneOf(fed, h.item)
  /\ h.strength = "NONE" \/ SphoRightBound(h.item, h.strength)
SphoCells(fed, headx) == Listed(headx) /\ \A k \in 1 .. Len(headx) : SphoCell(fed, headx[k])
SphoWaits(fed, in) == Listed(in) /\ \A k \in 1 .. Len(in) : SphoOneOf(fed, in[k])
SphoTells(fed, said) ==
  /\ Listed(said)
  /\ \A j \in 1 .. Len(said) :
       said[j].kind = "bound" =>
         \E k \in 1 .. Len(fed) : said[j].id = k /\ SphoRightBound(fed[k], said[j].strength)

\* Where the window is read, and which part of it is put out.
SphoWorking == {"TRANSDUCE", "BOUNDS", "RECOMB", "SYL", "FEED", "SHIFT"}
SphoPlaces(x) ==
  /\ x.procState \in SphoWorking \cup {"INIT", "COLLECT", "PARSE"}
  /\ x.follow \in {"RECOMB", "SYL", "SHIFT"}
  /\ x.activeStart \in 0 .. Len(x.headx) /\ x.outReadPos \in Nat
  /\ x.procState # "INIT" =>
       /\ x.readPos \in 0 .. Len(x.headx)
       /\ x.activeEnd \in {SphoInvalid} \cup 0 .. x.readPos
       /\ x.penultima \in {SphoInvalid} \cup 0 .. x.readPos /\ x.penultima <= x.activeEnd
  /\ x.procState \in SphoWorking => x.activeEnd # SphoInvalid
SphoHolds(fed, x) ==
  /\ DOMAIN x = SphoFieldNames /\ SphoCells(fed, x.headx) /\ SphoPlaces(x)
  /\ x.procState = "FEED" => SphoTells(fed, x.outBuf)
SphoInv ==
  /\ SphoFedWell(sphoFed) /\ SphoWaits(sphoFed, sphoIn) /\ SphoTells(sphoFed, sphoSaid)
  /\ SphoHolds(sphoFed, spho)

-----------------------------------------------------------------------------
(* Items fed. *)

LEMMA SphoNumberedIs ==
  ASSUME NEW m \in SphoMenu, NEW n \in Nat
  PROVE  /\ SphoNumbered(m, n).id = n
         /\ SphoIsBound(SphoNumbered(m, n)) =>
              SphoNumbered(m, n).info1 \in SphoPhraseBounds \cup SphoSentenceBounds
<1> PICK item : item = SphoNumbered(m, n) OBVIOUS
<1>1. item = [f \in DOMAIN m \cup {"id"} |-> IF f = "id" THEN n ELSE m[f]] BY DEF SphoNumbered
<1>2. /\ {"type", "info1"} \subseteq DOMAIN m
      /\ m.type = "BOUND" => m.info1 \in SphoPhraseBounds \cup SphoSentenceBounds
  BY SphoAssumption
<1>3. item.id = n /\ item.type = m.type /\ item.info1 = m.info1 BY <1>1, <1>2
<1> QED BY <1>2, <1>3 DEF SphoIsBound

\* With one item more, what is held and what was said are as right as before.
SphoMore(fed, more) == Len(fed) <= Len(more) /\ \A k \in 1 .. Len(fed) : more[k] = fed[k]
LEMMA SphoCellMore ==
  ASSUME NEW fed, SphoFedWell(fed), NEW more, SphoFedWell(more), SphoMore(fed, more), NEW h, SphoCell(fed, h)
  PROVE  SphoCell(more, h)
<1>1. PICK k \in 1 .. Len(fed) : h.item = fed[k] BY DEF SphoCell, SphoOneOf
<1>2. Len(fed) \in Nat /\ Len(more) \in Nat BY ListedLen DEF SphoFedWell
<1>3. k \in 1 .. Len(more) /\ more[k] = fed[k] BY <1>2 DEF SphoMore
<1> QED BY <1>1, <1>3 DEF SphoCell, SphoOneOf

LEMMA SphoHoldsMore ==
  ASSUME NEW fed, SphoFedWell(fed), NEW more, SphoFedWell(more), SphoMore(fed, more), NEW x,
         SphoHolds(fed, x), x.procState # "FEED"
  PROVE  SphoHolds(more, x)
<1>1. SphoCells(more, x.headx) BY SphoCellMore DEF SphoHolds, SphoCells
<1> QED BY <1>1 DEF SphoHolds

LEMMA SphoTellsMore ==
  ASSUME NEW fed, SphoFedWell(fed), NEW more, SphoFedWell(more), SphoMore(fed, more), NEW said,
         SphoTells(fed, said)
  PROVE  SphoTells(more, said)
<1>2. Len(fed) \in Nat /\ Len(more) \in Nat BY ListedLen DEF SphoFedWell
<1>3. \A k \in 1 .. Len(fed) : k \in 1 .. Len(more) /\ more[k] = fed[k] BY <1>2 DEF SphoMore
<1> QED BY <1>3 DEF SphoTells

LEMMA SphoFeedKeeps == ASSUME SphoInv, SphoFeed PROVE SphoInv'
<1>1. PICK m \in SphoMenu :
        LET item == SphoNumbered(m, Len(sphoFed) + 1)
        IN  sphoIn' = Append(sphoIn, item) /\ sphoFed' = Append(sphoFed, item)
  BY DEF SphoFeed
<1> PICK item, fed, more : item = SphoNumbered(m, Len(sphoFed) + 1) /\ fed = sphoFed /\ more = sphoFed'
  OBVIOUS
<1>2. /\ sphoIn' = Append(sphoIn, item) /\ more = Append(fed, item)
      /\ spho' = spho /\ sphoSaid' = sphoSaid /\ spho.procState = "COLLECT"
  BY <1>1 DEF SphoFeed
<1>3. SphoFedWell(fed) /\ Listed(fed) BY DEF SphoInv, SphoFedWell
<1>4. Len(fed) \in Nat BY <1>3, ListedLen
<1>5. /\ item.id = Len(fed) + 1
      /\ SphoIsBound(item) => item.info1 \in SphoPhraseBounds \cup SphoSentenceBounds
  <2>1. Len(fed) + 1 \in Nat BY <1>4
  <2> QED BY <2>1, SphoNumberedIs
<1>6. /\ Listed(more) /\ Len(more) = Len(fed) + 1 /\ more[Len(fed) + 1] = item
      /\ \A k \in 1 .. Len(fed) : more[k] = fed[k]
  BY <1>2, <1>3, ListedAppend
<1>7. SphoFedWell(more)
  <2>1. \A k \in 1 .. Len(more) : k \in 1 .. Len(fed) \/ k = Len(fed) + 1 BY <1>4, <1>6
  <2> QED BY <1>3, <1>5, <1>6, <2>1 DEF SphoFedWell
<1>8. SphoMore(fed, more) BY <1>4, <1>6 DEF SphoMore
<1>9. SphoWaits(more, sphoIn')
  <2>1. /\ Listed(sphoIn) /\ Len(sphoIn) \in Nat BY ListedLen DEF SphoInv, SphoWaits
  <2>2. /\ Listed(sphoIn') /\ Len(sphoIn') = Len(sphoIn) + 1 /\ sphoIn'[Len(sphoIn) + 1] = item
        /\ \A k \in 1 .. Len(sphoIn) : sphoIn'[k] = sphoIn[k]
    BY <1>2, <2>1, ListedAppend
  <2>3. \A k \in 1 .. Len(sphoIn) : SphoOneOf(more, sphoIn[k])
    <3>1. \A k \in 1 .. Len(sphoIn) : SphoOneOf(fed, sphoIn[k]) BY DEF SphoInv, SphoWaits
    <3>2. \A k \in 1 .. Len(fed) : k \in 1 .. Len(more) BY <1>4, <1>6
    <3> QED BY <1>6, <3>1, <3>2 DEF SphoOneOf
  <2>4. SphoOneOf(more, item)
    <3>1. Len(fed) + 1 \in 1 .. Len(more) BY <1>4, <1>6
    <3> QED BY <1>6, <3>1 DEF SphoOneOf
  <2>5. \A k \in 1 .. Len(sphoIn') : k \in 1 .. Len(sphoIn) \/ k = Len(sphoIn) + 1 BY <2>1, <2>2
  <2> QED BY <2>2, <2>3, <2>4, <2>5 DEF SphoWaits
<1>10. SphoHolds(more, spho) BY <1>2, <1>3, <1>7, <1>8, SphoHoldsMore DEF SphoInv
<1>11. SphoTells(more, sphoSaid) BY <1>3, <1>7, <1>8, SphoTellsMore DEF SphoInv
<1> QED BY <1>2, <1>7, <1>9, <1>10, <1>11 DEF SphoInv

\* The steps that leave the buffers alone.
LEMMA SphoInsideKeeps == ASSUME SphoInv, SphoInside, SphoHolds(sphoFed, spho') PROVE SphoInv'
BY DEF SphoInv, SphoInside

LEMMA SphoTakeKeeps == ASSUME SphoInv, SphoTake PROVE SphoInv'
BY DEF SphoInv, SphoTake

LEMMA SphoNoneFed == SphoFedWell(<<>>) /\ SphoWaits(<<>>, <<>>) /\ SphoTells(<<>>, <<>>)
BY ListedEmpty DEF SphoFedWell, SphoWaits, SphoTells

LEMMA SphoClearedHolds ==
  ASSUME NEW x, DOMAIN x = SphoFieldNames, x.follow \in {"RECOMB", "SYL", "SHIFT"}, x.outReadPos \in Nat,
         NEW fed
  PROVE  SphoHolds(fed, SphoCleared(x))
<1> PICK y : y = SphoCleared(x) OBVIOUS
<1>1. /\ DOMAIN y = SphoFieldNames /\ y.procState = "INIT" /\ y.headx = <<>> /\ y.activeStart = 0
      /\ y.follow = x.follow /\ y.outReadPos = x.outReadPos
  BY DEF SphoCleared, SphoFieldNames
<1>2. SphoCells(fed, y.headx) BY <1>1, ListedEmpty DEF SphoCells
<1>3. SphoPlaces(y) BY <1>1 DEF SphoPlaces, SphoWorking
<1> QED BY <1>1, <1>2, <1>3 DEF SphoHolds

LEMMA SphoResetKeeps == ASSUME SphoInv, SphoReset PROVE SphoInv'
<1>1. spho' = SphoCleared(spho) /\ sphoIn' = <<>> /\ sphoFed' = <<>> /\ sphoSaid' = <<>> BY DEF SphoReset
<1>2. SphoHolds(sphoFed', spho') BY <1>1, SphoClearedHolds DEF SphoInv, SphoHolds, SphoPlaces
<1> QED BY <1>1, <1>2, SphoNoneFed DEF SphoInv

LEMMA SphoInitHolds == ASSUME SphoInit PROVE SphoInv
<1> PICK x : x = [procState |-> "INIT", follow |-> "RECOMB", needMore |-> TRUE, curFst |-> 0,
     suppressParse |-> FALSE, suppressRecomb |-> FALSE, force |-> FALSE,
     breakPending |-> FALSE, breakTime |-> 0, wordStarted |-> FALSE,
     sentenceStarted |-> FALSE, headx |-> <<>>, readPos |-> 0, outReadPos |-> 0,
     phon |-> <<>>, phonReadPos |-> 0, activeStart |-> 0, penultima |-> SphoInvalid,
     activeEnd |-> SphoInvalid, lastBound |-> -1, lastType |-> "NA",
     outBuf |-> <<>>, failed |-> FALSE]
  OBVIOUS
<1>1. DOMAIN x = SphoFieldNames /\ x.follow = "RECOMB" /\ x.outReadPos = 0 BY DEF SphoFieldNames
<1>2. spho = SphoCleared(x) /\ sphoIn = <<>> /\ sphoFed = <<>> /\ sphoSaid = <<>>
  BY DEF SphoInit, SphoFresh
<1>3. SphoHolds(sphoFed, spho) BY <1>1, <1>2, SphoClearedHolds
<1> QED BY <1>2, <1>3, SphoNoneFed DEF SphoInv

\* The window stays as it is.
LEMMA SphoWindowKept ==
  ASSUME NEW fed, NEW x, SphoHolds(fed, x), NEW y, DOMAIN y = SphoFieldNames, y.headx = x.headx,
         SphoPlaces(y), y.procState # "FEED"
  PROVE  SphoHolds(fed, y)
BY DEF SphoHolds

LEMMA SphoStepInitKeeps == ASSUME SphoInv, SphoStepInit PROVE SphoInv'
<1> PICK x, y : x = spho /\ y = spho' OBVIOUS
<1>1. SphoHolds(sphoFed, x) /\ DOMAIN x = SphoFieldNames BY DEF SphoInv, SphoHolds
<1>2. y = [x EXCEPT !.procState = "COLLECT", !.penultima = SphoInvalid,
                !.activeEnd = SphoInvalid, !.readPos = 0, !.phonReadPos = 0,
                !.phon = <<>>, !.lastType = "NA", !.lastBound = -1]
  BY DEF SphoStepInit
<1>3. /\ DOMAIN y = SphoFieldNames /\ y.headx = x.headx /\ y.procState = "COLLECT"
      /\ y.penultima = SphoInvalid /\ y.activeEnd = SphoInvalid /\ y.readPos = 0
      /\ y.follow = x.follow /\ y.activeStart = x.activeStart /\ y.outReadPos = x.outReadPos
  BY <1>1, <1>2 DEF SphoFieldNames
<1>4. Listed(x.headx) /\ Len(x.headx) \in Nat BY <1>1, ListedLen DEF SphoHolds, SphoCells
<1>5. SphoPlaces(y)
  <2>1. SphoPlaces(x) BY <1>1 DEF SphoHolds
  <2> QED BY <1>3, <1>4, <2>1 DEF SphoPlaces, SphoWorking, SphoInvalid
<1>6. SphoHolds(sphoFed, y) BY <1>1, <1>3, <1>5, SphoWindowKept
<1> QED BY <1>6, SphoInsideKeeps DEF SphoStepInit

LEMMA SphoParseEndKeeps == ASSUME SphoInv, SphoParseEnd PROVE SphoInv'
<1> PICK x, y : x = spho /\ y = spho' OBVIOUS
<1>1. SphoHolds(sphoFed, x) /\ DOMAIN x = SphoFieldNames BY DEF SphoInv, SphoHolds
<1>2. /\ y = IF x.force
             THEN [x EXCEPT !.force = FALSE, !.procState = "TRANSDUCE",
                     !.activeEnd = IF @ = SphoInvalid THEN x.readPos ELSE @]
             ELSE [x EXCEPT !.needMore = TRUE, !.procState = "COLLECT"]
      /\ x.procState = "PARSE"
  BY DEF SphoParseEnd
<1>3. /\ DOMAIN y = SphoFieldNames /\ y.headx = x.headx
      /\ \/ y.procState = "COLLECT" /\ y.activeEnd = x.activeEnd
         \/ /\ y.procState = "TRANSDUCE"
            /\ y.activeEnd = IF x.activeEnd = SphoInvalid THEN x.readPos ELSE x.activeEnd
      /\ y.penultima = x.penultima /\ y.readPos = x.readPos
      /\ y.follow = x.follow /\ y.activeStart = x.activeStart /\ y.outReadPos = x.outReadPos
  <2>1. CASE x.force BY <1>1, <1>2, <2>1 DEF SphoFieldNames
  <2>2. CASE ~x.force BY <1>1, <1>2, <2>2 DEF SphoFieldNames
  <2> QED BY <2>1, <2>2
<1>4. Listed(x.headx) /\ Len(x.headx) \in Nat BY <1>1, ListedLen DEF SphoHolds, SphoCells
<1>5. SphoPlaces(y)
  <2>1. SphoPlaces(x) BY <1>1 DEF SphoHolds
  <2> QED BY <1>2, <1>3, <1>4, <2>1 DEF SphoPlaces, SphoWorking, SphoInvalid
<1>6. SphoHolds(sphoFed, y) BY <1>1, <1>3, <1>5, SphoWindowKept
<1> QED BY <1>6, SphoInsideKeeps DEF SphoParseEnd

LEMMA SphoParseSentenceEndKeeps == ASSUME SphoInv, SphoParseSentenceEnd PROVE SphoInv'
<1> PICK x, y : x = spho /\ y = spho' OBVIOUS
<1>1. SphoHolds(sphoFed, x) /\ DOMAIN x = SphoFieldNames BY DEF SphoInv, SphoHolds
<1>2. /\ y = [x EXCEPT !.sentenceStarted = FALSE, !.readPos = x.readPos + 1,
                    !.phon = SphoAddTermPhonemes(@, x.readPos),
                    !.activeEnd = x.readPos + 1, !.penultima = x.readPos + 1,
                    !.procState = "TRANSDUCE"]
      /\ x.procState = "PARSE" /\ x.readPos < Len(x.headx)
  BY DEF SphoParseSentenceEnd, SphoParsing
<1>3. /\ DOMAIN y = SphoFieldNames /\ y.headx = x.headx /\ y.procState = "TRANSDUCE"
      /\ y.penultima = x.readPos + 1 /\ y.activeEnd = x.readPos + 1 /\ y.readPos = x.readPos + 1
      /\ y.follow = x.follow /\ y.activeStart = x.activeStart /\ y.outReadPos = x.outReadPos
  BY <1>1, <1>2 DEF SphoFieldNames
<1>4. Listed(x.headx) /\ Len(x.headx) \in Nat BY <1>1, ListedLen DEF SphoHolds, SphoCells
<1>5. SphoPlaces(y)
  <2>1. SphoPlaces(x) BY <1>1 DEF SphoHolds
  <2> QED BY <1>2, <1>3, <1>4, <2>1 DEF SphoPlaces, SphoWorking, SphoInvalid
<1>6. SphoHolds(sphoFed, y) BY <1>1, <1>3, <1>5, SphoWindowKept
<1> QED BY <1>6, SphoInsideKeeps DEF SphoParseSentenceEnd

\* What is no bound may be said at once.
LEMMA SphoTellsItem ==
  ASSUME NEW fed, NEW b, b.kind # "bound"
  PROVE  SphoTells(fed, <<b>>)
<1>1. PICK s : s = <<b>> OBVIOUS
<1>2. Listed(s) /\ Len(s) = 1 /\ s[1] = b BY <1>1, ListedOne
<1>3. \A j \in 1 .. 1 : j = 1 OBVIOUS
<1> QED BY <1>1, <1>2, <1>3 DEF SphoTells

LEMMA SphoParseTermKeeps == ASSUME SphoInv, SphoParseTerm PROVE SphoInv'
<1> PICK x, y, b : x = spho /\ y = spho' /\ b = [kind |-> "item", id |-> SphoHere.id] OBVIOUS
<1>1. SphoHolds(sphoFed, x) /\ DOMAIN x = SphoFieldNames BY DEF SphoInv, SphoHolds
<1>2. /\ y = [x EXCEPT !.readPos = x.readPos + 1, !.activeEnd = x.readPos + 1,
                    !.penultima = SphoInvalid, !.follow = "SHIFT", !.outBuf = <<b>>,
                    !.procState = "FEED"]
      /\ x.procState = "PARSE" /\ x.readPos < Len(x.headx)
  BY DEF SphoParseTerm, SphoParsing
<1>3. /\ DOMAIN y = SphoFieldNames /\ y.headx = x.headx /\ y.procState = "FEED"
      /\ y.penultima = SphoInvalid /\ y.activeEnd = x.readPos + 1 /\ y.readPos = x.readPos + 1
      /\ y.follow = "SHIFT" /\ y.activeStart = x.activeStart /\ y.outReadPos = x.outReadPos
      /\ y.outBuf = <<b>>
  BY <1>1, <1>2 DEF SphoFieldNames
<1>4. Listed(x.headx) /\ Len(x.headx) \in Nat BY <1>1, ListedLen DEF SphoHolds, SphoCells
<1>5. SphoPlaces(y)
  <2>1. SphoPlaces(x) BY <1>1 DEF SphoHolds
  <2> QED BY <1>2, <1>3, <1>4, <2>1 DEF SphoPlaces, SphoWorking, SphoInvalid
<1>6. SphoTells(sphoFed, y.outBuf) BY <1>3, SphoTellsItem
<1>7. SphoHolds(sphoFed, y) BY <1>1, <1>3, <1>5, <1>6 DEF SphoHolds
<1> QED BY <1>7, SphoInsideKeeps DEF SphoParseTerm

LEMMA SphoParseItemKeeps == ASSUME SphoInv, SphoParseItem PROVE SphoInv'
<1> PICK x, y : x = spho /\ y = spho' OBVIOUS
<1>1. SphoHolds(sphoFed, x) /\ DOMAIN x = SphoFieldNames BY DEF SphoInv, SphoHolds
<1>2. x.procState = "PARSE" /\ x.readPos < Len(x.headx) BY DEF SphoParseItem, SphoParsing
<1> DEFINE sbeg == SphoIsBound(SphoHere) /\ SphoHere.info1 = "SBEG"
           phon == IF sbeg THEN SphoAdded(x.phon, SphoSym(SphoIgnore, "START", "start")) ELSE x.phon
           s == [x EXCEPT !.phon = phon, !.sentenceStarted = @ \/ sbeg]
           e == SphoExtracted(s, phon, s.readPos)
           t == [s EXCEPT !.suppressParse = SphoIsBound(SphoHere)]
           moves == /\ s.activeStart <= s.readPos
                    /\ \/ SphoIsWord(SphoHere) \/ s.activeEnd = SphoInvalid
                       \/ SphoIsBound(SphoAt(s.activeEnd).item)
           step == IF ~SphoIsWord(SphoHere) /\ ~SphoIsBound(SphoHere)
                   THEN [s EXCEPT !.readPos = @ + 1]
                   ELSE IF e.ok
                   THEN [t EXCEPT !.phon = e.phon, !.readPos = @ + 1,
                           !.penultima = IF moves THEN s.activeEnd ELSE @,
                           !.activeEnd = IF moves THEN s.readPos ELSE @]
                   ELSE [t EXCEPT !.procState = "TRANSDUCE",
                           !.activeEnd = IF @ \in {SphoInvalid, s.activeStart}
                                         THEN s.readPos ELSE @]
<1>10. y = step BY DEF SphoParseItem
<1>11. PICK p, q, r, m, z : p = phon /\ q = (s.sentenceStarted) /\ r = SphoIsBound(SphoHere) /\ m = moves /\ z = e.phon
  OBVIOUS
<1>12. s = [x EXCEPT !.phon = p, !.sentenceStarted = q]
  <2>1. q = (x.sentenceStarted \/ sbeg) BY <1>1, <1>11 DEF SphoFieldNames
  <2> QED BY <1>11, <2>1
<1>3. LET u == [x EXCEPT !.phon = p, !.sentenceStarted = q]
          v == [u EXCEPT !.suppressParse = r]
      IN  \/ y = [u EXCEPT !.readPos = @ + 1]
          \/ y = [v EXCEPT !.phon = z, !.readPos = @ + 1,
                       !.penultima = IF m THEN u.activeEnd ELSE @,
                       !.activeEnd = IF m THEN u.readPos ELSE @]
          \/ y = [v EXCEPT !.procState = "TRANSDUCE",
                       !.activeEnd = IF @ \in {SphoInvalid, u.activeStart} THEN u.readPos ELSE @]
  <2> HIDE DEF s, e, sbeg, phon, moves
  <2> QED BY <1>10, <1>11, <1>12
<1> HIDE DEF step
<1>4. /\ DOMAIN y = SphoFieldNames /\ y.headx = x.headx
      /\ y.follow = x.follow /\ y.activeStart = x.activeStart /\ y.outReadPos = x.outReadPos
  BY <1>1, <1>3 DEF SphoFieldNames
<1>5. \/ /\ y.procState = "PARSE" /\ y.readPos = x.readPos + 1
         /\ \/ y.penultima = x.penultima /\ y.activeEnd = x.activeEnd
            \/ y.penultima = x.activeEnd /\ y.activeEnd = x.readPos
      \/ /\ y.procState = "TRANSDUCE" /\ y.readPos = x.readPos /\ y.penultima = x.penultima
         /\ \/ y.activeEnd = x.readPos
            \/ y.activeEnd = x.activeEnd /\ x.activeEnd # SphoInvalid
  BY <1>1, <1>2, <1>3 DEF SphoFieldNames
<1>6. Listed(x.headx) /\ Len(x.headx) \in Nat BY <1>1, ListedLen DEF SphoHolds, SphoCells
<1>7. SphoPlaces(y)
  <2>1. SphoPlaces(x) BY <1>1 DEF SphoHolds
  <2> QED BY <1>2, <1>4, <1>5, <1>6, <2>1 DEF SphoPlaces, SphoWorking, SphoInvalid
<1>8. y.procState # "FEED" BY <1>5
<1>9. SphoHolds(sphoFed, y) BY <1>1, <1>4, <1>7, <1>8, SphoWindowKept
<1> QED BY <1>9, SphoInsideKeeps DEF SphoParseItem

\* From TRANSDUCE to SHIFT the window and what of it is active stay.
SphoGoesOn(x, y) ==
  /\ DOMAIN y = SphoFieldNames /\ y.procState \in SphoWorking /\ y.follow \in {"RECOMB", "SYL", "SHIFT"}
  /\ Len(y.headx) = Len(x.headx) /\ y.outReadPos \in Nat
  /\ y.activeStart = x.activeStart /\ y.activeEnd = x.activeEnd
  /\ y.penultima = x.penultima /\ y.readPos = x.readPos
LEMMA SphoGoneOn ==
  ASSUME NEW fed, NEW x, SphoHolds(fed, x), x.procState \in SphoWorking, NEW y, SphoGoesOn(x, y),
         SphoCells(fed, y.headx), y.procState = "FEED" => SphoTells(fed, y.outBuf)
  PROVE  SphoHolds(fed, y)
<1>1. SphoPlaces(x) BY DEF SphoHolds
<1>2. x.procState # "INIT" /\ y.procState # "INIT" BY DEF SphoGoesOn, SphoWorking
<1>3. SphoPlaces(y) BY <1>1, <1>2 DEF SphoPlaces, SphoGoesOn
<1> QED BY <1>3 DEF SphoGoesOn, SphoHolds

LEMMA SphoTransduceKeeps == ASSUME SphoInv, SphoTransduce PROVE SphoInv'
<1> PICK x, y : x = spho /\ y = spho' OBVIOUS
<1>1. SphoHolds(sphoFed, x) /\ DOMAIN x = SphoFieldNames /\ SphoPlaces(x) BY DEF SphoInv, SphoHolds
<1>2. /\ x.procState = "TRANSDUCE"
      /\ \E phon : y = [x EXCEPT !.phon = phon, !.curFst = @ + 1]
  BY DEF SphoTransduce
<1>3. SphoGoesOn(x, y) /\ y.headx = x.headx /\ y.procState = "TRANSDUCE"
  BY <1>1, <1>2 DEF SphoFieldNames, SphoGoesOn, SphoPlaces, SphoWorking
<1>4. SphoCells(sphoFed, y.headx) BY <1>1, <1>3 DEF SphoHolds
<1>5. SphoHolds(sphoFed, y) BY <1>1, <1>2, <1>3, <1>4, SphoGoneOn DEF SphoWorking
<1> QED BY <1>5, SphoInsideKeeps DEF SphoTransduce

LEMMA SphoTransducedKeeps == ASSUME SphoInv, SphoTransduced PROVE SphoInv'
<1> PICK x, y : x = spho /\ y = spho' OBVIOUS
<1>1. SphoHolds(sphoFed, x) /\ DOMAIN x = SphoFieldNames /\ SphoPlaces(x) BY DEF SphoInv, SphoHolds
<1>2. /\ x.procState = "TRANSDUCE"
      /\ \E sup, pos :
           y = [[x EXCEPT !.curFst = 0, !.procState = "BOUNDS", !.phonReadPos = 0,
                  !.outReadPos = x.activeStart, !.suppressRecomb = sup] EXCEPT !.phonReadPos = pos]
  BY DEF SphoTransduced, SphoSkippedTo
<1>3. SphoGoesOn(x, y) /\ y.headx = x.headx /\ y.procState = "BOUNDS"
  <2>1. x.activeStart \in Nat
    <3>1. Len(x.headx) \in Nat BY <1>1, ListedLen DEF SphoHolds, SphoCells
    <3> QED BY <1>1, <3>1 DEF SphoPlaces
  <2> QED BY <1>1, <1>2, <2>1 DEF SphoFieldNames, SphoGoesOn, SphoPlaces, SphoWorking
<1>4. SphoCells(sphoFed, y.headx) BY <1>1, <1>3 DEF SphoHolds
<1>5. SphoHolds(sphoFed, y) BY <1>1, <1>2, <1>3, <1>4, SphoGoneOn DEF SphoWorking
<1> QED BY <1>5, SphoInsideKeeps DEF SphoTransduced

LEMMA SphoBoundsEndKeeps == ASSUME SphoInv, SphoBoundsEnd PROVE SphoInv'
<1> PICK x, y : x = spho /\ y = spho' OBVIOUS
<1>1. SphoHolds(sphoFed, x) /\ DOMAIN x = SphoFieldNames /\ SphoPlaces(x) BY DEF SphoInv, SphoHolds
<1>2. /\ x.procState = "BOUNDS"
      /\ y = [x EXCEPT !.outReadPos = 0, !.phonReadPos = 0,
                !.suppressRecomb = FALSE, !.procState = "RECOMB"]
  BY DEF SphoBoundsEnd
<1>3. SphoGoesOn(x, y) /\ y.headx = x.headx /\ y.procState = "RECOMB"
  BY <1>1, <1>2 DEF SphoFieldNames, SphoGoesOn, SphoPlaces, SphoWorking
<1>4. SphoCells(sphoFed, y.headx) BY <1>1, <1>3 DEF SphoHolds
<1>5. SphoHolds(sphoFed, y) BY <1>1, <1>2, <1>3, <1>4, SphoGoneOn DEF SphoWorking
<1> QED BY <1>5, SphoInsideKeeps DEF SphoBoundsEnd

LEMMA SphoRecombEndKeeps == ASSUME SphoInv, SphoRecombEnd PROVE SphoInv'
<1> PICK x, y : x = spho /\ y = spho' OBVIOUS
<1>1. SphoHolds(sphoFed, x) /\ DOMAIN x = SphoFieldNames /\ SphoPlaces(x) BY DEF SphoInv, SphoHolds
<1>2. x.procState = "RECOMB" /\ y = [x EXCEPT !.procState = "SHIFT", !.follow = "RECOMB"]
  BY DEF SphoRecombEnd
<1>3. SphoGoesOn(x, y) /\ y.headx = x.headx /\ y.procState = "SHIFT"
  BY <1>1, <1>2 DEF SphoFieldNames, SphoGoesOn, SphoPlaces, SphoWorking
<1>4. SphoCells(sphoFed, y.headx) BY <1>1, <1>3 DEF SphoHolds
<1>5. SphoHolds(sphoFed, y) BY <1>1, <1>2, <1>3, <1>4, SphoGoneOn DEF SphoWorking
<1> QED BY <1>5, SphoInsideKeeps DEF SphoRecombEnd

LEMMA SphoRecombContextKeeps == ASSUME SphoInv, SphoRecombContext PROVE SphoInv'
<1> PICK x, y : x = spho /\ y = spho' OBVIOUS
<1>1. SphoHolds(sphoFed, x) /\ DOMAIN x = SphoFieldNames /\ SphoPlaces(x) BY DEF SphoInv, SphoHolds
<1>2. /\ x.procState = "RECOMB"
      /\ \E sup, pos : y = [[[x EXCEPT !.follow = "RECOMB", !.suppressRecomb = sup]
                               EXCEPT !.phonReadPos = pos] EXCEPT !.outReadPos = @ + 1]
  <2> DEFINE sup == IF SphoIsBound(SphoRecombHere) THEN TRUE
                    ELSE IF SphoIsWord(SphoRecombHere) THEN FALSE ELSE x.suppressRecomb
             s == [x EXCEPT !.follow = "RECOMB", !.suppressRecomb = sup]
  <2>1. y = [SphoSkippedTo(s, s.outReadPos + 1) EXCEPT !.outReadPos = @ + 1]
    BY <1>1 DEF SphoRecombContext, SphoFieldNames
  <2>2. \E pos : SphoSkippedTo(s, s.outReadPos + 1) = [s EXCEPT !.phonReadPos = pos]
    <3> HIDE DEF s
    <3> QED BY DEF SphoSkippedTo
  <2>3. x.procState = "RECOMB" BY DEF SphoRecombContext, SphoRecombining
  <2>4. PICK pos : SphoSkippedTo(s, s.outReadPos + 1) = [s EXCEPT !.phonReadPos = pos] BY <2>2
  <2>5. PICK p : p = sup OBVIOUS
  <2>6. PICK skipped : skipped = SphoSkippedTo(s, s.outReadPos + 1) OBVIOUS
  <2>7. y = [skipped EXCEPT !.outReadPos = @ + 1] BY <2>1, <2>6
  <2>8. skipped = [[x EXCEPT !.follow = "RECOMB", !.suppressRecomb = p] EXCEPT !.phonReadPos = pos]
    BY <2>4, <2>5, <2>6
  <2> HIDE DEF s
  <2> QED BY <2>3, <2>7, <2>8
<1>3. SphoGoesOn(x, y) /\ y.headx = x.headx /\ y.procState = "RECOMB"
  BY <1>1, <1>2 DEF SphoFieldNames, SphoGoesOn, SphoPlaces, SphoWorking
<1>4. SphoCells(sphoFed, y.headx) BY <1>1, <1>3 DEF SphoHolds
<1>5. SphoHolds(sphoFed, y) BY <1>1, <1>2, <1>3, <1>4, SphoGoneOn DEF SphoWorking
<1> QED BY <1>5, SphoInsideKeeps DEF SphoRecombContext

\* A cell keeps its item, and its own bound or none.
SphoPut(headx, k, h, t) == t = [headx EXCEPT ![k] = h]
LEMMA SphoCellNoted ==
  ASSUME NEW fed, NEW h, SphoCell(fed, h), NEW v
  PROVE  /\ SphoCell(fed, [h EXCEPT !.type = v]) /\ SphoCell(fed, [h EXCEPT !.sildur = v])
         /\ v = "NONE" \/ SphoRightBound(h.item, v) => SphoCell(fed, [h EXCEPT !.strength = v])
BY DEF SphoCell

LEMMA SphoCellsNoted ==
  ASSUME NEW fed, NEW headx, SphoCells(fed, headx), NEW k \in 1 .. Len(headx), NEW h, SphoCell(fed, h),
         NEW t, SphoPut(headx, k, h, t)
  PROVE  SphoCells(fed, t) /\ Len(t) = Len(headx) /\ t[k] = h
<1>1. PICK n \in Nat : headx = [i \in 1 .. n |-> headx[i]] BY DEF SphoCells, Listed
<1>2. DOMAIN headx = 1 .. n /\ Len(headx) = n BY <1>1
<1>3. t = [i \in 1 .. n |-> t[i]] /\ \A i \in 1 .. n : t[i] = IF i = k THEN h ELSE headx[i]
  BY <1>2 DEF SphoPut
<1>4. Len(t) = n BY <1>3
<1> QED BY <1>2, <1>3, <1>4 DEF SphoCells, Listed

\* A bound may be said with its own strength.
LEMMA SphoTellsBound ==
  ASSUME NEW fed, NEW i \in 1 .. Len(fed), NEW b, b.id = i, SphoRightBound(fed[i], b.strength)
  PROVE  SphoTells(fed, <<b>>)
<1> PICK s : s = <<b>> OBVIOUS
<1>1. Listed(s) /\ Len(s) = 1 /\ s[1] = b BY ListedOne
<1>2. ASSUME NEW j \in 1 .. Len(s) PROVE s[j] = b
  <2>1. j = 1 BY <1>1
  <2> QED BY <1>1, <2>1
<1>3. \E k \in 1 .. Len(fed) : b.id = k /\ SphoRightBound(fed[k], b.strength) OBVIOUS
<1>4. SphoTells(fed, s) BY <1>1, <1>2, <1>3 DEF SphoTells
<1> QED BY <1>4

LEMMA SphoRecombSideBoundKeeps == ASSUME SphoInv, SphoRecombSideBound PROVE SphoInv'
<1> PICK x, y, h, fed, k :
      /\ x = spho /\ y = spho' /\ h = SphoAt(spho.outReadPos) /\ fed = sphoFed
      /\ k = spho.outReadPos + 1
  OBVIOUS
<1>1. SphoHolds(fed, x) /\ DOMAIN x = SphoFieldNames /\ SphoPlaces(x) BY DEF SphoInv, SphoHolds
<1> PICK b : b = SphoSideBound(h) OBVIOUS
<1>2. /\ x.procState = "RECOMB" /\ h = x.headx[k] /\ h.strength # "NONE" /\ x.outReadPos < x.activeEnd
      /\ y = [x EXCEPT !.follow = "RECOMB", !.procState = "FEED", !.outBuf = <<b>>,
                !.headx[k].strength = "NONE"]
  BY DEF SphoRecombSideBound, SphoRecombining, SphoAt
<1>3. k \in 1 .. Len(x.headx)
  <2>1. Len(x.headx) \in Nat BY <1>1, ListedLen DEF SphoHolds, SphoCells
  <2> QED BY <1>1, <1>2, <2>1 DEF SphoPlaces, SphoInvalid
<1>4. SphoCells(fed, x.headx) /\ SphoCell(fed, h) BY <1>1, <1>2, <1>3 DEF SphoHolds, SphoCells
<1> PICK headx, g : g = [h EXCEPT !.strength = "NONE"] /\ headx = [x.headx EXCEPT ![k] = g] OBVIOUS
<1>5. SphoCells(fed, headx) /\ Len(headx) = Len(x.headx)
  <2>1. SphoCell(fed, g) BY <1>4, SphoCellNoted
  <2>2. SphoPut(x.headx, k, g, headx) BY DEF SphoPut
  <2> QED BY <1>3, <1>4, <2>1, <2>2, SphoCellsNoted
<1>6. y = [x EXCEPT !.follow = "RECOMB", !.procState = "FEED", !.outBuf = <<b>>, !.headx = headx]
  BY <1>1, <1>2, <1>3 DEF SphoFieldNames
<1>7. y.headx = headx /\ y.outBuf = <<b>> /\ y.procState = "FEED" BY <1>1, <1>6 DEF SphoFieldNames
<1>8. SphoGoesOn(x, y)
  BY <1>1, <1>5, <1>6 DEF SphoFieldNames, SphoGoesOn, SphoPlaces, SphoWorking
<1>9. SphoTells(fed, y.outBuf)
  <2>1. PICK i \in 1 .. Len(fed) : h.item = fed[i] BY <1>4 DEF SphoCell, SphoOneOf
  <2>2. b.id = i /\ SphoRightBound(fed[i], b.strength)
    <3>1. fed[i].id = i BY DEF SphoInv, SphoFedWell
    <3>2. b.id = h.item.id /\ b.strength = h.strength BY DEF SphoSideBound
    <3> QED BY <1>2, <1>4, <2>1, <3>1, <3>2 DEF SphoCell
  <2>3. SphoTells(fed, <<b>>) BY <2>2, SphoTellsBound
  <2> QED BY <1>7, <2>3
<1>10. SphoHolds(fed, y)
  <2>1. x.procState \in SphoWorking BY <1>2 DEF SphoWorking
  <2>2. SphoCells(fed, y.headx) BY <1>5, <1>7
  <2> QED BY ONLY <1>1, <1>8, <1>9, <2>1, <2>2, SphoGoneOn
<1> QED BY <1>10, SphoInsideKeeps DEF SphoRecombSideBound

LEMMA SphoRecombItemKeeps == ASSUME SphoInv, SphoRecombItem PROVE SphoInv'
<1> PICK x, y, id : x = spho /\ y = spho' /\ id = SphoRecombHere.id OBVIOUS
<1>1. SphoHolds(sphoFed, x) /\ DOMAIN x = SphoFieldNames /\ SphoPlaces(x) BY DEF SphoInv, SphoHolds
<1> DEFINE s == [x EXCEPT !.follow = "RECOMB"]
<1> PICK bound, word, sil, ready, next, failWord, failSup :
      /\ bound = SphoIsBound(SphoRecombHere) /\ word = SphoIsWord(SphoRecombHere)
      /\ sil = SphoIsCmd(SphoRecombHere, "SIL") /\ ready = SphoReady(s, s.outReadPos + 1)
      /\ next = SphoNextAt(s) /\ failWord = (s.wordStarted \/ SphoIsWord(SphoRecombHere))
      /\ failSup = (s.suppressRecomb /\ ~SphoIsWord(SphoRecombHere))
  OBVIOUS
<1> DEFINE failure == [s EXCEPT !.failed = TRUE, !.wordStarted = failWord, !.suppressRecomb = failSup]
           taken == [s EXCEPT !.phonReadPos = next]
           z == IF bound
                THEN IF ~ready THEN failure
                     ELSE [taken EXCEPT !.suppressRecomb = TRUE, !.outReadPos = @ + 1]
                ELSE IF word
                THEN IF s.suppressRecomb
                     THEN [s EXCEPT !.wordStarted = TRUE, !.suppressRecomb = FALSE, !.procState = "SYL"]
                     ELSE IF ~ready THEN failure
                     ELSE [taken EXCEPT !.wordStarted = TRUE, !.procState = "SYL"]
                ELSE IF sil THEN [s EXCEPT !.outReadPos = @ + 1]
                ELSE [s EXCEPT !.outBuf = <<[kind |-> "item", id |-> id]>>,
                        !.outReadPos = @ + 1, !.procState = "FEED"]
<1>2. x.procState = "RECOMB" BY DEF SphoRecombItem, SphoRecombining
<1>3. y = z
  <2>1. SphoConsumed(s) = taken BY DEF SphoConsumed
  <2>2. failure = [s EXCEPT !.failed = TRUE, !.wordStarted = @ \/ SphoIsWord(SphoRecombHere),
                       !.suppressRecomb = @ /\ ~SphoIsWord(SphoRecombHere)] OBVIOUS
  <2> HIDE DEF taken, failure
  <2> QED BY <2>1, <2>2 DEF SphoRecombItem
<1>4. /\ s.follow = "RECOMB" /\ DOMAIN s = SphoFieldNames /\ s.procState = "RECOMB"
      /\ \A f \in SphoFieldNames \ {"follow"} : s[f] = x[f]
  BY <1>1, <1>2 DEF SphoFieldNames
<1>5. /\ DOMAIN z = SphoFieldNames /\ z.procState \in {"RECOMB", "SYL", "FEED"} /\ z.follow = "RECOMB"
      /\ z.headx = x.headx /\ z.outReadPos \in {x.outReadPos, x.outReadPos + 1}
      /\ z.activeStart = x.activeStart /\ z.activeEnd = x.activeEnd
      /\ z.penultima = x.penultima /\ z.readPos = x.readPos
      /\ z.procState = "FEED" => z.outBuf = <<[kind |-> "item", id |-> id]>>
  <2> HIDE DEF s
  <2>1. CASE bound BY <1>4, <2>1 DEF SphoFieldNames
  <2>2. CASE ~bound /\ word BY <1>4, <2>2 DEF SphoFieldNames
  <2>3. CASE ~bound /\ ~word BY <1>4, <2>3 DEF SphoFieldNames
  <2> QED BY <2>1, <2>2, <2>3
<1> HIDE DEF z
<1>6. SphoGoesOn(x, y) BY <1>1, <1>3, <1>5 DEF SphoGoesOn, SphoPlaces, SphoWorking
<1>7. SphoCells(sphoFed, y.headx) BY <1>1, <1>3, <1>5 DEF SphoHolds
<1>8. y.procState = "FEED" => SphoTells(sphoFed, y.outBuf)
  <2>1. PICK b : b = [kind |-> "item", id |-> id] OBVIOUS
  <2>2. SphoTells(sphoFed, <<b>>) BY <2>1, SphoTellsItem
  <2> QED BY <1>3, <1>5, <2>1, <2>2
<1>9. SphoHolds(sphoFed, y) BY <1>1, <1>2, <1>6, <1>7, <1>8, SphoGoneOn DEF SphoWorking
<1> QED BY <1>9, SphoInsideKeeps DEF SphoRecombItem

LEMMA SphoSylKeeps == ASSUME SphoInv, SphoSyl PROVE SphoInv'
<1> PICK x, y, id : x = spho /\ y = spho' /\ id = SphoRecombHere.id OBVIOUS
<1>1. SphoHolds(sphoFed, x) /\ DOMAIN x = SphoFieldNames /\ SphoPlaces(x) BY DEF SphoInv, SphoHolds
<1>2. x.procState = "SYL" BY DEF SphoSyl
<1>3. PICK more, end, next, phones, ready, n :
        /\ next = IF more THEN "SYL" ELSE "RECOMB"
        /\ y = IF ~ready THEN [x EXCEPT !.failed = TRUE, !.follow = "SYL"]
               ELSE [x EXCEPT !.phonReadPos = end, !.wordStarted = FALSE,
                   !.follow = next, !.outReadPos = IF more THEN @ ELSE @ + 1,
                   !.procState = IF phones = <<>> THEN next ELSE "FEED",
                   !.outBuf = IF phones = <<>> THEN @
                              ELSE <<[kind |-> "syl", id |-> id, first |-> x.wordStarted, phones |-> n]>>]
  <2> DEFINE pos == spho.outReadPos
             sep == SelectInSubSeq(spho.phon, spho.phonReadPos + 3, Len(spho.phon),
                               LAMBDA w : w.pos # SphoIgnore /\ (w.pos > pos \/ w.val = "SEP"))
             more == sep # 0 /\ spho.phon[sep].pos <= pos
             end == IF sep = 0 THEN Len(spho.phon) ELSE IF more THEN sep ELSE sep - 1
             next == IF more THEN "SYL" ELSE "RECOMB"
             phones == SelectSeq(SubSeq(spho.phon, spho.phonReadPos + 3, end),
                             LAMBDA w : w.pos = pos /\ w.val = "ph")
             unready == ~SphoReady(spho, pos + 1) \/ ~SphoReady(SphoConsumed(spho), pos + 1)
  <2>1. spho' = IF unready
            THEN [spho EXCEPT !.failed = TRUE, !.follow = "SYL"]
            ELSE [spho EXCEPT !.phonReadPos = end, !.wordStarted = FALSE,
                   !.follow = next, !.outReadPos = IF more THEN @ ELSE @ + 1,
                   !.procState = IF phones = <<>> THEN next ELSE "FEED",
                   !.outBuf = IF phones = <<>> THEN @
                              ELSE <<[kind |-> "syl", id |-> SphoRecombHere.id,
                                      first |-> spho.wordStarted, phones |-> Len(phones)]>>]
    BY DEF SphoSyl
  <2>2. PICK m, e, p, u : m = more /\ e = end /\ p = phones /\ u = unready OBVIOUS
  <2>3. next = IF m THEN "SYL" ELSE "RECOMB" BY <2>2
  <2>4. \A a : (IF unready THEN a ELSE a) = a OBVIOUS
  <2>5. PICK r : r = ~u OBVIOUS
  <2>6. PICK w : w = next OBVIOUS
  <2>9. PICK n : n = Len(p) OBVIOUS
  <2> HIDE DEF more, end, next, phones, unready
  <2>7. y = IF ~r THEN [x EXCEPT !.failed = TRUE, !.follow = "SYL"]
            ELSE [x EXCEPT !.phonReadPos = e, !.wordStarted = FALSE,
                   !.follow = w, !.outReadPos = IF m THEN @ ELSE @ + 1,
                   !.procState = IF p = <<>> THEN w ELSE "FEED",
                   !.outBuf = IF p = <<>> THEN @
                              ELSE <<[kind |-> "syl", id |-> id, first |-> x.wordStarted, phones |-> n]>>]
    BY <2>1, <2>2, <2>5, <2>6, <2>9
  <2>8. w = IF m THEN "SYL" ELSE "RECOMB" BY <2>3, <2>6
  <2> QED BY ONLY <2>7, <2>8, Zenon
<1>5. /\ DOMAIN y = SphoFieldNames /\ y.procState \in {"RECOMB", "SYL", "FEED"} /\ y.follow \in {"RECOMB", "SYL"}
      /\ y.headx = x.headx /\ y.outReadPos \in {x.outReadPos, x.outReadPos + 1}
      /\ y.activeStart = x.activeStart /\ y.activeEnd = x.activeEnd
      /\ y.penultima = x.penultima /\ y.readPos = x.readPos
      /\ y.procState = "FEED" =>
           y.outBuf = <<[kind |-> "syl", id |-> id, first |-> x.wordStarted, phones |-> n]>>
  <2>1. CASE ~ready BY <1>1, <1>2, <1>3, <2>1 DEF SphoFieldNames
  <2>2. CASE ready /\ phones = <<>> BY <1>1, <1>2, <1>3, <2>2 DEF SphoFieldNames
  <2>3. CASE ready /\ phones # <<>> BY <1>1, <1>2, <1>3, <2>3 DEF SphoFieldNames
  <2> QED BY <2>1, <2>2, <2>3
<1>6. SphoGoesOn(x, y) BY <1>1, <1>5 DEF SphoGoesOn, SphoPlaces, SphoWorking
<1>7. SphoCells(sphoFed, y.headx) BY <1>1, <1>5 DEF SphoHolds
<1>8. y.procState = "FEED" => SphoTells(sphoFed, y.outBuf)
  <2>1. PICK b : b = [kind |-> "syl", id |-> id, first |-> x.wordStarted, phones |-> n] OBVIOUS
  <2>2. SphoTells(sphoFed, <<b>>) BY <2>1, SphoTellsItem
  <2> QED BY <1>5, <2>1, <2>2
<1>9. SphoHolds(sphoFed, y) BY <1>1, <1>2, <1>6, <1>7, <1>8, SphoGoneOn DEF SphoWorking
<1> QED BY <1>9, SphoInsideKeeps DEF SphoSyl

LEMMA SphoFeedOutKeeps == ASSUME SphoInv, SphoFeedOut PROVE SphoInv'
<1> PICK x, y, fed, said, out : x = spho /\ y = spho' /\ fed = sphoFed /\ said = sphoSaid /\ out = x.outBuf
  OBVIOUS
<1>1. SphoHolds(fed, x) /\ DOMAIN x = SphoFieldNames /\ SphoPlaces(x) BY DEF SphoInv, SphoHolds
<1>2. /\ x.procState = "FEED" /\ y = [x EXCEPT !.procState = x.follow]
      /\ sphoSaid' = said \o out /\ sphoIn' = sphoIn /\ sphoFed' = fed
  BY DEF SphoFeedOut
<1>3. SphoTells(fed, said) /\ SphoTells(fed, out) BY <1>1, <1>2 DEF SphoInv, SphoHolds
<1>4. SphoTells(fed, said \o out)
  <2>1. PICK m \in Nat : m = Len(said) BY <1>3, ListedLen DEF SphoTells
  <2>2. PICK n \in Nat : n = Len(out) BY <1>3, ListedLen DEF SphoTells
  <2>3. PICK all : all = said \o out OBVIOUS
  <2>4. /\ Listed(all) /\ Len(all) = m + n
        /\ \A k \in 1 .. m + n : all[k] = IF k <= m THEN said[k] ELSE out[k - m]
    <3>1. Listed(said) /\ Listed(out) BY <1>3 DEF SphoTells
    <3> QED BY <2>1, <2>2, <2>3, <3>1, ListedJoin
  <2>5. ASSUME NEW k \in 1 .. m + n, all[k].kind = "bound"
        PROVE  \E i \in 1 .. Len(fed) : all[k].id = i /\ SphoRightBound(fed[i], all[k].strength)
    <3>1. CASE k <= m
      <4>1. k \in 1 .. m /\ all[k] = said[k] BY <2>4, <3>1
      <4> QED BY <1>3, <2>1, <2>5, <4>1 DEF SphoTells
    <3>2. CASE k > m
      <4>1. k - m \in 1 .. n /\ all[k] = out[k - m] BY <2>4, <3>2
      <4> QED BY <1>3, <2>2, <2>5, <4>1 DEF SphoTells
    <3> QED BY <3>1, <3>2
  <2>6. SphoTells(fed, all) BY <2>4, <2>5 DEF SphoTells
  <2> QED BY <2>3, <2>6
<1>5. /\ SphoGoesOn(x, y) /\ y.headx = x.headx /\ y.procState # "FEED"
  BY <1>1, <1>2 DEF SphoFieldNames, SphoGoesOn, SphoPlaces, SphoWorking
<1>6. SphoHolds(fed, y)
  <2>1. x.procState \in SphoWorking /\ SphoCells(fed, y.headx) BY <1>1, <1>2, <1>5 DEF SphoWorking, SphoHolds
  <2> QED BY ONLY <1>1, <1>5, <2>1, SphoGoneOn
<1> QED BY <1>2, <1>4, <1>6 DEF SphoInv

LEMMA SphoShiftedCells ==
  ASSUME NEW fed, NEW headx, SphoCells(fed, headx), NEW from \in 0 .. Len(headx), NEW to \in 0 .. Len(headx)
  PROVE  /\ SphoCells(fed, SphoShifted(headx, from, to))
         /\ Len(SphoShifted(headx, from, to)) = to + (Len(headx) - from)
<1> PICK n \in Nat : n = Len(headx) BY ListedLen DEF SphoCells
<1> PICK R : R = {headx[k] : k \in DOMAIN headx} OBVIOUS
<1>1. headx \in Seq(R) /\ DOMAIN headx = 1 .. n BY ListedLen DEF SphoCells
<1>2. \A h \in R : SphoCell(fed, h) BY <1>1 DEF SphoCells
<1> PICK a, b : a = SubSeq(headx, 1, to) /\ b = SubSeq(headx, from + 1, n) OBVIOUS
<1>3. a \in Seq(R) /\ Len(a) = to
  <2>1. to \in Nat /\ to <= Len(headx) OBVIOUS
  <2> QED BY ONLY <1>1, <2>1, a = SubSeq(headx, 1, to), FirstOf
<1>4. b \in Seq(R) /\ Len(b) = n - from
  <2>1. from + 1 \in Nat \ {0} /\ n \in Nat /\ n <= Len(headx) OBVIOUS
  <2>2. b \in Seq(R) /\ Len(b) = IF from + 1 <= n THEN n - (from + 1) + 1 ELSE 0
    BY ONLY <1>1, <2>1, b = SubSeq(headx, from + 1, n), PartOf
  <2>3. from \in Nat /\ from <= n OBVIOUS
  <2> QED BY ONLY <2>2, <2>3, n \in Nat
<1> PICK t : t = a \o b OBVIOUS
<1>5. t \in Seq(R) /\ Len(t) = to + (n - from)
  <2>1. a \in Seq(R) /\ b \in Seq(R) BY <1>3, <1>4
  <2>2. t \in Seq(R) /\ Len(t) = Len(a) + Len(b) BY ONLY <2>1, t = a \o b
  <2> QED BY ONLY <1>3, <1>4, <2>2
<1>6. SphoCells(fed, t)
  <2>1. to + (n - from) \in Nat
    <3>1. Len(t) \in Nat BY ONLY <1>5
    <3> QED BY <1>5, <3>1
  <2>2. Listed(t) BY ONLY <1>5, <2>1, ListedSeq
  <2>3. \A k \in 1 .. Len(t) : t[k] \in R BY ONLY <1>5
  <2> QED BY <1>2, <2>2, <2>3 DEF SphoCells
<1> QED BY <1>5, <1>6 DEF SphoShifted

LEMMA SphoShiftKeeps == ASSUME SphoInv, SphoShift PROVE SphoInv'
<1> PICK x, y, fed : x = spho /\ y = spho' /\ fed = sphoFed OBVIOUS
<1>1. SphoHolds(fed, x) /\ DOMAIN x = SphoFieldNames /\ SphoPlaces(x) /\ SphoCells(fed, x.headx)
  BY DEF SphoInv, SphoHolds
<1> PICK start, n : start = (IF x.activeStart = x.activeEnd THEN 0 ELSE x.activeStart) /\ n = Len(x.headx)
  OBVIOUS
<1>2. /\ x.procState = "SHIFT"
      /\ y = IF x.penultima # SphoInvalid
             THEN [x EXCEPT !.headx = SphoShifted(@, x.penultima, 0), !.penultima = 0,
                     !.activeStart = x.activeEnd - x.penultima,
                     !.lastBound = @ - x.penultima,
                     !.suppressParse = FALSE, !.suppressRecomb = FALSE,
                     !.procState = "INIT"]
             ELSE [x EXCEPT !.headx = SphoShifted(@, x.activeEnd, start),
                     !.activeStart = start, !.activeEnd = start,
                     !.lastBound = IF @ >= start THEN @ - (x.activeEnd - start) ELSE @,
                     !.procState = "INIT"]
  BY DEF SphoShift
<1>3. /\ n \in Nat /\ x.activeStart \in 0 .. n /\ x.activeEnd \in 0 .. n /\ x.outReadPos \in Nat
      /\ x.penultima \in {SphoInvalid} \cup 0 .. n /\ x.penultima <= x.activeEnd
      /\ x.follow \in {"RECOMB", "SYL", "SHIFT"}
  <2>1. n \in Nat BY <1>1, ListedLen DEF SphoCells
  <2> QED BY <1>1, <1>2, <2>1 DEF SphoPlaces, SphoWorking
<1> PICK near, far : near = SphoShifted(x.headx, x.penultima, 0) /\ far = SphoShifted(x.headx, x.activeEnd, start)
  OBVIOUS
<1>4. ASSUME x.penultima # SphoInvalid PROVE SphoHolds(fed, y)
  <2>1. /\ DOMAIN y = SphoFieldNames /\ y.headx = near /\ y.procState = "INIT" /\ y.follow = x.follow
        /\ y.activeStart = x.activeEnd - x.penultima /\ y.outReadPos = x.outReadPos
    BY <1>1, <1>2, <1>4 DEF SphoFieldNames
  <2>2. x.penultima \in 0 .. n /\ 0 \in 0 .. n BY <1>3, <1>4
  <2>3. SphoCells(fed, near) /\ Len(near) = 0 + (n - x.penultima) BY <1>1, <2>2, SphoShiftedCells
  <2>6. y.activeStart \in 0 .. Len(y.headx) BY <1>3, <2>1, <2>2, <2>3
  <2>7. SphoCells(fed, y.headx) BY <2>1, <2>3
  <2>4. SphoPlaces(y) BY ONLY <1>3, <2>1, <2>6 DEF SphoPlaces, SphoWorking
  <2> QED BY <2>1, <2>4, <2>7 DEF SphoHolds
<1>5. ASSUME x.penultima = SphoInvalid PROVE SphoHolds(fed, y)
  <2>1. /\ DOMAIN y = SphoFieldNames /\ y.headx = far /\ y.procState = "INIT" /\ y.follow = x.follow
        /\ y.activeStart = start /\ y.outReadPos = x.outReadPos
    BY <1>1, <1>2, <1>5 DEF SphoFieldNames
  <2>2. start \in 0 .. n BY <1>3
  <2>3. SphoCells(fed, far) /\ Len(far) = start + (n - x.activeEnd) BY <1>1, <1>3, <2>2, SphoShiftedCells
  <2>6. y.activeStart \in 0 .. Len(y.headx) BY <1>3, <2>1, <2>2, <2>3
  <2>7. SphoCells(fed, y.headx) BY <2>1, <2>3
  <2>4. SphoPlaces(y) BY ONLY <1>3, <2>1, <2>6 DEF SphoPlaces, SphoWorking
  <2> QED BY <2>1, <2>4, <2>7 DEF SphoHolds
<1>6. SphoHolds(fed, y) BY <1>4, <1>5
<1> QED BY <1>6, SphoInsideKeeps DEF SphoShift

\* The strengths that a transducer and a break give to a bound are right.
LEMMA SphoStrengthRight ==
  ASSUME NEW item, item.info1 \in SphoPhraseBounds \cup SphoSentenceBounds, NEW fst, NEW time
  PROVE  /\ SphoRightBound(item, fstModifiedBoundStrength(item.info1, fst))
         /\ SphoRightBound(item, breakModifiedBoundStrength(
              fstModifiedBoundStrength(item.info1, fst), time, item.info1 = "PHR1"))
<1> PICK orig : orig = item.info1 OBVIOUS
<1> PICK byFst : byFst = fstModifiedBoundStrength(orig, fst) OBVIOUS
<1>1. /\ orig = "PHR1" => byFst # "PHR0"
      /\ orig \notin SphoPhraseBounds => byFst = orig
  BY DEF fstModifiedBoundStrength, SphoPhraseBounds
<1> PICK byBreak : byBreak = breakModifiedBoundStrength(byFst, time, orig = "PHR1") OBVIOUS
<1>2. /\ orig = "PHR1" => byBreak # "PHR0"
      /\ orig \notin SphoPhraseBounds => byBreak = orig
  BY <1>1 DEF breakModifiedBoundStrength, SphoPhraseBounds
<1> QED BY <1>1, <1>2 DEF SphoRightBound

\* Some cells get another type.
SphoTyped(h, g) == \E v : g = [h EXCEPT !.type = v]
LEMMA SphoCellTyped ==
  ASSUME NEW fed, NEW h, SphoCell(fed, h), NEW g, SphoTyped(h, g) PROVE SphoCell(fed, g) /\ g.item = h.item
<1>1. PICK v : g = [h EXCEPT !.type = v] BY DEF SphoTyped
<1>2. DOMAIN h = {"item", "strength", "type", "sildur"} BY DEF SphoCell
<1>3. DOMAIN g = DOMAIN h /\ g.item = h.item /\ g.strength = h.strength BY <1>1, <1>2
<1> QED BY <1>3 DEF SphoCell

LEMMA SphoCellsRetyped ==
  ASSUME NEW fed, NEW headx, SphoCells(fed, headx), NEW t, t = [j \in DOMAIN headx |-> t[j]],
         \A j \in DOMAIN headx : t[j] = headx[j] \/ SphoTyped(headx[j], t[j])
  PROVE  SphoCells(fed, t) /\ Len(t) = Len(headx)
<1>1. PICK n \in Nat : headx = [i \in 1 .. n |-> headx[i]] BY DEF SphoCells, Listed
<1>2. DOMAIN headx = 1 .. n /\ Len(headx) = n BY <1>1
<1>3. t = [j \in 1 .. n |-> t[j]] BY <1>2
<1>4. Len(t) = n /\ Listed(t)
  <2>1. Len(t) = n BY <1>3
  <2> QED BY <1>3, <2>1 DEF Listed
<1>5. ASSUME NEW j \in 1 .. n PROVE SphoCell(fed, t[j])
  <2>1. SphoCell(fed, headx[j]) BY <1>2 DEF SphoCells
  <2>2. t[j] = headx[j] \/ SphoTyped(headx[j], t[j]) BY <1>2
  <2> QED BY <2>1, <2>2, SphoCellTyped
<1> QED BY <1>2, <1>4, <1>5 DEF SphoCells

\* What a step of BOUNDS leaves as it is.
SphoSideKept(fed, s, t) ==
  /\ DOMAIN t = SphoFieldNames /\ SphoCells(fed, t.headx) /\ Len(t.headx) = Len(s.headx)
  /\ \A k \in 1 .. Len(s.headx) : t.headx[k].item = s.headx[k].item
  /\ t.procState = s.procState /\ t.follow = s.follow /\ t.outReadPos = s.outReadPos
  /\ t.activeStart = s.activeStart /\ t.activeEnd = s.activeEnd
  /\ t.penultima = s.penultima /\ t.readPos = s.readPos
SphoApart == SphoFieldNames \ {"headx", "procState", "follow", "outReadPos", "activeStart",
                               "activeEnd", "penultima", "readPos"}
LEMMA SphoSideTrans ==
  ASSUME NEW fed, NEW s, NEW t, SphoSideKept(fed, s, t), NEW u, SphoSideKept(fed, t, u)
  PROVE  SphoSideKept(fed, s, u)
BY DEF SphoSideKept

LEMMA SphoSideOther ==
  ASSUME NEW fed, NEW s, DOMAIN s = SphoFieldNames, SphoCells(fed, s.headx), NEW t, DOMAIN t = SphoFieldNames,
         \A f \in SphoFieldNames \ SphoApart : t[f] = s[f]
  PROVE  SphoSideKept(fed, s, t)
<1>1. /\ t.headx = s.headx
      /\ t.procState = s.procState /\ t.follow = s.follow /\ t.outReadPos = s.outReadPos
      /\ t.activeStart = s.activeStart /\ t.activeEnd = s.activeEnd
      /\ t.penultima = s.penultima /\ t.readPos = s.readPos
  BY DEF SphoApart, SphoFieldNames
<1> QED BY <1>1 DEF SphoSideKept

LEMMA SphoSideNoted ==
  ASSUME NEW fed, NEW s, DOMAIN s = SphoFieldNames, SphoCells(fed, s.headx),
         NEW k \in 1 .. Len(s.headx), NEW strength, NEW sildur, NEW pending,
         strength = "NONE" \/ SphoRightBound(s.headx[k].item, strength)
  PROVE  SphoSideKept(fed, s, [s EXCEPT !.breakPending = pending,
           !.headx[k].strength = strength, !.headx[k].sildur = sildur])
<1> PICK h, headx : h = s.headx[k] /\ headx = s.headx OBVIOUS
<1> PICK g : g = [h EXCEPT !.strength = strength] OBVIOUS
<1> PICK i : i = [g EXCEPT !.sildur = sildur] OBVIOUS
<1> PICK one : one = [headx EXCEPT ![k] = g] OBVIOUS
<1> PICK two : two = [one EXCEPT ![k] = i] OBVIOUS
<1> PICK t : t = [s EXCEPT !.breakPending = pending, !.headx[k].strength = strength, !.headx[k].sildur = sildur]
  OBVIOUS
<1>1. SphoCell(fed, h) BY DEF SphoCells
<1>2. SphoCell(fed, g) /\ g.item = h.item
  <2>1. SphoCell(fed, g) BY <1>1, SphoCellNoted
  <2> QED BY <1>1, <2>1 DEF SphoCell
<1>3. SphoCell(fed, i) /\ i.item = h.item
  <2>1. SphoCell(fed, i) BY <1>2, SphoCellNoted
  <2> QED BY <1>2, <2>1 DEF SphoCell
<1>10. SphoCells(fed, headx) /\ k \in 1 .. Len(headx) /\ SphoCell(fed, g) BY <1>2
<1>4. SphoCells(fed, one) /\ Len(one) = Len(headx) /\ one[k] = g
  <2>1. SphoPut(headx, k, g, one) BY DEF SphoPut
  <2> QED BY ONLY <1>10, <2>1, SphoCellsNoted
<1>5. SphoCells(fed, two) /\ Len(two) = Len(headx)
  <2>1. k \in 1 .. Len(one) BY <1>4
  <2>3. SphoCells(fed, one) /\ SphoCell(fed, i) /\ SphoPut(one, k, i, two) BY <1>3, <1>4 DEF SphoPut
  <2>2. SphoCells(fed, two) /\ Len(two) = Len(one) BY ONLY <2>1, <2>3, SphoCellsNoted
  <2> QED BY <1>4, <2>2
<1>6. \A j \in 1 .. Len(headx) : two[j].item = headx[j].item
  <2>1. DOMAIN headx = 1 .. Len(headx) BY ListedLen DEF SphoCells
  <2> QED BY <1>3, <2>1
<1>7. t = [s EXCEPT !.breakPending = pending, !.headx = two]
  <2>1. k \in DOMAIN headx BY ListedLen DEF SphoCells
  <2>2. "headx" \in DOMAIN s /\ "breakPending" \in DOMAIN s BY DEF SphoFieldNames
  <2>3. PICK a : a = [s EXCEPT !.breakPending = pending] OBVIOUS
  <2>4. a.headx = headx /\ DOMAIN a = DOMAIN s BY <2>2, <2>3
  <2>5. PICK b : b = [a EXCEPT !.headx[k].strength = strength] OBVIOUS
  <2>6. b = [a EXCEPT !.headx = one] BY <2>4, <2>5
  <2>7. b.headx = one BY <2>2, <2>4, <2>6
  <2>8. one[k] = g BY <1>4
  <2>9. t = [b EXCEPT !.headx[k].sildur = sildur] BY <2>3, <2>5
  <2>10. t = [b EXCEPT !.headx = two] BY <2>7, <2>8, <2>9
  <2> QED BY <2>3, <2>6, <2>10
<1>8. /\ DOMAIN t = SphoFieldNames /\ t.headx = two
      /\ t.procState = s.procState /\ t.follow = s.follow /\ t.outReadPos = s.outReadPos
      /\ t.activeStart = s.activeStart /\ t.activeEnd = s.activeEnd
      /\ t.penultima = s.penultima /\ t.readPos = s.readPos
  BY <1>7 DEF SphoFieldNames
<1>9. SphoSideKept(fed, s, t) BY <1>5, <1>6, <1>8 DEF SphoSideKept
<1> QED BY <1>9

LEMMA SphoSideRetyped ==
  ASSUME NEW fed, NEW s, DOMAIN s = SphoFieldNames, SphoCells(fed, s.headx),
         NEW headx, headx = [j \in DOMAIN s.headx |-> headx[j]],
         \A j \in DOMAIN s.headx : headx[j] = s.headx[j] \/ SphoTyped(s.headx[j], headx[j]),
         NEW lastType, NEW lastBound
  PROVE  /\ SphoSideKept(fed, s, [s EXCEPT !.lastType = lastType, !.lastBound = lastBound, !.headx = headx])
         /\ SphoSideKept(fed, s, [s EXCEPT !.lastType = lastType, !.headx = headx])
<1>1. SphoCells(fed, headx) /\ Len(headx) = Len(s.headx) BY SphoCellsRetyped
<1>2. \A j \in 1 .. Len(s.headx) : headx[j].item = s.headx[j].item
  <2> TAKE j \in 1 .. Len(s.headx)
  <2>1. j \in DOMAIN s.headx BY ListedLen DEF SphoCells
  <2>2. SphoCell(fed, s.headx[j]) BY DEF SphoCells
  <2> QED BY <2>1, <2>2, SphoCellTyped
<1> PICK t : t = [s EXCEPT !.lastType = lastType, !.lastBound = lastBound, !.headx = headx] OBVIOUS
<1> PICK u : u = [s EXCEPT !.lastType = lastType, !.headx = headx] OBVIOUS
<1>3. /\ DOMAIN t = SphoFieldNames /\ t.headx = headx
      /\ t.procState = s.procState /\ t.follow = s.follow /\ t.outReadPos = s.outReadPos
      /\ t.activeStart = s.activeStart /\ t.activeEnd = s.activeEnd
      /\ t.penultima = s.penultima /\ t.readPos = s.readPos
  BY DEF SphoFieldNames
<1>4. /\ DOMAIN u = SphoFieldNames /\ u.headx = headx
      /\ u.procState = s.procState /\ u.follow = s.follow /\ u.outReadPos = s.outReadPos
      /\ u.activeStart = s.activeStart /\ u.activeEnd = s.activeEnd
      /\ u.penultima = s.penultima /\ u.readPos = s.readPos
  BY DEF SphoFieldNames
<1>5. SphoSideKept(fed, s, t) BY <1>1, <1>2, <1>3 DEF SphoSideKept
<1>6. SphoSideKept(fed, s, u) BY <1>1, <1>2, <1>4 DEF SphoSideKept
<1> QED BY <1>5, <1>6

\* The bound an item is set is its own, or it has none.
LEMMA SphoSideKeeps ==
  ASSUME NEW fed, NEW s, DOMAIN s = SphoFieldNames, SphoCells(fed, s.headx),
         NEW k \in 1 .. Len(s.headx), k = s.outReadPos + 1, NEW orig, NEW origType, NEW fst,
         SphoIsBound(s.headx[k].item) =>
           /\ s.headx[k].item.info1 \in SphoPhraseBounds \cup SphoSentenceBounds
           /\ orig = s.headx[k].item.info1
  PROVE  SphoSideKept(fed, s, SphoSetSideBound(s, orig, origType, fst))
<1> DEFINE was == IF orig = "NA" THEN "PHR0" ELSE orig
           byFst == IF orig = "NA" THEN "PHR0" ELSE fstModifiedBoundStrength(orig, fst)
           strength == IF s.breakPending
                       THEN breakModifiedBoundStrength(byFst, s.breakTime, was = "PHR1")
                       ELSE byFst
           newStrength == IF orig # "NA" \/ s.breakPending THEN strength ELSE s.headx[k].strength
           newSildur == IF s.breakPending THEN s.breakTime
                        ELSE IF orig # "NA" THEN -1 ELSE s.headx[k].sildur
           noted == [s EXCEPT !.breakPending = FALSE,
                       !.headx[k].strength =
                         IF orig # "NA" \/ s.breakPending THEN strength ELSE @,
                       !.headx[k].sildur = IF s.breakPending THEN s.breakTime
                                           ELSE IF orig # "NA" THEN -1 ELSE @]
           again == [s EXCEPT !.breakPending = FALSE, !.headx[k].strength = newStrength,
                       !.headx[k].sildur = newSildur]
           reachable == s.activeStart <= s.lastBound
           last == s.lastBound + 1
           newType == IF was # "PHR0" THEN origType ELSE s.lastType
           louder == [j \in DOMAIN noted.headx |->
                           IF j = k THEN [noted.headx[j] EXCEPT !.type = newType]
                           ELSE IF j = last /\ was = "PHR0" /\ reachable
                           THEN [noted.headx[j] EXCEPT !.type = "P"] ELSE noted.headx[j]]
           softer == [j \in DOMAIN noted.headx |->
                           IF j = k THEN [noted.headx[j] EXCEPT !.type = "NA"]
                           ELSE IF j = last /\ was # "PHR0" /\ reachable
                           THEN [noted.headx[j] EXCEPT !.type = origType] ELSE noted.headx[j]]
           t == IF noted.headx[k].strength = "NONE" THEN noted
                ELSE IF strength # "PHR0"
                THEN [noted EXCEPT !.lastType = newType, !.lastBound = s.outReadPos, !.headx = louder]
                ELSE [noted EXCEPT !.lastType = newType, !.headx = softer]
<1>1. SphoSetSideBound(s, orig, origType, fst) = t BY DEF SphoSetSideBound
<1>2. SphoRightBound(s.headx[k].item, strength)
  <2>1. CASE SphoIsBound(s.headx[k].item)
    <3>1. orig # "NA" /\ orig = s.headx[k].item.info1 BY <2>1 DEF SphoPhraseBounds, SphoSentenceBounds
    <3> QED BY <2>1, <3>1, SphoStrengthRight
  <2>2. CASE ~SphoIsBound(s.headx[k].item) BY <2>2 DEF SphoRightBound
  <2> QED BY <2>1, <2>2
<1>3. newStrength = "NONE" \/ SphoRightBound(s.headx[k].item, newStrength)
  <2> HIDE DEF strength
  <2>1. SphoCell(fed, s.headx[k]) BY DEF SphoCells
  <2> QED BY <1>2, <2>1 DEF SphoCell
<1>4. noted = again
  <2>1. k \in DOMAIN s.headx BY ListedLen DEF SphoCells
  <2>2. "headx" \in DOMAIN s /\ "breakPending" \in DOMAIN s BY DEF SphoFieldNames
  <2>3. DOMAIN s.headx[k] = {"item", "strength", "type", "sildur"} BY DEF SphoCells, SphoCell
  <2> HIDE DEF strength
  <2> QED BY <2>1, <2>2, <2>3
<1>5. SphoSideKept(fed, s, noted)
  <2> HIDE DEF newStrength, newSildur, noted
  <2> QED BY <1>3, <1>4, SphoSideNoted
<1> HIDE DEF noted, strength, newType, was, reachable, last
<1>6. DOMAIN noted = SphoFieldNames /\ SphoCells(fed, noted.headx) BY <1>5 DEF SphoSideKept
<1>7. SphoSideKept(fed, noted, [noted EXCEPT !.lastType = newType, !.lastBound = s.outReadPos, !.headx = louder])
  <2>1. louder = [j \in DOMAIN noted.headx |-> louder[j]] OBVIOUS
  <2>2. \A j \in DOMAIN noted.headx : louder[j] = noted.headx[j] \/ SphoTyped(noted.headx[j], louder[j])
    BY DEF SphoTyped
  <2> HIDE DEF louder
  <2> QED BY ONLY <1>6, <2>1, <2>2, SphoSideRetyped
<1>8. SphoSideKept(fed, noted, [noted EXCEPT !.lastType = newType, !.headx = softer])
  <2>1. softer = [j \in DOMAIN noted.headx |-> softer[j]] OBVIOUS
  <2>2. \A j \in DOMAIN noted.headx : softer[j] = noted.headx[j] \/ SphoTyped(noted.headx[j], softer[j])
    BY DEF SphoTyped
  <2> HIDE DEF softer
  <2> QED BY ONLY <1>6, <2>1, <2>2, SphoSideRetyped
<1> HIDE DEF louder, softer
<1>9. SphoSideKept(fed, s, t) BY <1>5, <1>7, <1>8, SphoSideTrans
<1> QED BY <1>1, <1>9

LEMMA SphoFieldKeeps ==
  ASSUME NEW fed, NEW s, DOMAIN s = SphoFieldNames, SphoCells(fed, s.headx), NEW a, NEW b
  PROVE  /\ SphoSideKept(fed, s, [s EXCEPT !.breakTime = a, !.breakPending = b])
         /\ SphoSideKept(fed, s, [s EXCEPT !.breakPending = b, !.breakTime = a])
         /\ SphoSideKept(fed, s, [s EXCEPT !.suppressRecomb = a])
         /\ SphoSideKept(fed, s, [s EXCEPT !.phonReadPos = a])
         /\ SphoSideKept(fed, s, [s EXCEPT !.failed = a, !.suppressRecomb = b])
<1>1. ASSUME NEW t, DOMAIN t = SphoFieldNames, \A f \in SphoFieldNames \ SphoApart : t[f] = s[f]
      PROVE  SphoSideKept(fed, s, t)
  BY <1>1, SphoSideOther
<1> PICK t1, t2, t3, t4, t5 :
      /\ t1 = [s EXCEPT !.breakTime = a, !.breakPending = b]
      /\ t2 = [s EXCEPT !.breakPending = b, !.breakTime = a]
      /\ t3 = [s EXCEPT !.suppressRecomb = a] /\ t4 = [s EXCEPT !.phonReadPos = a]
      /\ t5 = [s EXCEPT !.failed = a, !.suppressRecomb = b]
  OBVIOUS
<1>2. SphoSideKept(fed, s, t1)
  <2>1. DOMAIN t1 = SphoFieldNames /\ \A f \in SphoFieldNames \ SphoApart : t1[f] = s[f] BY DEF SphoApart, SphoFieldNames
  <2> QED BY <1>1, <2>1
<1>3. SphoSideKept(fed, s, t2)
  <2>1. DOMAIN t2 = SphoFieldNames /\ \A f \in SphoFieldNames \ SphoApart : t2[f] = s[f] BY DEF SphoApart, SphoFieldNames
  <2> QED BY <1>1, <2>1
<1>4. SphoSideKept(fed, s, t3)
  <2>1. DOMAIN t3 = SphoFieldNames /\ \A f \in SphoFieldNames \ SphoApart : t3[f] = s[f] BY DEF SphoApart, SphoFieldNames
  <2> QED BY <1>1, <2>1
<1>5. SphoSideKept(fed, s, t4)
  <2>1. DOMAIN t4 = SphoFieldNames /\ \A f \in SphoFieldNames \ SphoApart : t4[f] = s[f] BY DEF SphoApart, SphoFieldNames
  <2> QED BY <1>1, <2>1
<1>6. SphoSideKept(fed, s, t5)
  <2>1. DOMAIN t5 = SphoFieldNames /\ \A f \in SphoFieldNames \ SphoApart : t5[f] = s[f] BY DEF SphoApart, SphoFieldNames
  <2> QED BY <1>1, <2>1
<1> QED BY <1>2, <1>3, <1>4, <1>5, <1>6

\* A step of BOUNDS keeps the items and sets none of them a wrong bound.
SphoBoundsOn(fed, s, y) ==
  \E t : /\ SphoSideKept(fed, s, t)
         /\ y = t \/ y = [t EXCEPT !.outReadPos = s.outReadPos + 1]
LEMMA SphoBoundAtKeeps ==
  ASSUME NEW fed, SphoFedWell(fed), NEW s, DOMAIN s = SphoFieldNames, SphoCells(fed, s.headx),
         NEW pos, pos = s.outReadPos, pos + 1 \in 1 .. Len(s.headx)
  PROVE  SphoBoundsOn(fed, s, SphoBoundAt(s, pos))
<1> PICK k, item : k = pos + 1 /\ item = s.headx[k].item OBVIOUS
<1>0. k \in 1 .. Len(s.headx) /\ k = s.outReadPos + 1 /\ pos + 1 = k OBVIOUS
<1>1. SphoIsBound(item) => item.info1 \in SphoPhraseBounds \cup SphoSentenceBounds
  <2>1. SphoCell(fed, s.headx[k]) BY <1>0 DEF SphoCells
  <2> QED BY <2>1 DEF SphoCell, SphoOneOf, SphoFedWell
\* The bound of any state that was made of s without a change of its window.
<1>2. ASSUME NEW u, SphoSideKept(fed, s, u), NEW orig, NEW type, NEW fst,
             SphoIsBound(item) => orig = item.info1
      PROVE  SphoSideKept(fed, s, SphoSetSideBound(u, orig, type, fst))
  <2>1. /\ DOMAIN u = SphoFieldNames /\ SphoCells(fed, u.headx) /\ k \in 1 .. Len(u.headx)
        /\ k = u.outReadPos + 1 /\ u.headx[k].item = item
    BY <1>0, <1>2 DEF SphoSideKept
  <2>2. SphoIsBound(u.headx[k].item) =>
           /\ u.headx[k].item.info1 \in SphoPhraseBounds \cup SphoSentenceBounds
           /\ orig = u.headx[k].item.info1
    BY <1>1, <1>2, <2>1
  <2>3. SphoSideKept(fed, u, SphoSetSideBound(u, orig, type, fst)) BY ONLY <2>1, <2>2, SphoSideKeeps
  <2> QED BY ONLY <1>2, <2>3, SphoSideTrans
<1>3. ASSUME NEW u, SphoSideKept(fed, s, u), NEW a, NEW b
      PROVE  /\ SphoSideKept(fed, s, [u EXCEPT !.breakTime = a, !.breakPending = b])
             /\ SphoSideKept(fed, s, [u EXCEPT !.breakPending = b, !.breakTime = a])
             /\ SphoSideKept(fed, s, [u EXCEPT !.suppressRecomb = a])
             /\ SphoSideKept(fed, s, [u EXCEPT !.phonReadPos = a])
             /\ SphoSideKept(fed, s, [u EXCEPT !.failed = a, !.suppressRecomb = b])
  <2>1. DOMAIN u = SphoFieldNames /\ SphoCells(fed, u.headx) BY <1>3 DEF SphoSideKept
  <2>2. /\ SphoSideKept(fed, u, [u EXCEPT !.breakTime = a, !.breakPending = b])
        /\ SphoSideKept(fed, u, [u EXCEPT !.breakPending = b, !.breakTime = a])
        /\ SphoSideKept(fed, u, [u EXCEPT !.suppressRecomb = a])
        /\ SphoSideKept(fed, u, [u EXCEPT !.phonReadPos = a])
        /\ SphoSideKept(fed, u, [u EXCEPT !.failed = a, !.suppressRecomb = b])
    BY ONLY <2>1, SphoFieldKeeps
  <2> QED BY ONLY <1>3, <2>2, SphoSideTrans
<1>4. SphoSideKept(fed, s, s) BY DEF SphoSideKept
<1> DEFINE bounded == SphoIsBound(item) \/ (SphoIsWord(item) /\ ~s.suppressRecomb)
           before == IF item.type = "CMD" /\ SphoBreakBefore(item)
                        /\ (~s.breakPending \/ s.breakTime <= 0)
                     THEN SphoSmallestBreak(s) ELSE s
           sideless == SphoSetSideBound(before, "NA", "NA", "NA")
           u == [SphoConsumed(s) EXCEPT !.suppressRecomb = @ \/ SphoIsBound(item)]
           sym == s.phon[SphoNextAt(s)].val
           t == IF bounded
                THEN IF SphoIsBound(item) THEN SphoSetSideBound(u, item.info1, item.info2, sym)
                     ELSE SphoSetSideBound(u, "PHR0", "NA", sym)
                ELSE IF SphoIsCmd(item, "SIL")
                THEN [s EXCEPT !.breakPending = TRUE,
                        !.breakTime = IF s.breakPending THEN @ + item.time ELSE item.time]
                ELSE IF item.type = "CMD"
                THEN IF SphoBreakAfter(item) THEN SphoSmallestBreak(sideless) ELSE sideless
                ELSE IF SphoIsWord(item) THEN [sideless EXCEPT !.suppressRecomb = FALSE]
                ELSE s
           y == IF bounded /\ ~SphoReady(s, pos + 1)
                THEN [s EXCEPT !.failed = TRUE, !.suppressRecomb = @ \/ SphoIsBound(item)]
                ELSE [SphoSkippedTo(t, pos + 1) EXCEPT !.outReadPos = pos + 1]
<1>5. SphoBoundAt(s, pos) = y BY DEF SphoBoundAt
<1>6. SphoSideKept(fed, s, before)
  <2>1. SphoSideKept(fed, s, SphoSmallestBreak(s)) BY <1>3, <1>4 DEF SphoSmallestBreak
  <2> QED BY <1>4, <2>1
<1>7. SphoSideKept(fed, s, u)
  <2>1. PICK v : v = SphoConsumed(s) OBVIOUS
  <2>2. PICK sup : sup = (v.suppressRecomb \/ SphoIsBound(item)) OBVIOUS
  <2>3. SphoSideKept(fed, s, v)
    <3>1. PICK a : a = SphoNextAt(s) OBVIOUS
    <3>2. v = [s EXCEPT !.phonReadPos = a] BY <2>1, <3>1 DEF SphoConsumed
    <3> QED BY <1>3, <1>4, <3>2
  <2>4. u = [v EXCEPT !.suppressRecomb = sup] BY <2>1, <2>2
  <2> HIDE DEF u
  <2> QED BY <1>3, <2>3, <2>4
<1> HIDE DEF before, u, sym
<1>8. ~SphoIsBound(item) => SphoSideKept(fed, s, sideless) BY <1>2, <1>6
<1> HIDE DEF sideless
<1>9. SphoSideKept(fed, s, t)
  <2>1. ASSUME bounded PROVE SphoSideKept(fed, s, t)
    <3>1. CASE SphoIsBound(item) BY <1>2, <1>7, <2>1, <3>1
    <3>2. CASE ~SphoIsBound(item) BY <1>2, <1>7, <2>1, <3>2
    <3> QED BY <3>1, <3>2
  <2>2. ASSUME ~bounded PROVE SphoSideKept(fed, s, t)
    <3>1. ~SphoIsBound(item) BY <2>2
    <3>2. SphoSideKept(fed, s, sideless) BY <1>8, <3>1
    <3>3. SphoSideKept(fed, s, SphoSmallestBreak(sideless)) BY <1>3, <3>2 DEF SphoSmallestBreak
    <3>4. SphoSideKept(fed, s, [sideless EXCEPT !.suppressRecomb = FALSE]) BY <1>3, <3>2
    <3>5. PICK time : time = IF s.breakPending THEN s.breakTime + item.time ELSE item.time OBVIOUS
    <3>6. PICK v : v = [s EXCEPT !.breakPending = TRUE,
                        !.breakTime = IF s.breakPending THEN @ + item.time ELSE item.time]
      OBVIOUS
    <3>7. v = [s EXCEPT !.breakPending = TRUE, !.breakTime = time] BY <3>5, <3>6 DEF SphoFieldNames
    <3>8. SphoSideKept(fed, s, v) BY <1>3, <1>4, <3>7
    <3> HIDE DEF bounded
    <3> QED BY <1>4, <2>2, <3>2, <3>3, <3>4, <3>6, <3>8
  <2> QED BY <2>1, <2>2
<1> HIDE DEF t
<1>10. PICK a : a = SphoSkippedTo(t, pos + 1) OBVIOUS
<1>11. SphoSideKept(fed, s, a)
  <2>1. PICK p : a = [t EXCEPT !.phonReadPos = p] BY <1>10 DEF SphoSkippedTo
  <2>2. SphoSideKept(fed, s, [t EXCEPT !.phonReadPos = p]) BY <1>3, <1>9
  <2> QED BY <2>1, <2>2
<1>12. PICK b : b = [s EXCEPT !.failed = TRUE, !.suppressRecomb = @ \/ SphoIsBound(item)] OBVIOUS
<1>13. SphoSideKept(fed, s, b)
  <2>1. PICK sup : sup = (s.suppressRecomb \/ SphoIsBound(item)) OBVIOUS
  <2>2. b = [s EXCEPT !.failed = TRUE, !.suppressRecomb = sup] BY <1>12, <2>1 DEF SphoFieldNames
  <2> QED BY <1>3, <1>4, <2>2
<1>14. y = b \/ y = [a EXCEPT !.outReadPos = s.outReadPos + 1]
  <2> HIDE DEF bounded
  <2> QED BY <1>10, <1>12
<1> HIDE DEF y
<1> QED BY <1>5, <1>11, <1>13, <1>14 DEF SphoBoundsOn

LEMMA SphoBoundsItemKeeps == ASSUME SphoInv, SphoBoundsItem PROVE SphoInv'
<1> PICK x, y, fed : x = spho /\ y = spho' /\ fed = sphoFed OBVIOUS
<1>1. /\ SphoHolds(fed, x) /\ DOMAIN x = SphoFieldNames /\ SphoPlaces(x) /\ SphoCells(fed, x.headx)
      /\ SphoFedWell(fed)
  BY DEF SphoInv, SphoHolds
<1>2. x.procState = "BOUNDS" /\ x.outReadPos < x.activeEnd /\ y = SphoBoundAt(x, x.outReadPos)
  BY DEF SphoBoundsItem
<1>3. x.outReadPos + 1 \in 1 .. Len(x.headx)
  <2>1. Len(x.headx) \in Nat BY <1>1, ListedLen DEF SphoCells
  <2> QED BY <1>1, <1>2, <2>1 DEF SphoPlaces, SphoInvalid
<1>4. SphoBoundsOn(fed, x, y) BY <1>1, <1>2, <1>3, SphoBoundAtKeeps
<1>5. PICK t : SphoSideKept(fed, x, t) /\ (y = t \/ y = [t EXCEPT !.outReadPos = x.outReadPos + 1])
  BY <1>4 DEF SphoBoundsOn
<1>6. SphoGoesOn(x, y) /\ y.headx = t.headx /\ y.procState = "BOUNDS"
  BY <1>1, <1>2, <1>5 DEF SphoSideKept, SphoGoesOn, SphoPlaces, SphoWorking, SphoFieldNames
<1>7. SphoHolds(fed, y)
  <2>1. x.procState \in SphoWorking /\ SphoCells(fed, y.headx) BY <1>2, <1>5, <1>6 DEF SphoWorking, SphoSideKept
  <2>2. y.procState # "FEED" BY <1>6
  <2> QED BY ONLY <1>1, <1>6, <2>1, <2>2, SphoGoneOn
<1> QED BY <1>7, SphoInsideKeeps DEF SphoBoundsItem

\* What the loop of COLLECT does with each set of places of m.
SphoFold(g, base, m) ==
  g = [s \in SUBSET DOMAIN m |->
         IF s = {} THEN base ELSE SphoCollectItem(g[s \ {Max(s)}], m[Max(s)])]

LEMMA SphoFoldExists ==
  ASSUME NEW m, Listed(m), NEW base
  PROVE  \E g : SphoFold(g, base, m)
<1> DEFINE D == DOMAIN m
           CollectUpto(g, k) == \A s \in SUBSET D : Cardinality(s) <= k =>
                           g[s] = IF s = {} THEN base ELSE SphoCollectItem(g[s \ {Max(s)}], m[Max(s)])
           Fails == {k \in Nat : ~\E g : g = [s \in SUBSET D |-> g[s]] /\ CollectUpto(g, k)}
<1>1. Len(m) \in Nat /\ D = 1 .. Len(m) BY ListedLen
<1>2. IsFiniteSet(D) BY <1>1, FS_Interval
<1>3. \A s \in SUBSET D : IsFiniteSet(s) /\ Cardinality(s) \in Nat BY <1>2, FS_Subset, FS_CardinalityType
<1>4. \A s \in SUBSET D : s # {} => Max(s) \in s BY <1>1, MaxOf
<1>5. Fails = {}
  <2> SUFFICES ASSUME Fails # {} PROVE FALSE OBVIOUS
  <2>1. PICK k \in Fails : \A y \in Fails : k <= y
    <3>1. Fails \subseteq Nat OBVIOUS
    <3> HIDE DEF Fails
    <3> QED BY <3>1, LeastNumber
  <2>2. k # 0
    <3> DEFINE g == [s \in SUBSET D |-> base]
    <3>1. \A s \in SUBSET D : Cardinality(s) <= 0 => s = {} BY <1>3, FS_EmptySet
    <3>2. CollectUpto(g, 0) BY <3>1
    <3>3. g = [s \in SUBSET D |-> g[s]] OBVIOUS
    <3> HIDE DEF CollectUpto, g
    <3> QED BY <3>2, <3>3
  <2>3. k - 1 \in Nat /\ k - 1 \notin Fails
    <3>1. k \in Nat OBVIOUS
    <3> HIDE DEF Fails
    <3>2. k - 1 \in Nat /\ ~(k <= k - 1) BY <2>2, <3>1
    <3> QED BY <2>1, <3>2
  <2>4. PICK g : g = [s \in SUBSET D |-> g[s]] /\ CollectUpto(g, k - 1)
    <3> HIDE DEF CollectUpto
    <3> QED BY <2>3
  <2> DEFINE h == [s \in SUBSET D |->
                     IF Cardinality(s) = k THEN SphoCollectItem(g[s \ {Max(s)}], m[Max(s)]) ELSE g[s]]
  <2>5. ASSUME NEW s \in SUBSET D, Cardinality(s) <= k
        PROVE  h[s] = IF s = {} THEN base ELSE SphoCollectItem(h[s \ {Max(s)}], m[Max(s)])
    <3>1. CASE s = {}
      <4>1. Cardinality(s) = 0 /\ 0 <= k - 1 BY <3>1, <2>3, FS_EmptySet
      <4>2. h[s] = g[s]
        <5>1. Cardinality(s) # k BY <4>1, <2>3
        <5> QED BY <5>1
      <4>3. g[s] = base BY <3>1, <4>1, <2>4
      <4> HIDE DEF h
      <4> QED BY <3>1, <4>2, <4>3
    <3>2. CASE s # {}
      <4> DEFINE x == Max(s)
                 r == s \ {Max(s)}
      <4>1. r \in SUBSET D /\ Cardinality(r) = Cardinality(s) - 1
        <5>1. x \in s BY <1>4, <3>2
        <5> HIDE DEF x
        <5>2. Cardinality(s \ {x}) = Cardinality(s) - 1 BY <1>3, <5>1, Smaller
        <5> QED BY <5>2 DEF x
      <4>2. h[r] = g[r] BY <4>1, <1>3, <2>3, <2>5
      <4> HIDE DEF r
      <4>3. h[s] = SphoCollectItem(g[r], m[x])
        <5>1. CASE Cardinality(s) = k BY <5>1 DEF r
        <5>2. CASE Cardinality(s) # k
          <6>1. Cardinality(s) <= k - 1 BY <5>2, <1>3, <2>3, <2>5
          <6>2. g[s] = SphoCollectItem(g[r], m[x]) BY <6>1, <2>4, <3>2 DEF r
          <6> QED BY <5>2, <6>2
        <5> QED BY <5>1, <5>2
      <4> QED BY <3>2, <4>2, <4>3 DEF r
    <3> QED BY <3>1, <3>2
  <2>6. h = [s \in SUBSET D |-> h[s]] OBVIOUS
  <2>7. CollectUpto(h, k) BY <2>5
  <2> HIDE DEF h, CollectUpto
  <2> QED BY <2>1, <2>6, <2>7
<1>6. Cardinality(D) \in Nat /\ \A s \in SUBSET D : Cardinality(s) <= Cardinality(D)
  BY <1>2, FS_Subset, FS_CardinalityType
<1>7. PICK g : g = [s \in SUBSET D |-> g[s]] /\ CollectUpto(g, Cardinality(D))
  <2> HIDE DEF CollectUpto
  <2> QED BY <1>5, <1>6
<1>8. g = [s \in SUBSET D |-> IF s = {} THEN base ELSE SphoCollectItem(g[s \ {Max(s)}], m[Max(s)])]
  BY <1>6, <1>7
<1> QED BY <1>8 DEF SphoFold

LEMMA SphoFoldIs ==
  ASSUME NEW m, Listed(m), NEW base
  PROVE  \E g : SphoFold(g, base, m) /\ FoldLeft(SphoCollectItem, base, m) = g[DOMAIN m]
<1> DEFINE c == CHOOSE g : SphoFold(g, base, m)
<1>1. SphoFold(c, base, m)
  <2>1. \E g : SphoFold(g, base, m) BY SphoFoldExists
  <2> QED BY <2>1
<1>2. FoldLeft(SphoCollectItem, base, m) = c[DOMAIN m]
  BY Zenon DEF FoldLeft, MapThenFoldSet, SphoFold
<1> HIDE DEF c
<1> QED BY <1>1, <1>2

\* What COLLECT has taken over are items fed, and nothing it held before is lost.
SphoCollected(fed, c) ==
  /\ DOMAIN c = {"headx", "taken", "full"} /\ SphoCells(fed, c.headx) /\ c.taken \in Nat
SphoTakenOver(fed, before, c) ==
  SphoCollected(fed, c) /\ Listed(before) /\ Len(before) <= Len(c.headx)
LEMMA SphoCollectItemKeeps ==
  ASSUME NEW fed, NEW before, NEW c, SphoTakenOver(fed, before, c), NEW item, SphoOneOf(fed, item)
  PROVE  SphoTakenOver(fed, before, SphoCollectItem(c, item))
<1> PICK h : h = SphoHeadx(item) OBVIOUS
<1>1. /\ DOMAIN h = {"item", "strength", "type", "sildur"} /\ h.item = item /\ h.strength = "NONE"
  BY DEF SphoHeadx
<1>2. SphoCell(fed, h) BY <1>1 DEF SphoCell
<1>3. PICK headx : headx = Append(c.headx, h) OBVIOUS
<1>4. SphoCells(fed, c.headx) /\ Listed(c.headx) BY DEF SphoTakenOver, SphoCollected, SphoCells
<1>5. PICK n \in Nat : n = Len(c.headx) BY <1>4, ListedLen
<1>6. /\ Listed(headx) /\ Len(headx) = n + 1 /\ headx[n + 1] = h
      /\ \A k \in 1 .. n : headx[k] = c.headx[k]
  BY <1>3, <1>4, <1>5, ListedAppend
<1>7. SphoCells(fed, headx)
  <2>1. \A k \in 1 .. n + 1 : k \in 1 .. n \/ k = n + 1 OBVIOUS
  <2>2. \A k \in 1 .. n : SphoCell(fed, c.headx[k]) BY <1>4, <1>5 DEF SphoCells
  <2> QED BY <1>2, <1>6, <2>1, <2>2 DEF SphoCells
<1>8. Len(before) <= n BY <1>5 DEF SphoTakenOver
<1> PICK d, e : /\ d = [c EXCEPT !.taken = @ + 1, !.full = TRUE]
                /\ e = [c EXCEPT !.taken = @ + 1, !.headx = Append(@, SphoHeadx(item))]
  OBVIOUS
<1>9. DOMAIN c = {"headx", "taken", "full"} /\ c.taken \in Nat BY DEF SphoTakenOver, SphoCollected
<1>10. SphoTakenOver(fed, before, d)
  <2>1. DOMAIN d = {"headx", "taken", "full"} /\ d.headx = c.headx /\ d.taken = c.taken + 1 BY <1>9
  <2> QED BY <1>4, <1>5, <1>8, <1>9, <2>1 DEF SphoTakenOver, SphoCollected
<1>11. SphoTakenOver(fed, before, e)
  <2>1. DOMAIN e = {"headx", "taken", "full"} /\ e.headx = headx /\ e.taken = c.taken + 1 BY <1>3, <1>9
  <2>2. Len(before) <= n + 1
    <3>1. Len(before) \in Nat BY ListedLen DEF SphoTakenOver
    <3> QED BY <1>8, <3>1
  <2>4. SphoCells(fed, e.headx) BY ONLY <1>7, <2>1
  <2>5. e.taken \in Nat BY ONLY <1>9, <2>1
  <2>3. SphoCollected(fed, e) BY ONLY <2>1, <2>4, <2>5 DEF SphoCollected
  <2> QED BY <1>6, <2>1, <2>2, <2>3 DEF SphoTakenOver, SphoCollected
<1>12. SphoCollectItem(c, item) \in {c, d, e} BY DEF SphoCollectItem
<1> QED BY <1>10, <1>11, <1>12

LEMMA SphoCollectKeepsAll ==
  ASSUME NEW m, Listed(m), NEW fed, \A k \in 1 .. Len(m) : SphoOneOf(fed, m[k]),
         NEW before, NEW base, SphoTakenOver(fed, before, base)
  PROVE  SphoTakenOver(fed, before, FoldLeft(SphoCollectItem, base, m))
<1>1. PICK g : SphoFold(g, base, m) /\ FoldLeft(SphoCollectItem, base, m) = g[DOMAIN m] BY SphoFoldIs
<1> DEFINE D == DOMAIN m
           T == {s \in SUBSET D : ~SphoTakenOver(fed, before, g[s])}
<1>2. Len(m) \in Nat /\ D = 1 .. Len(m) BY ListedLen
<1>3. \A s \in SUBSET D : IsFiniteSet(s)
  <2>1. IsFiniteSet(D) BY <1>2, FS_Interval
  <2> HIDE DEF D
  <2> QED BY <2>1, FS_Subset
<1>4. T = {}
  <2> SUFFICES ASSUME T # {} PROVE FALSE OBVIOUS
  <2>1. PICK s \in T : \A y \in T : Cardinality(s) <= Cardinality(y)
    <3>1. \A s \in T : IsFiniteSet(s) BY <1>3
    <3> HIDE DEF T
    <3> QED BY <3>1, SmallestSet
  <2>2. s \in SUBSET D /\ ~SphoTakenOver(fed, before, g[s]) OBVIOUS
  <2>3. g[s] = IF s = {} THEN base ELSE SphoCollectItem(g[s \ {Max(s)}], m[Max(s)])
    BY <1>1, <2>2 DEF SphoFold
  <2>4. s # {} BY <2>2, <2>3
  <2>5. PICK x : x = Max(s) OBVIOUS
  <2>6. x \in s BY <1>2, <2>2, <2>4, <2>5, MaxOf
  <2>7. Cardinality(s \ {x}) = Cardinality(s) - 1 /\ Cardinality(s) \in Nat BY <1>3, <2>2, <2>6, Smaller
  <2>8. s \ {x} \notin T BY <2>1, <2>7
  <2>9. SphoTakenOver(fed, before, g[s \ {x}]) BY <2>2, <2>8
  <2>10. SphoOneOf(fed, m[x]) BY <1>2, <2>2, <2>6
  <2>11. SphoTakenOver(fed, before, SphoCollectItem(g[s \ {x}], m[x])) BY ONLY <2>9, <2>10, SphoCollectItemKeeps
  <2> QED BY <2>2, <2>3, <2>4, <2>5, <2>11
<1> QED BY <1>1, <1>4

LEMMA SphoCollectKeeps == ASSUME SphoInv, SphoCollect PROVE SphoInv'
<1> PICK x, y, fed, in, base :
      /\ x = spho /\ y = spho' /\ fed = sphoFed /\ in = sphoIn
      /\ base = [headx |-> spho.headx, taken |-> 0, full |-> FALSE]
  OBVIOUS
<1> PICK c : c = FoldLeft(SphoCollectItem, base, in) OBVIOUS
<1>1. /\ SphoHolds(fed, x) /\ DOMAIN x = SphoFieldNames /\ SphoPlaces(x) /\ SphoCells(fed, x.headx)
      /\ SphoWaits(fed, in)
  BY DEF SphoInv, SphoHolds
<1>2. PICK n \in Nat : n = Len(x.headx) BY <1>1, ListedLen DEF SphoCells
<1>3. SphoTakenOver(fed, x.headx, c)
  <2>1. DOMAIN base = {"headx", "taken", "full"} /\ base.headx = x.headx /\ base.taken = 0 OBVIOUS
  <2>2. SphoTakenOver(fed, x.headx, base)
    BY <1>1, <1>2, <2>1 DEF SphoTakenOver, SphoCollected, SphoCells
  <2>3. Listed(in) /\ \A k \in 1 .. Len(in) : SphoOneOf(fed, in[k]) BY <1>1 DEF SphoWaits
  <2>4. SphoTakenOver(fed, x.headx, FoldLeft(SphoCollectItem, base, in))
    BY ONLY <2>2, <2>3, SphoCollectKeepsAll
  <2> QED BY <2>4
<1>4. PICK full, force :
        /\ sphoIn' = SubSeq(in, c.taken + 1, Len(in))
        /\ \/ y = [x EXCEPT !.headx = c.headx, !.procState = "PARSE", !.force = force, !.needMore = FALSE]
           \/ y = [x EXCEPT !.headx = c.headx, !.procState = "PARSE", !.needMore = FALSE]
        /\ x.procState = "COLLECT" /\ sphoFed' = fed /\ sphoSaid' = sphoSaid
        /\ full = c.full
  <2> DEFINE f == c.full \/ Len(c.headx) = SphoHeadxCap \/ SphoCbufUsed(c.headx) >= SphoCbufCap
             fresh == Len(c.headx) > Len(spho.headx)
  <2>1. /\ sphoIn' = SubSeq(in, c.taken + 1, Len(in))
        /\ IF f
           THEN spho' = [spho EXCEPT !.headx = c.headx, !.procState = "PARSE",
                            !.force = @ \/ spho.needMore, !.needMore = FALSE]
           ELSE /\ spho.needMore => fresh
                /\ spho' = [spho EXCEPT !.headx = c.headx, !.procState = "PARSE",
                               !.needMore = FALSE]
    BY DEF SphoCollect
  <2>2. PICK force : force = (spho.force \/ spho.needMore) OBVIOUS
  <2>3. f => y = [x EXCEPT !.headx = c.headx, !.procState = "PARSE", !.force = force, !.needMore = FALSE]
    <3> HIDE DEF f
    <3> QED BY <1>1, <2>1, <2>2 DEF SphoFieldNames
  <2>4. ~f => y = [x EXCEPT !.headx = c.headx, !.procState = "PARSE", !.needMore = FALSE]
    <3> HIDE DEF f, fresh
    <3> QED BY <2>1
  <2>5. x.procState = "COLLECT" /\ sphoFed' = fed /\ sphoSaid' = sphoSaid BY DEF SphoCollect
  <2> HIDE DEF f, fresh
  <2> QED BY <2>1, <2>3, <2>4, <2>5
<1>5. /\ DOMAIN y = SphoFieldNames /\ y.headx = c.headx /\ y.procState = "PARSE" /\ y.follow = x.follow
      /\ y.activeStart = x.activeStart /\ y.activeEnd = x.activeEnd /\ y.outReadPos = x.outReadPos
      /\ y.penultima = x.penultima /\ y.readPos = x.readPos
  BY <1>1, <1>4 DEF SphoFieldNames
<1>6. PICK l \in Nat : l = Len(c.headx) BY <1>3, ListedLen DEF SphoTakenOver, SphoCollected, SphoCells
<1>7. n <= l BY <1>2, <1>3, <1>6 DEF SphoTakenOver
<1>8. SphoPlaces(y) BY <1>1, <1>2, <1>4, <1>5, <1>6, <1>7 DEF SphoPlaces, SphoWorking
<1>9. SphoHolds(fed, y) BY <1>3, <1>5, <1>8 DEF SphoHolds, SphoTakenOver, SphoCollected
<1>10. SphoWaits(fed, sphoIn')
  <2>1. Listed(in) /\ \A k \in 1 .. Len(in) : SphoOneOf(fed, in[k]) BY <1>1 DEF SphoWaits
  <2>2. PICK R : R = {in[k] : k \in DOMAIN in} OBVIOUS
  <2>3. in \in Seq(R) /\ DOMAIN in = 1 .. Len(in) /\ Len(in) \in Nat BY <2>1, <2>2, ListedLen
  <2>4. \A e \in R : SphoOneOf(fed, e) BY <2>1, <2>2, <2>3
  <2>5. PICK a \in Nat \ {0} : a = c.taken + 1 BY <1>3 DEF SphoTakenOver, SphoCollected
  <2>6. PICK rest : rest = SubSeq(in, a, Len(in)) OBVIOUS
  <2>7. rest \in Seq(R)
    <3>1. Len(in) <= Len(in) BY <2>3
    <3>2. PICK b \in Nat : b = Len(in) BY <2>3
    <3> QED BY ONLY <2>3, <3>1, <3>2, a \in Nat \ {0}, rest = SubSeq(in, a, Len(in)), PartOf
  <2>8. PICK r \in Nat : r = Len(rest) BY <2>7
  <2>9. Listed(rest) BY ONLY <2>7, <2>8, r \in Nat, ListedSeq
  <2>10. \A k \in 1 .. Len(rest) : rest[k] \in R BY ONLY <2>7
  <2>11. SphoWaits(fed, rest) BY <2>4, <2>9, <2>10 DEF SphoWaits
  <2> QED BY <1>4, <2>5, <2>6, <2>11
<1> QED BY <1>4, <1>9, <1>10 DEF SphoInv

-----------------------------------------------------------------------------
(* The theorems. *)

LEMMA SphoNextKeeps == ASSUME SphoInv, [SphoNext]_sphoVars PROVE SphoInv'
<1>1. CASE UNCHANGED sphoVars BY <1>1 DEF SphoInv, sphoVars
<1>2. CASE SphoFeed BY <1>2, SphoFeedKeeps
<1>3. CASE SphoTake BY <1>3, SphoTakeKeeps
<1>4. CASE SphoReset BY <1>4, SphoResetKeeps
<1>5. CASE SphoStepInit BY <1>5, SphoStepInitKeeps
<1>6. CASE SphoCollect BY <1>6, SphoCollectKeeps
<1>7. CASE SphoParseEnd BY <1>7, SphoParseEndKeeps
<1>8. CASE SphoParseSentenceEnd BY <1>8, SphoParseSentenceEndKeeps
<1>9. CASE SphoParseTerm BY <1>9, SphoParseTermKeeps
<1>10. CASE SphoParseItem BY <1>10, SphoParseItemKeeps
<1>11. CASE SphoTransduce BY <1>11, SphoTransduceKeeps
<1>12. CASE SphoTransduced BY <1>12, SphoTransducedKeeps
<1>13. CASE SphoBoundsItem BY <1>13, SphoBoundsItemKeeps
<1>14. CASE SphoBoundsEnd BY <1>14, SphoBoundsEndKeeps
<1>15. CASE SphoRecombEnd BY <1>15, SphoRecombEndKeeps
<1>16. CASE SphoRecombContext BY <1>16, SphoRecombContextKeeps
<1>17. CASE SphoRecombSideBound BY <1>17, SphoRecombSideBoundKeeps
<1>18. CASE SphoRecombItem BY <1>18, SphoRecombItemKeeps
<1>19. CASE SphoSyl BY <1>19, SphoSylKeeps
<1>20. CASE SphoFeedOut BY <1>20, SphoFeedOutKeeps
<1>21. CASE SphoShift BY <1>21, SphoShiftKeeps
<1> QED BY <1>1, <1>2, <1>3, <1>4, <1>5, <1>6, <1>7, <1>8, <1>9, <1>10, <1>11, <1>12, <1>13, <1>14,
           <1>15, <1>16, <1>17, <1>18, <1>19, <1>20, <1>21
  DEF SphoNext, SphoStep

\* Sentence phonology holds items it was fed, each with no bound noted at its side or with one it
\* may have, and the indices of its window (picospho.c) are within what is in the window.
THEOREM SphoInvariant == SphoSpec => []SphoInv
<1>1. SphoInit => SphoInv BY SphoInitHolds
<1>2. SphoInv /\ [SphoNext]_sphoVars => SphoInv' BY SphoNextKeeps
<1> QED BY <1>1, <1>2, PTL DEF SphoSpec

\* Whatever the transducers and the breaks make of the strengths of bounds (setSideBound of
\* picospho.c), and however often the window is shifted, a primary phrase bound is not put out as
\* a word bound, and the bounds of a sentence are put out as they were fed.
THEOREM SphoKeepsBounds == SphoSpec => []SphoBoundsKept
<1>1. SphoInv => SphoBoundsKept
  <2> SUFFICES ASSUME SphoInv, NEW k \in 1 .. Len(sphoSaid), sphoSaid[k].kind = "bound",
                      SphoIsBound(sphoFed[sphoSaid[k].id])
               PROVE  /\ sphoFed[sphoSaid[k].id].info1 = "PHR1" => sphoSaid[k].strength # "PHR0"
                      /\ sphoFed[sphoSaid[k].id].info1 \notin SphoPhraseBounds =>
                           sphoSaid[k].strength = sphoFed[sphoSaid[k].id].info1
    BY DEF SphoBoundsKept
  <2>1. PICK i \in 1 .. Len(sphoFed) : sphoSaid[k].id = i /\ SphoRightBound(sphoFed[i], sphoSaid[k].strength)
    BY DEF SphoInv, SphoTells
  <2> QED BY <2>1 DEF SphoRightBound
<1>2. SphoSpec => []SphoInv BY SphoInvariant
<1> QED BY <1>1, <1>2, PTL
=============================================================================
