------------------------------ MODULE PicoCtrl ------------------------------
(***************************************************************************)
(* The control of a Pico engine (picoctrl.c): a chain of processing units  *)
(* (PUs) joined by char buffers, stepped one at a time by ctrlStep, and    *)
(* the engine entry points an application reaches it through:              *)
(* picoctrl_engFeedText, picoctrl_engFetchOutputItemBytes and              *)
(* picoctrl_engReset.                                                      *)
(*                                                                         *)
(* PU i reads buffer cb[i] and writes buffer cb[i+1]; cb[0] is the cbIn of *)
(* the engine and cb[NumPU] its cbOut.  A buffer is a bounded FIFO of      *)
(* items (module PicoCharBuffer is the byte ring underneath).  What a PU   *)
(* computes is abstracted; the control part of its step function is kept:  *)
(* how much of its input a step may take, what it may hold back, when it   *)
(* puts items, and which status it returns.  The engine has five such      *)
(* loops, named by Kind:                                                   *)
(*   "drain"   tokStep            puts and takes until EOF or cbOut full   *)
(*   "budget"  prStep             the same, but yields after a work budget *)
(*   "single"  waStep             one item per step                        *)
(*   "phrase"  saStep, acphStep   collects a phrase, then feeds it         *)
(*   "staged"  sigStep            one item, one step per stage             *)
(***************************************************************************)
EXTENDS Integers, Sequences, SequencesExt, PicoSeq

CONSTANTS
  NumPU,      \* ctrl->numProcUnits
  Kind,       \* the step loop of each PU
  CbCap,      \* capacity, in items, of each char buffer
  StashCap,   \* how many items a PU can hold in its internal buffers
  Types,      \* the item types fed: a subset of AllTypes
  MaxFed,     \* bound: items fed between two resets
  MaxResets,  \* bound: calls of pico_resetEngine
  MaxErrors,  \* bound: steps in which something fails in a PU
  MaxWork     \* bound: steps in a row in which a PU only computes

AllTypes == {"word", "punc", "flush", "other"}
Kinds == {"drain", "budget", "single", "phrase", "staged"}
PUs == 0 .. NumPU - 1

ASSUME CtrlAssumption ==
  /\ NumPU \in Nat \ {0}
  /\ Kind \in [PUs -> Kinds]
  /\ CbCap \in [0 .. NumPU -> Nat \ {0}]
  /\ StashCap \in Nat \ {0}
  /\ Types \subseteq AllTypes
  /\ MaxFed \in Nat /\ MaxResets \in Nat /\ MaxErrors \in Nat /\ MaxWork \in Nat
  /\ \A j, k \in PUs : Kind[j] = "budget" /\ Kind[k] = "budget" => j = k

Item == [n : Nat, type : Types]
Statuses == {"IDLE", "BUSY", "ATOMIC", "OUT_FULL", "ERROR"}
Phases == {"collect", "process", "feed"}

VARIABLES
  curPU,       \* ctrl->curPU
  procStatus,  \* ctrl->procStatus
  cb,          \* contents of the char buffers
  stash,       \* what each PU holds in its inBuf, headx, cbuf and outBuf
  phase,       \* its procState: collecting, processing or feeding
  spent,       \* how often in a row it yielded with nothing taken or put
  outOfMemory, \* pr->outOfMemory, of the "budget" PU
  answer,      \* what pico_getData returned, if it was the last call
  fed,         \* history: number of items accepted since the last reset
  resets,      \* history: number of resets
  errors       \* history: number of failures

vars == <<curPU, procStatus, cb, stash, phase, spent, outOfMemory, answer, fed, resets, errors>>

Answers == {"NONE", "IDLE", "BUSY", "ERROR"}

TypeOK ==
  /\ curPU \in PUs
  /\ procStatus \in [PUs -> Statuses]
  /\ cb \in [0 .. NumPU -> Seq(Item)]
  /\ stash \in [PUs -> Seq(Item)]
  /\ phase \in [PUs -> Phases]
  /\ spent \in [PUs -> Nat]
  /\ outOfMemory \in BOOLEAN
  /\ answer \in Answers
  /\ fed \in Nat /\ resets \in Nat /\ errors \in Nat

-----------------------------------------------------------------------------
(* The steps of the processing units. *)

Take(s, k) == SubSeq(s, 1, k)
Drop(s, k) == SubSeq(s, k + 1, Len(s))

HasFlush(s) == \E k \in 1 .. Len(s) : s[k].type = "flush"
EndsPhrase(item) == item.type \in {"punc", "flush"}

\* Space left in the output buffer of PU i: cbPutItem succeeds iff it is > 0.
Room(i) == CbCap[i + 1] - Len(cb[i + 1])

\* Mutation of Outcome: an item whose put failed is forgotten.
ForgetsUnsent(i, t, e, ph, status, reported) ==
  LET held == stash[i] \o Take(cb[i], t) IN
  [in       |-> Drop(cb[i], t),
   stash    |-> Drop(held, IF status = "OUT_FULL" THEN e + 1 ELSE e),
   out      |-> cb[i + 1] \o Take(held, e),
   phase    |-> ph,
   status   |-> status,
   reported |-> reported]

(***************************************************************************)
(* One step of PU i that takes t items and puts e items: what becomes of   *)
(* its buffers, the phase it is left in, the status it returns and what it *)
(* reports in *numBytesOutput, in items (only zero or not matters).        *)
(***************************************************************************)
Outcome(i, t, e, ph, status, reported) ==
  LET held == stash[i] \o Take(cb[i], t) IN
  [in       |-> Drop(cb[i], t),
   stash    |-> Drop(held, e),
   out      |-> cb[i + 1] \o Take(held, e),
   phase    |-> ph,
   status   |-> status,
   reported |-> reported]

\* PU i takes t items and, putting none, loses the last of what it then holds.
Loses(i, t, status) ==
  [Outcome(i, t, 0, "collect", status, 0) EXCEPT !.stash = Take(@, Len(@) - 1)]

(***************************************************************************)
(* tokStep and prStep: the loop puts what is ready, else takes input, and  *)
(* leaves with IDLE at EOF, with OUT_FULL at the first put that fails (the *)
(* failing put zeroes *numBytesOutput, even after puts that succeeded) or, *)
(* prStep only, with BUSY when its budget is spent, which a search through *)
(* the tokens it holds can do alone.  A token at the end of the input may  *)
(* be held back, as more characters may follow; a flush never is.          *)
(***************************************************************************)
StreamMayEnd(i, t, e, status) ==
  LET held == Drop(stash[i] \o Take(cb[i], t), e) IN
  /\ e <= Len(stash[i]) + t
  /\ Len(held) <= StashCap
  /\ CASE status = "IDLE"     -> t = Len(cb[i]) /\ ~HasFlush(held)
       [] status = "OUT_FULL" -> e = Room(i) /\ held # <<>>
       [] status = "BUSY"     -> /\ Kind[i] = "budget"
                                 /\ t + e > 0 \/ (held # <<>> /\ spent[i] < MaxWork)

StreamStep(i) ==
  UNION {UNION {{Outcome(i, t, e, "collect", s, IF s = "OUT_FULL" THEN 0 ELSE e) :
                    s \in {u \in {"IDLE", "BUSY", "OUT_FULL"} : StreamMayEnd(i, t, e, u)}} :
                 e \in 0 .. Room(i)} :
         t \in 0 .. Len(cb[i])}

(***************************************************************************)
(* waStep: COLLECT takes one item, PROCESS drops what is no item to look   *)
(* up (here the type "other": an invalid type, or a word without letters)  *)
(* and passes the rest, FEED puts it; what does not fit stays in outBuf.   *)
(***************************************************************************)
SingleStep(i) ==
  IF stash[i] = <<>> /\ cb[i] = <<>>
  THEN {Outcome(i, 0, 0, "collect", "IDLE", 0)}
  ELSE IF stash[i] = <<>> /\ Head(cb[i]).type = "other"
  THEN {Loses(i, 1, "BUSY")}
  ELSE LET t == IF stash[i] = <<>> THEN 1 ELSE 0 IN
       IF Room(i) > 0
       THEN {Outcome(i, t, 1, "collect", "BUSY", 1)}
       ELSE {Outcome(i, t, 0, "feed", "OUT_FULL", 0)}

(***************************************************************************)
(* saStep and acphStep.  COLLECT takes items up to the end of the phrase   *)
(* or until the buffers are full (a forced phrase end), and is IDLE when   *)
(* the input ends before that.  Then the phrase is processed and fed item  *)
(* by item in one go, except that saStep returns ATOMIC whenever it ran an *)
(* FST, several of which may follow each other before the next word is     *)
(* put.                                                                    *)
(***************************************************************************)
PhraseCollect(i) ==
  LET complete(t) == \/ t > 0 /\ EndsPhrase(cb[i][t])
                     \/ Len(stash[i]) + t >= StashCap
      taken == {t \in 0 .. Len(cb[i]) : \A k \in 0 .. t - 1 : ~complete(k)}
  IN  {Outcome(i, t, 0, "process", "ATOMIC", 0) : t \in {u \in taken : complete(u)}}
      \cup {Outcome(i, t, 0, "collect", "IDLE", 0) :
              t \in {u \in taken : u = Len(cb[i]) /\ ~complete(u)}}

PhraseFeed(i) ==
  {Outcome(i, 0, e, "collect", "BUSY", e) :
      e \in {k \in 0 .. Room(i) : k = Len(stash[i])}}
  \cup {Outcome(i, 0, e, "feed", "OUT_FULL", e) :
      e \in {k \in 0 .. Room(i) : k = Room(i) /\ k < Len(stash[i])}}
  \cup {Outcome(i, 0, e, "feed", "ATOMIC", e) :
      e \in {k \in 0 .. Room(i) : k < Len(stash[i]) /\ (k > 0 \/ spent[i] < MaxWork)}}

PhraseStep(i) ==
  CASE phase[i] = "collect" -> PhraseCollect(i)
    [] phase[i] = "process" -> {Outcome(i, 0, 0, "feed", "ATOMIC", 0)} \cup PhraseFeed(i)
    [] phase[i] = "feed"    -> PhraseFeed(i)

(***************************************************************************)
(* sigStep: COLLECT takes one item and returns ATOMIC, or discards it when *)
(* it is not valid; SCHEDULE and PROCESS return BUSY without output, FEED  *)
(* puts the item.                                                          *)
(***************************************************************************)
StagedStep(i) ==
  CASE phase[i] = "collect" ->
         IF cb[i] = <<>> THEN {Outcome(i, 0, 0, "collect", "IDLE", 0)}
         ELSE IF Head(cb[i]).type = "other" THEN {Loses(i, 1, "BUSY")}
         ELSE {Outcome(i, 1, 0, "process", "ATOMIC", 0)}
    [] phase[i] = "process" -> {Outcome(i, 0, 0, "feed", "BUSY", 0)}
    [] phase[i] = "feed" ->
         IF Room(i) > 0 THEN {Outcome(i, 0, 1, "collect", "BUSY", 1)}
                        ELSE {Outcome(i, 0, 0, "feed", "OUT_FULL", 0)}

(***************************************************************************)
(* A step that fails returns ERROR where it is.  prStep fails possibly     *)
(* after some input and output.  waStep, saStep and acphStep fail before   *)
(* they take an item, or lose the one they took and cannot read; waStep    *)
(* keeps the item it cannot treat, for the next step, and saStep the words *)
(* it has not put.  sigStep loses the item it cannot write.  tokStep never *)
(* fails.                                                                  *)
(***************************************************************************)
CollectFails(i) ==
  LET goesOn(t) == \A k \in 0 .. t : /\ ~(k > 0 /\ EndsPhrase(cb[i][k]))
                                     /\ Len(stash[i]) + k < StashCap
      taken == {t \in 0 .. Len(cb[i]) : goesOn(t)}
  IN  {Outcome(i, t, 0, "collect", "ERROR", 0) : t \in taken}
      \cup {Loses(i, t + 1, "ERROR") : t \in {u \in taken : u < Len(cb[i])}}

FailedStep(i) ==
  CASE Kind[i] = "drain" \/ (Kind[i] = "budget" /\ outOfMemory) -> {}
    [] Kind[i] = "budget" /\ ~outOfMemory ->
         UNION {{Outcome(i, t, e, phase[i], "ERROR", e) :
                    e \in {k \in 0 .. Room(i) : Len(stash[i]) + t - k \in 0 .. StashCap}} :
                t \in 0 .. Len(cb[i])}
    [] Kind[i] = "phrase" /\ phase[i] = "collect" -> CollectFails(i)
    [] Kind[i] = "phrase" /\ phase[i] # "collect" ->
         {Outcome(i, 0, e, phase[i], "ERROR", e) :
            e \in {k \in 0 .. Room(i) : k < Len(stash[i])}}
    [] Kind[i] \in {"single", "staged"} /\ phase[i] = "collect" ->
         {Outcome(i, 0, 0, "collect", "ERROR", 0)}
         \cup IF Kind[i] = "single" /\ cb[i] # <<>> /\ Head(cb[i]).type # "other"
              THEN {Outcome(i, 1, 0, "process", "ERROR", 0), Loses(i, 1, "ERROR")}
              ELSE {}
    [] Kind[i] = "single" /\ phase[i] = "process" ->
         {Outcome(i, 0, 0, "process", "ERROR", 0), Loses(i, 0, "ERROR")}
    [] Kind[i] = "staged" /\ phase[i] = "feed" -> {Loses(i, 0, "ERROR")}
    [] OTHER -> {}

(***************************************************************************)
(* The step in which prStep runs out of memory.  Items it has taken off    *)
(* one list and cannot copy to the next are lost.  It need not say so: it  *)
(* tests outOfMemory in one place only, and may go on to the end of its    *)
(* input, a full buffer or the end of its budget.                          *)
(***************************************************************************)
OverrunMayEnd(i, t, e, q, status) ==
  LET held == Drop(q, e) IN
  /\ e <= Len(q)
  /\ Len(held) <= StashCap
  /\ CASE status = "IDLE"     -> t = Len(cb[i]) /\ ~HasFlush(held)
       [] status = "OUT_FULL" -> e = Room(i) /\ held # <<>>
       [] OTHER               -> TRUE

Overrun(i, t, e, q, status) ==
  [in       |-> Drop(cb[i], t),
   stash    |-> Drop(q, e),
   out      |-> cb[i + 1] \o Take(q, e),
   phase    |-> "collect",
   status   |-> status,
   reported |-> IF status = "OUT_FULL" THEN 0 ELSE e]

OverrunStep(i) ==
  UNION {UNION {{Overrun(i, t, e, q, s) :
                   s \in {u \in {"IDLE", "BUSY", "OUT_FULL", "ERROR"} :
                            OverrunMayEnd(i, t, e, q, u)}} :
                e \in 0 .. Room(i), q \in Survivors(stash[i] \o Take(cb[i], t))} :
         t \in 0 .. Len(cb[i])}

(***************************************************************************)
(* Every later step of prStep fails before it sets *numBytesOutput, so     *)
(* that what ctrlStep reads there is an uninitialized variable.            *)
(***************************************************************************)
BrokenStep(i) == {Outcome(i, 0, 0, "collect", "ERROR", r) : r \in {0, 1}}

Step(i) ==
  CASE Kind[i] = "budget" /\ outOfMemory -> BrokenStep(i)
    [] Kind[i] \in {"drain", "budget"} /\ ~(Kind[i] = "budget" /\ outOfMemory) -> StreamStep(i)
    [] Kind[i] = "single" -> SingleStep(i)
    [] Kind[i] = "phrase" -> PhraseStep(i)
    [] Kind[i] = "staged" -> StagedStep(i)

-----------------------------------------------------------------------------
\* Mutation of Recorded: the PU behind one that produced output is not marked.
MarksNobody(c, o) ==
  [j \in PUs |-> IF j = c THEN o.status ELSE procStatus[j]]

\* Mutation of Recorded: it is marked whether there is output or not.
MarksAlways(c, o) ==
  [j \in PUs |-> IF j = c THEN o.status ELSE IF j = c + 1 THEN "BUSY" ELSE procStatus[j]]

(***************************************************************************)
(* ctrlStep after the current PU c returned outcome o: the statuses once   *)
(* procStatus[c] and, on output, procStatus[c+1] are set; then the PU that *)
(* runs next, the statuses it leaves, and what ctrlStep returns.           *)
(***************************************************************************)
Recorded(c, o) ==
  [j \in PUs |-> IF j = c THEN o.status
                 ELSE IF j = c + 1 /\ o.reported > 0 THEN "BUSY"
                 ELSE procStatus[j]]

\* Mutation of NonIdleAbove: the search does not stop at PU 0.
RunsOffTheTop(c, st) ==
  CHOOSE k \in -1 .. c : /\ k = -1 \/ st[k] # "IDLE"
                         /\ \A j \in k + 1 .. c : st[j] = "IDLE"

\* Mutation of NonIdleAbove: control restarts at PU 0 without a search.
RestartsAtTop(c, st) == 0

\* The nearest PU at or above c that is not idle, PU 0 if all of them are.
NonIdleAbove(c, st) ==
  CHOOSE k \in 0 .. c : /\ k = 0 \/ st[k] # "IDLE"
                        /\ \A j \in k + 1 .. c : st[j] = "IDLE"

Schedule(c, o) ==
  LET st == Recorded(c, o)
      Move(k, s, r) == [cur |-> k, status |-> s, result |-> r]
      below == c + 1 \in PUs /\ st[c + 1] = "BUSY"
  IN  CASE o.status = "ATOMIC" -> Move(c, st, "ATOMIC")
        [] o.status = "BUSY" -> Move(IF below THEN c + 1 ELSE c, st, "BUSY")
        [] o.status = "IDLE" ->
             IF below THEN Move(c + 1, st, "BUSY")
             ELSE IF c = 0 THEN Move(0, st, "IDLE")
             ELSE LET k == NonIdleAbove(c, st)
                  IN  Move(k, [st EXCEPT ![k] = "BUSY"], "BUSY")
        [] o.status = "OUT_FULL" ->
             IF c + 1 \in PUs THEN Move(c + 1, [st EXCEPT ![c + 1] = "BUSY"], "BUSY")
                              ELSE Move(c, st, "OUT_FULL")
        [] OTHER -> Move(c, st, "ERROR")

\* Mutation of Answer: IDLE although speech is left in cbOut.
AnswersEarly(result, last, fits) ==
  IF result = "ERROR" THEN "ERROR"
  ELSE IF result = "IDLE" THEN "IDLE"
  ELSE IF last # <<>> /\ ~fits THEN "ERROR"
  ELSE "BUSY"

(***************************************************************************)
(* What pico_getData answers when the control step had this result and     *)
(* cbOut then held the items last: IDLE only if nothing is left there.     *)
(***************************************************************************)
Answer(result, last, fits) ==
  IF result = "ERROR" \/ (last # <<>> /\ ~fits) THEN "ERROR"
  ELSE IF result = "IDLE" /\ last = <<>> THEN "IDLE"
  ELSE "BUSY"

(***************************************************************************)
(* picoctrl_engFetchOutputItemBytes, the body of pico_getData: one step of *)
(* the control, then, unless that failed, one item out of cbOut.  When the *)
(* caller's buffer is too small for it (fits = FALSE) the item stays and   *)
(* the call fails, although the step was made.                             *)
(***************************************************************************)
Fetch(c, o, fits) ==
  LET m == Schedule(c, o)
      stepped == [cb EXCEPT ![c] = o.in, ![c + 1] = o.out]
      last == stepped[NumPU]
      got == m.result # "ERROR" /\ last # <<>> /\ fits
      moved == o.in # cb[c] \/ o.out # cb[c + 1] \/ o.phase # phase[c]
  IN  /\ curPU' = m.cur
      /\ procStatus' = m.status
      /\ stash' = [stash EXCEPT ![c] = o.stash]
      /\ phase' = [phase EXCEPT ![c] = o.phase]
      /\ spent' = [spent EXCEPT ![c] = IF moved THEN 0
                                       ELSE IF o.status \in {"BUSY", "ATOMIC"} THEN @ + 1 ELSE @]
      /\ cb' = IF got THEN [stepped EXCEPT ![NumPU] = Tail(last)] ELSE stepped
      /\ answer' = Answer(m.result, last, fits)

GetData(fits) ==
  /\ \E o \in Step(curPU) : Fetch(curPU, o, fits)
  /\ UNCHANGED <<outOfMemory, fed, resets, errors>>

GetDataFails ==
  /\ errors < MaxErrors
  /\ errors' = errors + 1
  /\ \E o \in FailedStep(curPU) : Fetch(curPU, o, TRUE)
  /\ UNCHANGED <<outOfMemory, fed, resets>>

RunsOutOfMemory(fits) ==
  /\ Kind[curPU] = "budget" /\ ~outOfMemory
  /\ errors < MaxErrors
  /\ errors' = errors + 1
  /\ outOfMemory' = TRUE
  /\ \E o \in OverrunStep(curPU) : Fetch(curPU, o, fits)
  /\ UNCHANGED <<fed, resets>>

\* picoctrl_engFeedText, one unit of text: accepted while cbIn has room.
FeedText(ty) ==
  /\ fed < MaxFed
  /\ Len(cb[0]) < CbCap[0]
  /\ cb' = [cb EXCEPT ![0] = Append(@, [n |-> fed + 1, type |-> ty])]
  /\ fed' = fed + 1
  /\ answer' = "NONE"
  /\ UNCHANGED <<curPU, procStatus, stash, phase, spent, outOfMemory, resets, errors>>

\* Mutation of EngReset: the PUs are not initialized again.
ResetsBuffersOnly ==
  /\ resets < MaxResets
  /\ resets' = resets + 1
  /\ curPU' = 0
  /\ cb' = [j \in 0 .. NumPU |-> <<>>]
  /\ fed' = 0
  /\ answer' = "NONE"
  /\ UNCHANGED <<procStatus, stash, phase, spent, outOfMemory, errors>>

(***************************************************************************)
(* picoctrl_engReset: ctrlTerminate, then ctrlInitialize, which empties    *)
(* every PU and every procCbOut and goes back to PU 0 but leaves           *)
(* procStatus as it is, then cbReset of cbIn and cbOut.                    *)
(***************************************************************************)
EngReset ==
  /\ resets < MaxResets
  /\ resets' = resets + 1
  /\ curPU' = 0
  /\ cb' = [j \in 0 .. NumPU |-> <<>>]
  /\ stash' = [j \in PUs |-> <<>>]
  /\ phase' = [j \in PUs |-> "collect"]
  /\ spent' = [j \in PUs |-> 0]
  /\ outOfMemory' = FALSE
  /\ fed' = 0
  /\ answer' = "NONE"
  /\ UNCHANGED <<procStatus, errors>>

\* picoctrl_newControl: ctrlAddPU for every PU, all idle, PU 0 current.
Init ==
  /\ curPU = 0
  /\ procStatus = [j \in PUs |-> "IDLE"]
  /\ cb = [j \in 0 .. NumPU |-> <<>>]
  /\ stash = [j \in PUs |-> <<>>]
  /\ phase = [j \in PUs |-> "collect"]
  /\ spent = [j \in PUs |-> 0]
  /\ outOfMemory = FALSE
  /\ answer = "NONE"
  /\ fed = 0 /\ resets = 0 /\ errors = 0

Next ==
  \/ \E fits \in BOOLEAN : GetData(fits)
  \/ GetDataFails
  \/ \E fits \in BOOLEAN : RunsOutOfMemory(fits)
  \/ \E ty \in Types : FeedText(ty)
  \/ EngReset

Spec == Init /\ [][Next]_vars

\* An application that keeps calling pico_getData with a sufficient buffer.
FairSpec == Spec /\ WF_vars(GetData(TRUE))

-----------------------------------------------------------------------------
(* Properties. *)

\* PU j has nothing left to do: no input, and nothing it must deliver.
Quiet(j) == cb[j] = <<>> /\ phase[j] = "collect" /\ ~HasFlush(stash[j])

(***************************************************************************)
(* picoapi.h promises PICO_STEP_IDLE only "once all data is returned and   *)
(* there is no more text in the input buffer": when pico_getData answers   *)
(* IDLE, every buffer of the chain is empty and no PU holds a flush, so no *)
(* flushed sentence is left inside the engine.                             *)
(***************************************************************************)
IdleSound ==
  answer = "IDLE" => cb[NumPU] = <<>> /\ \A j \in PUs : Quiet(j)

(***************************************************************************)
(* The rule written at the head of ctrlStep: the PUs after the current one *)
(* are idle, except the next one, which may be busy.                       *)
(***************************************************************************)
BelowIdle ==
  \A j \in curPU + 1 .. NumPU - 1 :
    procStatus[j] = "IDLE" \/ (j = curPU + 1 /\ procStatus[j] = "BUSY")

(***************************************************************************)
(* The same rule for an engine that was never reset: picoctrl_engReset     *)
(* keeps the old procStatus, so the rule is lost then.                     *)
(***************************************************************************)
BelowIdleUntilReset == resets = 0 => BelowIdle

(***************************************************************************)
(* What the PUs rely on when they feed a phrase (acphStep repeats its      *)
(* first BOUND item if its first word does not fit): unless its last step  *)
(* was ATOMIC or failed, the PU that is about to be stepped finds its      *)
(* output buffer empty, and the PU behind that buffer has nothing to do.   *)
(***************************************************************************)
BelowDrained ==
  curPU + 1 < NumPU /\ procStatus[curPU] \notin {"ATOMIC", "ERROR"}
    => \A j \in curPU + 1 .. NumPU - 1 : Quiet(j)

(***************************************************************************)
(* Control never loses track of work: a PU two or more places below the    *)
(* current one has none, the next one has some only if it is marked BUSY,  *)
(* and a PU above it that is marked IDLE has none.                         *)
(***************************************************************************)
WorkTracked ==
  /\ \A j \in PUs : j > curPU + 1 => Quiet(j)
  /\ \A j \in PUs : j = curPU + 1 /\ procStatus[j] # "BUSY" => Quiet(j)
  /\ \A j \in PUs : 0 < j /\ j < curPU /\ procStatus[j] = "IDLE" => Quiet(j)

(***************************************************************************)
(* What ctrlStep relies on when it chooses the next PU by the statuses     *)
(* that the PUs answered many steps ago.                                   *)
(***************************************************************************)
ControlSound == BelowIdleUntilReset /\ BelowDrained /\ WorkTracked

\* Everything inside the engine, oldest first.
Inside ==
  FlattenSeq([k \in 1 .. NumPU + 1 |->
                IF k = 1 THEN cb[NumPU] ELSE stash[NumPU + 1 - k] \o cb[NumPU + 1 - k]])

(***************************************************************************)
(* The engine as its caller sees it is a FIFO that answers IDLE only when  *)
(* it holds no flush.  Nothing is duplicated or reordered between the      *)
(* buffers of the chain, and what is lost is an "other" item, which waStep *)
(* and sigStep discard, the one item of a step that answers ERROR, or what *)
(* prStep drops in the step in which it runs out of memory.                *)
(***************************************************************************)
Pipe == INSTANCE PicoPipe WITH pending <- Inside, accepted <- fed, broken <- outOfMemory
PipeSpec == Pipe!Spec

(***************************************************************************)
(* ctrlStep moves on to the next PU when it is marked BUSY: in an engine   *)
(* that was never reset and has not run out of memory, that PU finds input *)
(* there, however long ago the mark was set.  The converse, that input is  *)
(* always marked, is in WorkTracked.                                       *)
(***************************************************************************)
MarkedHasInput ==
  resets = 0 /\ ~outOfMemory /\ curPU + 1 \in PUs /\ procStatus[curPU + 1] = "BUSY"
    => cb[curPU + 1] # <<>>

(***************************************************************************)
(* The loop of an application that calls pico_getData while it answers     *)
(* BUSY (pico2wave.c) ends, however small its buffer is now and then: once *)
(* it stops feeding text, the answer becomes IDLE and stays so, or prStep  *)
(* has run out of memory and every answer is an error.                     *)
(***************************************************************************)
LoopEnds == <>[](answer = "IDLE" \/ outOfMemory)
=============================================================================
