# svox-pico in TLA+

Specifications of the SVOX Pico text-to-speech engine (`src/lib`) and of its command line
program (`src/bin/pico2wave.c`): TLA+ modules, TLC configurations that check small instances
of them, and theorems checked by TLAPS. `PROJECT.json` lists, for every definition that models
code, the lines it stands for.

## 1. The system

Text goes into an engine with `pico_putTextUtf8`; speech comes out of it with `pico_getData`.
Inside, nine *processing units* (PUs) form a chain: TOK (tokenizer), PR (preprocessor), WA (word
analysis), SA (sentence analysis), ACPH (accents and phrases), SPHO (sentence phonology), PAM
(phonetic-acoustic mapping), CEP (cepstral smoothing) and SIG (signal generation). Neighbours
are joined by *char buffers*: byte rings that hold items (a four byte header and at most 255
bytes of contents). Nothing runs concurrently. Every call of `pico_getData` makes **one** step
of **one** PU, and the *control* (`ctrlStep`) then decides, from the status that PU returned,
which PU is current in the next call. So the engine is a hand-written cooperative scheduler:
its hard behaviours are interleavings of PUs at all fillings of the buffers, resets and failing
steps in the middle of a sentence, and whether the caller's loop ever ends.

| Part | State | Operations | Interacts with | What makes it correct |
|---|---|---|---|---|
| Control (`picoctrl.c` 60-480) | `curPU`, `procStatus[]`, `procCbOut[]` | `ctrlStep`, `ctrlInitialize`, `ctrlTerminate`, `ctrlAddPU` | calls the PUs' `step`; called by the engine | never forgets a PU with work; a stepped PU finds its output drained; stays inside the chain |
| Engine (`picoctrl.c` 490-790) | its own memory, voice, `cbIn`, `cbOut` | new, dispose, reset, feed text, fetch output | API above, control and resource manager below | IDLE only when everything was returned; a reset forgets everything; a failed `newEngine` returns what it took |
| PU step loops (`picotok.c` ... `picosig.c`) | `inBuf`, `headx`, `cbuf`, `outBuf`, `procState` | `tokStep` ... `sigStep` | the char buffers at both sides | nothing lost, duplicated or reordered when the output is full; a flush is never held back |
| Char buffers (`picodata.c` 60-345) | `buf`, `front`, `rear`, `len` | `cbPutCh`, `cbGetCh`, `cbPutItem`, `cbGetItem`, `cbGetSpeechData`, `cbReset` | the PUs | a FIFO of whole items at every wrap-around |
| Memory manager (`picoos.c` 237-617) | cells, free list | `allocate`, `deallocate` | everything | cells tile the block, free list = free cells, free neighbours are merged |
| Exception manager (`picoos.c` 620-890) | first exception, warnings | raise, reset, get | everything | the first exception is kept, the last warning slot says "too many" |
| Files (`picoos.c` 960-1870) | list of open files, sound file buffer | open, close, read, write | resource manager, `pico2wave` | every file opened is closed |
| Resource manager (`picorsrc.c`) | resources with lock counts, voice definitions, voices, free lists | load, unload, create/release voice (definition) | API, engine | a resource in use is never unloaded; counts match lists |
| TOK (`picotok.c`) | bytes of a character, tag so far, token so far | `tok_treatChar`, `tok_putToMarkup`, `tok_interpretMarkup` | text above, PR below | no text is lost that looked like a tag and was none; an empty tag leaves nothing behind |
| PR (`picopr.c`) | lists of items, the path and its alternatives, contexts | `pr_processToken`, `pr_matchTokens`, `pr_outputPath` | TOK, WA, networks | the cheapest path is found; commands keep their place |
| WA (`picowa.c`) | item in work | lookup in the lexica, prediction of a part of speech | PR, SA, lexicon, a tree | a word is found in the first lexicon that has it, wherever its entries are |
| SA (`picosa.c`) | the phrase, the phones of a word, the next transducer | the states of `saStep` | WA, ACPH, lexicon, trees, transducers | the trees are asked about true neighbours; each word is spoken once, through all transducers |
| ACPH (`picoacph.c`) | the phrase | `acphSubPhrasing`, `acphAccentuation`, feeding | SA, SPHO, trees | trees are asked about true counts; decisions are spoken as they were made |
| SPHO (`picospho.c`) | window of items, phoneme buffer, pending break | nine states of `sphoStep` | ACPH, PAM, transducers | every item comes out once, however a sentence is cut |
| PAM (`picopam.c`) | syllables, queue of items, feature counters | the states of `pam_step` | SPHO, CEP, trees | items come out between the right phones; features are what they are defined to be |
| CEP (`picocep.c`) | window of frames, held items, equations | the states of `cepStep`, smoothing | PAM, SIG, densities | frames and items in order; trajectories solve their equations |
| SIG (`picosig.c`) | frame in work, sound files, modifiers, rings of spectra and phases | the states of `sigStep` | CEP, the caller, sound files | each frame is heard once, two late, with the phase of its own; a file has what was heard |
| Knowledge bases (`picok*.c`) | read-only tables | lexicon search, decision trees, FSTs, densities, networks | the PUs | what is packed in bits and bytes is read as it was meant |
| Transducer, text utilities (`picotrns.c`, `picobase.c`) | a search's alternatives | FST transduction, UTF-8, case | SA, SPHO, PR, TOK | a search ends and finds a path if there is one; text converted in place stays text |
| Public API (`picoapi.c`) | one system, one engine | `pico_*` | all of the above | handles checked; one engine at most |
| `pico2wave.c` | remaining text, sample buffer | the synthesis loop | API, sound file | every byte of text is sent once, every sample written once, the loop ends |
| Signal kernels (`picosig2.c`, `picofftsg.c`) | sample vectors | vocoder, FFT | SIG | numeric, not modelled but for the rings |

`PROJECT.json` lists all components, with the ones left out and why, and the hazards at their
lines.

## 2. The modules

| Module | Models | Role |
|---|---|---|
| `PicoPipe` | what an engine promises its caller | abstract specification |
| `PicoCtrl` | `ctrlStep`, the control part of the PUs' steps, `picoctrl_engFeedText`, `picoctrl_engFetchOutputItemBytes`, `picoctrl_engReset` | core |
| `MCPicoCtrl` | | instances for TLC |
| `PicoCtrlProofs` | | theorems about `PicoCtrl` |
| `PicoQueue` | what a char buffer promises: a bounded FIFO of bytes | abstract specification |
| `PicoCharBuffer` | the byte ring of `picodata.c` | component |
| `MCPicoCharBuffer` | | instances for TLC |
| `PicoCharBufferProofs` | | theorems about `PicoCharBuffer` |
| `PicoWave` | the synthesis loop of `pico2wave` and the sound file it writes | component |
| `PicoSoundProofs` | | theorems about `PicoWave` and `PicoSig` |
| `PicoAlloc` | what the memory manager promises: regions that lie apart | abstract specification |
| `PicoMem` | `os_init_mem_block`, `picoos_allocate`, `picoos_deallocate` | component |
| `PicoMemProofs` | | theorems about `PicoMem` |
| `PicoRsrc` | the resource manager, and the system-level `pico_*` functions with `picoctrl_newEngine` and `picoctrl_disposeEngine` | component |
| `MCPicoRsrc` | | instances for TLC |
| `PicoRsrcProofs` | | theorems about `PicoRsrc` and `PicoStart` |
| `PicoStart` | the start-up of `pico2wave` and its ladder of error labels: extends `PicoRsrc`, whose actions it calls | composition |
| `PicoTok` | the tokenizer, with the mark-up | component |
| `PicoBase` | UTF-8 and case | component, algorithms |
| `PicoPrText` | what PR reads out of a token: Roman numbers, values, capitals | algorithms |
| `PicoPr` | the text preprocessing: extends `PicoPrText` | component |
| `PicoTrns` | transducers: `picokfst.c` and the search of `picotrns.c` | component, algorithms |
| `PicoKdt` | decision trees: `picokdt.c` | algorithms |
| `PicoLex` | lexica: `picoklex.c`, and how `picowa.c` looks a word up | component, algorithms |
| `PicoSa` | sentence analysis: `picosa.c` | component |
| `PicoSaProofs` | | theorems about `PicoSa` |
| `PicoAcph` | phrasing and accentuation | component |
| `PicoSpho` | sentence phonology | component |
| `PicoPam` | the control of `pam_step` | component |
| `PicoPamFeat` | the features of a syllable | algorithms |
| `PicoPhone` | the vector, durations, pitch and pauses of a phone | algorithms |
| `PicoCep` | the control of `cepStep` | component |
| `PicoKpdf` | densities, `picokpdf.c` | algorithms |
| `PicoSmooth` | smoothing a coefficient: extends `PicoKpdf` | algorithms |
| `PicoSig` | the control of `sigStep`, with the rings of `picosig2.c` | component |
| `MCPicoFront` | | instances of the units on the side of the text, and of `PicoStart`, for TLC |
| `MCPicoBack` | | instances of the units on the side of the speech, for TLC |
| `PicoUnitProofs` | | theorems about `PicoTok`, `PicoCep`, `PicoAcph` and `PicoSpho` |
| `PicoSeq` | the elements of a sequence at a set of places | operator of `PicoSa` and the proofs |
| `PicoInduction` | | lemmas that take the place of induction, and about sequences, used by the other proofs |

`PicoInduction` is why some theorems here are about recursively defined things. The induction theorems of the library take an operator as a
parameter, which the provers cannot instantiate; but that a set of numbers has a least element (`LeastNumber`, out of the well-foundedness of `<`), and a family of finite sets one
with the fewest elements (`SmallestSet`), are statements about sets. So a proof by induction becomes one by a least counterexample. `IteratesExist` (a step and a first value define a
function), `SumExists` to `SumUnique` (what `MapThenSumSet` computes is a sum) and `FlatExists` to `FlattenNext` (what `FlattenSeq` computes is the
parts one behind the other) were proved so. The rest are lemmas that those proofs keep needing: `MaxOf` and `MinOf` (what `CHOOSE` picks out of finitely many numbers), and `Listed...`, about sequences whose elements are of no known set.

### PicoCtrl

State: `curPU` and `procStatus` are the fields of the C object. `cb[i]` is the content of the
buffer that PU `i` reads, `cb[NumPU]` the engine's `cbOut`; a buffer is a sequence of items with
a capacity in items. `stash[i]` is what PU `i` took and has not put yet, and `phase[i]` its
`procState`. `answer` is what the last `pico_getData` returned. `fed`, `resets` and `errors` are
history, bounded by `MaxFed`, `MaxResets` and `MaxErrors`. `spent[i]` counts the steps in a row in which PU `i` gave up its
time slot with nothing taken or put, and `outOfMemory` is the flag of `pr`.

An item is its number in the order it was fed, and a type: `flush` (the end of an utterance,
which PR turns into a CMD item), `punc` (ends a phrase), `other` (`waStep` drops it) or `word`.
What a PU computes is not modelled: an item keeps its identity through the chain, and the items
a PU inserts (a forced phrase end, syllables for words, frames for phones) are not shown.

One action per entry point: `FeedText` (`pico_putTextUtf8`, one unit of text at a time, as its
loop does), `GetData` (`pico_getData`: one control step, then one item out of `cbOut` if the
caller's buffer is large enough), `GetDataFails` (the same when the PU returns an error),
`RunsOutOfMemory` (the same when `prStep` runs out of memory) and `EngReset`. `Step(i)` is the set of outcomes one step of PU `i` may have. The nine PUs have five
kinds of loop, read from `tokStep` (drain), `prStep` (budget), `waStep` (single), `saStep` and
`acphStep` (phrase) and `sigStep` (staged); an `Outcome` says what was taken, put and kept,
the status returned and what is reported in `*numBytesOutput`. `Schedule` is the rest of
`ctrlStep`.

What the code does at its limits shaped the model. `prStep`, once it is out of memory, returns before it sets
`*numBytesOutput` (`picopr.c:3352`), so `ctrlStep` reads an uninitialized variable: `BrokenStep`
allows both outcomes. The step in which memory runs out loses what it could not copy to another list, and need not even
answer ERROR (`OverrunStep`). `prStep` counts its budget down within a search and answers BUSY with nothing taken or put
(`picopr.c:3355`, `3004`, `3542`), and `saStep` answers ATOMIC after every transducer (`picosa.c:1666-1668`): `StreamMayEnd` and `PhraseFeed` have such
steps, up to `MaxWork` of them in a row, for a search and a list of transducers are finite. An error in the collecting of
`saStep` comes after the item was got from `cbIn`, and the item is gone (`picosa.c:1219-1234`); so it is in `acphStep` and `waStep`, and `sigStep` loses
the item it cannot write (`FailedStep`, `CollectFails`). In `tokStep` and `prStep` a put that fails overwrites the count of the puts
before it, so OUT_FULL reports nothing. And `engReset` does not touch `procStatus`.

`PicoPipe` is what is left of this for the caller: items come out in the order they went in and once; one of the type "other"
may vanish; an answer ERROR may have cost one item; and once between two resets, when `prStep` runs out of memory, any number of items may be lost.

### Runs

| Run | Instance | Shows |
|---|---|---|
| `ctrl_phrase` | 3 PUs (budget, phrase, staged), 3 items of three types, one reset, one failing step, `MaxWork` = 1 | `TypeOK`; `ControlSound` (`WorkTracked`, `BelowDrained`, `BelowIdleUntilReset`); refinement of `PicoPipe`; `LoopEnds` |
| `ctrl_front` | 4 PUs (drain, budget, single, phrase), 4 items of all types, one reset, one failing step, `MaxWork` = 1 | `IdleSound`; `MarkedHasInput` |

Bounds. Buffers of one and two items are both smaller than the items fed, so every put is tried
on a full, a filling and an empty buffer; with capacity one next to capacity two, OUT_FULL and
partial feeding happen at every place. `StashCap = 2` makes a phrase of two words a forced phrase
end. Three PUs are the fewest with a PU above, below and in the middle; four cover each kind.
One reset suffices because a reset restores everything but `procStatus`, whose values after a
longer history are the ones already reachable; one error likewise may come in any state.

Fairness. `FairSpec` assumes `WF_vars(GetData(TRUE))`: the application keeps calling
`pico_getData` with a buffer that is large enough, which is what `pico2wave` and the API's
documentation do. Nothing is assumed of text, resets, or of how the PUs resolve their choices: each of their yields changes
`spent`, so that weak fairness sees it, and `LoopEnds` counts on no more than that a PU does not compute for ever (`MaxWork`; one is enough for a
yield at every place a PU can yield, since nothing but `spent` tells a second one from it).
Errors are bounded, so a PU that fails for ever is outside of `LoopEnds`: once `outOfMemory` is set every answer is an error until a reset, which the formula names.

`MarkedHasInput` is the rule by which `ctrlStep` moves on: in an engine that was never reset and has not run out of memory, the PU below the current one that is
marked BUSY finds input, however many turns ago it was marked. After a reset, statuses are left over, and it does not hold.

### Proofs

`PicoCtrlProofs` proves, for every number of PUs, kinds, capacities, types and bounds:
`TypeCorrect`, `IdleIsSound` and `ControlIsSound`, which puts `ControlTracksWork`, `SteppedWhenDrained` and `HeadRule` together.

The inductive invariant is `IInv == TypeOK /\ StashInv /\ WorkTracked /\ BelowIdleUntilReset /\
BelowDrained /\ IdleSound`. `IdleSound` alone is not inductive: that IDLE from PU 0 means that all
is quiet needs `WorkTracked`, which says where work may be while nobody looks: nowhere two or
more places below the current PU, in the next PU only under status BUSY, and above the current PU only
under a status other than IDLE. `StashInv` (a PU that holds more than it may is feeding, a single PU holds at
most one item) makes the outcomes well formed.

The proof has two halves. *Contracts*: for each kind of loop, a lemma states what every outcome
in `Step(i)` guarantees (`StreamContract`, `SingleContract`, `PhraseContract`, `StagedContract`,
`FailedContract`, together `StepContract`): an IDLE leaves the PU quiet, output is reported or
the output buffer is full, types are kept. *Control*: `ScheduleCases` splits `Schedule` by
status; `FetchQuiet` and `FetchTracked` show that any outcome that meets the contract
preserves `WorkTracked` and `BelowDrained`; `NextInvariant` combines them, one step per action.

`EngineIsAPipe` proves the refinement: `Spec => PipeSpec`. The mapping shows the caller one queue, which is what is
in the buffers and stashes of all places, the last first: `FlattenSeq` of a sequence of
sequences. An item *moves* inside (a take and a put keep the concatenation as it is), *leaves* (at
the front, by the fetch of `GetData`, or in the middle, where `waStep` drops an OTHER item or a step with an error the item it took; any of them when `prStep` runs out of memory), or *enters* at the back (`FeedText`). The lemmas about one place
(what a PU put and kept is what it had and took, in that order) hold for every kind of loop; the lemmas of `PicoInduction` carry them to the
whole chain. That IDLE maps to a quiet pipe is `IdleSound` again.

Only model-checked: `LoopEnds` (liveness) and `MarkedHasInput`, for which no inductive invariant has been worked out.

### PicoCharBuffer

State: `buf`, `rear`, `front` and `len` are the fields of `picodata_char_buffer`. `got` is what a
get wrote to its caller's buffer and `result` the status it returned. `held` is history: the items
inside. The four byte header of an item is shortened to `HeadSize` bytes, of which the last is the
length of the contents; bytes are numbers out of a small set `Byte`, which holds the type
`Frame` of an item of speech data.

A buffer is used in one of two ways, and each is a specification of its own: `CharSpec` for the one
that `pico_putTextUtf8` fills and TOK reads (`CbPutCh`, `CbGetCh`), and `ItemSpec` for the others
(`CbPutItem`, `CbGetItem`, and `CbGetItem` for speech data, `picodata_cbGetSpeechData`, which the engine uses on `cbOut`: it looks at the
type and skips the header). `CbReset` belongs to both. `CbPutItem` is given arbitrary sequences of `Inputs`: ones that hold
more than an item, because `prStep` hands over all of its output buffer (`picopr.c:3361`), and ones that
end in the middle of an item, which the function refuses.

| Run | Instance | Shows |
|---|---|---|
| `ring` | ring of 7, header of 2, every input of at most 4 bytes over {0, 1}; used for items or for characters, by which `MCInit` chooses | `GetsOldest`; refinement of `PicoQueue` in either use |

Bounds. Items have 2 or 3 bytes and the ring 7, a number coprime to both: so `front` and `rear` take every place,
and every item wraps at every one of its bytes, the header included. The ring is filled exactly,
up to one byte, and overfilled.

Proofs. `ItemsAreQueued` and `CharsAreQueued`: for every size of the ring, header, byte set and inputs,
the ring implements the FIFO of `PicoQueue`. `OldestIsGot`: what a get returns is the front of it.
`ItemTypes`: the indices stay inside. The invariant is `TypeOK` with `Framed`, which states without
recursion that the ring holds whole items: there is a function from the items inside to their offsets
that starts at 0, grows by each item's length and ends at `len`. It is needed because `CbGetItem`
trusts the length byte it finds at `front`: that this byte is a length, and that so many bytes are there, holds only because all
puts were of whole items. Every theorem holds for all sizes.

### PicoWave

State: `remaining` is `text_remaining`, a signed 16 bit number, kept modulo `Width`; `inp` the distance the
text pointer has moved; `buffer` the first `bufused` bytes of `pico2wave`'s buffer, in samples; `sdfBuf`
the sound file's. Samples are numbered in the order the engine returns them, so that a lost, repeated or
misplaced one is seen in `file`. `frames` stands for the engine, as `PicoCtrl` shows it to be: it takes
at most its input buffer's size of text (which is empty at that point, after an IDLE), returns the
frames in order, and says IDLE when none is left. A `pico_getData` that answers BUSY with
no data changes nothing here; that the engine does not do so for ever is `LoopEnds` of `PicoCtrl`.

Actions follow `main` from line 285: `OpenOut`, `PutText`, `GetFrame`, `GetIdle`, `GetError`, `PassRemaining`,
`LeaveLoop`, `CloseOut`. `GetError` leaves without closing the file, and with the exit status
of the last `pico_putTextUtf8`, which is 0.

| Run | Instance | Shows |
|---|---|---|
| `wave_file` | `Width` 8, 2 bytes taken at a time, buffers of 2 and 3 samples, frames of 1 and 2, texts of 1 to 10 bytes | `TypeOK`; `CountsText`; `NothingLost`; `FileExact` (`OneChunkExact`, `HeaderTrue`); `Ends` |
| `wave_chunks` | a text in three chunks | expected violation: `NoneTwice` |

Bounds. The lengths of the text are around every boundary of the count: the largest positive value (3), the values that
read as negative (5, 7), a multiple of the width (8, nothing is sent at all) and beyond (10). At most three
frames for a chunk fill both buffers, which have different sizes, past their end and exactly. The cfgs say
`CHECK_DEADLOCK FALSE` because the program ends. Fairness is `WF_vars(Next)`: `main` is sequential and
takes its next step.

Proofs, for all sizes: `TypeCorrect`, `TextIsCounted`, and `FileIsExact` out of `OneChunkIsExact` and `HeaderIsTrue`. The invariant adds to `TypeOK` and
`CountsText` where a file's samples are: `Untouched` (before the file is open nothing is in it), `FileCounted`
(`nrFileSamples` is the length of the file while one is open), and `OneChunk` (during the first chunk, file, file buffer and
buffer together are the numbers 1 to `produced`). `NoSampleIsLost` proves `NothingLost` for texts in any number of chunks, where samples are written twice and only the first writing of each is in
order: `WrittenInOrder` says of file, file buffer and buffer, taken together, what `NothingLost` says of the file. `OrderedAppend` (what is written behind moves nothing) and `OrderedGrow` (a new frame continues the
numbers) are its two steps. Only model-checked: `Ends` (liveness).

### PicoMem

State: the fields of the cell headers, as functions of the cell's address (an offset in the block). Their domain
is the set of cells that exist: a cell that was merged has no header any more, so a read of
a stale one is an error of the run. `nextFree` and `prevFree` of a used cell are `Data`, for the caller
writes there. `usedSize` and `maxUsedSize` are the statistics, `adr` what the last call returned.

`Allocate` is one action: it rounds the size up (`CellSize`), walks the free list to the first cell that fits
(`FirstFit`), takes it whole or splits it. `AllocateFails` returns NULL. `Deallocate` has the four cases of
the code, by which neighbours are free. Its guard is the callers' contract: a cell is given back once, and
only if it was handed out.

| Run | Instance | Shows |
|---|---|---|
| `mem` | block of 57, header of 6 of which 2 stay in a used cell, alignment 2, requests of 1, 5 and 9 | `TypeOK`; `CellsSound` (`Tiled`, `Linked`, `Coalesced`, `AllReturned`, `LongEnough`); `CellsUsable` (`FreeListExact`, `Aligned`); `FailsOnlyIfNoneFits`; refinement of `PicoAlloc` |

Bounds. A header leaves room for up to seven cells besides the sentinels, enough for each merge in the middle of other cells and
for a free list of four in any order. The requests give three cell sizes: the smallest possible, one that leaves too little to
split, and one of two small ones; the block's length is odd, as the program's may be. 24857 states.

Proofs, for every block, header, alignment and set of requests: `CellsTile`, `ListIsLinked`, `NeighboursAreMerged`,
`BlockIsReturned` and `RegionsAreLongEnough`, together `CellsAreSound`; `RegionsAreKept` (the refinement of `PicoAlloc`); `TypeCorrect`. The invariant is
`HeadersOK /\ Overwritten /\ Tiled /\ Linked /\ Acyclic /\ Coalesced`. `Linked` is not inductive by itself: a free cell whose two links
lead to itself satisfies it, and splitting such a cell would not. `Acyclic` excludes that, without recursion: there
is a function from the cells to the numbers that grows along every link. All six ways to change the cells share one lemma about the tiling
(`Merged`; `Split` has its own) and four about the list (`LinksReplaced`, `LinksRemoved`, `LinksKept`, `LinksInserted`).

`CellsAreUsable` puts `FreeListExact` and `Aligned` together. `Walk` is defined by recursion over the links; `WalkSteps` shows that the recursion has a solution
(`IteratesExist`), `WalkClimbs` that it climbs in the order of `Acyclic`, so it cannot return, and `WalkLeaves` that among finitely many cells it must therefore leave the free
ones; a cell that it missed would, followed back by its links, lead to the list's head. `FailsOnlyWhenNoneFits` is a consequence: NULL means that the walk
met no cell that fits. `Aligned` needs a second invariant, `CellsAligned` (addresses and sizes are multiples), and the assumption `AlignedHeaders`: `picoos_newMemoryManager` rounds the size of a
header up, and the part that stays in a used cell is two words. Every property of `mem` is proved.

### PicoRsrc

State: `rsrc` is the list of resources, a function from their handles, with the source of each and its `lockCount`;
`vdefs` the list of voice definitions, the newest first, each with the names of its resources; `engine` the
voice of the only engine; `freeVoices` and `freeVdefs` the free lists; `numResources`, `numVdefs` and `numVoices` the counters
of the C object, kept beside the lists as they are there. A released voice stays on the free list as it is,
with its pointers, for `picorsrc_createVoice` uses it again. `used` counts memory in units, `openFiles` the files open
in the process.

Names are model values: one is too long for a resource (`LongName`, which the code stores as `CutName` before it reports
it) and one for a voice (`LongVoice`). What a file holds is given by `NameOf` and `KbsOf`.

One action per call and per way it can go: `LoadDone`, `LoadTwice` (answered with OK, without a handle), `LoadRefused` (before a
file is open), `LoadBroken` (after that), `LoadKbsFail` (the knowledge bases made so far are lost, for `picorsrc_releaseKnowledgeBase`
only forgets them), `UnloadResource`, `CreateVoiceDefinition`, `AddResourceToVoiceDefinition`, `ReleaseVoiceDefinition`, `NewEngine`,
`NewEngineRefused`, `NewEngineFails` (after the voice was created), `DisposeEngine`, `Initialize` and `Terminate`. Handles are those that
the API gave: what a call does with an invalid one is to refuse it (`picoapi.c`), and is left out.

`PicoStart` is `main` around it: one action per call, then the labels `disposeEngine`, `unloadSgResource`, `unloadTaResource` and
`terminate`, each falling through to the next.

| Run | Instance | Shows |
|---|---|---|
| `rsrc` | 3 files, two of one name, with overlapping knowledge bases; 3 resources, 2 voice definitions of 2 names each; all failures of a load | `TypeOK`; `ListsSound` (`CountsMatch`, `NamesUnique`); `VoiceSound` (`LockCounts`, `VoiceLoaded`, `VoiceComplete`); `NothingLeaks` (`MemoryKept`, `FilesKept`) |
| `rsrc_terminate` | 1 file | expected violation: `TerminateCloses` |
| `units_front` (unit `start`) | 3 languages: one whose files fit, one whose files leave no place for a voice, one whose files have the same name; memory of 10 units | `StartSound` (`EndsClean`, `SuccessIsClean`) |

Bounds. A voice of two names has the default resource and another one, or the default resource twice, which is then locked
twice; one file and the default resource both bring a knowledge base `ids`. Every limit is reached: resources
(`PICO_MAX_NUM_RESOURCES` 3, with the default one), definitions (2), memory (11 units: everything fits once, and
not when something was lost), files (4). Handles are alike, hence the symmetry. The memory of `start`
is exactly what the first language needs.

Proofs, for all files, names, limits and memories: `TypeCorrect`, `CountersMatch`, `LocksCount`, `LocksFit` (so `lockCount`, an
`int8`, is modelled as a number), `VoiceStaysLoaded`, `VoiceIsComplete`, `NamesAreUnique`; `ListsAreSound` and `VoiceIsSound` put them together as the run checks them. The assumptions are `RsrcAssumption`: in particular
at most 127 names in a voice. The invariant is `RInv /\ DInv /\ VInv`: about the resources and their files, the definitions, and the
voices. That a voice stays loaded needs lock counts that are exact, and exact lock counts need that `Unlocked` subtracts from the same
resources that `Locked` added to, which is so only because the voice stayed loaded: neither is inductive alone. That a name is found
needs unique names, and that the default resource is in a voice needs that it is the first name of every definition (`GoodVdef`). The lemmas
`AddedKeeps`, `RemovedKeeps` and `LocksKeep` treat the three ways to change `rsrc`, `MadeVoiceIsGood` the making of a voice and `GoodVoiceKept` what
may happen around it.

`NothingElseLeaks` proves `NothingLeaks`. What is lost is `used` minus what the lists account for, a sum over a set for the resources (`UnitsOf`) and lengths for the
other lists (`InLists`). `UnitsSum` shows that the fold is a sum, `UnitsSame` and `UnitsGrow` what a step makes of it; `Ledger` reduces the property to the differences of
`used`, of the sum and of the lengths, and each call has a lemma that balances them (`LoadDoneLoses`, `UnloadLoses`, `ReleaseVoiceDefinitionLoses`, `EngineLoses`, ...).

`PicoStart`, in the same module: `LadderTakesDown` (`EndsClean`), `SuccessLeavesNothing` (`SuccessIsClean`), together `StartIsSound`. The invariant `StartInv` is the one of `PicoRsrc` with
`Where` (what there is at each place of `main`, which only falls through the labels), `HandlesKept` (the loaded resources are those of which `main` has the handle, and these are two) and `Clean`: as long as `ret` is 0 nothing is lost, but for
the file of a load that gave no handle, which the call that asks for the name notices. It uses those balances call by call, and that a resource not locked can be unloaded, since
the engine was disposed before. The theorems hold for all languages, files and memories. Every property of `rsrc`, and `StartSound`, is proved.

### The units on the side of the text

These modules model what the PUs of the text do with their items; `PicoCtrl` has their loops. They are checked in one
run, `units_front` (module `MCPicoFront`): the variable `unit` is chosen in `MCInit`, a behaviour is about this unit, and the
variables of the other units keep one fixed value. A unit's neighbours are its inputs: texts, phrases, networks, trees. Nothing couples them here, for
they meet only through the items of the char buffers, whose order, fullness and resets `PicoCtrl` and `PicoCharBuffer` treat.

**PicoTok** (`picotok.c`). State: `tok` is the sub object (`markup` is `markupStr`, `name` and `params` what the automaton
read of the tag, `text` the token with `type`, `ignLevel`, `nrEOL`, `saveFile`, `outBuf`), `tokUtf` the bytes of a character that is not complete,
`tokOut` the items. Actions: `TokByte` (`tok_putToUtf`), `TokChar` (`tok_treatChar` with everything it calls: the automaton `tok_putToMarkup`,
`tok_treatMarkup`, `tok_interpretMarkup`, `tok_treatMarkupAsSimpleToken`, `tok_treatSimpleToken`), `TokFlushed`, `TokPut`. A character is a
string and carries the position it was read at; words the code compares letter by letter are one character. Properties: `TokTextKept` and
`TokEmptyTagNeutral`. The texts are all sequences of three out of 22 pieces (marks, blanks, ends of line, half characters, openings and closings of
tags), one text for each kind of tag with valid and invalid values, and tags about as long as `markupStr` (`TokMarkupSize` = 29: the longest tag of the menu just fits) that
come to their end at every kind of character. `TokBufSize` is large enough for every text, so nothing is dropped for want of room in `outBuf` (see "What stays with TLC"). A name in a tag
is shorter than `markupTagName`, and the character that makes a tag too long counts as one place of `markupStr`, however many bytes it has: what the code does otherwise is undefined (section 4).

**PicoBase** (`picobase.c`). `base` holds the string being converted in place, with the reader `i` and the writer `k`; `BaseConvertChar` is one turn
of `base_lowercase_utf8_str` and its upper case sister, `BaseConvertEnd` the terminator. Both case tables are modelled whole, by ranges. `BaseSound` is
`BaseConvertedInPlace` (the writer never gets ahead of the reader, also where the other case is longer or shorter, and the result is the converted
string or as much of it as there is room for), `BaseTablesAgree` and `BaseWalk` (forward and backward steps over a string, and a decoded
character encoded again, agree). About 4600 characters, one by one, and short strings of those that change their length.

**PicoPrText, PicoPr** (`picopr.c`). `PicoPrText` has what PR reads out of a token. `PicoPr` is the unit: `pr.inItems` and `pr.outItems` are
the two lists, `pr.act` and `pr.best` the paths, `pr.rgState` the state of the search, with the context, the production list, the
bindings and the nesting of `ignore` and `phoneme` commands. Actions: `PrGetItem` (`pr_treatItem`, then `pr_processItems`), `PrSearch`, `PrForce` (a full list is put out by
force) and `PrDeliver`. `pr_processItems` contains the whole search (`pr_processToken`, `pr_matchTokens`, `pr_getTokSide`, `pr_getAltToken`, `pr_calcPathCost`) and the output
(`pr_outputPath`, `pr_getOutput`). `PrRomanRead`: Roman numbers from 1 to 3999 are written and read back. `PrCheapest` compares
a search that was not cut short with `PrEnds`, which follows all alternatives in all ways. `PrCommandsKept`: markers of the text come out
once, in order. One network of 16 elements has all kinds of productions: a list of numbers with optional blanks, an ordered tree of strings, a called production, preferences, costs,
and outputs with variables, strings, concatenation and the commands SPEED, PLAY and CONTEXT. Working memory is assumed to suffice.

**PicoTrns** (`picokfst.c`, `picotrns.c`). A transducer is a stream of bytes: `FstStream` writes it as the tools do, and the module reads it back with the code's
own access functions. `trns` is the simple transducer and the search's stack of alternatives; the actions follow `picotrns_transduce`: `AltBeforePairs`,
`AltPair`, `AltBeforeEps`, `AltEps`, `AltBack`, `TransductionFound`, `TransductionEnd`. `TrnsSound` is `TrnsFindsPath` (the answer is the first accepting path in the order of the
definition, or the input if there is none within the bound on paths) and `TrnsEnds`. Five transducers with pairs, epsilon cycles and dead ends,
chained in pairs, on all inputs of up to three symbols and one of four.

**PicoKdt** (`picokdt.c`). `KdtBytes` packs a tree bit by bit as the tools do; `KdtLoad` reads its header, `KdtConstruct` fills the
window of attributes (`kdtPHRconstructInVec`, `kdtACC...`, `kdtPosP...`, `kdtG2P...`), `KdtAsk` answers one node (`kdtAskTree`), `KdtDecompose` maps the class
to what the caller gets. `KdtSound` is `KdtDecides` (what comes out is the leaf that a plain walk of the tree reaches) and `KdtWindow` (what is asked about is the word or the graphemes around
the place, also where they end). Three sets of field widths put every field across a byte at some node.

**PicoLex** (`picoklex.c`, `picowa.c`). `LexBytes` packs a lexicon as the tools do: an index with the first three graphs of each block, then blocks of a fixed size with
entries one after the other. `lex` is one lookup: the lexicon searched, the bounds of the binary search, the place in the blocks. Actions: `LexLookup` and `LexBisect` (`klex_getLexblockNr`), `LexBisected` (the
range of blocks with the same prefix), `LexWalk` and `LexMore` (`klex_lookup`, entry by entry), `WaNextLexicon` (user lexica first, that of the voice last), `WaLexiconFound` and `WaNotFound` (the item that `waStep` makes, with the combined part of speech of
`picoktab.c`). `LexSound` is `LexFound`
(a word has its entries from the first lexicon that knows it, all of them up to four, in order, and each index handed to SA leads to that entry) and `LexInside` (the block searched exists, but for a word in front of all entries or behind first blocks that begin alike). 15 entries, among them
words that share a prefix over block limits, homographs and one that needs graphemes converted, in all layouts over seven blocks of 24 bytes, the last eleven of them in five blocks of which the first begin alike, with a lexicon of the user; words of up to five graphs. Where the first blocks
of all begin alike, the search for the first of them has no end of its own (`picoklex.c:299`): it compares what it reads at the index 65535, outside of the lexicon, and either stops or goes on there, and
`LexFirstAlike` has both outcomes.

**PicoSa** (`picosa.c`). `sa` is the sub object: `headx` with the fillings of `cbuf1` and `cbuf2`, the position in it, the phones of the word in work, `curFst`. Actions follow the states: `SaCollect`, `SaCollected` (a
phrase end is forced when the list is full), `SaDisambBegin` to `SaDisambEnd` (`saDisambPos`: three words of context at either side, past items that are no words), `SaWphoCopy`, `SaWphoGraph`, `SaG2pGraph`, `SaG2pEnd` (`saDoG2P`, from right to left), `SaParse`,
`SaSyllabify` (`picotrns_trivial_syllabify`), `SaFst` (one transducer a step), `SaReplace`, `SaFeed`, and `SaReset`, soft or full, between any two steps. What trees and transducers answer is an input. `SaSound`: `SaPosAsked` and `SaG2pAsked` (what the trees see of the neighbours
is true of the phrase and of this word), `SaG2pMade` (the phones of a word are those of its graphemes, the last ones if room is short), `SaSaidOnce`, `SaOthersKept`, `SaPhonesKept` (syllable boundaries cost no phone) and `SaPassed` (each word passes the transducers in their order, but
for the first after a soft reset). Four texts fill the list of items (6), the first buffer or the second (14), and the buffer of phones (9), each exactly and to overflow.

**PicoAcph** (`picoacph.c`). `acph.headx` is the phrase; what the trees answer is any sequence of `AcphStrengths` and `AcphAccents`, so every
decision is tried. `AcphProcessPhr` and `AcphProcessAcc` are the two passes from right to left, `AcphFeed`, `acphPutBoundItem`, `AcphPutItem`, `AcphOutFull` and `AcphPutPunc` the
feeding over several calls. A read before the array at the first word (line 757) is the choice `stray`. `AcphSound` is `AcphCounts` (what the trees are told
about words and syllables before and after is true of the phrase) and `AcphAsDecided` (what is spoken is what was decided).

### The units on the side of the speech

Checked in one run as well, `units_back` (`MCPicoBack`). SPHO, PAM, CEP and SIG are state machines between two char buffers, and the run has all four with one item in either buffer:
`SphoFeed` puts any item of a menu that the unit above may put there (`SphoMayFollow`, `PamMayFollow`: sentences open with SBEG and end with SEND or TERM, which may
also stand alone), `SphoTake` takes an item, `SphoReset` is a reset of the engine at any point. Items are numbered as they are fed. An action is one case
of the switch over `procState`, or one branch of it; a case that only goes on to another one is part of it. `sphoIn` is read only in COLLECT and `sphoOut` is written only in FEED, so feeding and taking
are tried only there: elsewhere they would commute with the unit's steps.

**PicoSpho** (`picospho.c`). `spho` is the sub object: the window `headx`, the phoneme buffer `phon` with the position each symbol belongs to,
the reading positions, the penultimate phrase bound, the pending break. The nine states are `SphoStepInit`, `SphoCollect`, `SphoParse...`,
`SphoTransduce...`, `SphoBounds...`, `SphoRecomb...`, `SphoSyl`, `SphoFeedOut` and `SphoShift`. What a transducer answers is an input: it may replace the strength of a bound, and drop
or keep phonemes. `SphoBoundsKept`: a primary bound is never made a word bound, and the bounds of a sentence stay. `SphoBreaksKept` (breaks add up and lengthen the bound they precede and no other)
and `SphoFailsOnlyFull` are parts of `BackInOrder`. The window of 5 is the smallest that a sentence with context at both sides can be cut in.

**PicoPam** (`picopam.c`). `pam` has the array of syllables, the queue of items kept with the syllable they precede, the counts of phones and bytes that limit both, and the position of the
walk. Actions: `PamCollect`, `PamSchedule`, `PamStepForward` (`pam_forward_step`), `PamForceTerm` (a sentence that does not fit is ended by force), `PamPreItem`, `PamPhone`, `PamPop`, `PamProcessed`,
`PamImmediate`, `PamFeedOut`. **PicoPamFeat** has the features: some forty counters fed with syllables and bounds, forward and backward,
are the automata of the code, one operator each, and `FeatAsDefined` compares every feature of every syllable with what it is meant to be, defined over the whole sentence. **PicoPhone** has a phone:
the vector the trees are asked about (`PhoneVector`), its frames per state (`PhoneDuration`), pitch, and pauses stretched to a time. `PhoneSound` is
`PhoneVectorOK`, `PhoneNoDrift` (the rests of rounding are carried on, so that a sentence keeps its length whatever the speed) and `PhonePauseLength`. In
`PicoPhone` dMod is a multiple of 1/5.

**PicoCep, PicoKpdf, PicoSmooth** (`picocep.c`, `picokpdf.c`). `cep` has the window of indices into the densities, the items held back with the frame each precedes, and the
ignore state of a signal file. `PicoKpdf` reads densities, dense and sparse, out of bytes. `PicoSmooth` sets up the equations of one coefficient and solves them, row by row, with the fixed point
operations as they are; TLC's integers have 32 bits, as the code's have, and an overflow would stop the run. `SmoothSound` is `SmoothReadsWithin` (a table that
was accepted is read within its bounds), `SmoothEquations` (the matrix is the sum of the weighted outer products of the static, delta and delta-delta windows over voiced and unvoiced frames) and `SmoothSolved`
(the result solves the equations up to `SmoothTolerance`, 64 of 4096ths).

**PicoSig** (`picosig.c`). `sig` is the sub object: `procState` and `retState`, the item being treated, the two items of samples made of it, the file being played with its position, the file being
saved to, and the modifiers. `rings` are the three spectra and five phases between a frame's arrival and its samples: the first frame is loaded until the ring is full, and the samples are made of the oldest spectrum and the
middle phase. What the vocoder computes is the frame it was given. Actions: `SigCollect`, one `SigSchedule...` for each kind of item and command, `SigProcessLoad`, `SigProcessMake`,
`SigPlayFrame`, `SigPlayEnd`, `SigFeedPut`, `SigFeedFull` (which writes to the file before it finds `cbOut` full), `SigFeedError`, `SigReset` (soft or full). `SigSound` is `SigInOrder`, which compares
what was put out with `SigExpected`, defined over the items fed, `SigAligned` (the delay of the phases is that of the spectra) and `SigSaves` (while a file is open, what is heard is in it, in order). A failure of a file, which closes it in the middle, ends what `SigInOrder` says until the next reset.

| Run | Shows |
|---|---|
| `units_front` | `TokTextKept`, `TokEmptyTagNeutral`; `TextSound` (`BaseSound`, `PrRomanRead`); `TrnsSound`; `PrCheapest`, `PrCommandsKept`; `KbSound` (`KdtSound`, `LexSound`); `SaSound`; `AcphSound`; `StartSound` |
| `units_back` | `BackTypeOK` (`SphoTypeOK`, `PamTypeOK`); `BackInOrder` (`SphoInOrder`, `SphoBreaksKept`, `SphoFailsOnlyFull`, `PamInOrder`, `CepGatheredOut`) and `CepInOrder`: whatever windows a sentence is cut into, each item, syllable, phone and frame comes out once, in its place and with its break; `SphoBoundsKept`; `AcousticsSound` (`FeatAsDefined`, `PhoneSound`, `SmoothSound`); `SigSound` (`SigInOrder`, `SigAligned`, `SigSaves`); `BackDelivers` |
| `sa_reset` | expected violation: `SaResetClean` |
| `spho_full` | expected violation: `SphoNoFailure` |

Bounds. Windows, queues and buffers have room for a few items, less than a sentence of the menu may have: so each is filled exactly, overfilled, and cut
in every place. Six items fed are one sentence that overflows and one more, or three short ones. One reset comes at any point. SIG is fed four items: with the three spectra that the rings hold, a frame reaches the loudspeaker behind two others, and a command can come before, between and behind them. Features depend on the
order of syllables and bounds only: four syllables and pauses have all pairs of neighbours of all kinds. Of frames, six make the two off-diagonals overlap at
both ends, and one to three are the code's special case. `SphoPhonCap = 22` holds a cut sentence but not a whole one; with 11 (`spho_full`) it is
full just as a sentence ends.

Fairness. `MCSpec` assumes weak fairness of the unit's steps (`Steps`) and of its reader (`Takes`): `ctrlStep` steps a PU that answered BUSY again,
and the PU behind it after output (`WorkTracked`, `LoopEnds`). Nothing is assumed of feeding and of resets. `BackDelivers` is one
formula for four units, `[]<>` of all that was closed being out; the ends of items that were fed before a reset do not count. It names three
exceptions: a step of SPHO has failed (`spho_full`), PAM has refused an item for want of room, or CEP goes round for ever for an item without room, which is a defect of the code (section 3); `CepInOrder` and
`CepGatheredOut` say that it does so in this case only, and what still comes out then. The cfgs say `CHECK_DEADLOCK FALSE`, because a unit rests once all was fed, and a text ends.

### Proofs about the units

`PicoUnitProofs` has those about TOK, CEP, ACPH and SPHO, `PicoSaProofs` that about SA, `PicoSoundProofs` that about SIG.

**PicoSig**: `SavedIsHeard` proves `SigSound` whole, for rings of any length of which the phases' is longer by two, for all menus, sound files and bounds. `SigAssumption` is what `picodata.h` says of items: a frame tells its phase, items that play or save have a name, which is not empty if it ends in
`.wav`, and modifiers a value. There are two invariants. `SigInvariant` has the first, `SigInv`, for `SigAligned` and `SigSaves`. `RingsAligned` is about the rings as they move: the phase two places behind each spectrum is the one of
its frame, or 0 for an unvoiced one, at any filling and after a soft reset, which keeps the rings. `SigOutAligned` and `SigSaidAligned` carry it to the loudspeaker. `SigFilesWritten` relates the file with what is heard: what is in a
file was heard at its place, or is the frame at the head of `outBuf` while `cbOut` is full (it is written before the put is tried), and places never decrease; what was heard while a file was open is in it. `SigItemsNamed`
gives what `SigFeedError` and the comparison of names rely on: a file being played is not the one being written.

`SigOrderInvariant` has the second, `SigOrder`, for `SigInOrder`. What a frame must sound like depends on all that was fed before it: `SigExpected` looks for the frames, commands and files among all earlier items. So `SigOrder` says of each field of `sig` which of these it stands for: at most one item
is untold, the last one, and it is the one in `cbIn`, `inBuf` or being played (`SigTurn`); the modifiers and the file to save to are those that the items told so far set (`SigSettled`); the ring of spectra is the end of the list that begins with the ring as the last reset left it and goes on with all loads since, in which the first frame stands as often as is needed to fill a ring, or, while it is being
filled, ends as many places before that end as are left to load (`SigSpectra`, `SigFilling`); and what was put out, with what waits in `outBuf`, is what `SigExpected` asks for up to the item told last, with the frames played so far behind it (`SigTells`). `SigExpected` has no recursion of its own but `FlattenSeq`, and its lemmas say what one more
item adds (`LoadsNext`, `ModsNext`, `SavedNext`, `ExpectedNext`).

**PicoTok**: `EmptyTagsAreNeutral` proves the action property `TokEmptyTagNeutral` for all texts, sets of files and sizes of the markup's buffer (more than one, `TokAssumption`; the code has
1275). It is about the two halves of `tok_treatMarkup`, which treats an empty tag as a start and an end: the end must undo what the start did, and the branches of `tok_interpretMarkup` are compared tag by tag (`StartKeeps`, `StopKeeps`). The
invariant is `TokInvariant` (theorem `TokInvariantHolds`): between two characters no tag is complete or in error, markup is kept in a tag only, and the level of
what is ignored is a number. `tok_treatMarkupAsSimpleToken` folds over the markup character by character; `TokFoldExists`, `FoldIs` and `FoldKeeps` show what any such fold preserves.

**PicoCep**: `CepKeepsOrder` proves `CepInOrder` (once its turn comes, a frame or item goes out, in the order it came in, none lost and none twice) for all menus, window lengths and numbers of items that can be held, full windows, queues and
char buffers, and resets. `CepAssumption` says that a phone names how many frames each of its states lasts. `CepInvariant` is the invariant, `CepInv`: the frames and items fit what there is room for (`CepFields`), one item at most waits to be looked
at (`CepItems`), and `CepOrder` says where everything is to go. The window and the items held back are two queues which came from one, so the invariant gives each its place in what is still to be said: the frame `i` stands behind `i - 1` frames and the items held for
one of those (`CepPlaced`, by `CepSplits`); how far both have been read is `CepReached`; and what was said is what has to be said up to there (`CepSaidRight`). `NextItem` and `NextFrame` are the two ways to go on, and the place is the same from both sides because an item
is due exactly when no earlier frame is left (`CepHeadDue`). A sentence that does not fit (`jammed`) keeps the first two parts only. What `CepInOrder` says of it, that the unit goes round for ever then and
only then, for an item that there is no room for (`CepGoesRound`), is an invariant of its own, `CepRound` (`CepRoundInvariant`): a turn through SMOOTH, FRAME, FEED and PARSE leaves the item, the window and the list as they are.

**PicoAcph**: `AcphSpeaksAsDecided` proves `AcphSound` whole, for all phrases, answers of the trees, full buffers and values of the `stray` read. `AcphAssumption` is what SA gives: a phrase is not empty, it ends with its punctuation and has none inside. `AcphInvariant` is the
invariant, `AcphInv`. The two passes are folds from right to left; `AcphFoldExists` and `FoldChain` turn each into a chain of turns, `PhrStepKeeps` and `AccStepKeeps` are what a turn keeps: the words, phrases and syllables counted so far are
those to the right of the place (`SubPhrased`, `FootAsked`), and only the place's own item is touched (`Alike`). At the end of a pass the counts are therefore those of `AcphCounts`, and the phrase is `Planned` or accented. While it is fed, `Fed` and `Started` say that what is out is
what the decided phrase tells up to the item to be fed next: with the boundary before it or without, for a buffer may fill up between the two (`FedBound`, `FedItem`, `FedFull`).

**PicoSpho**: `SphoKeepsBounds` proves `SphoBoundsKept` for windows, contents and phoneme buffers of any size, all sequences of items, all answers of the transducers, full char buffers, and soft and full resets between any two steps. `SphoAssumption` says that items have the fields of an item head and that
a bound has one of the strengths of `picodata.h:173-179`. `SphoInvariant` is the invariant, `SphoInv`. A bound passes four hands before it is put out (the transducers' result, the strength as a side bound of the item behind it, the shift of the window, and the buffer of FEED), and the strength it is given is that of the item it was made of, which may be
several steps or a window back. So `SphoInv` says of each of these places which item it belongs to: items are numbered as they were fed (`SphoFedWell`); each cell of the window holds one of them, with no side bound or one that is right for that item
(`SphoCells`, `SphoRightBound`); the positions with which the states work lie in the window (`SphoPlaces`), for otherwise a shift would leave them pointing at another item; and what waits in `cbIn`, in `outBuf` and in `cbOut` is right (`SphoWaits`, `SphoTells`). `SphoStrengthRight` is about `fstModifiedBoundStrength` with the break on top, `SphoSideKeeps` about
`setSideBound`, which also writes into the cell of the bound before, `SphoCollectKeepsAll` about the loop of COLLECT, which is a fold (`SphoFoldIs`), and `SphoShiftedCells` about the shift. Each action has a lemma.

**PicoSa**: `SaSpeaksAsTold` proves `SaSound` whole, for all texts, answers of the trees and transducers, sizes of the buffers and soft or full resets between any two steps. `SaAssumption` is what SA is fed with: items have a number of their own and contents of their
kind, a word has a part of speech and at least one entry if the lexicon knows it (`picodata.h:252-263`), the tree can be asked about its graphemes, and no end of a word is a vowel. `SaInvariant` is the invariant, `SaInv`, whose parts are each a section of the module, with one lemma for each
action:

- `SaTypes`: what each field holds in each state; `SaSound` could not be evaluated without it.
- `SaLine`: the numbers of what was said, of the word in work and of `headx`, with the items that SA inserts left out, are those of the items fed so far that were kept. Every action adds an item at its end, moves one along or leaves the line as it is, so what `SaSaidOnce` speaks of is the beginning of it.
- `SaPassing`: the word in work has passed the transducers up to `curFst`, from the first on but for the first word after a soft reset, and only if `phonBuf` has room for it; of this `SaPassed` and `SaOthersKept` are the case of a word put out.
- `SaDividing`: a word of a voice without transducers has the phones of its item but for boundaries and stresses, wherever they are: untouched in `phonBuf` before it is divided, and in what is fed after. The turns of `picotrns_trivial_syllabify` are a recursive function (`turn`), which `SaTurnsExist` and `SaTurnsChosen` unroll; `SaSoFar` is what
  holds between two of them: what was put out has the phones up to the place reached, and there is one boundary fewer than vowels were passed, so that the room for one symbol a vowel, which `SaRoomy` words leave, lasts (`SaTurnGoesOn`).
- `SaLooking`: from the place on at which the tree for parts of speech stands, the phrase is as it was collected, and its window, one shift before the next word is asked about, has the last three decisions and the next three words (`SaWindow`); `SaWindowMoves` shows that one shift per word keeps it so, past commands and to both ends. `SaPosAsked`
  follows for each question asked.
- `SaMaking`: the phones of the word in work are the last ones that fit of the answers to the graphemes asked about so far, and each was asked about with the last three of these and with whether a stress is among them; no word further on has been asked about. `SaG2pMade` is this after the first grapheme.

`SaPosAsked`, `SaG2pMade` and the like select elements of the history by a test. They do so with `ElementsAt` (`PicoSeq`), a set of places for the test, because `SelectSeq` takes an operator as a parameter and so has no lemmas; `ElementsNext`, `ElementsJoin` and
`ElementsPrefix` (`PicoInduction`) are its induction.

What stays with TLC, and why:

- `LoopEnds`, `Ends` and `BackDelivers` are liveness; `MarkedHasInput` has no proof yet.
- `TrnsSound`, `PrCheapest` and `PrCommandsKept`: `PicoTrns` and `PicoPr` use recursive operators, and the definitions they are compared with (all paths, all alternatives) are
  recursive by nature.
- `TextSound` and `KbSound` compare an encoding with its decoding (UTF-8 and the case tables, Roman numbers, trees and lexica packed into bits and bytes). They are statements about computations on given data, which TLC enumerates; a proof
  would be by induction over strings, trees and bits.
- `AcousticsSound`: the equations and the features are folds over folds, the equations in fixed point numbers; a proof would be one of the arithmetic.
- `TokTextKept` is not true for every value of the constants. What `outBuf` has no room for is dropped (`tok_putItem`), and a long tag that turns out to be text is put there at once: the theorem would need sizes that relate `outBuf` to all texts.
- `BackTypeOK` and `BackInOrder`: for PAM they rest on what an item weighs. An item may have up to 255 bytes, the code leaves room for a frame and 4, and only the menu of the run says that it fits. For SPHO an invariant would have to
  count the symbols in the phoneme buffer item by item.
- `SphoInOrder`, `SphoBreaksKept` and `SphoFailsOnlyFull` are not true for every value of the constants. COLLECT takes an item out of `cbIn` before it knows whether there is room for its contents, and loses it if there is not
  (`picospho.c:996-1009`): `headx` has 60 places and `cbuf` room for 30 contents of 255 bytes. TLC shows the loss with `SphoCbufCap = 4`. `SphoBoundsKept` is true with it and without.

## 3. Findings

- `wave_chunks`: the comment at `pico2wave.c:354` says that the remaining samples are passed on at the end of
  a chunk. They are written, but `bufused` is not set back as it is at line 348, so they are written again with
  the next chunk. A text of more than `PICODATA_BUFSIZE_TEXT` bytes gets such repetitions at its seams.
- `rsrc_terminate`: `picoapi.h:216` says that resources still loaded are unloaded by `pico_terminate`.
  `picorsrc_disposeResourceManager` unloads none: their memory goes with the block, but their files stay open.
- `spho_full`: `picospho.c:1100` does not look at the result of `sphoAddTermPhonemes`. When the phoneme buffer is full as a sentence
  ends, the symbol of its end is lost, and BOUNDS, which expects one (the comment at line 1320), fails: the step answers ERROR from then on, until a reset.
- `sa_reset`: the comment at `picosa.c:298` says that what follows the return of `saInitialize` is needed only at startup and after a full reset. `curFst`, which is set there
  (line 310), is needed after a soft one too: `saStep` returns after each transducer (line 1668), and a soft reset at such a place makes the first word of the next text lack the transducers that the word given up had passed.

These disagreements are no runs of their own:

- The comment at `pico2wave.c:309` says that the text is split as needed. `text_remaining` is a `pico_Int16` (line 197), so of a longer text only the length
  modulo 65536 is sent, and the exit status is 0. `CountsText` has the count that is kept.
- `picoos_sdfOpenOut` returns TRUE when the file cannot be created (`picoos.c:1776` raises the exception and leaves `done` as it is), so `pico2wave` synthesizes into nothing and
  exits with 0: the outcome "create" of `OpenOut`.
- The rule at `picoctrl.c:136-137`, that all PUs after the current one are idle except possibly the next, does not hold after a reset in
  mid-sentence, for `picoctrl_engReset` sets `curPU` to 0 and leaves `procStatus` as it was: `BelowIdleUntilReset` is the part of it that
  holds, and `WorkTracked` and `IdleSound` show that the control survives the rest.
- A second load of a resource, at `picorsrc.c:587` said to do nothing, leaves the file that it opened open, as does any load that fails
  after `picoos_OpenBinary`: `picorsrc_disposeResource` does not close it. `FilesKept` allows exactly these.
- Of a word with more symbols than the phoneme buffer holds, the comment at `picospho.c:1170-1172` says that it is skipped when the buffer has no other contents. It is
  not: the word is tried again with an empty buffer. The menu of `units_back` has no such word.
- The loop at `picopam.c:623-627` writes `sil_weights[j][j]` where its table has a row for each kind of bound: only the diagonal is set, from the last row, so a pause is stretched in
  one state. `PhonePauseLength` holds for these weights and for the ones meant.
- The comment at `picopam.c:4552` says that the SBEG inserted after a forced end takes its types from the previous sentence; `pam_reset_processors`, called
  at line 4551 just before, has set both to 0 (line 2968): a question that is cut goes on as a declarative one.
- When the items of a sentence do not fit into the list of held items, CEP starts to put frames out in the middle of the sentence (`picocep.c:1672-1677`) with `activeEndPos` still at its initial value, so frames
  are made of indices that were never set. And it never ends: SMOOTH and FRAME put all frames of the window out and go back to PARSE, where nothing has been set back (lines 1904-1908), the item is still there and finds no
  room again. The unit goes round until the engine is reset, with the same frames over and over. `cep.jammed` records it, `CepGoesRound` says how it stays so, and `BackDelivers` excepts it. The model counts the frames said up to `CepMaxSaid`.
- `picoapi.h:421-422` says that a reset clears all internal buffers. A soft one (`picosig2.c:490`, called from line 181 of `picosig.c`) leaves the rings of SIG as they are: the next text begins with up to two
  frames of the one that was given up. `SigLoads` has them in front, by `sigPast`.
- `sigInitialize` (`picosig.c:142`, `147`) forgets the sound files that are open without closing them: a file being saved to at a reset never gets its header.
- A frame that finds `cbOut` full has already been written to the sound file (`picosig.c:1196-1206`), and is written again when the step is tried again: `SigSaves` allows the repetition.
- A phonetic string that the transducers do not accept goes on as it is (`picotrns.c:535-544`), while `picodata.c:924` expects an error then and would warn.
- `picokdt.h:393` says that the words to the right are counted up to the next bound. `acphAccGetNrsRight` (`picoacph.c:702`) stops at the first item whose strength is not PHR0, and
  that of a command was never set, so a command inside a phrase hides the words behind it from the tree. `AcphCounts` counts as the code does.
- The comment at `picotok.c:1350-1351` says that a string which turns out to be no tag is treated "up to (but not including) current char". When the tag is too long, `tok_putToMarkup` has put the character into `markupStr` before it is found out
  (lines 1074-1078 and 1235-1237, for `markupTagErr` is MENone), so it is treated with the string, and again after it: it is spoken twice. `TokTextKept` allows a second time for this character alone (`TokTooLongAt`).
- The assertion at `picoklex.c:513` does not hold for a word in front of the first block, for which the number of the block is 65535; the search then goes on outside of the lexicon, and the model stops. `LexInside` has exactly this case.
- SA asks whether a full item would still fit (`picosa.c:1289`) before it reads one; when the items before have left less, the item read does not fit, is dropped and `saStep` raises an error. `saTold.lost` has these items.
- `picotrns_trivial_syllabify` drops a stress in front of the first vowel, so its assertion (`picotrns.c:277`) on the length of its output fails; and a word that leaves no room for its boundaries is fed with what an earlier word left in `phonBufOut`. `SaPhonesKept`
  is about the words with room, and without their stresses.
- The comment at `picokdt.c:211-212` says that the output table of a tree may be empty; the check at lines 405-416 refuses such a tree.

## 4. Not modelled

- **Signal kernels** (`picosig2.c`, `picofftsg.c`, 7400 lines): a vocoder and a split-radix FFT over vectors of 32 bit fixed point numbers. There is no control in them, the sums
  leave the 32 bits of TLC's integers, and no property smaller than the signal itself exists. Of SIG, the items it refuses as invalid and phase indices out of range.
- **The small tables** (`picoktab.c`): what is a vowel, a stress or a boundary is a set in the modules that ask; the combined parts of speech are in `PicoLex`.
- **What the lingware says**: trees, transducers, densities and networks of the runs are small ones made for the purpose. The real ones
  are data.
- **PR's memory**: its two allocators, and the limit of work in one step; a step that runs out of memory is in `PicoCtrl`. **PAM's** allocation.
- **The pitch's second pass** in two-word numbers (`picocep.c`, LFZ with `MGCDOUBLEDEC`).
- **The exception manager** (`picoos.c` 620-890): one function writes, the application reads. A property would restate an assignment.
- **Writes beyond an array** that C leaves undefined, where no check precedes them: a tag with more than six attributes, a name in a tag with more letters than `markupTagName` has room for (`picotok.c:1112` and `1123-1125`: 255 places, but up to 1274 letters), a character of several bytes at the end of `markupStr` (lines 1235-1239, and of
  one byte the terminating zero), a single token that does not fit `outBuf`, a word with more than 259 phones in `saDoG2P`, an index into
  the lexicon that leads nowhere.
  What the program does then is not defined by its source. Where the code reads such a place (`picoacph.c:757`), the model has either value.
- **I/O**, debug output, the command line, the Android glue (`src/pico`), lingware tools: see "components" in `PROJECT.json`.

## 5. Plan

Done: control, buffers, loop and sound file, memory, resources, start-up; the units from TOK to SIG. To do, in this order:

1. PR's allocators and its work limit, as a component beneath `PicoPr`: that a search that runs out of memory leaves its lists whole.
2. More proofs about the step machines: `SphoTypeOK` is close to inductive; `SphoInOrder` needs the places of the symbols, as `CepOrder` has those of the frames; `PamInOrder` the weights of the items first.
3. The composition of SPHO, PAM, CEP and SIG in one run, with the buffers of `PicoCharBuffer` between them.
