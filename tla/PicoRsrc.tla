------------------------------ MODULE PicoRsrc ------------------------------
(***************************************************************************)
(* The resource manager (picorsrc.c) and the system-level functions of the *)
(* API in front of it: resource files are loaded and unloaded, voice       *)
(* definitions list resources by name, and an engine holds a voice, which  *)
(* locks the resources that its definition lists.                          *)
(*                                                                         *)
(* A list of the C code is a function from handles (the resources), a      *)
(* sequence with the head first (voice definitions, free voices), or a     *)
(* count where nothing reads the contents (free voice definitions).  The   *)
(* memory of a system is counted in units: one for a resource with its     *)
(* contents, a knowledge base, a voice, a voice definition and an engine   *)
(* with its memory.  The record of a file is counted with the open files.  *)
(***************************************************************************)
EXTENDS Integers, Sequences, FiniteSets, FiniteSetsExt

CONSTANTS
  Handles,      \* addresses of resources
  Files,        \* resource files
  Default,      \* what the default resource is made from
  Names,        \* resource names that fit a resource_name_t
  NameOf,       \* the name in the header of a file
  KbIds,        \* picoknow_kb_id_t
  KbsOf,        \* the knowledge bases in a file
  LongName,     \* a resource name of PICORSRC_MAX_RSRC_NAME_SIZ or more bytes
  CutName,      \* what picoos_strlcpy makes of it
  VoiceNames,   \* voice names that fit
  LongVoice,    \* one that does not
  PICO_MAX_NUM_RESOURCES,
  PICO_MAX_NUM_VOICE_DEFINITIONS,
  PICO_MAX_NUM_RSRC_PER_VOICE,
  PICORSRC_MAX_NUM_VOICES,
  Memory,       \* the units of memory given to pico_initialize
  MaxFiles,     \* how many files the operating system lets be open
  Faults,       \* the failures of a load that are looked at
  NULL

Sources == Files \cup {Default}

\* picorsrc_voice_t: resourceArray and kbArray
Voice == [rs : Seq(Handles), kb : [KbIds -> Handles \cup {NULL}]]

ASSUME RsrcAssumption ==
  /\ Default \notin Files
  /\ NameOf \in [Sources -> Names] /\ CutName \in Names /\ LongName \notin Names
  /\ KbsOf \in [Sources -> SUBSET KbIds] /\ IsFiniteSet(KbIds)
  /\ LongVoice \notin VoiceNames
  /\ PICO_MAX_NUM_RESOURCES \in Nat \ {0}
  /\ PICO_MAX_NUM_VOICE_DEFINITIONS \in Nat \ {0}
  /\ PICO_MAX_NUM_RSRC_PER_VOICE \in 1 .. 127
  /\ PICORSRC_MAX_NUM_VOICES \in Nat \ {0}
  /\ Memory \in Nat /\ MaxFiles \in Nat
  /\ NULL \notin Handles /\ NULL \notin Voice

VARIABLES
  up,           \* whether there is a system
  rsrc,         \* resources: a function from the handles of the loaded ones
  numResources,
  vdefs,
  numVdefs,
  freeVdefs,    \* how many voice definitions the free list holds
  engine,       \* the voice of system->engine, or NULL
  numVoices,
  freeVoices,
  used,         \* units of memory in use
  openFiles,    \* how many files are open
  status        \* what the last call returned

rsrcVars  == <<rsrc, numResources>>
vdefVars  == <<vdefs, numVdefs, freeVdefs>>
voiceVars == <<engine, numVoices, freeVoices>>
vars == <<up, rsrcVars, vdefVars, voiceVars, used, openFiles, status>>

Statuses == {"OK", "NOMEM", "MAX", "FAILED", "BUSY", "CONFLICT", "UNDEFINED", "ILLEGAL",
             "MISSING"}

TypeOK ==
  /\ up \in BOOLEAN
  /\ DOMAIN rsrc \subseteq Handles
  /\ rsrc \in [DOMAIN rsrc -> [file : Sources, lockCount : Int]]
  /\ numResources \in 0 .. PICO_MAX_NUM_RESOURCES
  /\ vdefs \in Seq([name : VoiceNames, rs : Seq(Names)])
  /\ numVdefs \in 0 .. PICO_MAX_NUM_VOICE_DEFINITIONS
  /\ freeVdefs \in Nat
  /\ engine \in Voice \cup {NULL}
  /\ numVoices \in 0 .. PICORSRC_MAX_NUM_VOICES
  /\ freeVoices \in Seq(Voice)
  /\ used \in Int /\ used <= Memory
  /\ openFiles \in 0 .. MaxFiles
  /\ status \in Statuses

-----------------------------------------------------------------------------
(* Helpers. *)

Loaded == DOMAIN rsrc
Name(h) == NameOf[rsrc[h].file]
Kbs(h)  == KbsOf[rsrc[h].file]

\* Mutation of IsLoaded: the default resource only is found.
DefaultLoaded(n) == n = NameOf[Default]

\* isResourceLoaded
IsLoaded(n) == \E h \in Loaded : Name(h) = n

\* findResource, for a name that is there
FindResource(n) == CHOOSE h \in Loaded : Name(h) = n

\* findVoiceDefinition; no two have the same name (NamesUnique)
Defined(v) == \E i \in DOMAIN vdefs : vdefs[i].name = v
Vdef(v) == CHOOSE i \in DOMAIN vdefs : vdefs[i].name = v

Cut(n) == IF n = LongName THEN CutName ELSE n

\* Mutation of Fits: one unit too many.
FitsNearly(n) == used + n <= Memory + 1

Fits(n) == used + n <= Memory

\* How often the voice v uses the resource h.
Uses(v, h) == Cardinality({i \in DOMAIN v.rs : v.rs[i] = h})

\* A call that returns s and does nothing else.
Answer(s) == status' = s /\ UNCHANGED <<up, rsrcVars, vdefVars, voiceVars, used, openFiles>>

-----------------------------------------------------------------------------
(* Resources. *)

(***************************************************************************)
(* picorsrc_loadResource gives up before it has a file: no memory, too     *)
(* many resources, the wrong extension, or a file that cannot be opened.   *)
(***************************************************************************)
LoadRefused ==
  /\ up
  /\ \/ ~Fits(1) /\ Answer("NOMEM")
     \/ Fits(1) /\ numResources >= PICO_MAX_NUM_RESOURCES /\ Answer("MAX")
     \/ Fits(1) /\ numResources < PICO_MAX_NUM_RESOURCES /\ Answer("FAILED")

\* What precedes an open file in picorsrc_loadResource.
Opens ==
  /\ up /\ Fits(1) /\ numResources < PICO_MAX_NUM_RESOURCES /\ openFiles < MaxFiles
  /\ openFiles' = openFiles + 1

\* The header or the contents cannot be read, or do not fit.
LoadBroken ==
  /\ "broken" \in Faults
  /\ Opens
  /\ status' = "FAILED"
  /\ UNCHANGED <<up, rsrcVars, vdefVars, voiceVars, used>>

\* A resource of that name is there: a warning, and no handle.
LoadTwice(f) ==
  /\ Opens
  /\ IsLoaded(NameOf[f])
  /\ status' = "OK"
  /\ UNCHANGED <<up, rsrcVars, vdefVars, voiceVars, used>>

\* picorsrc_getKbList fails when it made n knowledge bases.
LoadKbsFail(f, n) ==
  /\ "kbs" \in Faults
  /\ Opens
  /\ ~IsLoaded(NameOf[f])
  /\ n \in 0 .. Cardinality(KbsOf[f]) /\ Fits(1 + n)
  /\ used' = used + n
  /\ status' = "FAILED"
  /\ UNCHANGED <<up, rsrcVars, vdefVars, voiceVars>>

\* The system has one more resource, h, made from f.
Added(h, f) ==
  /\ rsrc' = [x \in Loaded \cup {h} |->
                IF x = h THEN [file |-> f, lockCount |-> 0] ELSE rsrc[x]]
  /\ numResources' = numResources + 1
  /\ used' = used + 1 + Cardinality(KbsOf[f])

LoadDone(h, f) ==
  /\ Opens
  /\ ~IsLoaded(NameOf[f])
  /\ Fits(1 + Cardinality(KbsOf[f]))
  /\ h \in Handles \ Loaded
  /\ Added(h, f)
  /\ status' = "OK"
  /\ UNCHANGED <<up, vdefVars, voiceVars>>

\* Mutation of MayUnload: more than one lock is.
MayUnloadLast(h) == rsrc[h].lockCount <= 1

MayUnload(h) == rsrc[h].lockCount <= 0

\* Mutation of Remaining: the list is cut at h.
RemainingAll(h) == {x \in Loaded : rsrc[x].file = Default}

Remaining(h) == Loaded \ {h}

\* picorsrc_unloadResource; the application has no handle of the default resource.
UnloadResource(h) ==
  /\ up /\ h \in Loaded /\ rsrc[h].file # Default
  /\ \/ ~MayUnload(h) /\ Answer("BUSY")
     \/ /\ MayUnload(h)
        /\ rsrc' = [x \in Remaining(h) |-> rsrc[x]]
        /\ numResources' = numResources - 1
        /\ used' = used - 1 - Cardinality(Kbs(h))
        /\ openFiles' = openFiles - 1
        /\ status' = "OK"
        /\ UNCHANGED <<up, vdefVars, voiceVars>>

-----------------------------------------------------------------------------
(* Voice definitions. *)

\* Mutation of TakeVdef: the free list keeps what was taken from it.
TakeVdefAgain ==
  IF freeVdefs > 0 THEN UNCHANGED <<freeVdefs, used>>
                   ELSE used' = used + 1 /\ UNCHANGED freeVdefs

\* A voice definition is taken from the free list or allocated.
TakeVdef ==
  IF freeVdefs > 0 THEN freeVdefs' = freeVdefs - 1 /\ UNCHANGED used
                   ELSE used' = used + 1 /\ UNCHANGED freeVdefs

(***************************************************************************)
(* picorsrc_createVoiceDefinition.  The definition lists the default       *)
(* resource.  With a name that is too long it is taken but put on no list. *)
(***************************************************************************)
CreateVoiceDefinition(v) ==
  /\ up
  /\ \/ Defined(v) /\ Answer("CONFLICT")
     \/ ~Defined(v) /\ numVdefs >= PICO_MAX_NUM_VOICE_DEFINITIONS /\ Answer("MAX")
     \/ /\ ~Defined(v) /\ numVdefs < PICO_MAX_NUM_VOICE_DEFINITIONS
        /\ freeVdefs = 0 /\ ~Fits(1) /\ Answer("NOMEM")
     \/ /\ ~Defined(v) /\ numVdefs < PICO_MAX_NUM_VOICE_DEFINITIONS
        /\ freeVdefs > 0 \/ Fits(1)
        /\ TakeVdef
        /\ IF v = LongVoice
           THEN status' = "ILLEGAL" /\ UNCHANGED <<vdefs, numVdefs>>
           ELSE /\ vdefs' = <<[name |-> v, rs |-> <<NameOf[Default]>>]>> \o vdefs
                /\ numVdefs' = numVdefs + 1
                /\ status' = "OK"
        /\ UNCHANGED <<up, rsrcVars, voiceVars, openFiles>>

HasPlace(i) == Len(vdefs[i].rs) < PICO_MAX_NUM_RSRC_PER_VOICE

(***************************************************************************)
(* picorsrc_addResourceToVoiceDefinition.  A name that is too long is      *)
(* reported, but its cut form is in the list by then.                      *)
(***************************************************************************)
AddResourceToVoiceDefinition(v, n) ==
  /\ up
  /\ \/ ~Defined(v) /\ Answer("UNDEFINED")
     \/ Defined(v) /\ ~HasPlace(Vdef(v)) /\ Answer("MAX")
     \/ /\ Defined(v) /\ HasPlace(Vdef(v))
        /\ vdefs' = [vdefs EXCEPT ![Vdef(v)].rs = Append(@, Cut(n))]
        /\ status' = IF n = LongName THEN "ILLEGAL" ELSE "OK"
        /\ UNCHANGED <<up, rsrcVars, numVdefs, freeVdefs, voiceVars, used, openFiles>>

\* Mutation of Without: what follows is dropped, too.
WithoutRest(i) == SubSeq(vdefs, 1, i - 1)

\* The list of voice definitions without its element i.
Without(i) == SubSeq(vdefs, 1, i - 1) \o SubSeq(vdefs, i + 1, Len(vdefs))

\* picorsrc_releaseVoiceDefinition
ReleaseVoiceDefinition(v) ==
  /\ up
  /\ \/ ~Defined(v) /\ Answer("OK")
     \/ /\ Defined(v)
        /\ vdefs' = Without(Vdef(v))
        /\ freeVdefs' = freeVdefs + 1
        /\ numVdefs' = numVdefs - 1
        /\ status' = "OK"
        /\ UNCHANGED <<up, rsrcVars, voiceVars, used, openFiles>>

-----------------------------------------------------------------------------
(* Voices and the engine. *)

\* Mutation of CleanVoice: a voice of the free list is used as it is.
StaleVoice ==
  IF freeVoices = <<>> THEN [rs |-> <<>>, kb |-> [k \in KbIds |-> NULL]]
                       ELSE [Head(freeVoices) EXCEPT !.rs = <<>>]

\* picorsrc_initializeVoice
CleanVoice == [rs |-> <<>>, kb |-> [k \in KbIds |-> NULL]]

\* The resources that the names ns stand for, in that order.
Resources(ns) == [i \in DOMAIN ns |-> FindResource(ns[i])]

\* Where the voice v has its knowledge bases when it lists the resources rs: a later one wins.
KbArray(v, rs) ==
  [k \in KbIds |->
     IF \E i \in DOMAIN rs : k \in Kbs(rs[i])
     THEN rs[CHOOSE i \in DOMAIN rs : k \in Kbs(rs[i]) /\ \A j \in i + 1 .. Len(rs) : k \notin Kbs(rs[j])]
     ELSE v.kb[k]]

\* The voice that picorsrc_createVoice makes for the names ns.
MadeVoice(ns) == [rs |-> Resources(ns), kb |-> KbArray(CleanVoice, Resources(ns))]

VoicesLeft == IF freeVoices = <<>> THEN <<>> ELSE Tail(freeVoices)

\* The memory that a new voice takes.
VoiceUnits == IF freeVoices = <<>> THEN 1 ELSE 0

\* The lock counts when the voice v was created.
Locked(v) == [h \in Loaded |-> [rsrc[h] EXCEPT !.lockCount = @ + Uses(v, h)]]

\* ... and when it was released.
Unlocked(v) == [h \in Loaded |-> [rsrc[h] EXCEPT !.lockCount = @ - Uses(v, h)]]

(***************************************************************************)
(* What stops picorsrc_createVoice, called when the engine's own memory    *)
(* (one unit) was allocated.                                               *)
(***************************************************************************)
CreateVoiceStatus(v) ==
  CASE numVoices >= PICORSRC_MAX_NUM_VOICES -> "MAX"
    [] numVoices < PICORSRC_MAX_NUM_VOICES /\ ~Defined(v) -> "UNDEFINED"
    [] numVoices < PICORSRC_MAX_NUM_VOICES /\ Defined(v) ->
         IF \E i \in DOMAIN vdefs[Vdef(v)].rs : ~IsLoaded(vdefs[Vdef(v)].rs[i]) THEN "MISSING"
         ELSE IF Fits(1 + VoiceUnits) THEN "OK" ELSE "NOMEM"

\* pico_newEngine fails before it has a voice.
NewEngineRefused(v) ==
  /\ up
  /\ \/ engine # NULL /\ Answer("MAX")
     \/ engine = NULL /\ ~Fits(1) /\ Answer("NOMEM")
     \/ /\ engine = NULL /\ Fits(1)
        /\ CreateVoiceStatus(v) # "OK" /\ Answer(CreateVoiceStatus(v))

\* Mutation of ReleaseAfterFailure: the locks stay.
ForgetLocks(v) ==
  /\ rsrc' = Locked(v) /\ freeVoices' = <<v>> \o VoicesLeft
  /\ used' = used + VoiceUnits

\* picoctrl_newEngine releases the voice and the memory when the control cannot be made.
ReleaseAfterFailure(v) ==
  /\ rsrc' = rsrc /\ freeVoices' = <<v>> \o VoicesLeft
  /\ used' = used + VoiceUnits

NewEngineFails(v) ==
  /\ up /\ engine = NULL /\ Fits(1) /\ CreateVoiceStatus(v) = "OK"
  /\ ReleaseAfterFailure(MadeVoice(vdefs[Vdef(v)].rs))
  /\ status' = "NOMEM"
  /\ UNCHANGED <<up, numResources, vdefVars, engine, numVoices, openFiles>>

NewEngine(v) ==
  /\ up /\ engine = NULL /\ Fits(1) /\ CreateVoiceStatus(v) = "OK"
  /\ engine' = MadeVoice(vdefs[Vdef(v)].rs)
  /\ rsrc' = Locked(engine')
  /\ freeVoices' = VoicesLeft
  /\ numVoices' = numVoices + 1
  /\ used' = used + 1 + VoiceUnits
  /\ status' = "OK"
  /\ UNCHANGED <<up, numResources, vdefVars, openFiles>>

\* pico_disposeEngine: picorsrc_releaseVoice, then the engine's memory.
DisposeEngine ==
  /\ up /\ engine # NULL
  /\ engine' = NULL
  /\ rsrc' = Unlocked(engine)
  /\ freeVoices' = <<engine>> \o freeVoices
  /\ numVoices' = numVoices - 1
  /\ used' = used - 1
  /\ status' = "OK"
  /\ UNCHANGED <<up, numResources, vdefVars, openFiles>>

-----------------------------------------------------------------------------
(* The system. *)

\* pico_initialize; the memory suffices for the default resource.
Initialize(h) ==
  /\ ~up /\ Fits(1 + Cardinality(KbsOf[Default]))
  /\ Added(h, Default)
  /\ up' = TRUE
  /\ status' = "OK"
  /\ UNCHANGED <<vdefVars, voiceVars, openFiles>>

(***************************************************************************)
(* pico_terminate disposes the engine and the resource manager; the files  *)
(* of the resources that are still loaded stay open.                       *)
(***************************************************************************)
Terminate ==
  /\ up
  /\ up' = FALSE
  /\ rsrc' = [h \in {} |-> NULL] /\ numResources' = 0
  /\ vdefs' = <<>> /\ numVdefs' = 0 /\ freeVdefs' = 0
  /\ engine' = NULL /\ numVoices' = 0 /\ freeVoices' = <<>>
  /\ used' = 0
  /\ status' = "OK"
  /\ UNCHANGED openFiles

Init ==
  /\ up = FALSE
  /\ rsrc = [h \in {} |-> NULL] /\ numResources = 0
  /\ vdefs = <<>> /\ numVdefs = 0 /\ freeVdefs = 0
  /\ engine = NULL /\ numVoices = 0 /\ freeVoices = <<>>
  /\ used = 0 /\ openFiles = 0
  /\ status = "OK"

Load ==
  \/ LoadRefused
  \/ LoadBroken
  \/ \E f \in Files :
       \/ LoadTwice(f)
       \/ \E n \in 0 .. Cardinality(KbsOf[f]) : LoadKbsFail(f, n)
       \/ \E h \in Handles : LoadDone(h, f)

Definitions ==
  \/ \E v \in VoiceNames \cup {LongVoice} : CreateVoiceDefinition(v)
  \/ \E v \in VoiceNames, n \in Names \cup {LongName} : AddResourceToVoiceDefinition(v, n)
  \/ \E v \in VoiceNames : ReleaseVoiceDefinition(v)

Next ==
  \/ \E h \in Handles : Initialize(h)
  \/ Terminate
  \/ Load
  \/ \E h \in Handles : UnloadResource(h)
  \/ Definitions
  \/ \E v \in VoiceNames : NewEngineRefused(v) \/ NewEngineFails(v) \/ NewEngine(v)
  \/ DisposeEngine

Spec == Init /\ [][Next]_vars

-----------------------------------------------------------------------------
(* Properties. *)

FilesLoaded == {h \in Loaded : rsrc[h].file # Default}

\* The units of the resources r, each with its knowledge bases.
UnitsOf(r) == MapThenSumSet(LAMBDA h : 1 + Cardinality(KbsOf[r[h].file]), DOMAIN r)

\* What the lists and the engine hold.
InLists == Len(vdefs) + freeVdefs + Len(freeVoices) + (IF engine = NULL THEN 0 ELSE 2)

\* The units of memory that are reachable.
Held == UnitsOf(rsrc) + InLists

Lost == used - Held

Stray == openFiles - Cardinality(FilesLoaded)

\* The counters of the resource manager are the lengths of its lists.
CountsMatch ==
  /\ numResources = Cardinality(Loaded)
  /\ numVdefs = Len(vdefs)
  /\ numVoices = IF engine = NULL THEN 0 ELSE 1

(***************************************************************************)
(* The lock count of a resource is how often the engine's voice uses it:   *)
(* it never goes below zero, and picorsrc_unloadResource is not BUSY for a *)
(* resource that no engine uses.                                           *)
(***************************************************************************)
LockCounts ==
  \A h \in Loaded : rsrc[h].lockCount = IF engine = NULL THEN 0 ELSE Uses(engine, h)

(***************************************************************************)
(* What the engine's voice points at is loaded, as long as the engine      *)
(* exists, and its array of resources (PICO_MAX_NUM_RSRC_PER_VOICE long)   *)
(* has not been overrun.                                                   *)
(***************************************************************************)
VoiceLoaded ==
  engine # NULL =>
    /\ Len(engine.rs) <= PICO_MAX_NUM_RSRC_PER_VOICE
    /\ \A i \in DOMAIN engine.rs : engine.rs[i] \in Loaded
    /\ \A k \in KbIds : engine.kb[k] # NULL =>
         engine.kb[k] \in Loaded /\ k \in Kbs(engine.kb[k])

(***************************************************************************)
(* The voice has a knowledge base exactly where one of its resources       *)
(* brings one, and the default resource is always among them, although a   *)
(* voice and a voice definition are used again after their release.        *)
(***************************************************************************)
VoiceComplete ==
  engine # NULL =>
    /\ \A k \in KbIds : engine.kb[k] # NULL <=> \E i \in DOMAIN engine.rs : k \in Kbs(engine.rs[i])
    /\ \E i \in DOMAIN engine.rs : Name(engine.rs[i]) = NameOf[Default]

\* A name finds at most one resource, and at most one voice definition.
NamesUnique ==
  /\ \A g, h \in Loaded : Name(g) = Name(h) => g = h
  /\ \A i, j \in DOMAIN vdefs : vdefs[i].name = vdefs[j].name => i = j

(***************************************************************************)
(* What findResource and the limits of the resource manager rely on.       *)
(***************************************************************************)
ListsSound == CountsMatch /\ NamesUnique

(***************************************************************************)
(* What the engine relies on while it uses its voice, after every history  *)
(* of loads, definitions, engines and their failures.                      *)
(***************************************************************************)
VoiceSound == LockCounts /\ VoiceLoaded /\ VoiceComplete

(***************************************************************************)
(* Memory is lost only by a load that fails in its knowledge bases and by  *)
(* a voice definition with an illegal name; none is given back twice.      *)
(***************************************************************************)
MemoryKept ==
  [][up /\ up' => Lost' >= Lost /\ (Lost' > Lost => status' \in {"FAILED", "ILLEGAL"})]_vars

(***************************************************************************)
(* A file stays open without a resource only after a load that gave no     *)
(* handle; unloading closes the file of that resource and no other.        *)
(***************************************************************************)
FilesKept ==
  [][up /\ up' => Stray' >= Stray /\ (Stray' > Stray => openFiles' > openFiles /\ UNCHANGED rsrc)]_vars

\* No call of the resource manager loses more than its failures are known to lose.
NothingLeaks == MemoryKept /\ FilesKept

(***************************************************************************)
(* pico_terminate unloads the resources that are still loaded, as          *)
(* picoapi.h says, and so closes their files.                              *)
(***************************************************************************)
TerminateCloses == ~up => openFiles = 0
=============================================================================
