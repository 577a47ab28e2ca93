------------------------------ MODULE PicoStart ------------------------------
(***************************************************************************)
(* How main of pico2wave.c builds up the system before its synthesis loop  *)
(* (PicoWave) and takes it down after it: calls of PicoRsrc, and a ladder  *)
(* of labels that a failing call jumps into.                               *)
(***************************************************************************)
EXTENDS PicoRsrc

CONSTANTS
  Langs,           \* the languages
  TaFile, SgFile,  \* picoInternalTaLingware, picoInternalSgLingware
  PICO_VOICE_NAME

ASSUME StartAssumption ==
  TaFile \in [Langs -> Files] /\ SgFile \in [Langs -> Files] /\ PICO_VOICE_NAME \in VoiceNames

VARIABLES
  pc,              \* the next call, or the label
  ret,
  langIndex,       \* the language that the user chose
  picoTaResource,
  picoSgResource

mainVars  == <<ret, langIndex, picoTaResource, picoSgResource>>
startVars == <<vars, pc, mainVars>>

\* Mutation of Label: the resource loaded first is not unloaded.
LabelShort == [loadTa |-> "unloadTa", loadSg |-> "terminate", names |-> "unloadSg",
               create |-> "unloadSg", addTa |-> "unloadSg", addSg |-> "unloadSg",
               newEngine |-> "disposeEngine"]

\* Where main goes on when a call fails; unloadUtppResource is unloadSg, as no such file is loaded.
Label == [loadTa |-> "unloadTa", loadSg |-> "unloadSg", names |-> "unloadSg",
          create |-> "unloadSg", addTa |-> "unloadSg", addSg |-> "unloadSg",
          newEngine |-> "disposeEngine"]

\* Mutation of GoOn: main forgets that a call failed.
GoOnQuietly(c, n) ==
  /\ pc' = IF status' = "OK" THEN n ELSE Label[c]
  /\ UNCHANGED ret

\* After the call made at c: the next one, n, or a label.
GoOn(c, n) ==
  IF status' = "OK" THEN pc' = n /\ UNCHANGED ret
                    ELSE pc' = Label[c] /\ ret' = 1

InitializeSystem ==
  /\ pc = "initialize"
  /\ \/ \E h \in Handles : Initialize(h) /\ pc' = "loadTa" /\ UNCHANGED ret
     \/ pc' = "terminate" /\ ret' = 1 /\ UNCHANGED vars
  /\ UNCHANGED <<langIndex, picoTaResource, picoSgResource>>

\* pico_loadResource of f; r is the handle that it returns.
LoadFile(f, r) ==
  \/ r \in Handles /\ LoadDone(r, f)
  \/ /\ r = NULL
     /\ LoadRefused \/ LoadBroken \/ LoadTwice(f)
          \/ \E n \in 0 .. Cardinality(KbsOf[f]) : LoadKbsFail(f, n)

LoadTa ==
  /\ pc = "loadTa"
  /\ \E r \in Handles \cup {NULL} : LoadFile(TaFile[langIndex], r) /\ picoTaResource' = r
  /\ GoOn("loadTa", "loadSg")
  /\ UNCHANGED <<langIndex, picoSgResource>>

LoadSg ==
  /\ pc = "loadSg"
  /\ \E r \in Handles \cup {NULL} : LoadFile(SgFile[langIndex], r) /\ picoSgResource' = r
  /\ GoOn("loadSg", "names")
  /\ UNCHANGED <<langIndex, picoTaResource>>

\* pico_getResourceName, twice: an error for a load that gave no handle.
GetNames ==
  /\ pc = "names"
  /\ IF NULL \in {picoTaResource, picoSgResource}
     THEN pc' = Label.names /\ ret' = 1
     ELSE pc' = "create" /\ UNCHANGED ret
  /\ UNCHANGED <<vars, langIndex, picoTaResource, picoSgResource>>

DefineVoice ==
  /\ \/ pc = "create" /\ CreateVoiceDefinition(PICO_VOICE_NAME) /\ GoOn("create", "addTa")
     \/ /\ pc = "addTa" /\ AddResourceToVoiceDefinition(PICO_VOICE_NAME, Name(picoTaResource))
        /\ GoOn("addTa", "addSg")
     \/ /\ pc = "addSg" /\ AddResourceToVoiceDefinition(PICO_VOICE_NAME, Name(picoSgResource))
        /\ GoOn("addSg", "newEngine")
  /\ UNCHANGED <<langIndex, picoTaResource, picoSgResource>>

CreateEngine ==
  /\ pc = "newEngine"
  /\ LET v == PICO_VOICE_NAME
     IN  NewEngineRefused(v) \/ NewEngineFails(v) \/ NewEngine(v)
  /\ GoOn("newEngine", "synthesis")
  /\ UNCHANGED <<langIndex, picoTaResource, picoSgResource>>

\* The synthesis loop and the sound file, with or without an error.
Synthesize ==
  /\ pc = "synthesis"
  /\ pc' = "disposeEngine"
  /\ ret' \in {0, 1}
  /\ UNCHANGED <<vars, langIndex, picoTaResource, picoSgResource>>

\* picoEngine is NULL unless the engine was made.
LeaveEngine ==
  /\ \/ pc = "disposeEngine" /\ engine # NULL /\ DisposeEngine /\ pc' = "releaseVoice"
     \/ pc = "disposeEngine" /\ engine = NULL /\ pc' = "unloadSg" /\ UNCHANGED vars
     \/ /\ pc = "releaseVoice" /\ ReleaseVoiceDefinition(PICO_VOICE_NAME)
        /\ pc' = "unloadSg"
  /\ UNCHANGED mainVars

\* if (r) { pico_unloadResource(..., &r); r = NULL; }
Unload(r) == IF r = NULL THEN UNCHANGED vars ELSE UnloadResource(r)

UnloadSg ==
  /\ pc = "unloadSg" /\ Unload(picoSgResource)
  /\ picoSgResource' = NULL /\ pc' = "unloadTa"
  /\ UNCHANGED <<ret, langIndex, picoTaResource>>

UnloadTa ==
  /\ pc = "unloadTa" /\ Unload(picoTaResource)
  /\ picoTaResource' = NULL /\ pc' = "terminate"
  /\ UNCHANGED <<ret, langIndex, picoSgResource>>

Exit ==
  /\ pc = "terminate" /\ (IF up THEN Terminate ELSE UNCHANGED vars)
  /\ pc' = "exit"
  /\ UNCHANGED mainVars

StartInit ==
  /\ Init
  /\ pc = "initialize" /\ ret = 0 /\ langIndex \in Langs
  /\ picoTaResource = NULL /\ picoSgResource = NULL

StartNext ==
  \/ InitializeSystem \/ LoadTa \/ LoadSg \/ GetNames
  \/ DefineVoice \/ CreateEngine \/ Synthesize
  \/ LeaveEngine \/ UnloadSg \/ UnloadTa \/ Exit

StartSpec == StartInit /\ [][StartNext]_startVars

-----------------------------------------------------------------------------
(* Properties. *)

(***************************************************************************)
(* From wherever main jumps into the ladder, at its end the engine is gone *)
(* and both resources are unloaded: no unload was BUSY and none left out.  *)
(***************************************************************************)
EndsClean == pc = "terminate" /\ up => engine = NULL /\ FilesLoaded = {}

(***************************************************************************)
(* When no call failed, main leaves no file open and loses no memory, and  *)
(* only then can its exit status be zero.                                  *)
(***************************************************************************)
SuccessIsClean == pc = "terminate" /\ ret = 0 => openFiles = 0 /\ Lost = 0

\* The ladder of labels takes down what was built, and reports what failed.
StartSound == EndsClean /\ SuccessIsClean
=============================================================================
