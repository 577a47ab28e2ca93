\* Two voice definitions of two names each, and every failure of a load.
SPECIFICATION Spec
CONSTANTS
  h1 = h1
  h2 = h2
  h3 = h3
  ta = ta
  sg = sg
  ta2 = ta2
  none = none
  NULL = NULL
  Handles <- MCHandles
  Files <- MCFiles
  Default = none
  Names <- MCNames
  NameOf <- MCNameOf
  KbIds <- MCKbIds
  KbsOf <- MCKbsOf
  LongName = "longname"
  CutName = "ta"
  VoiceNames = {"v", "w"}
  LongVoice = "longvoice"
  PICO_MAX_NUM_RESOURCES = 3
  PICO_MAX_NUM_VOICE_DEFINITIONS = 2
  PICO_MAX_NUM_RSRC_PER_VOICE = 2
  PICORSRC_MAX_NUM_VOICES = 1
  Memory = 11
  MaxFiles = 4
  Faults = {"broken", "kbs"}
SYMMETRY Symmetric
INVARIANTS TypeOK ListsSound VoiceSound
PROPERTIES NothingLeaks
