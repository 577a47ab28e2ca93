\* One file.
SPECIFICATION Spec
CONSTANTS
  h1 = h1
  h2 = h2
  h3 = h3
  ta = ta
  sg = sg
  ta2 = ta2
  none = none
  NULL = NULL
  Handles <- MCHandles
  Files <- MCOneFile
  Default = none
  Names <- MCNames
  NameOf <- MCNameOf
  KbIds <- MCKbIds
  KbsOf <- MCKbsOf
  LongName = "longname"
  CutName = "ta"
  VoiceNames = {"v"}
  LongVoice = "longvoice"
  PICO_MAX_NUM_RESOURCES = 3
  PICO_MAX_NUM_VOICE_DEFINITIONS = 1
  PICO_MAX_NUM_RSRC_PER_VOICE = 3
  PICORSRC_MAX_NUM_VOICES = 1
  Memory = 11
  MaxFiles = 4
  Faults = {}
SYMMETRY Symmetric
INVARIANTS TerminateCloses
