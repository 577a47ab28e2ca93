\* Sentence analysis alone: texts with a reset anywhere.
SPECIFICATION MCSpec
CONSTANTS
  Units = {"sa"}
  TokTexts <- MCTokTexts
  TokBufSize = 200
  TokMarkupSize = 29
  TokFiles <- MCTokFiles
  BaseStrings <- MCBaseStrings
  BaseMaxLens = {3, 50}
  TrnsMaxPossym = 3
  TrnsMaxAlt = 4
  TrnsFsts <- MCTrnsFsts
  TrnsInputs <- MCTrnsInputs
  PrValues <- MCValues
  PrNumbers <- MCNumbers
  PrRomans <- MCRomans
  PrHalf = 100000
  PrNets <- MCNets
  PrTexts <- MCPrTexts
  PrMaxPath = 12
  PrDynCap = 4
  PrFiles <- MCPrFiles
  PrSubs <- MCSubs
  PrPuncts <- MCPuncts
  KdtCases <- MCKdtCases
  LexBlockSize = 24
  LexMaxRes = 4
  LexCases <- MCLexCases
  LexPosGroups <- MCLexGroups
  LexPredicted = {0, 2}
  SaTexts <- MCSaTexts
  SaPos = {"N", "V", "D"}
  SaPosGroups <- MCSaPosGroups
  SaPosAnswers = {"N", "V"}
  SaG2pAnswers <- MCSaG2p
  SaVowels = {"a"}
  SaMaxHeadx = 6
  SaMaxCbuf = 14
  SaMaxItem = 6
  SaMaxPhon = 9
  SaMaxLen = 6
  SaMaxResets = 1
  AcphPhrases <- MCAcphPhrases
  AcphStrengths = {"PHR0", "PHR2", "ERR"}
  AcphAccents = {"ACC0", "ACC1", "none"}
  AcphMaxPhrases = 2
  AcphMaxFull = 1
  h1 = h1
  h2 = h2
  h3 = h3
  ta = ta
  sg = sg
  ta2 = ta2
  noFile = noFile
  NULL = NULL
  Handles <- MCHandles
  Files <- MCFiles
  Default = noFile
  Names <- MCNames
  NameOf <- MCNameOf
  KbIds <- MCKbIds
  KbsOf <- MCKbsOf
  LongName = "longname"
  CutName = "ta"
  VoiceNames = {"v"}
  LongVoice = "longvoice"
  PICO_MAX_NUM_RESOURCES = 3
  PICO_MAX_NUM_VOICE_DEFINITIONS = 1
  PICO_MAX_NUM_RSRC_PER_VOICE = 3
  PICORSRC_MAX_NUM_VOICES = 1
  Memory = 10
  MaxFiles = 4
  Faults = {"broken", "kbs"}
  Langs <- MCLangs
  TaFile <- MCTaFile
  SgFile <- MCSgFile
  PICO_VOICE_NAME = "v"
INVARIANTS SaResetClean
CHECK_DEADLOCK FALSE
