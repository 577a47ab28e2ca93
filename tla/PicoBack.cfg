\* The units between accentuation and the signal, each with windows and buffers
\* of a few items.
SPECIFICATION MCSpec
CONSTANTS
  Units = {"spho", "pam", "feat", "phone", "cep", "smooth", "sig"}
  SphoHeadxCap = 5
  SphoCbufCap = 100
  SphoPhonCap = 22
  SphoNumFsts = 1
  SphoInCap = 1
  SphoOutCap = 1
  SphoMaxFed = 6
  SphoMaxResets = 1
  SphoMaxResetFed = 2
  SphoGap = 1
  SphoMenu <- MCSphoMenu
  PamMaxSyll = 5
  PamMaxPh = 9
  PamMaxItemSize = 22
  PamOutBufSize = 90
  PamFrameSize = 34
  PamMaxFed = 6
  PamMaxResets = 1
  PamGap = 2
  PamMenu <- MCPamMenu
  FeatMaxSyll = 4
  FeatSylls <- MCFeatSylls
  PhoneSents <- MCPhoneSents
  PhoneFrames <- MCPhoneFrames
  PhoneDurs = {8, 120, 900}
  PhonePitches = {60, 200}
  PhoneWeights <- MCPhoneWeights
  PhoneMods = {1, 5, 7}
  PhoneMaxPhones = 2
  CepMaxWin = 5
  CepHeadxCap = 2
  CepCbufCap = 7
  CepMenu <- MCCepMenu
  CepMaxFed = 4
  CepMaxResets = 1
  CepMaxSaid = 22
  SmoothBases <- MCSmoothBases
  SmoothFrames <- MCSmoothFrames
  SigCepRing = 3
  SigPhsRing = 5
  SigSounds <- MCSigSounds
  SigMenu <- MCSigMenu
  SigMaxFed = 4
  SigMaxResets = 1
  SmoothInvpow = 24
  SmoothTolerance = 64
INVARIANTS BackTypeOK BackInOrder SphoBoundsKept AcousticsSound CepInOrder SigSound
PROPERTIES BackDelivers
CHECK_DEADLOCK FALSE  \* a unit rests when all was fed
