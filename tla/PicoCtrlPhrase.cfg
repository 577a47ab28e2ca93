\* A preprocessor, a phrase collector and the signal generator, with buffers of
\* one or two items, one reset and one failing step.
SPECIFICATION FairSpec
CONSTANTS
  NumPU = 3
  Kind <- KindPhrase
  CbCap <- CapMixed
  StashCap = 2
  Types = {"word", "flush", "other"}
  MaxFed = 3
  MaxResets = 1
  MaxErrors = 1
  MaxWork = 1
INVARIANTS TypeOK ControlSound
PROPERTIES PipeSpec LoopEnds
