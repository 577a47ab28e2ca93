\* The first four PUs of the engine, one of each remaining kind of step loop.
SPECIFICATION Spec
CONSTANTS
  NumPU = 4
  Kind <- KindFront
  CbCap <- CapMixed
  StashCap = 2
  Types = {"word", "punc", "flush", "other"}
  MaxFed = 4
  MaxResets = 1
  MaxErrors = 1
  MaxWork = 1
INVARIANTS IdleSound MarkedHasInput

