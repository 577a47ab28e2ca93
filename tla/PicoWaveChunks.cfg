\* The samples of a chunk are written again with the next one.
SPECIFICATION Spec
CONSTANTS
  TextSizes = {5}
  Width = 16
  CbInSize = 2
  BufferSize = 2
  SdfBufLen = 3
  FrameSizes = {1, 2}
  MaxFrames = 2
  OpenResults = {"open"}
INVARIANTS NoneTwice
CHECK_DEADLOCK FALSE  \* the program ends
