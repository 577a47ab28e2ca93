\* Texts up to the width of a count, in chunks, to a file or to stdout.
SPECIFICATION Spec
CONSTANTS
  TextSizes = {1, 2, 3, 5, 7, 8, 10}
  Width = 8
  CbInSize = 2
  BufferSize = 2
  SdfBufLen = 3
  FrameSizes = {1, 2}
  MaxFrames = 3
  OpenResults = {"stdout", "open", "suffix", "create"}
INVARIANTS TypeOK CountsText NothingLost FileExact
PROPERTIES Ends
CHECK_DEADLOCK FALSE  \* the program ends
