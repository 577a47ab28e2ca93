\* A block for up to six cells.
SPECIFICATION Spec
CONSTANTS
  Block = 57
  PICOOS_ALIGN_SIZE = 2
  fullCellHdrSize = 6
  usedCellHdrSize = 2
  Requests = {1, 5, 9}
  NULL = NULL
  Data = Data
INVARIANTS TypeOK CellsSound CellsUsable
PROPERTIES FailsOnlyIfNoneFits AllocSpec
