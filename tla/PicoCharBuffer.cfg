\* A ring of items, or one of characters.
SPECIFICATION MCSpec
CONSTANTS
  Size = 7
  HeadSize = 2
  Byte = {0, 1}
  Frame = 1
  Inputs <- InputsMax4
PROPERTIES QueueSpec GetsOldest CharQueueSpec
