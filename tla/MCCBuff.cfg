CONSTANTS
  Byte <- MCByte
  Zero = "a"
  BuffLen = 4
  Half = 8
  Starts <- MCStarts
  Chunks <- MCChunks
SPECIFICATION Spec
INVARIANTS TypeOK PointerOrder AckWindow ChrlenFindsFirst
PROPERTY ImplementsFifo
