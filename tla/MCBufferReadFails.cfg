SPECIFICATION FailingBufferSpec
CONSTANTS
  Bytes = {0, 1}
  kCheapPrepend = 2
  kInitiaSize = 2
  ExtraSize = 2
  Word = 64
  MaxSize = 8
INVARIANT IndicesOK
