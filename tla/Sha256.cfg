\* The block and length sizes of SHA-256, messages of up to 140 bytes.
CONSTANTS
  BlockSize = 64
  LengthSize = 8
  Chunks <- Pieces
  MaxBytes = 140
  None = None
SPECIFICATION Spec
INVARIANTS
  BufferHoldsTheRest
  DigestIsOfMessage
