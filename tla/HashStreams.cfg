SPECIFICATION Spec
CONSTANTS
  BLOCK_SIZE = 4
  StateBytes = 8
  mdlen = 1
  StateSize = 8
  Byte = {{}, {0, 7}}
  MaxInput = 9
  MaxChunk = 9
  MaxOut = 13
INVARIANT
  TypeOK
PROPERTIES
  KeccakIsSponge
  Sha3IsSponge
