SPECIFICATION Spec
CONSTANTS
  LimbBits = 16
  MEMORY_SPACE = 9
  STACK_SPACE = 12
  STORAGE_SPACE = 2
  MESSAGEDATASIZE = 3
  GAS_LIMIT = 60
  DEPLOY_LENGTH = 9
  U32 = 65536
  IntBytes = 2
  SHA3_LIMIT = 9
  CODECOPY_SHORT = 3
  Programs <- WideOps
  Message <- MCMessage
  StrayBytes = {170}
  Digests <- MCDigests
  Times = {77}
PROPERTY
  PushBigEndian
