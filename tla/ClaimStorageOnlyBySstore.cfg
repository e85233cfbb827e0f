SPECIFICATION Spec
CONSTANTS
  LimbBits = 16
  MEMORY_SPACE = 2
  STACK_SPACE = 5
  STORAGE_SPACE = 1
  MESSAGEDATASIZE = 3
  GAS_LIMIT = 30000
  DEPLOY_LENGTH = 9
  U32 = 65536
  IntBytes = 2
  SHA3_LIMIT = 9
  CODECOPY_SHORT = 3
  Programs <- StackPrograms
  Message <- MCMessage
  StrayBytes = {170}
  Digests <- MCDigests
  Times = {77}
PROPERTY
  StorageOnlyBySstore
