SPECIFICATION Spec
CONSTANTS
  LimbBits = 16
  MEMORY_SPACE = 17
  STACK_SPACE = 5
  STORAGE_SPACE = 2
  MESSAGEDATASIZE = 5
  GAS_LIMIT = 30000
  DEPLOY_LENGTH = 9
  U32 = 65536
  IntBytes = 2
  SHA3_LIMIT = 9
  CODECOPY_SHORT = 3
  Programs <- EVMPrograms
  Message <- MCMessage
  StrayBytes = {170}
  Digests <- MCDigests
  Times = {77}
INVARIANTS
  TypeOK
  
PROPERTIES
  GasAccounting
  StorageIntegrity
  MemoryIntegrity
  StackDiscipline
