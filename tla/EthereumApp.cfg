SPECIFICATION AppSpec
CONSTANTS
  LimbBits = 16
  MEMORY_SPACE = 7
  STACK_SPACE = 6
  STORAGE_SPACE = 1
  MESSAGEDATASIZE = 3
  GAS_LIMIT = 20
  DEPLOY_LENGTH = 5
  U32 = 65536
  IntBytes = 2
  SHA3_LIMIT = 9
  CODECOPY_SHORT = 3
  Programs <- AppPrograms
  Message <- MCMessage
  StrayBytes = {170}
  Digests <- MCDigests
  Times = {77}
INVARIANTS
  ExecutesDeployed
  DeploysReturned
  UsageBounded
PROPERTIES
  NothingDeployed
  StraightLineEnds
  ProcessEnds
