CONSTANTS
  AddrMod = 64
  Low = 7
  NStacks = 2
  STACK_SIZE = 15
  Gap = 1
  MaxActive = 3
  UserEbps <- MCUserEbps
  CallRets = {1}
  SysRet = 2
  StopRets = {3}
  OtherRets = {4}
  SchedRet = 5
  ForkRet = 6
SPECIFICATION Spec
INVARIANTS FramesLive ChainExact MarkerMatchesChain
