\* One context that also makes requests of size 0.
CONSTANTS
  AddrSpace = 6
  Types = {t1}
  NoNode = NoNode
  Ctx = {c1}
  Sites = {s1}
  Sizes = {0, 1}
  Kinds = {"kmalloc"}
  Arena = {3, 4}
  ZeroPtr = 1
  KernelBase = 3
  AccessSize = 2
  Widths = {1}
  Probes = {}
  EaxValues = {}
  Snapshots = {}
  NoSize = NoSize
  NoInst = NoInst
  NoCtx = NoCtx
  Slices = {"meet"}
SPECIFICATION MCSpec
INVARIANT InsertSucceeds
CHECK_DEADLOCK FALSE
