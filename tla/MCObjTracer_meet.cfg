\* Two contexts, two call sites, blocks of one and two cells; a freed block the index misses.
CONSTANTS
  AddrSpace = 7
  Types = {t1}
  NoNode = NoNode
  Ctx = {c1, c2}
  Sites = {s1, s2}
  Sizes = {1, 2}
  Kinds = {"kmalloc"}
  Arena = {3, 4, 5}
  ZeroPtr = 1
  KernelBase = 3
  AccessSize = 2
  Widths = {}
  Probes = {}
  EaxValues = {4}
  Snapshots = {}
  NoSize = NoSize
  NoInst = NoInst
  NoCtx = NoCtx
  Slices = {"meet"}
SYMMETRY Interchangeable
SPECIFICATION MCSpec
INVARIANT DeleteFindsInstance
CHECK_DEADLOCK FALSE
