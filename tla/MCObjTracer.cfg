\* Two contexts, two call sites, blocks of one and two cells.
CONSTANTS
  AddrSpace = 7
  Types = {t1}
  NoNode = NoNode
  Ctx = {c1, c2}
  Sites = {s1, s2}
  Sizes = {1, 2}
  Kinds = {"kmalloc", "vmalloc"}
  Arena = {3, 4, 5}
  ZeroPtr = 1
  KernelBase = 3
  AccessSize = 2
  Widths = {1}
  Probes = {4}
  EaxValues = {4}
  Snapshots <- TwoSnapshots
  NoSize = NoSize
  NoInst = NoInst
  NoCtx = NoCtx
  Slices = {"meet", "access", "load"}
SYMMETRY Interchangeable
SPECIFICATION MCSpec
INVARIANTS FindableHaveInstances AccessFindsInstance ExactUnlessMixed WrittenIsTainted
PROPERTIES RecordsLeaveByDump
CHECK_DEADLOCK FALSE
