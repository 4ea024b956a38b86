--------------------------- MODULE ObjTracerProofs ---------------------------
(***************************************************************************)
(* Proofs about ObjTracer, for every number of contexts, sites, sizes and  *)
(* addresses.                                                              *)
(*                                                                         *)
(* TypeOK together with FindableHaveInstances is inductive; that no access *)
(* meets an object without an instance follows from it.                    *)
(*                                                                         *)
(* That the index holds exactly the live blocks while no two contexts meet *)
(* on a site is not inductive: between the allocator's return and the hook *)
(* at the return site a block is handed out and not yet indexed, between   *)
(* the free hook and the allocator a block is already out of the index,    *)
(* and a failed or an empty allocation leaves a node that no block backs   *)
(* (a phantom). ExactInv names what each context under way owns (Waiting), *)
(* that two of them never own the same block (OnePerBlock), that blocks do *)
(* not overlap or wrap (Apart), and that the nodes are the live blocks but *)
(* for the phantoms (Indexed). That a store to a live block taints its     *)
(* record, and that a record leaves only through the dump, follow from it. *)
(***************************************************************************)
EXTENDS ObjTracer, TLAPS

-----------------------------------------------------------------------------
(* The index.                                                              *)

\* Addresses are numbers.
LEMMA AddrInt == Addr \subseteq Int
BY AddrSpaceAssumption DEF Addr

\* uint32 addition stays in the address space.
LEMMA AddrPlusType ==
  ASSUME NEW a \in Int, NEW n \in Int
  PROVE  AddrPlus(a, n) \in Addr
BY AddrSpaceAssumption DEF AddrPlus, Addr

\* A node ds_code_rbtFind2 returns is in the index and covers the address.
LEMMA Find2Result ==
  ASSUME NEW S, NEW a, NEW r \in Find2(S, a), r # NoNode
  PROVE  r \in S /\ Covers(r, a)
BY DEF Find2, Covering

\* A node that covers any address covers its own start.
LEMMA CoversOwnKey ==
  ASSUME NEW n \in Node, NEW a \in Addr, Covers(n, a)
  PROVE  Covers(n, n.key)
<1>1. n.key \in Int /\ n.size \in Int /\ a \in Int
  BY Zenon, AddrInt DEF Node
<1>2. AddrPlus(n.key, n.size) \in Int
  BY Zenon, <1>1, AddrPlusType, AddrInt
<1> QED
  BY <1>1, <1>2 DEF Covers

\* Erasing while something is found only removes nodes, and leaves none that
\* starts at the address and could still be found there.
LEMMA EraseResult ==
  ASSUME NEW S \in SUBSET Node, NEW a \in Addr, NEW R \in EraseWhileFound(S, a)
  PROVE  /\ R \subseteq S
         /\ \A n \in R : n.key = a => ~Covers(n, n.key)
<1>1. R \subseteq S /\ MayMiss(R, a)
  BY Zenon DEF EraseWhileFound
<1>2. ASSUME NEW n \in R, n.key = a, Covers(n, n.key) PROVE FALSE
  <2>1. n \in Covering(R, a)
    BY <1>2 DEF Covering
  <2>2. PICK m \in R : n.key < m.key /\ m.key < a
    BY <1>1, <2>1 DEF MayMiss
  <2>3. m.key \in Int /\ a \in Int
    BY Zenon, <1>1, AddrInt DEF Node
  <2> QED
    BY <1>2, <2>2, <2>3
<1> QED
  BY <1>1, <1>2

-----------------------------------------------------------------------------
(* The blocks and the index while no contexts have met.                    *)

\* What the allocator returned for a request of that size.
Given(size, a, H) ==
  \/ size = 0 /\ a = ZeroPtr
  \/ size # 0 /\ a = 0
  \/ \E h \in H : h.addr = a /\ h.size = size /\ h.st = "new"

\* A block that is being freed.
Freed(a, H) == \E h \in H : h.addr = a /\ h.st = "freeing"

\* A context under way has its own pending entry or its own block.
UnderWay(c, act, pd, ow, H) ==
  /\ act.op = "alloc" => ow[act.site] = c /\ pd[act.site] = act.size
  /\ act.op = "return" =>
       ow[act.site] = c /\ pd[act.site] # NoSize /\ Given(pd[act.site], act.addr, H)
  /\ act.op = "free" => Freed(act.block.addr, H)
Waiting == \A c \in Ctx : UnderWay(c, ctx[c], pend, owner, heap)
Separate(p, q) ==
  /\ p.op = "return" /\ q.op = "return" /\ p.addr = q.addr => p.addr \in {0, ZeroPtr}
  /\ p.op = "free" /\ q.op = "free" => p.block.addr # q.block.addr
OnePerBlock == \A c, d \in Ctx : c # d => Separate(ctx[c], ctx[d])

Apart(H) ==
  /\ \A h \in H : h.size # 0 /\ h.addr # 0 /\ Extent(h) \subseteq Arena
  /\ \A g, h \in H : g # h => Extent(g) \cap Extent(h) = {}

\* The nodes, but for phantoms, are the live blocks.
Indexed(O, H) ==
  /\ \A n \in O : n.key # 0 /\ n.size # 0 =>
       \E h \in H : h.st = "live" /\ h.addr = n.key /\ h.size = n.size
  /\ \A h \in H : h.st = "live" => \E n \in O : n.key = h.addr /\ n.size = h.size
  /\ \A n \in O : n.size = 0 => n.key = ZeroPtr /\ 0 \in Sizes

Unmixed == ~mixed /\ crash = "none"
Exact == Unmixed => Waiting /\ OnePerBlock /\ Apart(heap) /\ Indexed(objs, heap)
StillRuns == ~mixed /\ 0 \notin Sizes => crash = "none"
ExactInv == Exact /\ StillRuns /\ WrittenIsTainted

\* A number that is in the address space is its own remainder.
LEMMA NoWrap ==
  ASSUME NEW x \in Addr
  PROVE  x % AddrSpace = x
BY AddrSpaceAssumption DEF Addr

\* A block lies between its first and its last byte, without wrapping.
LEMMA BlockFacts ==
  ASSUME NEW H \in SUBSET Block, Apart(H), NEW h \in H
  PROVE  /\ h.addr \in Addr /\ h.size \in Addr /\ h.addr \in Extent(h) /\ h.size > 0
         /\ AddrPlus(h.addr, h.size) = h.addr + h.size
         /\ Span(h.addr, h.size) = Extent(h)
         /\ 0 \notin Extent(h) /\ ZeroPtr \notin Extent(h)
         /\ Extent(h) \subseteq Addr
<1>1. h.addr \in Addr /\ h.size \in Addr /\ h.size # 0 /\ h.addr # 0 /\ Extent(h) \subseteq Arena
  BY DEF Apart, Block
<1>2. h.addr \in Nat /\ h.size \in Nat /\ h.size > 0 /\ h.addr > 0
  BY <1>1, AddrSpaceAssumption DEF Addr
<1>3. h.addr \in Extent(h) /\ h.addr + h.size - 1 \in Extent(h)
  BY <1>2 DEF Extent
<1>4. Arena \subseteq Addr /\ AddrSpace - 1 \notin Arena /\ ZeroPtr \notin Arena
  BY InputAssumption, ArenaAssumption
<1>5. h.addr + h.size - 1 < AddrSpace - 1
  BY <1>1, <1>2, <1>3, <1>4, AddrSpaceAssumption DEF Addr
<1>6. \A i \in 0 .. h.size : AddrPlus(h.addr, i) = h.addr + i
  <2>1. \A i \in 0 .. h.size : h.addr + i \in Addr
    BY <1>2, <1>5, AddrSpaceAssumption DEF Addr
  <2> QED
    BY <2>1, NoWrap DEF AddrPlus
<1>7. Span(h.addr, h.size) = Extent(h)
  <2>1. Span(h.addr, h.size) = {h.addr + i : i \in 0 .. h.size - 1}
    <3>1. \A i \in 0 .. h.size - 1 : i \in 0 .. h.size
      BY <1>2
    <3> QED
      BY <1>6, <3>1 DEF Span
  <2>2. \A b \in Extent(h) : b - h.addr \in 0 .. h.size - 1 /\ b = h.addr + (b - h.addr)
    BY <1>2 DEF Extent
  <2>3. \A i \in 0 .. h.size - 1 : h.addr + i \in Extent(h)
    BY <1>2 DEF Extent
  <2> QED
    BY <2>1, <2>2, <2>3
<1>8. 0 \notin Extent(h)
  BY <1>2 DEF Extent
<1> QED
  BY <1>1, <1>2, <1>3, <1>4, <1>6, <1>7, <1>8

\* Blocks that share an address are one.
LEMMA OneBlock ==
  ASSUME NEW H \in SUBSET Block, Apart(H), NEW g \in H, NEW h \in H, g.addr \in Extent(h)
  PROVE  g = h
<1>1. g.addr \in Extent(g)
  BY BlockFacts
<1> QED
  BY <1>1 DEF Apart

\* Which nodes cover an address.
LEMMA NodeFacts ==
  ASSUME NEW H \in SUBSET Block, Apart(H), NEW O \in SUBSET Node, Indexed(O, H)
  PROVE  /\ \A n \in O, a \in Addr : Covers(n, a) /\ n.key # 0 =>
              \E h \in H : h.st = "live" /\ h.addr = n.key /\ h.size = n.size /\ a \in Extent(h)
         /\ \A n \in O, h \in H : n.key = h.addr =>
              h.st = "live" /\ n.size = h.size /\ \A a \in Extent(h) : Covers(n, a)
         /\ \A n \in O : Covers(n, 0) => n.key = 0
<1>0. ASSUME NEW n \in O PROVE n.key \in Addr /\ n.size \in Addr /\ n.key \in Nat /\ n.size \in Nat
  BY AddrSpaceAssumption DEF Node, Addr
<1>1. ASSUME NEW n \in O, NEW a \in Addr, Covers(n, a), n.size = 0 PROVE FALSE
  <2>1. AddrPlus(n.key, n.size) = n.key
    BY <1>0, <1>1, NoWrap DEF AddrPlus
  <2> QED
    BY <1>0, <1>1, <2>1, AddrSpaceAssumption DEF Covers, Addr
<1>2. ASSUME NEW n \in O, NEW a \in Addr, Covers(n, a), n.key # 0
      PROVE  \E h \in H : h.st = "live" /\ h.addr = n.key /\ h.size = n.size /\ a \in Extent(h)
  <2>1. n.size # 0
    BY <1>1, <1>2
  <2>2. PICK h \in H : h.st = "live" /\ h.addr = n.key /\ h.size = n.size
    BY <1>2, <2>1 DEF Indexed
  <2>3. AddrPlus(n.key, n.size) = n.key + n.size
    BY <2>2, BlockFacts
  <2>4. a \in Nat /\ n.key <= a /\ a < n.key + n.size
    BY <1>2, <2>3, AddrSpaceAssumption DEF Covers, Addr
  <2>5. a \in Extent(h)
    BY <1>0, <2>2, <2>4 DEF Extent
  <2> QED
    BY <2>2, <2>5
<1>3. ASSUME NEW n \in O, NEW h \in H, n.key = h.addr
      PROVE  h.st = "live" /\ n.size = h.size /\ \A a \in Extent(h) : Covers(n, a)
  <2>1. n.key # 0 /\ n.key \in Extent(h) /\ n.key # ZeroPtr
    BY <1>3, BlockFacts DEF Apart
  <2>2. n.size # 0
    BY <2>1 DEF Indexed
  <2>3. PICK g \in H : g.st = "live" /\ g.addr = n.key /\ g.size = n.size
    BY <2>1, <2>2 DEF Indexed
  <2>4. g = h
    BY <2>1, <2>3, OneBlock
  <2>5. AddrPlus(n.key, n.size) = n.key + n.size
    BY <2>3, BlockFacts
  <2>6. \A a \in Extent(h) : Covers(n, a)
    BY <1>0, <2>3, <2>4, <2>5 DEF Extent, Covers
  <2> QED
    BY <2>3, <2>4, <2>6
<1>4. ASSUME NEW n \in O, Covers(n, 0) PROVE n.key = 0
  BY <1>0, <1>4 DEF Covers
<1> QED
  BY <1>2, <1>3, <1>4

\* A lookup at an address of a live block finds a node.
LEMMA NotMissed ==
  ASSUME NEW H \in SUBSET Block, Apart(H), NEW O \in SUBSET Node, Indexed(O, H),
         NEW h \in H, h.st = "live", NEW a \in Extent(h)
  PROVE  NoNode \notin Find2(O, a)
<1>1. PICK n \in O : n.key = h.addr
  BY DEF Indexed
<1>2. n \in Covering(O, a)
  BY <1>1, NodeFacts DEF Covering
<1>3. ASSUME NEW m \in O, n.key < m.key, m.key < a PROVE FALSE
  <2>1. /\ n.key \in Nat /\ n.key > 0 /\ m.key \in Nat /\ m.size \in Nat /\ a \in Nat
        /\ h.addr \in Nat /\ h.size \in Nat
    <3>1. h.addr \in Nat /\ h.addr > 0 /\ h.size \in Nat
      BY BlockFacts, AddrSpaceAssumption DEF Addr, Apart
    <3>2. m.key \in Nat /\ m.size \in Nat
      BY AddrSpaceAssumption DEF Node, Addr
    <3>3. a \in Nat
      BY <3>1 DEF Extent
    <3> QED
      BY <1>1, <3>1, <3>2, <3>3
  <2>2. m.key \in Extent(h)
    BY <1>1, <1>3, <2>1 DEF Extent
  <2>3. m.key # 0 /\ m.key # ZeroPtr
    BY <2>2, BlockFacts
  <2>4. m.size # 0
    BY <2>3 DEF Indexed
  <2>5. PICK g \in H : g.addr = m.key
    BY <2>3, <2>4 DEF Indexed
  <2>6. g = h
    BY <2>2, <2>5, OneBlock
  <2> QED
    BY <1>1, <1>3, <2>1, <2>5, <2>6
<1>4. ~MayMiss(O, a)
  BY <1>2, <1>3 DEF MayMiss
<1> QED
  BY <1>4, NoNodeAssumption DEF Find2, Covering

\* Where no live block is, erasing while something is found takes phantoms only.
LEMMA EraseNone ==
  ASSUME NEW H \in SUBSET Block, Apart(H), NEW O \in SUBSET Node, Indexed(O, H),
         NEW a \in Addr, \A h \in H : h.st = "live" => a \notin Extent(h),
         NEW S \in EraseWhileFound(O, a)
  PROVE  S \subseteq O /\ \A n \in O : n \in S \/ n.key = 0
<1>1. PICK D \in SUBSET Covering(O, a) : S = O \ D
  BY Zenon DEF EraseWhileFound
<1>2. \A n \in D : n.key = 0
  BY NodeFacts DEF Covering
<1> QED
  BY <1>1, <1>2

\* Phantoms do not count.
LEMMA PhantomsAside ==
  ASSUME NEW H, \A h \in H : h.addr # 0, NEW O, Indexed(O, H),
         NEW S, S \subseteq O, \A n \in O : n \in S \/ n.key = 0
  PROVE  Indexed(S, H)
BY DEF Indexed

\* A block changes its status: the blocks stay apart.
LEMMA ApartAgain ==
  ASSUME NEW H, Apart(H), NEW h \in H, NEW k, Extent(k) = Extent(h), k.size = h.size, k.addr = h.addr
  PROVE  Apart((H \ {h}) \cup {k})
BY DEF Apart

\* add_obj for a block that was handed out: the way is free, and the block is
\* indexed.
LEMMA Recorded ==
  ASSUME NEW H \in SUBSET Block, Apart(H), NEW O \in SUBSET Node, Indexed(O, H),
         NEW h \in H, h.st = "new", NEW S \in EraseWhileFound(O, h.addr),
         NEW node, node.key = h.addr, node.size = h.size,
         NEW k, k.addr = h.addr, k.size = h.size, k.st = "live"
  PROVE  ~DuplicateKey(S, h.addr) /\ Indexed(S \cup {node}, (H \ {h}) \cup {k})
<1>1. h.addr \in Addr /\ h.addr # 0 /\ h.size # 0 /\ h.addr \in Extent(h)
  BY BlockFacts DEF Apart
<1>2. \A g \in H : g.st = "live" => h.addr \notin Extent(g)
  BY OneBlock
<1>3. S \subseteq O /\ \A n \in O : n \in S \/ n.key = 0
  BY <1>1, <1>2, EraseNone
<1>4. ~DuplicateKey(S, h.addr)
  BY <1>3, NodeFacts DEF DuplicateKey
<1>5. Indexed(S, H)
  BY <1>3, PhantomsAside DEF Apart
<1> QED
  BY <1>1, <1>4, <1>5 DEF Indexed

\* add_obj for a failed or an empty allocation: what it indexes is a phantom.
LEMMA RecordedPhantom ==
  ASSUME NEW H \in SUBSET Block, Apart(H), NEW O \in SUBSET Node, Indexed(O, H),
         NEW a \in Addr, NEW size \in Sizes,
         \/ size = 0 /\ a = ZeroPtr
         \/ size # 0 /\ a = 0,
         NEW S \in EraseWhileFound(O, a), NEW node, node.key = a, node.size = size
  PROVE  /\ Indexed(S \cup {node}, H)
         /\ 0 \notin Sizes => ~DuplicateKey(S, a)
<1>1. \A h \in H : a \notin Extent(h)
  BY BlockFacts
<1>2. S \subseteq O /\ \A n \in O : n \in S \/ n.key = 0
  BY <1>1, EraseNone
<1>3. Indexed(S, H)
  BY <1>2, PhantomsAside DEF Apart
<1>4. Indexed(S \cup {node}, H)
  BY <1>3 DEF Indexed
<1>5. ASSUME 0 \notin Sizes, NEW n \in S, n.key = a PROVE FALSE
  <2>1. a = 0 /\ n.size # 0
    BY <1>2, <1>5 DEF Indexed
  <2>2. n.size \in Addr /\ n.size \in Nat
    BY <1>2, AddrSpaceAssumption DEF Node, Addr
  <2>3. AddrPlus(n.key, n.size) = n.size
    BY <1>5, <2>1, <2>2, NoWrap DEF AddrPlus
  <2>4. Covers(n, n.key)
    BY <1>5, <2>1, <2>2, <2>3 DEF Covers
  <2> QED
    BY <1>5, <2>4, EraseResult
<1> QED
  BY <1>4, <1>5 DEF DuplicateKey

\* A free function at a live block: its node goes, and no other but phantoms.
LEMMA Dropped ==
  ASSUME NEW H \in SUBSET Block, Apart(H), NEW O \in SUBSET Node, Indexed(O, H),
         NEW h \in H, h.st = "live", NEW r \in Find2(O, h.addr),
         NEW R \in EraseWhileFound(O \ {r}, h.addr),
         NEW k, k.st = "freeing"
  PROVE  R \subseteq O /\ Indexed(R, (H \ {h}) \cup {k})
<1>1. h.addr \in Addr /\ h.addr # 0 /\ h.addr \in Extent(h)
  BY BlockFacts DEF Apart
<1>2. r \in O /\ Covers(r, h.addr)
  BY <1>1, NotMissed, Find2Result
<1>3. \A n \in O : Covers(n, h.addr) => n.key \in {0, h.addr}
  BY <1>1, NodeFacts, OneBlock
<1>4. R \subseteq O \ {r} /\ \A n \in O : n \in R \/ n.key \in {0, h.addr}
  <2>1. PICK D \in SUBSET Covering(O \ {r}, h.addr) : R = (O \ {r}) \ D
    BY Zenon DEF EraseWhileFound
  <2>2. \A n \in D : n.key \in {0, h.addr}
    BY <1>3 DEF Covering
  <2> QED
    BY <1>2, <1>3, <2>1, <2>2
<1>5. \A n \in R : n.key # h.addr
  <2>1. \A n \in R : n.key = h.addr => ~Covers(n, n.key)
    BY <1>1, EraseResult
  <2>2. \A n \in O : n.key = h.addr => Covers(n, n.key)
    BY <1>1, NodeFacts
  <2> QED
    BY <1>4, <2>1, <2>2
<1>6. \A g \in H : g.st = "live" /\ g # h => g.addr # h.addr /\ g.addr # 0
  BY <1>1, OneBlock DEF Apart
<1> QED
  BY <1>4, <1>5, <1>6 DEF Indexed

\* A free function at an address without a block: only phantoms go.
LEMMA DroppedPhantom ==
  ASSUME NEW H \in SUBSET Block, Apart(H), NEW O \in SUBSET Node, Indexed(O, H),
         NEW a \in {0, ZeroPtr}, a \in Addr, NEW r \in Find2(O, a), r # NoNode,
         NEW R \in EraseWhileFound(O \ {r}, a)
  PROVE  R \subseteq O /\ Indexed(R, H) /\ r.key = 0 /\ r \in O /\ Covers(r, a)
<1>1. \A h \in H : a \notin Extent(h)
  BY BlockFacts
<1>2. \A n \in O : Covers(n, a) => n.key = 0
  BY <1>1, NodeFacts
<1>3. r \in O /\ Covers(r, a)
  BY Find2Result
<1>4. PICK D \in SUBSET Covering(O \ {r}, a) : R = (O \ {r}) \ D
  BY Zenon DEF EraseWhileFound
<1>5. R \subseteq O /\ \A n \in O : n \in R \/ n.key = 0
  BY <1>2, <1>3, <1>4 DEF Covering
<1>6. Indexed(R, H)
  BY <1>5, PhantomsAside DEF Apart
<1> QED
  BY <1>2, <1>3, <1>5, <1>6

-----------------------------------------------------------------------------
(* Type correctness of the tracer's operations.                            *)

\* A byte range, with wrap-around, stays in the address space.
LEMMA SpanType ==
  ASSUME NEW a \in Addr, NEW n \in Int
  PROVE  Span(a, n) \subseteq Addr
BY AddrPlusType, AddrInt DEF Span

\* Shadow bytes keep their two values.
LEMMA TaintType ==
  ASSUME taint \in [Addr -> {0, 1}], NEW a, NEW v \in {0, 1}, NEW n
  PROVE  set_mem_taint_bysize2(a, v, n) \in [Addr -> {0, 1}]
BY DEF set_mem_taint_bysize2

\* The state the hooks can change, apart from the history.
TracerType ==
  /\ pend \in [Sites -> Sizes \cup {NoSize}]
  /\ objs \subseteq Node
  /\ inst \in [Addr -> Instance \cup {NoInst}]
  /\ taint \in [Addr -> {0, 1}]
  /\ out \in Instance \cup {NoInst}
  /\ crash \in Crashes
  /\ written \subseteq Addr

IInv == TracerType /\ FindableHaveInstances /\ crash # "no_instance"

\* object_hook at a return site.
LEMMA ReturnHook ==
  ASSUME IInv, NEW site \in Sites, NEW a \in Addr, NEW type \in Types,
         return_hook(site, a, type)
  PROVE  IInv'
<1> USE DEF IInv
<1>1. CASE pend[site] = NoSize
  BY <1>1 DEF return_hook, TracerType, FindableHaveInstances, tracer
<1>2. CASE pend[site] # NoSize
  <2> DEFINE size == pend[site]
             node == [key |-> a, size |-> size, type |-> type]
  <2>1. add_obj(site, a, type)
    BY <1>2 DEF return_hook
  <2>2. size \in Sizes /\ size \in Addr /\ size \in Int
    BY Zenon, <1>2, InputAssumption, AddrInt DEF TracerType
  <2>3. pend' = [pend EXCEPT ![site] = NoSize] /\ UNCHANGED out
    BY <2>1 DEF add_obj
  <2>4. PICK S \in EraseWhileFound(objs, a) :
          \/ /\ DuplicateKey(S, a)
             /\ objs' = S
             /\ crash' = "dup_key"
             /\ UNCHANGED <<inst, taint, written>>
          \/ /\ ~DuplicateKey(S, a)
             /\ objs' = S \cup {node}
             /\ inst' = [inst EXCEPT ![a] = [type |-> type, pset |-> {}]]
             /\ taint' = set_mem_taint_bysize2(a, 0, size)
             /\ written' = written \ Span(a, size)
             /\ UNCHANGED crash
    BY <2>1 DEF add_obj
  <2>5. S \subseteq objs
    BY <2>4, EraseResult DEF TracerType
  <2>6. CASE DuplicateKey(S, a) /\ objs' = S /\ crash' = "dup_key"
             /\ UNCHANGED <<inst, taint, written>>
    BY <2>3, <2>5, <2>6 DEF TracerType, FindableHaveInstances, Crashes
  <2>7. CASE /\ ~DuplicateKey(S, a)
             /\ objs' = S \cup {node}
             /\ inst' = [inst EXCEPT ![a] = [type |-> type, pset |-> {}]]
             /\ taint' = set_mem_taint_bysize2(a, 0, size)
             /\ written' = written \ Span(a, size)
             /\ UNCHANGED crash
    <3>1. node \in Node /\ [type |-> type, pset |-> {}] \in Instance
      BY <2>2 DEF Node, Instance
    <3>2. taint' \in [Addr -> {0, 1}]
      BY Zenon, <2>7, TaintType DEF TracerType
    <3>3. TracerType'
      BY <2>3, <2>5, <2>7, <3>1, <3>2 DEF TracerType
    <3>4. ASSUME NEW n \in objs', Covers(n, n.key)
          PROVE  inst'[n.key] # NoInst /\ inst'[n.key].type = n.type
      <4>1. CASE n = node
        BY Zenon, <2>7, <3>1, <4>1, NoInstAssumption DEF TracerType
      <4>2. CASE n \in S
        <5>1. n.key # a /\ n \in objs /\ n.key \in Addr
          BY <2>5, <2>7, <4>2 DEF DuplicateKey, TracerType, Node
        <5>2. inst'[n.key] = inst[n.key]
          BY <2>7, <5>1 DEF TracerType
        <5> QED
          BY Zenon, <3>4, <5>1, <5>2 DEF FindableHaveInstances
      <4> QED
        BY <2>7, <4>1, <4>2
    <3> QED
      BY Zenon, <2>7, <3>3, <3>4 DEF FindableHaveInstances
  <2> QED
    BY <2>4, <2>6, <2>7
<1> QED
  BY <1>1, <1>2

\* trace_delete and object_hook at the entry of a free function.
LEMMA FreeHook ==
  ASSUME IInv, Running, NEW kind, NEW a \in Addr, free_hook(kind, a),
         UNCHANGED written
  PROVE  IInv'
<1> USE DEF IInv
<1>1. PICK r \in Find2(objs, a) :
        /\ IF kind # "vmalloc" /\ r # NoNode
           THEN delete_instance(a)
           ELSE UNCHANGED <<inst, out, crash>>
        /\ IF crash' = "null_pset" THEN UNCHANGED objs ELSE delete_rb(r, a)
        /\ UNCHANGED <<pend, taint>>
  BY DEF free_hook
<1>2. /\ objs' \subseteq objs
      /\ \/ objs' = objs /\ (r = NoNode \/ crash' = "null_pset")
         \/ \A n \in objs' : n.key = a => ~Covers(n, n.key)
  <2>1. CASE objs' = objs /\ (r = NoNode \/ crash' = "null_pset")
    BY <2>1
  <2>2. CASE objs' \in EraseWhileFound(objs \ {r}, a)
    <3>1. objs \ {r} \in SUBSET Node
      BY Zenon DEF TracerType
    <3> QED
      BY <2>2, <3>1, EraseResult
  <2> QED
    BY <1>1, <2>1, <2>2 DEF delete_rb
<1>3. CASE UNCHANGED <<inst, out, crash>>
  BY <1>1, <1>2, <1>3 DEF TracerType, FindableHaveInstances
<1>4. CASE delete_instance(a) /\ r # NoNode
  <2>1. CASE inst[a] = NoInst
    BY <1>1, <1>2, <1>4, <2>1
    DEF delete_instance, TracerType, FindableHaveInstances, Crashes
  <2>2. CASE inst[a] # NoInst
    <3>1. /\ inst' = [inst EXCEPT ![a] = NoInst]
          /\ out' = inst[a]
          /\ UNCHANGED crash
      BY <1>4, <2>2 DEF delete_instance
    <3>2. TracerType'
      BY <1>1, <1>2, <3>1 DEF TracerType
    <3>3. CASE \A n \in objs' : n.key = a => ~Covers(n, n.key)
      <4>1. ASSUME NEW n \in objs', Covers(n, n.key)
            PROVE  inst'[n.key] # NoInst /\ inst'[n.key].type = n.type
        <5>1. n \in objs /\ n.key # a /\ n.key \in Addr
          BY <1>2, <3>3, <4>1 DEF TracerType, Node
        <5>2. inst'[n.key] = inst[n.key]
          BY <3>1, <5>1 DEF TracerType
        <5> QED
          BY <4>1, <5>1, <5>2 DEF FindableHaveInstances
      <4> QED
        BY <3>1, <3>2, <4>1 DEF FindableHaveInstances
    <3>4. CASE crash' = "null_pset" /\ objs' = objs
      BY <3>1, <3>4 DEF Running
    <3> QED
      BY <1>2, <1>4, <3>3, <3>4
  <2> QED
    BY Zenon, <2>1, <2>2
<1> QED
  BY <1>1, <1>3, <1>4
\* add_read_action and add_write_action for a node a lookup returned.
LEMMA AddRecord ==
  ASSUME IInv, NEW a \in Addr, NEW r \in Find2(objs, a), r # NoNode,
         add_record(r, a), UNCHANGED <<pend, objs, out>>,
         taint' \in [Addr -> {0, 1}], written' \subseteq Addr
  PROVE  IInv'
<1> USE DEF IInv
<1>1. r \in objs /\ r \in Node /\ r.key \in Addr /\ Covers(r, a)
  BY Find2Result DEF TracerType, Node
<1>2. inst[r.key] # NoInst
  BY <1>1, CoversOwnKey DEF FindableHaveInstances
<1> DEFINE rec == [taint |-> taint[a], off |-> a - r.key]
           old == inst[r.key]
           new == [old EXCEPT !.pset = @ \cup {rec}]
<1>3. inst' = [inst EXCEPT ![r.key] = new] /\ UNCHANGED crash
  BY <1>2 DEF add_record
<1>4. a - r.key \in Addr
  BY <1>1, AddrSpaceAssumption DEF Covers, Addr
<1>5. old \in Instance /\ new \in Instance /\ new.type = old.type
  BY <1>1, <1>2, <1>4 DEF TracerType, Instance, Record
<1>6. TracerType'
  BY <1>1, <1>3, <1>5 DEF TracerType
<1>7. ASSUME NEW n \in objs', Covers(n, n.key)
      PROVE  inst'[n.key] # NoInst /\ inst'[n.key].type = n.type
  <2>1. n \in objs /\ n.key \in Addr
    BY DEF TracerType, Node
  <2>2. inst[n.key] # NoInst /\ inst[n.key].type = n.type
    BY <1>7, <2>1 DEF FindableHaveInstances
  <2>3. CASE n.key = r.key
    BY Zenon, <1>1, <1>3, <1>5, <2>2, <2>3, NoInstAssumption DEF TracerType
  <2>4. CASE n.key # r.key
    BY <1>1, <1>3, <2>1, <2>2, <2>4 DEF TracerType
  <2> QED
    BY <2>3, <2>4
<1> QED
  BY <1>3, <1>6, <1>7 DEF FindableHaveInstances

-----------------------------------------------------------------------------
(* The specification.                                                      *)

\* What the contexts do stays in its type.
GuestType ==
  /\ ctx \in [Ctx -> Activity]
  /\ heap \subseteq Block
  /\ owner \in [Sites -> Ctx \cup {NoCtx}]
  /\ mixed \in BOOLEAN

\* The initial state satisfies the inductive invariant.
LEMMA InitInv == Init => IInv /\ GuestType
<1> SUFFICES ASSUME Init PROVE IInv /\ GuestType
  OBVIOUS
<1>1. IInv
  BY DEF Init, IInv, TracerType, FindableHaveInstances, Crashes
<1>2. GuestType
  BY Zenon DEF Init, GuestType, Activity
<1> QED
  BY <1>1, <1>2

\* What the allocators return is an address.
LEMMA NullsAreAddrs ==
  /\ 0 \in Addr
  /\ \A a \in {0, ZeroPtr} : a \in Addr
  /\ \A a \in Arena \cup {0, ZeroPtr} : a \in Addr
<1>1. 0 \in Addr
  BY AddrSpaceAssumption DEF Addr
<1> QED
  BY Zenon, <1>1, InputAssumption

\* A context's activity, taken apart.
LEMMA ActivityFields ==
  ASSUME NEW act \in Activity
  PROVE  /\ act.op = "alloc" => act.site \in Sites /\ act.size \in Sizes /\ act.kind \in AllKinds
         /\ act.op = "return" => act.site \in Sites /\ act.addr \in Addr
         /\ act.op = "free" => act.block \in Block
BY DEF Activity, Idle

\* Every step preserves the inductive invariant.
LEMMA NextInv ==
  ASSUME IInv, GuestType, [Next]_vars
  PROVE  IInv'
<1>1. CASE UNCHANGED vars
  BY Zenon, <1>1 DEF vars, tracer, history, IInv, TracerType, FindableHaveInstances
<1>2. ASSUME NEW c \in Ctx, NEW site \in Sites, NEW size \in Sizes,
             NEW kind \in Kinds, AllocEnter(c, site, size, kind)
      PROVE  IInv'
  BY Zenon, <1>2 DEF AllocEnter, insert_obj, IInv, TracerType, FindableHaveInstances
<1>3. ASSUME NEW c \in Ctx, NEW a, AllocPick(c, a)
      PROVE  IInv'
  BY <1>3 DEF AllocPick, tracer, history, IInv, TracerType, FindableHaveInstances
<1>4. ASSUME NEW c \in Ctx, NEW type \in Types, AllocReturn(c, type)
      PROVE  IInv'
  <2>1. ctx[c].site \in Sites /\ ctx[c].addr \in Addr
    BY <1>4, ActivityFields DEF AllocReturn, GuestType
  <2> QED
    BY <1>4, <2>1, ReturnHook DEF AllocReturn
<1>5. ASSUME NEW c \in Ctx, NEW site \in Sites, NEW a \in EaxValues,
             NEW type \in Types, VisitSite(c, site, a, type)
      PROVE  IInv'
  <2>1. a \in Addr
    BY InputAssumption
  <2> QED
    BY <1>5, <2>1, ReturnHook DEF VisitSite
<1>6. ASSUME NEW c \in Ctx, NEW h \in heap, FreeEnter(c, h)
      PROVE  IInv'
  <2>1. h.addr \in Addr
    BY DEF GuestType, Block
  <2> QED
    BY <1>6, <2>1, FreeHook DEF FreeEnter, history
<1>7. ASSUME NEW c \in Ctx, NEW a \in {0, ZeroPtr}, FreeNull(c, a)
      PROVE  IInv'
  <2>1. a \in Addr
    BY Zenon, NullsAreAddrs
  <2> QED
    BY <1>7, <2>1, FreeHook DEF FreeNull, history
<1>8. ASSUME NEW c \in Ctx, FreeExit(c)
      PROVE  IInv'
  BY <1>8 DEF FreeExit, tracer, history, IInv, TracerType, FindableHaveInstances
<1>9. ASSUME NEW a \in Probes, Load(a)
      PROVE  IInv'
  <2>1. a \in Addr
    BY InputAssumption
  <2>2. PICK r \in Find2(objs, a) \ {NoNode} : add_record(r, a)
    BY <1>9 DEF Load, helper_load
  <2>3. UNCHANGED <<pend, objs, taint, out, written>>
    BY <1>9 DEF Load, helper_load, history
  <2>4. taint' \in [Addr -> {0, 1}] /\ written' \subseteq Addr
    BY <2>3 DEF IInv, TracerType
  <2> QED
    BY <2>1, <2>2, <2>3, <2>4, AddRecord
<1>10. ASSUME NEW a \in Probes, NEW w \in Widths, Store(a, w)
       PROVE  IInv'
  <2>1. a \in Addr /\ w \in Int
    BY InputAssumption
  <2>2. UNCHANGED <<pend, objs, out>> /\ written' = written \cup Span(a, w)
    BY <1>10 DEF Store, helper_store
  <2>3. written' \subseteq Addr
    BY <2>1, <2>2, SpanType DEF IInv, TracerType
  <2>4. PICK r \in Find2(objs, a) :
          IF r = NoNode
          THEN UNCHANGED <<inst, crash, taint>>
          ELSE /\ add_record(r, a)
               /\ taint' = IF crash' = "none"
                           THEN set_mem_taint_bysize2(a, 1, AccessSize) ELSE taint
    BY Zenon, <1>10 DEF Store, helper_store
  <2>5. CASE r = NoNode
    BY <2>2, <2>3, <2>4, <2>5 DEF IInv, TracerType, FindableHaveInstances
  <2>6. CASE r # NoNode
    <3>1. taint' \in [Addr -> {0, 1}]
      BY <2>4, <2>6, TaintType DEF IInv, TracerType
    <3> QED
      BY <2>1, <2>2, <2>3, <2>4, <2>6, <3>1, AddRecord
  <2> QED
    BY <2>5, <2>6
<1>11. CASE PEMU_init
  BY Zenon, <1>11 DEF PEMU_init, IInv, TracerType, FindableHaveInstances
<1>12. ASSUME NEW snapshot \in Snapshots, load_vmstate(snapshot)
       PROVE  IInv'
  BY Zenon, <1>12 DEF load_vmstate, tracer, IInv, TracerType, FindableHaveInstances
<1> QED
  BY Zenon, <1>1, <1>2, <1>3, <1>4, <1>5, <1>6, <1>7, <1>8, <1>9, <1>10,
     <1>11, <1>12 DEF Next, GuestStep

\* Every step keeps the guest and the history in their types.
LEMMA NextGuest ==
  ASSUME IInv, GuestType, [Next]_vars
  PROVE  GuestType'
<1> USE DEF GuestType
<1>1. CASE UNCHANGED vars
  BY <1>1 DEF vars, guest, history
<1>2. ASSUME NEW c \in Ctx, NEW site \in Sites, NEW size \in Sizes,
             NEW kind \in Kinds, AllocEnter(c, site, size, kind)
      PROVE  GuestType'
  <2>1. [op |-> "alloc", site |-> site, size |-> size, kind |-> kind] \in Activity
    BY Zenon, InputAssumption DEF Activity
  <2> QED
    BY Zenon, <1>2, <2>1 DEF AllocEnter
<1>3. ASSUME NEW c \in Ctx, NEW a \in Arena \cup {0, ZeroPtr}, AllocPick(c, a)
      PROVE  GuestType'
  <2>1. a \in Addr
    BY Zenon, NullsAreAddrs
  <2>2. /\ ctx[c].site \in Sites /\ ctx[c].size \in Addr
        /\ ctx[c].kind \in AllKinds
    BY <1>3, ActivityFields, InputAssumption DEF AllocPick
  <2>3. [op |-> "return", site |-> ctx[c].site, addr |-> a] \in Activity
    BY <2>1, <2>2 DEF Activity
  <2>4. [addr |-> a, size |-> ctx[c].size, kind |-> ctx[c].kind, st |-> "new"] \in Block
    BY <2>1, <2>2 DEF Block
  <2> QED
    BY <1>3, <2>3, <2>4 DEF AllocPick, history
<1>4. ASSUME NEW c \in Ctx, NEW type \in Types, AllocReturn(c, type)
      PROVE  GuestType'
  <2>1. ASSUME NEW h \in heap PROVE [h EXCEPT !.st = "live"] \in Block
    BY DEF Block
  <2>2. heap' \subseteq Block
    BY <1>4, <2>1 DEF AllocReturn
  <2>3. ctx' \in [Ctx -> Activity]
    BY <1>4 DEF AllocReturn, Activity
  <2> QED
    BY Zenon, <1>4, <2>2, <2>3 DEF AllocReturn
<1>5. ASSUME NEW c \in Ctx, NEW site \in Sites, NEW a \in EaxValues,
             NEW type \in Types, VisitSite(c, site, a, type)
      PROVE  GuestType'
  BY <1>5 DEF VisitSite, guest
<1>6. ASSUME NEW c \in Ctx, NEW h \in heap, FreeEnter(c, h)
      PROVE  GuestType'
  <2>1. [h EXCEPT !.st = "freeing"] \in Block
    BY Zenon DEF Block
  <2>2. [op |-> "free", block |-> h] \in Activity
    BY DEF Activity
  <2> QED
    BY <1>6, <2>1, <2>2 DEF FreeEnter, history
<1>7. ASSUME NEW c \in Ctx, NEW a, FreeNull(c, a)
      PROVE  GuestType'
  BY Zenon, <1>7 DEF FreeNull, guest, history
<1>8. ASSUME NEW c \in Ctx, FreeExit(c)
      PROVE  GuestType'
  BY <1>8 DEF FreeExit, history, Activity
<1>9. ASSUME NEW a \in Probes, Load(a)
      PROVE  GuestType'
  BY <1>9 DEF Load, guest, history
<1>10. ASSUME NEW a \in Probes, NEW w \in Widths, Store(a, w)
       PROVE  GuestType'
  BY <1>10 DEF Store, guest
<1>11. CASE PEMU_init
  BY <1>11 DEF PEMU_init, guest
<1>12. ASSUME NEW snapshot \in Snapshots, load_vmstate(snapshot)
       PROVE  GuestType'
  BY Zenon, <1>12, SnapshotsAssumption DEF load_vmstate
<1> QED
  BY <1>1, <1>2, <1>3, <1>4, <1>5, <1>6, <1>7, <1>8, <1>9, <1>10,
     <1>11, <1>12 DEF Next, GuestStep

-----------------------------------------------------------------------------
(* The index is exact while no contexts have met.                          *)

\* A context that is under way has an entry, so that no other may make one.
LEMMA HasEntry ==
  ASSUME GuestType, Waiting, NEW d \in Ctx, ctx[d].op \in {"alloc", "return"}
  PROVE  ctx[d].site \in Sites /\ owner[ctx[d].site] = d /\ pend[ctx[d].site] # NoSize
<1>1. ctx[d] \in Activity
  BY DEF GuestType
<1> QED
  BY <1>1, ActivityFields, InputAssumption DEF Waiting, UnderWay

\* A context stays under way when its entry and its block stay.
Same(act, pd, ow, pd2, ow2) ==
  act.op \in {"alloc", "return"} => pd2[act.site] = pd[act.site] /\ ow2[act.site] = ow[act.site]
LEMMA StillUnderWay ==
  ASSUME NEW d, NEW act, NEW pd, NEW ow, NEW H, NEW pd2, NEW ow2, NEW H2,
         UnderWay(d, act, pd, ow, H), Same(act, pd, ow, pd2, ow2),
         act.op = "return" => Given(pd[act.site], act.addr, H2),
         act.op = "free" => Freed(act.block.addr, H2)
  PROVE  UnderWay(d, act, pd2, ow2, H2)
  BY Zenon DEF UnderWay, Same

\* The contexts but one do what they did, on a heap that has what they need.
LEMMA StillWaiting ==
  ASSUME Waiting, NEW c \in Ctx, \A d \in Ctx : d # c => ctx'[d] = ctx[d],
         \A d \in Ctx : d # c => Same(ctx[d], pend, owner, pend', owner'),
         \A d \in Ctx : d # c /\ ctx[d].op = "return" =>
           Given(pend[ctx[d].site], ctx[d].addr, heap'),
         \A d \in Ctx : d # c /\ ctx[d].op = "free" => Freed(ctx[d].block.addr, heap'),
         UnderWay(c, ctx'[c], pend', owner', heap')
  PROVE  Waiting'
<1>1. ASSUME NEW d \in Ctx, d # c PROVE UnderWay(d, ctx[d], pend', owner', heap')
  <2>1. UnderWay(d, ctx[d], pend, owner, heap)
    BY DEF Waiting
  <2> QED
    BY <1>1, <2>1, StillUnderWay, ZenonT(40)
<1> QED
  BY <1>1, Zenon DEF Waiting

LEMMA WaitingFor ==
  ASSUME Waiting, NEW d \in Ctx
  PROVE  /\ ctx[d].op = "return" => Given(pend[ctx[d].site], ctx[d].addr, heap)
         /\ ctx[d].op = "free" => Freed(ctx[d].block.addr, heap)
<1>1. UnderWay(d, ctx[d], pend, owner, heap)
  BY DEF Waiting
<1> QED
  BY <1>1, Zenon DEF UnderWay

\* Only one context does something else: what it does has to be separate.
LEMMA StillSeparate ==
  ASSUME OnePerBlock, NEW c \in Ctx, \A d \in Ctx : d # c => ctx'[d] = ctx[d],
         \A d \in Ctx : d # c => Separate(ctx'[c], ctx[d])
  PROVE  OnePerBlock'
<1>1. \A p, q : Separate(p, q) => Separate(q, p)
  BY Zenon DEF Separate
<1>2. ASSUME NEW d \in Ctx, NEW e \in Ctx, d # e PROVE Separate(ctx'[d], ctx'[e])
  <2>1. CASE d = c
    BY <1>2, <2>1, Zenon
  <2>2. CASE e = c
    BY <1>1, <1>2, <2>2, Zenon
  <2>3. CASE d # c /\ e # c
    BY <1>2, <2>3, Zenon DEF OnePerBlock
  <2> QED
    BY <2>1, <2>2, <2>3
<1> QED
  BY <1>2, Zenon DEF OnePerBlock

LEMMA EnterExact ==
  ASSUME IInv, GuestType, Exact, NEW c \in Ctx, NEW site \in Sites, NEW size \in Sizes,
         NEW kind \in Kinds, AllocEnter(c, site, size, kind), Unmixed'
  PROVE  Waiting' /\ OnePerBlock' /\ Apart(heap)' /\ Indexed(objs, heap)'
<1>1. /\ Unmixed /\ pend[site] = NoSize /\ UNCHANGED <<objs, heap>>
      /\ pend' = [pend EXCEPT ![site] = size] /\ owner' = [owner EXCEPT ![site] = c]
      /\ ctx' = [ctx EXCEPT ![c] = [op |-> "alloc", site |-> site, size |-> size, kind |-> kind]]
  BY Zenon DEF AllocEnter, Unmixed, Running, insert_obj
<1>2. Waiting /\ OnePerBlock /\ Apart(heap) /\ Indexed(objs, heap)
  BY Zenon, <1>1 DEF Exact
<1>3. /\ ctx'[c].op = "alloc" /\ ctx'[c].site = site /\ ctx'[c].size = size
      /\ \A d \in Ctx : d # c => ctx'[d] = ctx[d]
      /\ pend'[site] = size /\ \A s \in Sites : s # site => pend'[s] = pend[s] /\ owner'[s] = owner[s]
      /\ owner'[site] = c
  BY Zenon, <1>1 DEF GuestType, IInv, TracerType
<1>4. ASSUME NEW d \in Ctx, d # c, ctx[d].op \in {"alloc", "return"}
      PROVE  pend'[ctx[d].site] = pend[ctx[d].site] /\ owner'[ctx[d].site] = owner[ctx[d].site]
  BY <1>1, <1>2, <1>3, <1>4, HasEntry
<1>5. Waiting'
  <2>1. UnderWay(c, ctx'[c], pend', owner', heap')
    BY <1>3, Zenon DEF UnderWay
  <2>2. \A d \in Ctx : d # c => Same(ctx[d], pend, owner, pend', owner')
    BY <1>4, Zenon DEF Same
  <2> QED
    BY Zenon, <1>1, <1>2, <1>3, <2>1, <2>2, StillWaiting, WaitingFor
<1>6. OnePerBlock'
  <2>1. \A p : Separate(ctx'[c], p)
    BY Zenon, <1>3 DEF Separate
  <2> QED
    BY Zenon, <1>2, <1>3, <2>1, StillSeparate
<1> QED
  BY <1>1, <1>2, <1>5, <1>6

LEMMA PickExact ==
  ASSUME IInv, GuestType, Exact, NEW c \in Ctx, NEW a \in Addr, AllocPick(c, a), Unmixed'
  PROVE  Waiting' /\ OnePerBlock' /\ Apart(heap)' /\ Indexed(objs, heap)'
<1> DEFINE h == [addr |-> a, size |-> ctx[c].size, kind |-> ctx[c].kind, st |-> "new"]
<1>1. /\ Unmixed /\ UNCHANGED <<objs, pend, owner>> /\ ctx[c].op = "alloc"
      /\ ctx' = [ctx EXCEPT ![c] = [op |-> "return", site |-> ctx[c].site, addr |-> a]]
  BY DEF AllocPick, Unmixed, Running, tracer, history
<1>2. Waiting /\ OnePerBlock /\ Apart(heap) /\ Indexed(objs, heap)
  BY <1>1 DEF Exact
<1>3. /\ ctx'[c].op = "return" /\ ctx'[c].site = ctx[c].site /\ ctx'[c].addr = a
      /\ \A d \in Ctx : d # c => ctx'[d] = ctx[d]
  BY Zenon, <1>1 DEF GuestType
<1>4. \/ h.size = 0 /\ a = ZeroPtr /\ heap' = heap
      \/ h.size # 0 /\ a = 0 /\ heap' = heap
      \/ /\ h.size # 0 /\ a # 0 /\ Extent(h) \subseteq Arena
         /\ \A g \in heap : Extent(g) \cap Extent(h) = {}
         /\ heap' = heap \cup {h}
  BY Zenon DEF AllocPick
<1>5. /\ h.size = ctx[c].size /\ h.addr = a /\ h.st = "new" /\ h.size \in Nat /\ a \in Nat
      /\ pend[ctx[c].site] = h.size /\ owner[ctx[c].site] = c /\ h.size # NoSize
  <2>1. ctx[c].size \in Sizes
    BY <1>1, ActivityFields DEF GuestType
  <2>2. ctx[c].size # NoSize /\ ctx[c].size \in Addr
    BY <2>1, InputAssumption, Zenon
  <2>3. ctx[c].size \in Nat /\ a \in Nat
    BY <2>2, AddrSpaceAssumption DEF Addr
  <2> QED
    BY <1>1, <1>2, <2>2, <2>3 DEF Waiting, UnderWay
<1> HIDE DEF h
<1>6. heap \subseteq heap' /\ \A g \in heap' : g \in heap \/ (g = h /\ h.size # 0)
  BY Zenon, <1>4
<1>7. Given(h.size, a, heap')
  BY <1>4, <1>5 DEF Given
<1>8. Waiting'
  <2>1. UnderWay(c, ctx'[c], pend', owner', heap')
    BY <1>1, <1>3, <1>5, <1>7, Zenon DEF UnderWay
  <2>2. \A size, b : Given(size, b, heap) => Given(size, b, heap')
    BY <1>6, Zenon DEF Given
  <2>3. \A b : Freed(b, heap) => Freed(b, heap')
    BY <1>6, Zenon DEF Freed
  <2>4. \A d \in Ctx : Same(ctx[d], pend, owner, pend', owner')
    BY Zenon, <1>1 DEF Same
  <2> QED
    BY Zenon, <1>2, <1>3, <2>1, <2>2, <2>3, <2>4, StillWaiting, WaitingFor
<1>9. ASSUME NEW d \in Ctx, d # c, ctx[d].op = "return", ctx[d].addr = a
      PROVE  a \in {0, ZeroPtr}
  <2>1. Given(pend[ctx[d].site], a, heap)
    BY <1>2, <1>9, WaitingFor, Zenon
  <2>2. ASSUME NEW g \in heap, g.addr = a, a # 0, a # ZeroPtr PROVE FALSE
    <3>1. a \in Extent(g)
      BY Zenon, <1>2, <2>2, BlockFacts DEF GuestType
    <3>2. h.size > 0 /\ a \in Extent(h)
      BY <1>4, <1>5, <2>2 DEF Extent
    <3> QED
      BY Zenon, <1>4, <2>2, <3>1, <3>2
  <2> QED
    BY <2>1, <2>2 DEF Given
<1>10. OnePerBlock'
  <2>1. \A d \in Ctx : d # c => Separate(ctx'[c], ctx[d])
    BY Zenon, <1>3, <1>9 DEF Separate
  <2> QED
    BY Zenon, <1>2, <1>3, <2>1, StillSeparate
<1>11. Apart(heap')
  BY Zenon, <1>2, <1>4, <1>5 DEF Apart
<1>12. Indexed(objs', heap')
  BY Zenon, <1>1, <1>2, <1>5, <1>6 DEF Indexed
<1> QED
  BY Zenon, <1>8, <1>10, <1>11, <1>12

LEMMA ReturnExact ==
  ASSUME IInv, GuestType, Exact, NEW c \in Ctx, NEW type \in Types, AllocReturn(c, type),
         ~mixed'
  PROVE  /\ Unmixed' => Waiting' /\ OnePerBlock' /\ Apart(heap)' /\ Indexed(objs, heap)'
         /\ 0 \notin Sizes => crash' = "none"
<1> DEFINE site == ctx[c].site
           a == ctx[c].addr
           size == pend[site]
           node == [key |-> a, size |-> size, type |-> type]
<1>1. /\ Unmixed /\ ctx[c].op = "return" /\ ctx' = [ctx EXCEPT ![c] = Idle]
      /\ owner' = [owner EXCEPT ![site] = NoCtx]
      /\ return_hook(site, a, type)
      /\ heap' = {IF h.addr = a /\ h.st = "new" THEN [h EXCEPT !.st = "live"] ELSE h : h \in heap}
  BY Zenon DEF AllocReturn, Unmixed, Running
<1>2. Waiting /\ OnePerBlock /\ Apart(heap) /\ Indexed(objs, heap)
  BY <1>1 DEF Exact
<1>3. /\ site \in Sites /\ a \in Addr /\ size \in Sizes /\ size # NoSize /\ owner[site] = c
      /\ Given(size, a, heap)
  BY <1>1, <1>2, ActivityFields DEF GuestType, Waiting, UnderWay, IInv, TracerType
<1>4. /\ pend' = [pend EXCEPT ![site] = NoSize]
      /\ \E S \in EraseWhileFound(objs, a) :
           \/ DuplicateKey(S, a) /\ crash' = "dup_key"
           \/ ~DuplicateKey(S, a) /\ objs' = S \cup {node} /\ crash' = crash
  BY Zenon, <1>1, <1>3 DEF return_hook, add_obj
<1>5. PICK S \in EraseWhileFound(objs, a) :
           \/ DuplicateKey(S, a) /\ crash' = "dup_key"
           \/ ~DuplicateKey(S, a) /\ objs' = S \cup {node} /\ crash' = crash
  BY <1>4
<1>6. /\ ctx'[c].op = "idle" /\ \A d \in Ctx : d # c => ctx'[d] = ctx[d]
      /\ \A s \in Sites : s # site => pend'[s] = pend[s] /\ owner'[s] = owner[s]
  BY <1>1, <1>3, <1>4 DEF GuestType, IInv, TracerType, Idle
<1>7. ASSUME NEW d \in Ctx, d # c, ctx[d].op \in {"alloc", "return"}
      PROVE  pend'[ctx[d].site] = pend[ctx[d].site] /\ owner'[ctx[d].site] = owner[ctx[d].site]
  BY ZenonT(40), <1>2, <1>3, <1>6, <1>7, HasEntry
<1>8. node.key = a /\ node.size = size /\ heap \in SUBSET Block /\ objs \in SUBSET Node
  BY DEF GuestType, IInv, TracerType
<1>9. OnePerBlock'
  <2>1. \A p : Separate(ctx'[c], p)
    BY Zenon, <1>6 DEF Separate
  <2> QED
    BY Zenon, <1>2, <1>6, <2>1, StillSeparate
<1>9a. /\ UnderWay(c, ctx'[c], pend', owner', heap')
       /\ \A d \in Ctx : d # c => Same(ctx[d], pend, owner, pend', owner')
  <2>1. UnderWay(c, ctx'[c], pend', owner', heap')
    BY <1>6, Zenon DEF UnderWay
  <2>2. \A d \in Ctx : d # c => Same(ctx[d], pend, owner, pend', owner')
    BY <1>7, Zenon DEF Same
  <2> QED
    BY Zenon, <2>1, <2>2
<1> HIDE DEF site, a, size, node
<1>10. CASE \E h \in heap : h.addr = a /\ h.size = size /\ h.st = "new"
  <2>1. PICK h \in heap : h.addr = a /\ h.size = size /\ h.st = "new"
    BY <1>10
  <2> DEFINE k == [h EXCEPT !.st = "live"]
  <2>2. k.addr = h.addr /\ k.size = h.size /\ k.st = "live" /\ Extent(k) = Extent(h)
    BY <1>8 DEF Block, Extent
  <2>3. \A g \in heap : g.addr = a => g = h
    BY <1>2, <1>8, <2>1, OneBlock, BlockFacts
  <2>4. heap' = (heap \ {h}) \cup {k}
    BY Zenon, <1>1, <2>1, <2>3 DEF a
  <2> HIDE DEF k
  <2>5. ~DuplicateKey(S, a) /\ Indexed(S \cup {node}, heap')
    BY Zenon, <1>2, <1>8, <2>1, <2>2, <2>4, Recorded
  <2>6. Apart(heap')
    BY <1>2, <2>2, <2>4, ApartAgain
  <2>7. a \notin {0, ZeroPtr}
    BY <1>2, <1>8, <2>1, BlockFacts
  <2>8. ASSUME NEW d \in Ctx, d # c, ctx[d].op = "return"
        PROVE  Given(pend[ctx[d].site], ctx[d].addr, heap')
    <3>1. ctx[d].addr # a
      <4>1. Separate(ctx[c], ctx[d])
        BY ZenonT(40), <1>2, <2>8 DEF OnePerBlock
      <4> QED
        BY <1>1, <2>7, <2>8, <4>1 DEF Separate, a
    <3>2. Given(pend[ctx[d].site], ctx[d].addr, heap)
      BY Zenon, <1>2, <2>8, WaitingFor
    <3>3. \A g \in heap : g.addr = ctx[d].addr => g \in heap'
      BY <2>1, <2>4, <3>1
    <3> QED
      BY <3>2, <3>3, Zenon DEF Given
  <2>9. ASSUME NEW d \in Ctx, ctx[d].op = "free"
        PROVE  Freed(ctx[d].block.addr, heap')
    <3>1. Freed(ctx[d].block.addr, heap)
      BY Zenon, <1>2, <2>9, WaitingFor
    <3>2. \A g \in heap : g.st = "freeing" => g \in heap'
      BY <2>1, <2>4
    <3> QED
      BY <3>1, <3>2, Zenon DEF Freed
  <2>10. Waiting'
    BY Zenon, <1>2, <1>6, <1>9a, <2>8, <2>9, StillWaiting
  <2> QED
    BY Zenon, <1>1, <1>5, <1>9, <2>5, <2>6, <2>10 DEF Unmixed
<1>11. CASE (size = 0 /\ a = ZeroPtr) \/ (size # 0 /\ a = 0)
  <2>1. \A h \in heap : h.addr # a
    BY <1>2, <1>8, <1>11, BlockFacts
  <2>2. heap' = heap
    BY Zenon, <1>1, <2>1 DEF a
  <2>3. Indexed(S \cup {node}, heap) /\ (0 \notin Sizes => ~DuplicateKey(S, a))
    BY <1>2, <1>3, <1>8, <1>11, RecordedPhantom
  <2>4. Waiting'
    BY Zenon, <1>2, <1>6, <1>9a, <2>2, StillWaiting, WaitingFor
  <2> QED
    BY Zenon, <1>1, <1>2, <1>5, <1>9, <2>2, <2>3, <2>4 DEF Unmixed
<1> QED
  BY <1>3, <1>10, <1>11 DEF Given

LEMMA VisitExact ==
  ASSUME IInv, GuestType, Exact, NEW c \in Ctx, NEW site \in Sites, NEW a, NEW type,
         VisitSite(c, site, a, type), ~mixed'
  PROVE  /\ Unmixed' => Waiting' /\ OnePerBlock' /\ Apart(heap)' /\ Indexed(objs, heap)'
         /\ crash' = "none"
<1>1. /\ Unmixed /\ pend[site] = NoSize /\ UNCHANGED <<tracer, ctx, heap>>
      /\ owner' = [owner EXCEPT ![site] = NoCtx]
  BY Zenon DEF VisitSite, Unmixed, Running, return_hook, guest
<1>2. Waiting /\ OnePerBlock /\ Apart(heap) /\ Indexed(objs, heap)
  BY <1>1 DEF Exact
<1>3. UNCHANGED <<pend, objs, crash, ctx, heap>> /\ crash = "none"
  BY Zenon, <1>1 DEF tracer, Unmixed
<1>4. ASSUME NEW d \in Ctx, ctx[d].op \in {"alloc", "return"}
      PROVE  owner'[ctx[d].site] = owner[ctx[d].site]
  <2>1. ctx[d].site \in Sites /\ ctx[d].site # site
    BY <1>1, <1>2, <1>4, HasEntry
  <2> QED
    BY Zenon, <1>1, <2>1 DEF GuestType
<1>5. Waiting'
  <2>1. ASSUME NEW d \in Ctx PROVE UnderWay(d, ctx[d], pend, owner', heap)
    <3>1. UnderWay(d, ctx[d], pend, owner, heap)
      BY <1>2 DEF Waiting
    <3>2. Same(ctx[d], pend, owner, pend, owner')
      BY <1>4, Zenon DEF Same
    <3> QED
      BY Zenon, <1>2, <3>1, <3>2, StillUnderWay, WaitingFor
  <2> QED
    BY <1>3, <2>1, Zenon DEF Waiting
<1>6. OnePerBlock'
  BY <1>2, <1>3, Zenon DEF OnePerBlock
<1> QED
  BY <1>2, <1>3, <1>5, <1>6

\* What a free function does to the index and to the instances.
LEMMA FreeHookIs ==
  ASSUME IInv, Running, NEW kind, NEW a \in Addr, free_hook(kind, a)
  PROVE  \E r \in Find2(objs, a) :
           /\ \/ crash' = "null_pset" /\ r # NoNode /\ inst[a] = NoInst /\ UNCHANGED <<objs, inst>>
              \/ /\ crash' = "none"
                 /\ \/ r = NoNode /\ objs' = objs
                    \/ r # NoNode /\ objs' \in EraseWhileFound(objs \ {r}, a)
                 /\ \/ inst' = inst
                    \/ inst' = [inst EXCEPT ![a] = NoInst] /\ out' = inst[a]
           /\ UNCHANGED <<pend, taint>>
<1>1. PICK r \in Find2(objs, a) :
        /\ IF kind # "vmalloc" /\ r # NoNode
           THEN delete_instance(a)
           ELSE UNCHANGED <<inst, out, crash>>
        /\ IF crash' = "null_pset" THEN UNCHANGED objs ELSE delete_rb(r, a)
        /\ UNCHANGED <<pend, taint>>
  BY DEF free_hook
<1> QED
  BY Zenon, <1>1 DEF delete_instance, delete_rb, Running

LEMMA FreeExact ==
  ASSUME IInv, GuestType, Exact, NEW c \in Ctx, NEW h \in heap, FreeEnter(c, h), ~mixed'
  PROVE  /\ Waiting' /\ OnePerBlock' /\ Apart(heap)' /\ Indexed(objs, heap)'
         /\ crash' = "none"
<1> DEFINE a == h.addr
           k == [h EXCEPT !.st = "freeing"]
<1>1. /\ Unmixed /\ Running /\ h.st = "live" /\ UNCHANGED owner
      /\ free_hook(h.kind, a)
      /\ ctx' = [ctx EXCEPT ![c] = [op |-> "free", block |-> h]]
      /\ heap' = (heap \ {h}) \cup {k}
  BY DEF FreeEnter, Unmixed, Running, history
<1>2. Waiting /\ OnePerBlock /\ Apart(heap) /\ Indexed(objs, heap)
  BY <1>1 DEF Exact
<1>3. heap \in SUBSET Block /\ objs \in SUBSET Node
  BY DEF GuestType, IInv, TracerType
<1>4. /\ k.addr = h.addr /\ k.size = h.size /\ k.st = "freeing" /\ Extent(k) = Extent(h)
      /\ ctx'[c].op = "free" /\ ctx'[c].block = h
      /\ \A d \in Ctx : d # c => ctx'[d] = ctx[d]
  BY <1>1, <1>3 DEF Block, Extent, GuestType
<1>5. a \in Addr /\ a \in Extent(h)
  BY Zenon, <1>2, <1>3, BlockFacts
<1> HIDE DEF a, k
<1>6. PICK r \in Find2(objs, a) :
           /\ \/ crash' = "null_pset" /\ r # NoNode /\ inst[a] = NoInst
              \/ /\ crash' = "none"
                 /\ \/ r = NoNode /\ objs' = objs
                    \/ r # NoNode /\ objs' \in EraseWhileFound(objs \ {r}, a)
           /\ UNCHANGED pend
  BY Zenon, <1>1, <1>5, FreeHookIs
<1>7. r # NoNode
  BY Zenon, <1>1, <1>2, <1>3, <1>5, <1>6, NotMissed
<1>8. inst[a] # NoInst
  <2>1. PICK n \in objs : n.key = a
    BY <1>1, <1>2 DEF Indexed, a
  <2>2. Covers(n, n.key)
    BY Zenon, <1>2, <1>3, <1>5, <2>1, NodeFacts DEF a
  <2> QED
    BY <2>1, <2>2 DEF IInv, FindableHaveInstances
<1>9. crash' = "none" /\ objs' \in EraseWhileFound(objs \ {r}, a)
  BY <1>6, <1>7, <1>8
<1>10. Indexed(objs', heap')
  BY Zenon, <1>1, <1>2, <1>3, <1>4, <1>6, <1>9, Dropped DEF a
<1>11. Apart(heap')
  BY <1>1, <1>2, <1>4, ApartAgain
<1>12. ASSUME NEW d \in Ctx, d # c, ctx[d].op = "return"
       PROVE  Given(pend[ctx[d].site], ctx[d].addr, heap')
  <2>1. Given(pend[ctx[d].site], ctx[d].addr, heap)
    BY Zenon, <1>2, <1>12, WaitingFor
  <2>2. \A g \in heap : g.st = "new" => g \in heap'
    BY <1>1
  <2> QED
    BY <2>1, <2>2, Zenon DEF Given
<1>13. ASSUME NEW d \in Ctx, d # c, ctx[d].op = "free"
       PROVE  ctx[d].block.addr # a /\ Freed(ctx[d].block.addr, heap')
  <2>1. PICK g \in heap : g.addr = ctx[d].block.addr /\ g.st = "freeing"
    BY Zenon, <1>2, <1>13, WaitingFor DEF Freed
  <2>2. g # h
    BY <1>1, <2>1
  <2>3. g.addr # a
    BY <1>2, <1>3, <1>5, <2>2, OneBlock
  <2>4. g \in heap'
    BY Zenon, <1>1, <2>2
  <2> QED
    BY <2>1, <2>3, <2>4, Zenon DEF Freed
<1>14. k \in heap' /\ k.addr = a
  BY <1>1, <1>4 DEF a
<1>15. Waiting'
  <2>1. Freed(a, heap')
    BY <1>4, <1>14, Zenon DEF Freed
  <2>2. UnderWay(c, ctx'[c], pend', owner', heap')
    BY Zenon, <1>4, <2>1 DEF UnderWay, a
  <2>3. \A d \in Ctx : Same(ctx[d], pend, owner, pend', owner')
    BY <1>1, <1>6 DEF Same
  <2> QED
    BY Zenon, <1>2, <1>4, <1>12, <1>13, <2>2, <2>3, StillWaiting
<1>16. OnePerBlock'
  <2>1. \A d \in Ctx : d # c => Separate(ctx'[c], ctx[d])
    BY Zenon, <1>4, <1>13 DEF Separate, a
  <2> QED
    BY ZenonT(40), <1>2, <1>4, <2>1, StillSeparate
<1> QED
  BY <1>9, <1>10, <1>11, <1>15, <1>16

LEMMA NullExact ==
  ASSUME IInv, GuestType, Exact, NEW c \in Ctx, NEW a \in {0, ZeroPtr}, FreeNull(c, a), ~mixed'
  PROVE  /\ Waiting' /\ OnePerBlock' /\ Apart(heap)' /\ Indexed(objs, heap)'
         /\ 0 \notin Sizes => crash' = "none"
<1>1. /\ Unmixed /\ Running /\ UNCHANGED <<ctx, heap, owner>> /\ free_hook("kmalloc", a)
      /\ 0 \notin Sizes => a = 0
  BY DEF FreeNull, Unmixed, Running, history, guest
<1>2. Waiting /\ OnePerBlock /\ Apart(heap) /\ Indexed(objs, heap)
  BY <1>1 DEF Exact
<1>3. heap \in SUBSET Block /\ objs \in SUBSET Node
  BY DEF GuestType, IInv, TracerType
<1>4. a \in Addr
  BY InputAssumption, AddrSpaceAssumption DEF Addr
<1>5. PICK r \in Find2(objs, a) :
           /\ \/ crash' = "null_pset" /\ r # NoNode /\ inst[a] = NoInst /\ objs' = objs
              \/ /\ crash' = "none"
                 /\ \/ r = NoNode /\ objs' = objs
                    \/ r # NoNode /\ objs' \in EraseWhileFound(objs \ {r}, a)
           /\ UNCHANGED pend
  BY Zenon, <1>1, <1>4, FreeHookIs
<1>6. Indexed(objs', heap)
  BY Zenon, <1>2, <1>3, <1>4, <1>5, DroppedPhantom
<1>7. ASSUME 0 \notin Sizes, r # NoNode PROVE inst[a] # NoInst
  <2>1. a = 0 /\ r \in objs /\ Covers(r, 0)
    BY Zenon, <1>1, <1>7, Find2Result
  <2>2. r.key = 0
    BY <1>2, <1>3, <2>1, NodeFacts
  <2> QED
    BY <2>1, <2>2 DEF IInv, FindableHaveInstances
<1>8. 0 \notin Sizes => crash' = "none"
  BY <1>5, <1>7
<1>9. Waiting' /\ OnePerBlock'
  BY <1>1, <1>2, <1>5, Zenon DEF Waiting, OnePerBlock
<1> QED
  BY Zenon, <1>1, <1>2, <1>6, <1>8, <1>9

LEMMA ExitExact ==
  ASSUME IInv, GuestType, Exact, NEW c \in Ctx, FreeExit(c), ~mixed'
  PROVE  Waiting' /\ OnePerBlock' /\ Apart(heap)' /\ Indexed(objs, heap)' /\ crash' = "none"
<1> DEFINE a == ctx[c].block.addr
<1>1. /\ Unmixed /\ crash' = "none" /\ ctx[c].op = "free" /\ UNCHANGED <<objs, pend, owner>>
      /\ ctx' = [ctx EXCEPT ![c] = Idle]
      /\ heap' = {h \in heap : h.addr # a}
  BY Zenon DEF FreeExit, Unmixed, Running, history, tracer
<1>2. Waiting /\ OnePerBlock /\ Apart(heap) /\ Indexed(objs, heap)
  BY <1>1 DEF Exact
<1>3. heap \in SUBSET Block
  BY Zenon DEF GuestType
<1>4. ctx'[c].op = "idle" /\ \A d \in Ctx : d # c => ctx'[d] = ctx[d]
  BY Zenon, <1>1 DEF GuestType, Idle
<1>5. PICK h \in heap : h.addr = a /\ h.st = "freeing"
  BY Zenon, <1>1, <1>2, WaitingFor DEF Freed
<1> HIDE DEF a
<1>6. \A g \in heap : g \in heap' \/ g = h
  BY <1>1, <1>2, <1>3, <1>5, OneBlock, BlockFacts
<1>7. ASSUME NEW d \in Ctx, ctx[d].op = "return"
      PROVE  Given(pend[ctx[d].site], ctx[d].addr, heap')
  <2>1. Given(pend[ctx[d].site], ctx[d].addr, heap)
    BY Zenon, <1>2, <1>7, WaitingFor
  <2>2. \A g \in heap : g.st = "new" => g \in heap'
    BY <1>5, <1>6
  <2> QED
    BY <2>1, <2>2, Zenon DEF Given
<1>8. ASSUME NEW d \in Ctx, d # c, ctx[d].op = "free"
      PROVE  Freed(ctx[d].block.addr, heap')
  <2>1. PICK g \in heap : g.addr = ctx[d].block.addr /\ g.st = "freeing"
    BY Zenon, <1>2, <1>8, WaitingFor DEF Freed
  <2>2. Separate(ctx[c], ctx[d])
    BY Zenon, <1>2, <1>8 DEF OnePerBlock
  <2>3. g.addr # a
    BY <1>1, <1>8, <2>1, <2>2 DEF Separate, a
  <2>4. g \in heap'
    BY <1>5, <1>6, <2>3
  <2> QED
    BY <2>1, <2>4, Zenon DEF Freed
<1>9. Waiting'
  <2>1. UnderWay(c, ctx'[c], pend', owner', heap')
    BY <1>4, ZenonT(40) DEF UnderWay
  <2>2. \A d \in Ctx : Same(ctx[d], pend, owner, pend', owner')
    BY Zenon, <1>1 DEF Same
  <2> QED
    BY Zenon, <1>2, <1>4, <1>7, <1>8, <2>1, <2>2, StillWaiting
<1>10. OnePerBlock'
  <2>1. \A p : Separate(ctx'[c], p)
    BY <1>4 DEF Separate
  <2> QED
    BY Zenon, <1>2, <1>4, <2>1, StillSeparate
<1>11. Apart(heap')
  BY Zenon, <1>1, <1>2 DEF Apart
<1>12. Indexed(objs', heap')
  BY <1>1, <1>2, <1>5, <1>6 DEF Indexed
<1> QED
  BY Zenon, <1>1, <1>9, <1>10, <1>11, <1>12

\* An access changes no node and stops nothing.
LEMMA RecordRuns ==
  ASSUME IInv, NEW a \in Addr, NEW r \in Find2(objs, a), r # NoNode, add_record(r, a)
  PROVE  /\ UNCHANGED crash
         /\ r \in objs /\ r.key \in Addr /\ inst[r.key] \in Instance
         /\ inst' = [inst EXCEPT ![r.key].pset =
                       @ \cup {[taint |-> taint[a], off |-> a - r.key]}]
<1>1. r \in objs /\ r \in Node /\ r.key \in Addr /\ Covers(r, a)
  BY Find2Result DEF IInv, TracerType, Node
<1>2. inst[r.key] # NoInst
  BY <1>1, CoversOwnKey DEF IInv, FindableHaveInstances
<1>3. inst[r.key] \in Instance
  BY <1>1, <1>2 DEF IInv, TracerType
<1> QED
  BY Zenon, <1>1, <1>2, <1>3 DEF add_record

\* The shadow bits of a store: the lookup cannot miss the block it lies in.
LEMMA StoreTaints ==
  ASSUME IInv, GuestType, Exact, NEW a \in Addr, NEW w \in Widths, Store(a, w), ~mixed
  PROVE  /\ UNCHANGED <<objs, crash>>
         /\ \A n \in TracedNodes : \A b \in Span(n.key, n.size) :
              b \in Span(a, w) => taint'[b] = 1
         /\ \A b \in Addr : taint[b] = 1 => taint'[b] = 1
<1>1. /\ Unmixed /\ UNCHANGED objs
      /\ \A h \in heap : Span(a, w) \subseteq Extent(h) \/ Span(a, w) \cap Extent(h) = {}
  BY DEF Store, helper_store, Unmixed, Running
<1>2. PICK r \in Find2(objs, a) :
          IF r = NoNode
          THEN UNCHANGED <<inst, crash, taint>>
          ELSE /\ add_record(r, a)
               /\ taint' = IF crash' = "none"
                           THEN set_mem_taint_bysize2(a, 1, AccessSize) ELSE taint
  BY DEF Store, helper_store
<1>3. crash' = crash /\ crash = "none"
  BY Zenon, <1>1, <1>2, RecordRuns DEF Unmixed
<1>4. r # NoNode => taint' = set_mem_taint_bysize2(a, 1, AccessSize)
  BY <1>2, <1>3
<1>5. \A b \in Addr : taint[b] = 1 => taint'[b] = 1
  BY Zenon, <1>2, <1>4 DEF set_mem_taint_bysize2
<1>6. Apart(heap) /\ Indexed(objs, heap) /\ heap \in SUBSET Block /\ objs \in SUBSET Node
  BY Zenon, <1>1 DEF Exact, GuestType, IInv, TracerType
<1>7. ASSUME NEW n \in TracedNodes, NEW b \in Span(n.key, n.size), b \in Span(a, w)
      PROVE  taint'[b] = 1
  <2>1. PICK h \in heap : h.st = "live" /\ h.addr = n.key /\ h.size = n.size
    BY Zenon, <1>6 DEF TracedNodes, Indexed
  <2>2. b \in Extent(h) /\ b \in Addr
    BY <1>6, <2>1, BlockFacts
  <2>3. PICK i \in 0 .. w - 1 : b = AddrPlus(a, i)
    BY <1>7 DEF Span
  <2>4. w \in Nat /\ AccessSize \in Nat /\ w <= AccessSize
    BY InputAssumption, WidthAssumption
  <2>5. b \in Span(a, AccessSize)
    <3>1. i \in 0 .. AccessSize - 1
      BY <2>3, <2>4
    <3> QED
      BY <2>3, <3>1 DEF Span
  <2>6. a \in Span(a, w)
    <3>1. 0 \in 0 .. w - 1
      BY <2>3, <2>4
    <3>2. AddrPlus(a, 0) = a
      BY NoWrap, AddrInt DEF AddrPlus
    <3> QED
      BY <3>1, <3>2 DEF Span
  <2>7. a \in Extent(h)
    BY Zenon, <1>1, <1>7, <2>2, <2>6
  <2>8. r # NoNode
    BY Zenon, <1>2, <1>6, <2>1, <2>7, NotMissed
  <2> QED
    BY <1>4, <2>2, <2>5, <2>8 DEF set_mem_taint_bysize2
<1> QED
  BY Zenon, <1>1, <1>3, <1>5, <1>7

\* The shadow bits are right after a step.
LEMMA WrittenKept ==
  ASSUME WrittenIsTainted, ~mixed, objs' \subseteq objs, written' \subseteq written,
         UNCHANGED taint
  PROVE  WrittenIsTainted'
BY DEF WrittenIsTainted, TracedNodes

LEMMA WrittenReturn ==
  ASSUME IInv, WrittenIsTainted, ~mixed, NEW site \in Sites, NEW a \in Addr, NEW type,
         return_hook(site, a, type)
  PROVE  WrittenIsTainted'
<1>1. CASE pend[site] = NoSize
  BY Zenon, <1>1, WrittenKept DEF return_hook, tracer
<1>2. CASE pend[site] # NoSize
  <2> DEFINE size == pend[site]
             node == [key |-> a, size |-> size, type |-> type]
  <2>1. PICK S \in EraseWhileFound(objs, a) :
           \/ objs' = S /\ UNCHANGED <<taint, written>>
           \/ /\ objs' = S \cup {node} /\ taint' = set_mem_taint_bysize2(a, 0, size)
              /\ written' = written \ Span(a, size)
    BY <1>2 DEF return_hook, add_obj
  <2>2. S \subseteq objs
    BY EraseResult DEF IInv, TracerType
  <2>3. CASE objs' = S /\ UNCHANGED <<taint, written>>
    BY <2>2, <2>3, WrittenKept
  <2>4. CASE /\ objs' = S \cup {node} /\ taint' = set_mem_taint_bysize2(a, 0, size)
             /\ written' = written \ Span(a, size)
    <3>1. ASSUME NEW n \in TracedNodes', NEW b \in Span(n.key, n.size), b >= KernelBase, b \in written'
          PROVE  taint'[b] = 1
      <4>1. b \in written /\ b \notin Span(a, size) /\ b \in Addr
        BY <2>4, <3>1 DEF IInv, TracerType
      <4>2. n # node
        BY <3>1, <4>1
      <4>3. n \in TracedNodes
        BY Zenon, <2>2, <2>4, <3>1, <4>2 DEF TracedNodes
      <4>4. taint[b] = 1
        BY Zenon, <3>1, <4>1, <4>3 DEF WrittenIsTainted
      <4> QED
        BY Zenon, <2>4, <4>1, <4>4 DEF set_mem_taint_bysize2
    <3> QED
      BY Zenon, <3>1 DEF WrittenIsTainted
  <2> QED
    BY Zenon, <2>1, <2>3, <2>4
<1> QED
  BY <1>1, <1>2

\* Nothing the index is compared with changes.
LEMMA QuietExact ==
  ASSUME ExactInv, Unmixed, UNCHANGED <<pend, objs, crash, ctx, heap, owner>>, WrittenIsTainted'
  PROVE  ExactInv'
BY Zenon DEF ExactInv, Exact, StillRuns, Unmixed, Waiting, OnePerBlock

\* Every step of the specification.
LEMMA ExactNext ==
  ASSUME IInv, GuestType, ExactInv, [Next]_vars
  PROVE  ExactInv'
<1> USE DEF ExactInv
<1>0. CASE mixed'
  BY Zenon, <1>0 DEF Exact, Unmixed, StillRuns, WrittenIsTainted
<1>1. CASE UNCHANGED vars
  BY <1>1 DEF vars, tracer, guest, history, Exact, Unmixed, StillRuns, WrittenIsTainted,
              Waiting, OnePerBlock, TracedNodes
<1>2. ASSUME NEW c \in Ctx, NEW site \in Sites, NEW size \in Sizes,
             NEW kind \in Kinds, AllocEnter(c, site, size, kind), ~mixed'
      PROVE  ExactInv'
  <2>1. ~mixed /\ crash = "none" /\ UNCHANGED <<crash, objs, written, taint>>
    BY Zenon, <1>2 DEF AllocEnter, Running
  <2>2. Exact' /\ StillRuns'
    BY <1>2, <2>1, EnterExact DEF Exact, StillRuns
  <2> QED
    BY <2>1, <2>2, WrittenKept
<1>3. ASSUME NEW c \in Ctx, NEW a \in Arena \cup {0, ZeroPtr}, AllocPick(c, a), ~mixed'
      PROVE  ExactInv'
  <2>1. ~mixed /\ crash = "none" /\ UNCHANGED <<crash, objs, written, taint>>
    BY <1>3 DEF AllocPick, Running, tracer, history
  <2>2. a \in Addr
    BY InputAssumption, AddrSpaceAssumption DEF Addr
  <2>3. Exact' /\ StillRuns'
    BY <1>3, <2>1, <2>2, PickExact DEF Exact, StillRuns
  <2> QED
    BY Zenon, <2>1, <2>3, WrittenKept
<1>4. ASSUME NEW c \in Ctx, NEW type \in Types, AllocReturn(c, type), ~mixed'
      PROVE  ExactInv'
  <2>1. ~mixed /\ return_hook(ctx[c].site, ctx[c].addr, type) /\ ctx[c].op = "return"
    BY Zenon, <1>4 DEF AllocReturn
  <2>2. ctx[c].site \in Sites /\ ctx[c].addr \in Addr
    BY Zenon, <2>1, ActivityFields DEF GuestType
  <2>3. WrittenIsTainted'
    BY <2>1, <2>2, WrittenReturn
  <2>4. Exact' /\ StillRuns'
    BY <1>4, ReturnExact DEF Exact, StillRuns
  <2> QED
    BY <2>3, <2>4
<1>5. ASSUME NEW c \in Ctx, NEW site \in Sites, NEW a \in EaxValues,
             NEW type \in Types, VisitSite(c, site, a, type), ~mixed'
      PROVE  ExactInv'
  <2>1. ~mixed /\ return_hook(site, a, type)
    BY Zenon, <1>5 DEF VisitSite
  <2>2. a \in Addr
    BY InputAssumption
  <2>3. WrittenIsTainted'
    BY Zenon, <2>1, <2>2, WrittenReturn
  <2>4. Exact' /\ StillRuns'
    BY <1>5, VisitExact DEF Exact, StillRuns
  <2> QED
    BY <2>3, <2>4
<1>6. ASSUME NEW kind, NEW a \in Addr, Running, free_hook(kind, a), ~mixed, UNCHANGED written
      PROVE  WrittenIsTainted'
  <2>1. PICK r \in Find2(objs, a) :
          /\ objs' = objs \/ objs' \in EraseWhileFound(objs \ {r}, a)
          /\ UNCHANGED taint
    BY <1>6, FreeHookIs
  <2>2. objs \ {r} \in SUBSET Node
    BY DEF IInv, TracerType
  <2>3. objs' \subseteq objs
    BY Zenon, <2>1, <2>2, EraseResult
  <2> QED
    BY <1>6, <2>1, <2>3, WrittenKept
<1>7. ASSUME NEW c \in Ctx, NEW h \in heap, FreeEnter(c, h), ~mixed'
      PROVE  ExactInv'
  <2>1. ~mixed /\ Running /\ free_hook(h.kind, h.addr) /\ UNCHANGED written
    BY <1>7 DEF FreeEnter, history
  <2>2. h.addr \in Addr
    BY DEF GuestType, Block
  <2>3. WrittenIsTainted'
    BY <1>6, <2>1, <2>2
  <2>4. Exact' /\ StillRuns'
    BY <1>7, FreeExact DEF Exact, StillRuns
  <2> QED
    BY <2>3, <2>4
<1>8. ASSUME NEW c \in Ctx, NEW a \in {0, ZeroPtr}, FreeNull(c, a), ~mixed'
      PROVE  ExactInv'
  <2>1. ~mixed /\ Running /\ free_hook("kmalloc", a) /\ UNCHANGED written
    BY <1>8 DEF FreeNull, history
  <2>2. a \in Addr
    BY InputAssumption, AddrSpaceAssumption DEF Addr
  <2>3. WrittenIsTainted'
    BY <1>6, <2>1, <2>2
  <2>4. Exact' /\ StillRuns'
    BY <1>8, NullExact DEF Exact, StillRuns
  <2> QED
    BY <2>3, <2>4
<1>9. ASSUME NEW c \in Ctx, FreeExit(c), ~mixed'
      PROVE  ExactInv'
  <2>1. ~mixed /\ UNCHANGED <<objs, written, taint>>
    BY <1>9 DEF FreeExit, tracer, history
  <2>2. Exact' /\ StillRuns'
    BY <1>9, ExitExact DEF Exact, StillRuns
  <2> QED
    BY <2>1, <2>2, WrittenKept
<1>10. ASSUME NEW a \in Probes, Load(a), ~mixed'
       PROVE  ExactInv'
  <2>1. /\ ~mixed /\ crash = "none" /\ UNCHANGED <<pend, objs, taint, ctx, heap, owner, written>>
        /\ \E r \in Find2(objs, a) \ {NoNode} : add_record(r, a)
    BY <1>10 DEF Load, helper_load, guest, history, Running
  <2>2. UNCHANGED crash
    BY Zenon, <2>1, RecordRuns, InputAssumption
  <2>3. WrittenIsTainted'
    BY Zenon, <2>1, WrittenKept
  <2> QED
    BY <2>1, <2>2, <2>3, QuietExact DEF Unmixed
<1>11. ASSUME NEW a \in Probes, NEW w \in Widths, Store(a, w), ~mixed'
       PROVE  ExactInv'
  <2>1. /\ ~mixed /\ crash = "none" /\ UNCHANGED <<pend, objs, ctx, heap, owner>>
        /\ written' = written \cup Span(a, w) /\ a \in Addr
    BY Zenon, <1>11, InputAssumption DEF Store, helper_store, guest, Running
  <2>2. /\ UNCHANGED crash
        /\ \A n \in TracedNodes : \A b \in Span(n.key, n.size) :
              b \in Span(a, w) => taint'[b] = 1
        /\ \A b \in Addr : taint[b] = 1 => taint'[b] = 1
    BY Zenon, <1>11, <2>1, StoreTaints
  <2>3. \A b \in written : b \in Addr
    BY Zenon DEF IInv, TracerType
  <2>4. WrittenIsTainted'
    BY <2>1, <2>2, <2>3 DEF WrittenIsTainted, TracedNodes
  <2> QED
    BY Zenon, <2>1, <2>2, <2>4, QuietExact DEF Unmixed
<1>12. ASSUME PEMU_init, ~mixed'
       PROVE  ExactInv'
  <2>1. /\ ~mixed /\ crash = "none" /\ UNCHANGED <<pend, objs, crash, ctx, heap, owner>>
        /\ written' = {}
    BY Zenon, <1>12 DEF PEMU_init, guest, Running
  <2>2. WrittenIsTainted'
    BY <2>1 DEF WrittenIsTainted
  <2> QED
    BY <2>1, <2>2, QuietExact DEF Unmixed
<1>13. \A snapshot \in Snapshots : load_vmstate(snapshot) => mixed'
  BY DEF load_vmstate
<1> QED
  BY <1>0, <1>1, <1>2, <1>3, <1>4, <1>5, <1>7, <1>8, <1>9, <1>10, <1>11, <1>12, <1>13
     DEF Next, GuestStep

LEMMA InitExact == Init => ExactInv
<1> SUFFICES ASSUME Init PROVE ExactInv
  OBVIOUS
<1>1. \A c \in Ctx : ctx[c].op = "idle"
  BY DEF Init, Idle
<1>2. Waiting
  BY <1>1, Zenon DEF Waiting, UnderWay
<1>3. OnePerBlock
  BY <1>1, Zenon DEF OnePerBlock, Separate
<1>4. Apart(heap) /\ Indexed(objs, heap)
  BY Zenon DEF Init, Apart, Indexed
<1> QED
  BY <1>2, <1>3, <1>4 DEF Init, ExactInv, Exact, StillRuns, WrittenIsTainted

-----------------------------------------------------------------------------
(* Access records leave an instance by being written out.                  *)

LEMMA KeptAsIs ==
  ASSUME NEW n, inst'[n.key] = inst[n.key]
  PROVE  Kept(n)
BY DEF Kept

\* What add_obj replaces is the instance of no traced object.
LEMMA ReturnKeeps ==
  ASSUME IInv, GuestType, Exact, NEW c \in Ctx, NEW type \in Types, AllocReturn(c, type),
         ~mixed', NEW n \in TracedNodes
  PROVE  Kept(n)
<1> DEFINE a == ctx[c].addr
<1>1. Unmixed /\ ctx[c].op = "return" /\ return_hook(ctx[c].site, a, type)
  BY Zenon DEF AllocReturn, Unmixed, Running
<1>2. Waiting /\ Apart(heap) /\ Indexed(objs, heap)
  BY <1>1 DEF Exact
<1>3. heap \in SUBSET Block /\ objs \in SUBSET Node /\ n \in objs /\ n.key # 0 /\ n.size # 0
  BY DEF GuestType, IInv, TracerType, TracedNodes
<1>4. Given(pend[ctx[c].site], a, heap)
  BY Zenon, <1>1, <1>2, WaitingFor
<1> HIDE DEF a
<1>5. n.key # a
  <2>1. ASSUME NEW h \in heap, h.addr = a, h.st = "new" PROVE n.key # a
    <3>1. \A m \in objs, g \in heap : m.key = g.addr => g.st = "live"
      BY <1>2, <1>3, NodeFacts
    <3> QED
      BY Zenon, <1>3, <2>1, <3>1
  <2>2. n.key # ZeroPtr
    <3>1. PICK h \in heap : h.addr = n.key
      BY <1>2, <1>3 DEF Indexed
    <3> QED
      BY Zenon, <1>2, <1>3, <3>1, BlockFacts
  <2> QED
    BY <1>3, <1>4, <2>1, <2>2, Zenon DEF Given
<1>6. inst' = inst \/ inst' = [inst EXCEPT ![a] = [type |-> type, pset |-> {}]]
  BY <1>1, Zenon DEF return_hook, add_obj, tracer
<1>7. n.key \in Addr
  BY Zenon, <1>3 DEF Node
<1>8. inst'[n.key] = inst[n.key]
  BY Zenon, <1>5, <1>6, <1>7 DEF IInv, TracerType
<1> QED
  BY <1>8, KeptAsIs

\* delete_instance writes out what it forgets.
LEMMA FreeKeeps ==
  ASSUME IInv, Running, NEW kind, NEW a \in Addr, free_hook(kind, a), NEW n \in objs
  PROVE  Kept(n)
<1>1. inst' = inst \/ (inst' = [inst EXCEPT ![a] = NoInst] /\ out' = inst[a])
  BY Zenon, FreeHookIs
<1>2. n.key \in Addr
  BY DEF IInv, TracerType, Node
<1>3. CASE n.key = a /\ out' = inst[a]
  BY Zenon, <1>3 DEF Kept
<1>4. CASE inst'[n.key] = inst[n.key]
  BY Zenon, <1>4, KeptAsIs
<1> QED
  BY <1>1, <1>2, <1>3, <1>4 DEF IInv, TracerType

\* An access adds a record.
LEMMA AccessKeeps ==
  ASSUME IInv, NEW a \in Addr, NEW r \in Find2(objs, a), r # NoNode, add_record(r, a),
         NEW n \in objs
  PROVE  Kept(n)
<1> DEFINE rec == [taint |-> taint[a], off |-> a - r.key]
<1>1. /\ r.key \in Addr /\ inst[r.key] \in Instance
      /\ inst' = [inst EXCEPT ![r.key].pset = @ \cup {rec}]
  BY RecordRuns
<1>2. n.key \in Addr
  BY Zenon DEF IInv, TracerType, Node
<1>3. CASE n.key = r.key
  <2>1. inst'[n.key] = [inst[n.key] EXCEPT !.pset = @ \cup {rec}]
    BY Zenon, <1>1, <1>3 DEF IInv, TracerType
  <2> HIDE DEF rec
  <2>2. /\ inst'[n.key].type = inst[n.key].type
        /\ inst[n.key].pset \subseteq inst'[n.key].pset
    <3>1. inst[n.key] \in Instance
      BY Zenon, <1>1, <1>3
    <3> QED
      BY <2>1, <3>1 DEF Instance
  <2>3. inst'[n.key] # NoInst
    <3>1. a - r.key \in Addr /\ taint[a] \in {0, 1}
      <4>1. r \in objs /\ Covers(r, a)
        BY Zenon, Find2Result
      <4> QED
        BY <1>1, <4>1, AddrSpaceAssumption DEF Covers, Addr, IInv, TracerType
    <3>2. rec \in Record
      BY <3>1 DEF rec, Record
    <3>3. inst'[n.key] \in Instance
      BY <1>1, <1>3, <2>1, <3>2 DEF Instance
    <3> QED
      BY <3>3, NoInstAssumption
  <2> QED
    BY <2>2, <2>3 DEF Kept
<1>4. CASE n.key # r.key
  <2>1. inst'[n.key] = inst[n.key]
    BY Zenon, <1>1, <1>2, <1>4 DEF IInv, TracerType
  <2> QED
    BY <2>1, KeptAsIs
<1> QED
  BY Zenon, <1>3, <1>4

LEMMA KeptNext ==
  ASSUME IInv, GuestType, Exact, [Next]_vars, ~mixed', NEW n \in TracedNodes
  PROVE  Kept(n)
<1>0. n \in objs
  BY Zenon DEF TracedNodes
<1>1. CASE UNCHANGED inst
  BY <1>1, KeptAsIs
<1>2. ASSUME NEW c \in Ctx, NEW type \in Types, AllocReturn(c, type)
      PROVE  Kept(n)
  BY <1>2, ReturnKeeps
<1>3. ASSUME NEW c \in Ctx, NEW site \in Sites, NEW a, NEW type, VisitSite(c, site, a, type)
      PROVE  Kept(n)
  <2>1. UNCHANGED inst
    BY Zenon, <1>3 DEF VisitSite, return_hook, tracer
  <2> QED
    BY <1>1, <2>1
<1>4. ASSUME NEW c \in Ctx, NEW h \in heap, FreeEnter(c, h)
      PROVE  Kept(n)
  <2>1. h.addr \in Addr /\ Running /\ free_hook(h.kind, h.addr)
    BY <1>4 DEF GuestType, Block, FreeEnter
  <2> QED
    BY <1>0, <2>1, FreeKeeps
<1>5. ASSUME NEW c \in Ctx, NEW a \in {0, ZeroPtr}, FreeNull(c, a)
      PROVE  Kept(n)
  <2>1. a \in Addr
    BY InputAssumption, AddrSpaceAssumption DEF Addr
  <2> QED
    BY <1>0, <1>5, <2>1, FreeKeeps DEF FreeNull
<1>6. ASSUME NEW a \in Probes, Load(a)
      PROVE  Kept(n)
  BY <1>0, <1>6, AccessKeeps, InputAssumption DEF Load, helper_load
<1>7. ASSUME NEW a \in Probes, NEW w \in Widths, Store(a, w)
      PROVE  Kept(n)
  <2>1. UNCHANGED inst \/ \E r \in Find2(objs, a) : r # NoNode /\ add_record(r, a)
    BY <1>7 DEF Store, helper_store
  <2> QED
    BY Zenon, <1>0, <1>1, <2>1, AccessKeeps, InputAssumption
<1>8. ASSUME NEW snapshot \in Snapshots, load_vmstate(snapshot) PROVE Kept(n)
  BY <1>8 DEF load_vmstate
<1>9. CASE UNCHANGED vars \/ PEMU_init
  BY Zenon, <1>1, <1>9 DEF vars, tracer, PEMU_init
<1>10. ASSUME NEW c \in Ctx, FreeExit(c) PROVE Kept(n)
  BY Zenon, <1>1, <1>10 DEF FreeExit, tracer
<1>11. ASSUME NEW c \in Ctx, NEW a, AllocPick(c, a) PROVE Kept(n)
  BY Zenon, <1>1, <1>11 DEF AllocPick, tracer
<1>12. ASSUME NEW c \in Ctx, NEW site, NEW size, NEW kind, AllocEnter(c, site, size, kind)
       PROVE  Kept(n)
  BY <1>1, <1>12 DEF AllocEnter
<1> QED
  BY <1>2, <1>3, <1>4, <1>5, <1>6, <1>7, <1>8, <1>9, <1>10, <1>11, <1>12 DEF Next, GuestStep

-----------------------------------------------------------------------------
(* The theorems.                                                           *)

\* The inductive invariant holds in every reachable state.
LEMMA Invariance == Spec => [](IInv /\ GuestType /\ ExactInv)
<1>1. IInv /\ GuestType /\ ExactInv /\ [Next]_vars => IInv' /\ GuestType' /\ ExactInv'
  BY NextInv, NextGuest, ExactNext
<1> QED
  BY <1>1, InitInv, InitExact, PTL DEF Spec

\* The hooks keep all of their state in its type, whatever the guest does.
THEOREM TypeCorrect == Spec => []TypeOK
<1>1. IInv /\ GuestType => TypeOK
  BY DEF IInv, TracerType, GuestType, TypeOK
<1> QED
  BY <1>1, Invariance, PTL

\* Every node that ds_code_rbtFind2 can return has an instance of its type in
\* g_instances, for any number of contexts that interleave in any order.
THEOREM InstancesPresent == Spec => []FindableHaveInstances
<1>1. IInv /\ GuestType => FindableHaveInstances
  BY DEF IInv
<1> QED
  BY <1>1, Invariance, PTL

\* assert(0) in add_read_action and add_write_action is never reached.
THEOREM AccessNeverAsserts == Spec => []AccessFindsInstance
<1>1. IInv /\ GuestType => AccessFindsInstance
  BY DEF IInv, AccessFindsInstance
<1> QED
  BY <1>1, Invariance, PTL

\* While no two contexts have met at one return address and no snapshot was
\* loaded, the index is the set of the guest's allocated blocks, for every order
\* in which its contexts allocate and free, and no assertion stops QEMU.
THEOREM IndexIsExact == Spec => []ExactUnlessMixed
<1>1. GuestType /\ ExactInv => ExactUnlessMixed
  <2> SUFFICES ASSUME GuestType, ExactInv, ~mixed, 0 \notin Sizes
               PROVE  /\ crash = "none"
                      /\ Traced = {<<h.addr, h.size>> : h \in {g \in heap : g.st = "live"}}
    BY DEF ExactUnlessMixed
  <2>1. crash = "none"
    BY DEF ExactInv, StillRuns
  <2>2. Apart(heap) /\ Indexed(objs, heap)
    BY <2>1 DEF ExactInv, Exact, Unmixed
  <2>3. \A n \in TracedNodes : \E h \in heap : h.st = "live" /\ h.addr = n.key /\ h.size = n.size
    BY <2>2 DEF Indexed, TracedNodes
  <2>4. \A h \in heap : h.st = "live" => \E n \in TracedNodes : n.key = h.addr /\ n.size = h.size
    BY <2>2 DEF Indexed, TracedNodes, Apart
  <2> QED
    BY <2>1, <2>3, <2>4 DEF Traced
<1> QED
  BY <1>1, Invariance, PTL

\* The shadow bit of every byte of an object that the guest has stored to is
\* set, for every width and place of the stores.
THEOREM StoresAreSeen == Spec => []WrittenIsTainted
<1>1. ExactInv => WrittenIsTainted
  BY DEF ExactInv
<1> QED
  BY <1>1, Invariance, PTL

\* No step forgets access records of an object without writing them out.
THEOREM RecordsAreDumped == Spec => RecordsLeaveByDump
<1>1. IInv /\ GuestType /\ ExactInv /\ [Next]_vars =>
        [mixed' \/ \A n \in TracedNodes : Kept(n)]_vars
  BY KeptNext DEF ExactInv
<1> QED
  BY <1>1, Invariance, PTL DEF Spec, RecordsLeaveByDump
=============================================================================
