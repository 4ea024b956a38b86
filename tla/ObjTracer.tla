------------------------------ MODULE ObjTracer ------------------------------
(***************************************************************************)
(* The kernel-object tracer: the per-instruction hook helper_hook, the     *)
(* memory-access hooks helper_load and helper_store, and the state they    *)
(* keep (pending allocations g_obj, the object index, g_instances and the  *)
(* shadow memory), driven by a guest kernel whose execution contexts       *)
(* (tasks and interrupt handlers) interleave instruction by instruction.   *)
(*                                                                         *)
(* An allocation is seen twice: at the allocator's entry, where the size   *)
(* is known, and at the instruction behind the call, where the address is. *)
(* In between only the return address connects the two.                    *)
(***************************************************************************)
EXTENDS ObjIndex

CONSTANTS
  Ctx,         \* guest execution contexts
  Sites,       \* return addresses of calls to an allocator
  Sizes,       \* sizes the guest asks for
  Kinds,       \* allocator families it uses, out of AllKinds
  Arena,       \* addresses the guest's allocators hand out
  ZeroPtr,     \* what they return for a request of size 0
  KernelBase,  \* 0xc0000000, below which accesses are not traced
  AccessSize,  \* the size argument translate.c passes to the access hooks
  Widths,      \* widths of the guest's own stores
  Probes,      \* addresses the guest loads from and stores to
  EaxValues,   \* EAX when a return site is reached without a call
  Snapshots,   \* guests saved with savevm, as records of ctx and heap
  NoSize, NoInst, NoCtx

AllKinds == {"cache", "kmalloc", "vmalloc"}

ASSUME InputAssumption ==
  /\ Sizes \subseteq Addr /\ Kinds \subseteq AllKinds
  /\ Arena \subseteq Addr /\ Probes \subseteq Addr /\ EaxValues \subseteq Addr
  /\ ZeroPtr \in Addr /\ KernelBase \in Addr
  /\ AccessSize \in Nat /\ Widths \subseteq Nat
  /\ NoSize \notin Sizes /\ NoCtx \notin Ctx

\* The guest's allocators hand out neither the last byte of the address space
\* (in 32-bit Linux it belongs to the fixed mappings) nor what they return for a
\* request of size 0.  A block that ended at the last byte would never be found:
\* its end wraps to 0 in key + size.
ASSUME ArenaAssumption == AddrSpace - 1 \notin Arena /\ ZeroPtr \notin Arena

\* gen_op_st_v passes idx & 3 + 1 as the size, which is idx & 4: 4 in the kernel,
\* and no store it is called for is wider on a 32-bit target.
ASSUME WidthAssumption == \A w \in Widths : w <= AccessSize

\* One line of an instance's access set: whether the byte had been written
\* since the allocation, and the offset.  The hash of the call chain and the
\* program counter, also part of the line, are left out.
Record == [taint : {0, 1}, off : Addr]

Instance == [type : Types, pset : SUBSET Record]

ASSUME NoInstAssumption == NoInst \notin Instance

VARIABLES
  pend,      \* g_obj: return address -> size of the pending allocation
  objs,      \* the object index
  inst,      \* g_instances: start address -> type and access records
  taint,     \* shadow memory: 1 = written since the allocation
  out,       \* output_file1: the last line written to it
  crash,     \* why QEMU stopped, if it has
  ctx,       \* guest: what each context is doing
  heap,      \* guest: the blocks its allocators have handed out
  owner,     \* history: which context made the pending entry of a site
  mixed,     \* history: a pending entry was overwritten, or was consumed or
             \* missed by a context other than the one that made it, or the
             \* guest was replaced by a snapshot
  written    \* history: bytes stored to since the block there was recorded
             \* and the shadow memory was last initialised

tracer == <<pend, objs, inst, taint, out, crash>>
guest == <<ctx, heap>>
history == <<owner, mixed, written>>
vars == <<tracer, guest, history>>

Idle == [op |-> "idle"]

Block == [addr : Addr, size : Addr, kind : AllKinds, st : {"new", "live", "freeing"}]

Activity ==
  {Idle}
  \cup [op : {"alloc"}, site : Sites, size : Sizes, kind : AllKinds]
  \cup [op : {"return"}, site : Sites, addr : Addr]
  \cup [op : {"free"}, block : Block]

ASSUME SnapshotsAssumption ==
  Snapshots \subseteq [ctx : [Ctx -> Activity], heap : SUBSET Block]

Crashes == {"none", "dup_key", "no_instance", "null_pset"}

-----------------------------------------------------------------------------
(* Shadow memory, as the flat map that module ShadowMem implements.        *)

Span(a, n) == {AddrPlus(a, i) : i \in 0 .. n - 1}

set_mem_taint_bysize2(a, v, n) ==
  [b \in Addr |-> IF b \in Span(a, n) THEN v ELSE taint[b]]

-----------------------------------------------------------------------------
(* The tracer's operations.                                                *)

\* insert_obj: one entry per return address, the last one wins.
insert_obj(site, size) == pend' = [pend EXCEPT ![site] = size]

\* Seeded fault: add_obj without add_instance.
add_obj_without_instance(site, a, type) ==
  LET node == [key |-> a, size |-> pend[site], type |-> type]
  IN  /\ pend' = [pend EXCEPT ![site] = NoSize]
      /\ \E S \in EraseWhileFound(objs, a) : objs' = S \cup {node}
      /\ taint' = set_mem_taint_bysize2(a, 0, pend[site])
      /\ written' = written \ Span(a, pend[site])
      /\ UNCHANGED <<inst, crash, out>>

\* Seeded fault: rbtInsert in place of rbtInsert2, which clears the way first.
add_obj_over_old(site, a, type) ==
  LET node == [key |-> a, size |-> pend[site], type |-> type]
  IN  /\ pend' = [pend EXCEPT ![site] = NoSize]
      /\ objs' = IF DuplicateKey(objs, a) THEN objs ELSE objs \cup {node}
      /\ crash' = IF DuplicateKey(objs, a) THEN "dup_key" ELSE crash
      /\ inst' = [inst EXCEPT ![a] = [type |-> type, pset |-> {}]]
      /\ taint' = set_mem_taint_bysize2(a, 0, pend[site])
      /\ written' = written \ Span(a, pend[site])
      /\ UNCHANGED out

\* add_obj: drop the pending entry, index the object, give it a fresh
\* instance and mark its bytes unwritten.
add_obj(site, a, type) ==
  LET size == pend[site]
      node == [key |-> a, size |-> size, type |-> type]
  IN  /\ pend' = [pend EXCEPT ![site] = NoSize]
      /\ \E S \in EraseWhileFound(objs, a) :
           \/ /\ DuplicateKey(S, a)
              /\ objs' = S
              /\ crash' = "dup_key"
              /\ UNCHANGED <<inst, taint, written>>
           \/ /\ ~DuplicateKey(S, a)
              /\ objs' = S \cup {node}
              /\ inst' = [inst EXCEPT ![a] = [type |-> type, pset |-> {}]]
              /\ taint' = set_mem_taint_bysize2(a, 0, size)
              /\ written' = written \ Span(a, size)
              /\ UNCHANGED crash
      /\ UNCHANGED out

\* object_hook at a return site with EAX = a.
return_hook(site, a, type) ==
  IF pend[site] = NoSize
  THEN UNCHANGED <<tracer, written>>
  ELSE add_obj(site, a, type)

\* ds_code_all_delete_rb after its lookup returned r.
delete_rb(r, a) ==
  IF r = NoNode THEN objs' = objs ELSE objs' \in EraseWhileFound(objs \ {r}, a)

\* Seeded fault: the instance is dropped without being written out.
delete_instance_silently(a) ==
  IF inst[a] = NoInst
  THEN crash' = "null_pset" /\ UNCHANGED <<inst, out>>
  ELSE inst' = [inst EXCEPT ![a] = NoInst] /\ UNCHANGED <<crash, out>>

\* delete_instance(a): writes the instance out and forgets it; for an absent
\* one operator[] makes an entry with a null pset, which is then read.
delete_instance(a) ==
  IF inst[a] = NoInst
  THEN crash' = "null_pset" /\ UNCHANGED <<inst, out>>
  ELSE /\ inst' = [inst EXCEPT ![a] = NoInst]
       /\ out' = inst[a]
       /\ UNCHANGED crash

\* helper_hook at the entry of kmem_cache_free, kfree or vfree with argument a:
\* trace_delete, which does not know vfree, then object_hook.  The second
\* ds_code_all_delete_rb of the first two finds nothing.
free_hook(kind, a) ==
  \E r \in Find2(objs, a) :
    /\ IF kind # "vmalloc" /\ r # NoNode
       THEN delete_instance(a)
       ELSE UNCHANGED <<inst, out, crash>>
    /\ IF crash' = "null_pset" THEN UNCHANGED objs ELSE delete_rb(r, a)
    /\ UNCHANGED <<pend, taint>>

\* Seeded fault: the instance is looked up by the address accessed.
add_record_by_address(r, a) ==
  IF inst[a] = NoInst
  THEN crash' = "no_instance" /\ UNCHANGED inst
  ELSE /\ inst' = [inst EXCEPT ![a].pset =
                     @ \cup {[taint |-> taint[a], off |-> a - r.key]}]
       /\ UNCHANGED crash

\* add_read_action and add_write_action up to their common record; both assert
\* that the instance is there.
add_record(r, a) ==
  IF inst[r.key] = NoInst
  THEN crash' = "no_instance" /\ UNCHANGED inst
  ELSE /\ inst' = [inst EXCEPT ![r.key].pset =
                     @ \cup {[taint |-> taint[a], off |-> a - r.key]}]
       /\ UNCHANGED crash

helper_load(a) ==
  /\ a >= KernelBase
  /\ \E r \in Find2(objs, a) \ {NoNode} : add_record(r, a)
  /\ UNCHANGED <<pend, objs, taint, out>>

\* Seeded fault: the object's first bytes are marked, not the ones stored to.
helper_store_at_start(a) ==
  /\ a >= KernelBase
  /\ \E r \in Find2(objs, a) :
       IF r = NoNode
       THEN UNCHANGED <<inst, crash, taint>>
       ELSE add_record(r, a) /\ taint' = set_mem_taint_bysize2(r.key, 1, 1)
  /\ UNCHANGED <<pend, objs, out>>

helper_store(a) ==
  /\ a >= KernelBase
  /\ \E r \in Find2(objs, a) :
       IF r = NoNode
       THEN UNCHANGED <<inst, crash, taint>>
       ELSE /\ add_record(r, a)
            /\ taint' = IF crash' = "none"
                        THEN set_mem_taint_bysize2(a, 1, AccessSize) ELSE taint
  /\ UNCHANGED <<pend, objs, out>>

-----------------------------------------------------------------------------
(* The guest kernel (external): what its contexts do to fire the hooks.    *)

Running == crash = "none"

\* The first instruction of an allocator.
AllocEnter(c, site, size, kind) ==
  /\ Running /\ ctx[c] = Idle
  /\ insert_obj(site, size)
  /\ ctx' = [ctx EXCEPT ![c] = [op |-> "alloc", site |-> site,
                                size |-> size, kind |-> kind]]
  /\ owner' = [owner EXCEPT ![site] = c]
  /\ mixed' = (mixed \/ pend[site] # NoSize)
  /\ UNCHANGED <<objs, inst, taint, out, crash, heap, written>>

\* Where block h lies; blocks never overlap and stay inside the arena.
Extent(h) == h.addr .. h.addr + h.size - 1

\* The allocator picks a free block, or returns NULL.
AllocPick(c, a) ==
  /\ Running /\ ctx[c].op = "alloc"
  /\ LET h == [addr |-> a, size |-> ctx[c].size, kind |-> ctx[c].kind, st |-> "new"]
     IN  \/ /\ h.size = 0 /\ a = ZeroPtr /\ UNCHANGED heap
         \/ /\ h.size # 0 /\ a = 0 /\ UNCHANGED heap
         \/ /\ h.size # 0 /\ a # 0
            /\ Extent(h) \subseteq Arena
            /\ \A g \in heap : Extent(g) \cap Extent(h) = {}
            /\ heap' = heap \cup {h}
  /\ ctx' = [ctx EXCEPT ![c] = [op |-> "return", site |-> ctx[c].site, addr |-> a]]
  /\ UNCHANGED <<tracer, history>>

\* The instruction behind the call.
AllocReturn(c, type) ==
  /\ Running /\ ctx[c].op = "return"
  /\ return_hook(ctx[c].site, ctx[c].addr, type)
  /\ heap' = {IF h.addr = ctx[c].addr /\ h.st = "new"
              THEN [h EXCEPT !.st = "live"] ELSE h : h \in heap}
  /\ ctx' = [ctx EXCEPT ![c] = Idle]
  /\ owner' = [owner EXCEPT ![ctx[c].site] = NoCtx]
  /\ mixed' = (mixed \/ owner[ctx[c].site] # c)

\* A return site reached by a jump, with anything in EAX.
VisitSite(c, site, a, type) ==
  /\ Running /\ ctx[c] = Idle
  /\ return_hook(site, a, type)
  /\ owner' = [owner EXCEPT ![site] = NoCtx]
  /\ mixed' = (mixed \/ pend[site] # NoSize)
  /\ UNCHANGED guest

\* The first instruction of a free function, for a block or for NULL.
FreeEnter(c, h) ==
  /\ Running /\ ctx[c] = Idle
  /\ h \in heap /\ h.st = "live"
  /\ free_hook(h.kind, h.addr)
  /\ ctx' = [ctx EXCEPT ![c] = [op |-> "free", block |-> h]]
  /\ heap' = (heap \ {h}) \cup {[h EXCEPT !.st = "freeing"]}
  /\ UNCHANGED history

FreeNull(c, a) ==
  /\ Running /\ ctx[c] = Idle
  /\ a = 0 \/ (0 \in Sizes /\ a = ZeroPtr)
  /\ free_hook("kmalloc", a)
  /\ UNCHANGED <<guest, history>>

\* The free function has run; the block may be handed out again.
FreeExit(c) ==
  /\ Running /\ ctx[c].op = "free"
  /\ heap' = {h \in heap : h.addr # ctx[c].block.addr}
  /\ ctx' = [ctx EXCEPT ![c] = Idle]
  /\ UNCHANGED <<tracer, history>>

Load(a) ==
  /\ Running
  /\ helper_load(a)
  /\ UNCHANGED <<guest, history>>

\* A store lies in one block or outside of all.  The 64-bit, FP and SSE stores of
\* translate.c are emitted without the hook: they change nothing here.
Store(a, w) ==
  /\ Running
  /\ \A h \in heap : Span(a, w) \subseteq Extent(h) \/ Span(a, w) \cap Extent(h) = {}
  /\ helper_store(a)
  /\ written' = written \cup Span(a, w)
  /\ UNCHANGED <<guest, owner, mixed>>

\* The monitor command "pemu" while the guest runs: taintInit2 forgets every
\* shadow byte and open_database truncates the output; index and instances stay.
PEMU_init ==
  /\ Running
  /\ taint' = [a \in Addr |-> 0]
  /\ out' = NoInst
  /\ written' = {}
  /\ UNCHANGED <<pend, objs, inst, crash, guest, owner, mixed>>

\* load_vmstate replaces the guest and leaves the tracer as it is: the reload
\* of the index is compiled out.
load_vmstate(snapshot) ==
  /\ Running
  /\ ctx' = snapshot.ctx
  /\ heap' = snapshot.heap
  /\ mixed' = TRUE
  /\ UNCHANGED <<tracer, owner, written>>

-----------------------------------------------------------------------------
Init ==
  /\ pend = [s \in Sites |-> NoSize]
  /\ objs = {}
  /\ inst = [a \in Addr |-> NoInst]
  /\ taint = [a \in Addr |-> 0]
  /\ out = NoInst
  /\ crash = "none"
  /\ ctx = [c \in Ctx |-> Idle]
  /\ heap = {}
  /\ owner = [s \in Sites |-> NoCtx]
  /\ mixed = FALSE
  /\ written = {}

GuestStep ==
  \/ \E c \in Ctx, site \in Sites, size \in Sizes, kind \in Kinds :
        AllocEnter(c, site, size, kind)
  \/ \E c \in Ctx, a \in Arena \cup {0, ZeroPtr} : AllocPick(c, a)
  \/ \E c \in Ctx, type \in Types : AllocReturn(c, type)
  \/ \E c \in Ctx, site \in Sites, a \in EaxValues, type \in Types :
        VisitSite(c, site, a, type)
  \/ \E c \in Ctx, h \in heap : FreeEnter(c, h)
  \/ \E c \in Ctx, a \in {0, ZeroPtr} : FreeNull(c, a)
  \/ \E c \in Ctx : FreeExit(c)
  \/ \E a \in Probes : Load(a)
  \/ \E a \in Probes, w \in Widths : Store(a, w)

Next ==
  \/ GuestStep
  \/ PEMU_init
  \/ \E snapshot \in Snapshots : load_vmstate(snapshot)

Spec == Init /\ [][Next]_vars

-----------------------------------------------------------------------------
TypeOK ==
  /\ pend \in [Sites -> Sizes \cup {NoSize}]
  /\ objs \subseteq Node
  /\ inst \in [Addr -> Instance \cup {NoInst}]
  /\ taint \in [Addr -> {0, 1}]
  /\ out \in Instance \cup {NoInst}
  /\ crash \in Crashes
  /\ ctx \in [Ctx -> Activity]
  /\ heap \subseteq Block
  /\ owner \in [Sites -> Ctx \cup {NoCtx}]
  /\ mixed \in BOOLEAN
  /\ written \subseteq Addr

\* Every node a lookup can return has an instance of the node's own type under
\* its start address.  Nodes and instances are created, replaced and deleted
\* by different calls under different keys: the index drops whatever covers an
\* address (rb_tree.c:214, 384), delete_instance goes by the address freed
\* (main.c:110), vfree skips the instance (main.c:95), and after load_vmstate
\* the nodes are those of another guest.
FindableHaveInstances ==
  \A n \in objs : Covers(n, n.key) =>
    inst[n.key] # NoInst /\ inst[n.key].type = n.type

\* No access of the guest, in any interleaving, reaches assert(0) in
\* add_read_action or add_write_action (lib_map.cpp:1301, 1332).
AccessFindsInstance == crash # "no_instance"

\* The traced part of the index: the phantom at address 0 that a failed
\* allocation leaves behind (main.c:62) and empty nodes are not objects.
TracedNodes == {n \in objs : n.key # 0 /\ n.size # 0}
Traced == {<<n.key, n.size>> : n \in TracedNodes}

\* As long as no two contexts met at the same return address between the entry
\* of an allocator and the instruction behind the call, and no snapshot was
\* loaded under the tracer (savevm.c:2475-2488), the index holds exactly
\* the guest's allocated blocks, with their sizes, and QEMU keeps running.
ExactUnlessMixed ==
  mixed \/ 0 \in Sizes \/
    /\ crash = "none"
    /\ Traced = {<<h.addr, h.size>> : h \in {g \in heap : g.st = "live"}}

\* A byte the guest has stored to since its block was recorded and the shadow
\* memory was last initialised is never reported as untouched: the shadow bit
\* of every traced byte that was written is set.  The bit is set by helper_store
\* and cleared by add_obj, whose ranges are computed from the node found, not
\* from the block (main.c:51, 177).
WrittenIsTainted ==
  mixed \/ \A n \in TracedNodes : \A a \in Span(n.key, n.size) :
    a >= KernelBase /\ a \in written => taint[a] = 1

\* The records of node n are there after a step, or were written out by it.
Kept(n) ==
  \/ inst[n.key] = NoInst
  \/ out' = inst[n.key]
  \/ n \notin objs' /\ inst'[n.key] = inst[n.key]
  \/ /\ inst'[n.key] # NoInst
     /\ inst'[n.key].type = inst[n.key].type
     /\ inst[n.key].pset \subseteq inst'[n.key].pset

\* The access records of an object in the index are lost in no way but by being
\* written out: they survive every step that does not dump them.  (Records of
\* a block released by vfree are outside: its node is gone, its instance stays
\* until the address is recorded again, main.c:95, lib_map.cpp:1164.  So are
\* those of the phantom at address 0, which the next failed allocation, of
\* whatever type, replaces without a dump.)
RecordsLeaveByDump == [][mixed' \/ \A n \in TracedNodes : Kept(n)]_vars

\* What the assertion behind rbtInsert2 says (rb_tree.c:416): the insertion of
\* a recorded object never meets a node with the same start address.
InsertSucceeds == crash # "dup_key"

\* What the assertion at the head of delete_instance says (lib_map.cpp:1178):
\* the address freed has an instance whenever the index knows the address.
DeleteFindsInstance == crash # "null_pset"
=============================================================================
