# Specifications of the kernel-object tracer and of QEMU parts it runs on

The repository is QEMU 1.6.2 with a tracer for the objects of a guest Linux
kernel (`target-i386/rev_sem/`, and hooks marked `//jzeng` in QEMU files). The
tracer watches allocator entries and returns, keeps an index of the live
objects, and records every kernel access to them with the call chain it came
from. These modules specify the tracer, and three concurrent parts of QEMU
itself: the thread pool of the block layer, live migration, and coroutines with
their locks as a backup job and a 9p device use them.

The build that is modelled is the one `config_pemu.h:7,124-146` selects:
`CALLSTACK`, `TRACE_OBJ`, `RECORD_MEM_ACCESS`, `RECORD_INSTANCE_ACCESS`,
`RECORD_POINT_TO`, `RECORD_TRAVERSE` and `RECORD_CALL_FUNC` are on;
`TRACE_SYSCALL_OBJ`, `MYCPUID`, `INFER_SIZE`, `SEM_TYPES`, `RECORD_GLOBAL` and
`RECORD_TYPE_ACCESS` are off.

## 1. The system

| Part | Code | Modules |
| --- | --- | --- |
| Object index: red-black tree of intervals | `rev_sem/rb_tree.c` | `RbTree`, `ObjIndex`, `ObjIndexSpec` |
| Allocation, free and access hooks, instances | `rev_sem/main.c`, `rev_sem/lib_map.cpp` | `ObjTracer` |
| Snapshots loaded under the tracer | `savevm.c` | `ObjTracer` |
| Shadow memory | `rev_sem/shadow_mem.c` | `ShadowMem`, `FlatMem` |
| Interrupt stacks | `rev_sem/lib_map.cpp`, `seg_helper.c` | `InterruptStack` |
| Call-chain walk | `rev_sem/lib_map.cpp` | `CallChain` |
| Thread pool | `thread-pool.c`, part of `aio-posix.c`, `async.c` | `ThreadPool` |
| Live migration | `migration.c`, `savevm.c`, `cpus.c` | `Migration` |
| RAM migration | `arch_init.c`, `savevm.c` | `RamSave` |
| Coroutines, queues and locks | `qemu-coroutine*.c` | `Coroutine`, `CoLock`, `CoLockSpec` |
| Backup job, guest writes, driver below | `block/backup.c`, `blockjob.c`, `block.c`, `block/vmdk.c` | `Backup` |
| Path lock of the 9p device | `hw/9pfs/` | `V9fsPath` |
| The coroutines of one process | all of the last three | `CoSystem` |

How the tracer's parts interact. Every guest instruction of the kernel calls
`helper_hook`. At the entry of an allocator it stores the requested size in
`g_obj`, under the return address of the call. At that return address it takes
the entry out, puts the object in the index, gives it an instance and clears its
shadow bytes. The type of the object is a hash of the call chain, which the walk
reads from the frame pointers on the guest's kernel stack; whether that chain is
one of an interrupt is known from the interrupt stacks. Loads and stores look the
address up in the index and add a record to the instance. A free writes the
instance out. All of this runs in the one thread that executes guest code, but
the guest interleaves its own tasks and interrupts at any instruction, and
between the entry of an allocator and its return nothing but the return address
connects the two. That is where the tracer's concurrency is.

How the QEMU parts interact. The main loop, the vCPU and all coroutines run under
the iothread lock; the migration thread and the workers of the thread pool run
beside them and take locks for short sections. Coroutines change hands only where
they yield, but every lock, I/O and sleep is such a place.

## 2. Modules

**ObjIndex** says what the index promises: a set of nodes, and for a lookup the
set of results that can come back. When intervals overlap, `ds_code_rbtFind2`
may miss a covering node or return any of several, depending on the tree's
shape; `MayMiss` says exactly when. **ObjIndexSpec** is the index as a state
machine. **RbTree** is the tree, node by node: `rbtInsert`, `rbtErase`, both
fix-ups, rotations, and the lookups; it is checked to implement `ObjIndexSpec`.
An insertion may also fail for want of memory, and then the assertion of the
caller stops QEMU.

**ObjTracer** extends `ObjIndex` with the hooks. Tracer variables: `pend`
(`g_obj`), `objs` (the index), `inst` (`g_instances`), `taint` (shadow memory),
`out` (the last line of `output_file1`), `crash` (an assertion or null
dereference has stopped QEMU). Guest variables: `ctx`, `heap`. History
variables: `owner`, `mixed`, `written`. Hook operators (`add_obj`, `free_hook`,
`helper_store`, ...) have the names of the C functions; the guest's steps
(`AllocEnter`, `AllocPick`, `AllocReturn`, `FreeEnter`, ...) call them. The guest
allocator is external: it hands out disjoint blocks or NULL.

**ShadowMem** takes `set_mem_taint_bysize2` byte by byte over the two-level map
with its shared distinguished page, and includes a failing `malloc`.
**FlatMem** is the flat map it implements.

**InterruptStack** has the pushes of `do_interrupt_all`, the pops of
`helper_iret_protected` and the query of the walk. The guest nests interrupts,
switches tasks inside handlers, forks, and lets tasks die in a handler. Before
the guest has mapped its TSS `get_kernel_esp` returns an uninitialised variable,
so during the boot the key is arbitrary.

**CallChain** has the walk over a word-addressed memory, and a guest that calls,
sets up frames, is interrupted, switches, forks and exits. The EBP that a user
program brings into the kernel is any word, also one of the task's own kernel
stack. One assumption on the guest: C functions set up a frame before they call
anything.

**ThreadPool**: a section under `pool->lock` is one step. Waits, the unlocked
store of `THREAD_DONE`, the post after the unlock, and each look of
`event_notifier_ready` at a request are steps of their own. `stack` holds the
nested scans and callbacks of the thread that runs the AioContext. Submissions
from other threads need the global mutex, which `aio_poll` does not release, so
they are steps of that same thread. Spurious wake-ups are left out.

**RamSave** has the dirty log, the migration bitmap with its search and its
counter, the bulk stage, and the `QEMUFile` whose iovec is read only when it is
flushed. **Migration** says when these steps are taken: by the migration thread,
place by place (`pc`), against the handlers of the main loop (start, cancel as a
read and a compare-and-swap, connect, cleanup) and the vCPU that goes on writing.
`bql` names who keeps the iothread lock from one step to the next.

**Coroutine** has entering, yielding and ending, `CoQueue`, and the wake-ups that
are deferred until the waker yields (`wakeup`, `restarting`). **CoLock** has
`CoMutex` and `CoRwlock`, **CoLockSpec** what they promise. **Backup** has the job
in its three sync modes, `backup_do_cow`, the guest's writes, and a driver that
keeps its lock during I/O; its history variables `asof`, `early` and `spurious`
are marked as such. In sync mode top the job asks for the sectors of a cluster in
parts (`asked`), and the last cluster may reach beyond the end of the device. At
its end the job closes the target: twice it runs a nested loop
(`bdrv_drain_all`), in which only I/O of the block layer is completed, and which
aborts if a request is left that it cannot enter. **V9fsPath** has the sections
under `rename_lock`, and the reopening and the release of a fid inside a rename.
**CoSystem** composes them under one main loop.

**CoInvariants** has the inductive invariants of `CoSystem`. It is apart from the
proofs so that **CoStepProofs** (locks, copy) and **QueueProofs** (queues) do not
depend on each other; **BackupProofs** (bounds, sleep, flush) combines them.

**MC\*** modules add symmetry sets, constant values and, for `ObjTracer`, slices.
Every definition named "Seeded fault" is a deliberate bug: put in place of the
definition after it, it makes a property of one of the runs fail. Nothing else
uses it.

## 3. What TLC checks

| Run | Bounds | States | Question |
| --- | --- | --- | --- |
| `rbtree` | 9 nodes, 10 addresses, 3 families of objects | 14 574 | Is every tree that insertions and deletions reach well linked (`WellLinked`) and balanced (`Balanced`), do lookups stay within `ObjIndex` (`FindWithinContract`), does the tree implement `ObjIndexSpec` (`ImplementsIndex`)? |
| `tracer` | 2 contexts, 2 call sites, 3 cells | 607 742 | Do nodes keep their instances (`FindableHaveInstances`, `AccessFindsInstance`)? Is the index exact until contexts meet at one return address (`ExactUnlessMixed`)? Is no written byte reported untouched (`WrittenIsTainted`), no record lost (`RecordsLeaveByDump`)? |
| `shadow_mem` | 3 pages of 2 bytes, 4 maps | 124 250 | Do range stores change exactly their range (`RangeExact`), is it a flat map (`ImplementsFlatMem`)? |
| `interrupt_stack` | 3 stacks, nesting 2, 3 entries | 280 846 | Is the innermost open interrupt on top (`OpenInterruptsOnTop`), and `top()` defined (`NoEmptyStack`)? |
| `call_chain` | 2 stacks of 15 words, 3 active calls | 405 082 | Does the walk find the active calls (`ChainExact`), in live words that ascend, and end (`FramesLive`)? Does the marker fit (`MarkerMatchesChain`)? |
| `migration` | blocks of 1 and 2 pages, iovec of 2, 3 stores or commands | 489 874 | Is no page forgotten (`NothingForgotten`, `DestMatches`), the bitmap counted (`DirtyPagesCounted`), the guest on one side (`OneSideRuns`) and left right (`GuestFate`), the cleanup sound (`CleanupSound`)? Does every migration end (`MigrationEnds`)? |
| `coroutines` | a job and 2 writers, or 3 requests; 2 clusters of 2 parts, 1 error, 1 command, 5 sections | 622 375 | Is the copy one of the start (`PointInTime`, `OneCopier`), nothing freed under it (`FlushedBeforeFree`), nobody entered while it waits for something else (`NotSpurious`), everybody in one list (`LinkedOnce`), no wake-up lost (`WakeupsKept`)? Do the locks exclude (`LocksExclude`)? Do requests and jobs end (`RequestsEnd`, `JobEnds`)? |
| `pool` | 3 requests, 2 workers | 127 737 | Do tokens, counters, threads and notifications agree (`TokensMatchRequests`, `ThreadsCounted`, `OneWorkerPerRequest`, `FinishedIsSeen`), also when callbacks poll inside scans (`ScanPointersValid`)? Do requests complete (`RequestsComplete`), cancellations and the free return (`CancelReturns`, `FreeReturns`)? |

Why the bounds are enough. Nine nodes reach every case of both fix-ups and their
mirror images, at the root and below it; the other two families overlap and wrap
around the address space. Two contexts and two sites are what it takes to mix up
pending entries; three cells hold two neighbouring blocks of different sizes, so
that a wrong size covers a neighbour. The product of meeting contexts, accesses
and snapshots is too large, so a behaviour of `tracer` lies in one of three
slices of it, which the first state chooses. Three pages let a range cover one
page and parts of two. Nesting of two with three entries lets a task die with
open interrupts and a successor nest on top of what it left. Three active calls
are a system call or interrupt, a function, and what it calls, including the
switch. Two blocks of different length let the search wrap between and inside
blocks, and an iovec of two holds a page while the next one is put; in blocks of
two pages the step of the bulk stage that does not look at the bit always lands
behind the block, so `DirtyPagesCounted` rests on the theorem `BitmapCounted`
where that step takes a page. Two clusters
and two writers let a write overlap a copy, wait for it, and find another one
when it is entered; two parts of a cluster are what it takes to ask again, and
to ask beyond the end. Three requests and two workers let one worker time out while
another holds a token and a cancellation waits. Constants named as bounds
(`MaxNodes`, `MaxDepth`, `MaxEntries`, `MaxActive`, `MaxOps`, `MaxErrors`,
`MaxCommands`, `MaxSections`) appear in guards only. Deadlock is not checked where
the guest or the callers may simply stop.

### Fairness

* `pool`: weak fairness of each worker and of the steps the AioContext's thread
  takes by itself (polling, scanning, returning from callbacks and waits). Host
  threads are scheduled, and the main loop polls as long as QEMU runs. Nobody is
  made to submit, cancel or free. `RequestsComplete` needs its premise: callbacks
  that never stop submitting can starve an older request, because new requests go
  to the front of the list and `goto restart` begins there.
* `migration`: the thread and the main loop move again and again if they can
  again and again (strong fairness, because both wait for the iothread lock that
  others take and leave), and a cancel gives the lock back. Connects succeed or
  time out. The guest need not write and nobody need cancel.
* `coroutines`: control changes hands as long as something runs, waits for I/O or
  for a timer, or a nested loop has nothing left to wait for. Nobody need submit a
  request or give a command.

### Disagreements between code and comments

Four runs end in a violation that is kept as a result.

* `tracer_zero_size` (`InsertSucceeds`, 45 states): a node of size 0 is never
  found, so the second `__kmalloc(0)` meets it as a duplicate and the assertion at
  `rb_tree.c:416` fails.
* `tracer_meet` (`DeleteFindsInstance`, 1 927 states): two contexts that share a
  return address overwrite each other's pending size. The block recorded too
  large covers its neighbour, whose free then reaches `delete_instance` without an
  instance.
* `migration_lost_page` (`ZeroMeansNoDirtyPages`, 82 201 states):
  `ram_save_block` resets the bit of the last page of the last block and returns 0
  without sending it, when that page alone was written again after the bulk stage
  sent it (`arch_init.c:467`).
* `pool_nested_poll` (`NestedPollReturns`, 3 539 states): two requests finish
  before one wake-up, the notifier is cleared for both, and the first callback
  polls for the second. `aio_poll` blocks for ever, although
  `include/block/aio.h:194-196` says that it waits until an event has completed.

Other behaviours met on the way are named as exceptions in the properties, so
that what remains is true of the code.

* In sync mode top the notifier of a backup goes before the copies under way are
  waited for, and a new write can get into the copy (`block/backup.c:332`).
  The last part of `PointInTime` speaks of full backups only.
* A rename in the 9p device that meets a reclaimed fid, or drops the last
  reference to a clunked fid of an attribute, waits as a reader for the lock it
  holds as a writer (`hw/9pfs/virtio-9p.c:232, 292-297`). `RequestsEnd` excepts it
  (`SelfWait`).
* In sync mode top the scan of a last cluster that is only partly inside the
  device, with nothing allocated there, asks for 0 sectors for ever
  (`block/backup.c:291`). When the job closes its target, a write that the job
  itself has woken cannot run, and the assertion on `tracked_requests` fails
  (`block.c:1463`). `RequestsEnd` and `JobEnds` except both (`Halted`).
* The walk goes on with the EBP of a user program when the outermost call is a
  system call or an interrupt it does not know. One that points into the task's own
  kernel stack can make it read anything there and turn in a circle; one of the
  last word wraps around (`lib_map.cpp:1265-1280`). `FramesLive` and `ChainExact`
  except these (`FollowsUser`) and still say that the calls of the kernel come
  first, each once.
* A cancel that comes after the end of the stream leaves the guest running on
  both sides (`OneSideRuns`); a cancel while the connect is under way is lost
  (`migration.c:652`); a URI that cannot be parsed leaves the state at setup
  (`migration.c:437`); a second migrate may begin while the bottom half of the
  first is pending (`migration.c:409`, `CleanupSound`); a paused guest is left in
  finish-migrate when the disks cannot be flushed, and the next migration aborts
  (`cpus.c:1129`, `GuestFate`).
* The index is not exact once two contexts have met at one return address, a
  pending entry of the one was taken by the other, or a snapshot was loaded
  (`mixed`): `ExactUnlessMixed`, `WrittenIsTainted` and `RecordsLeaveByDump` speak
  of the time before, `FindableHaveInstances` and `AccessFindsInstance` of all
  times.
* A task that dies in a handler leaves its entry on the interrupt stack, and the
  next task on that stack carries its marker outside interrupts
  (`lib_map.cpp:1363`). `OpenInterruptsOnTop` counts such entries (`left`) and says
  that they stay below those of open interrupts.
* A block that ends at the last address is never found, because `key+size` wraps.
  `ArenaAssumption` keeps the guest's allocator away from it.
* `qemu_co_queue_run_restart` goes on with a coroutine that may have been entered
  again and have ended meanwhile (`qemu-coroutine-lock.c:65`). The specification
  does not reuse coroutines, so there the list is simply empty.

## 4. What is proved

All proofs are checked by TLAPS for every value of the constants, under the named
assumptions of the modules: sizes and bounds are natural numbers, sentinels are
outside the sets they mark, the sets of coroutines and workers are finite, and
two that say something of the guest and the translator. `ArenaAssumption`: no
block ends at the last address. `WidthAssumption`: no store is wider than the
four bytes the hook marks.

| Theorem | States | Module |
| --- | --- | --- |
| `TypeCorrect`, `InstancesPresent`, `AccessNeverAsserts` | `TypeOK`, `FindableHaveInstances`, `AccessFindsInstance` | `ObjTracerProofs` |
| `IndexIsExact`, `StoresAreSeen`, `RecordsAreDumped` | `ExactUnlessMixed`, `WrittenIsTainted`, `RecordsLeaveByDump` | `ObjTracerProofs` |
| `PagesApart`, `RangeStores`, `Refinement` | `NoSharing`, `RangeExact`, `ImplementsFlatMem` | `ShadowMemProofs` |
| `TopDefined`, `OpenOnTop`, `MarkerCorrect` | `NoEmptyStack`, `OpenInterruptsOnTop`, `MarkerRight` | `InterruptStackProofs` |
| `NoPageForgotten`, `DestinationMatches`, `BitmapCounted` | `NothingForgotten`, `DestMatches`, `DirtyPagesCounted` | `MigrationProofs` |
| `GuestRunsOnOneSide`, `GuestIsLeftRight`, `CleanupIsSound` | `OneSideRuns`, `GuestFate`, `CleanupSound` | `MigrationProofs` |
| `TokensForRequests`, `WorkersApart`, `CountersCount` | `TokensMatchRequests`, `OneWorkerPerRequest`, `ThreadsCounted` | `ThreadPoolProofs` |
| `NoneOverlooked`, `PointersValid` | `FinishedIsSeen`, `ScanPointersValid` | `ThreadPoolProofs` |
| `LocksRefine` | `LocksExclude` | `CoStepProofs` |
| `Flushed`, `OneCall`, `CopyAsOfStart` | `FlushedBeforeFree`, `OneCopier`, `PointInTime` | `BackupProofs` |
| `OneLink`, `NoLostWakeup`, `EnteredAsleep` | `LinkedOnce`, `WakeupsKept`, `NotSpurious` | `BackupProofs` |

The arguments, and why the invariants had to be strengthened:

* **ObjTracerProofs**. `AccessFindsInstance` says nothing of the nodes a later
  lookup may return; with `FindableHaveInstances` and the types it is inductive.
  What a lookup returns covers the address, and after `rbtInsert2` has erased
  while it finds, a node with the new key is one that no lookup returns. The
  guest's interleavings play no part, so this also holds when contexts meet.
  `ExactUnlessMixed` is broken between the allocator's return and the hook, and
  between the free hook and the allocator. `ExactInv` names what each context
  under way owns, that no two own the same block, that blocks neither overlap nor
  wrap, and that the nodes are the live blocks up to the phantoms that failed and
  empty allocations leave. `WrittenIsTainted` and `RecordsLeaveByDump` follow from
  it: the ranges that are tainted and the records that are dropped are those of
  nodes, and only then those of blocks.
* **ShadowMemProofs**. The conjunction of the type, `NoSharing` and `RangeExact`.
  Without `NoSharing` a store to one page could change another.
* **InterruptStackProofs**. The invariant adds `QuietBoot`: no task has an open
  interrupt before the boot ends, without which an arbitrary pop of the boot could
  take an open entry.
* **MigrationProofs**. `Control` says for each place of the thread which states,
  run states and flags go with it. `Memory` adds to `NothingForgotten` that the
  page in hand is the only one out of the bitmap, and that a search which ends the
  last stage has emptied it. `BitsCounted` adds that in the bulk stage every page
  from the cursor on is still in the bitmap, so that a page taken without a look
  at its bit had it set.
* **ThreadPoolProofs**. Tokens are counted against the list together with those
  that workers already hold and that a submission has yet to post; the threads
  against the counters together with those that are asked for. Scans are nested:
  the invariant says of every frame of `stack` what the frames above it may have
  released.
* **CoStepProofs**. The fields of the locks count their holders (`LockFields`);
  whoever is entered looks at the lock again, so the queues play no part in
  exclusion. For the copy, `CopyInv` says by the place of each call which clusters
  it has copied and what its buffer holds, and what the job's loop has done.
* **QueueProofs**. All queues and wake-up lists are one family of lists in which
  everything occurs once (`Once`); the three moves of `CoQueue` (to the tail, off
  the head, from one list to the tail of another) keep it. `QueueInv` says that a
  coroutine is linked if and only if it waits in a queue, that every wake-up list
  that is not empty belongs to who runs or to a loop that will get to it
  (`Pending`), and that a queue with waiters has a busy lock or a waiter about to
  look (`Served`). `WakeupsKept` alone is not inductive: it does not say that those
  who wait are where they look again (`Waiters`), nor that a wake-up list is
  reached.
* **BackupProofs** shows that the flush lock lets nobody pass who is still in
  `backup_do_cow` (`FlushInv`), also while new writes come in during the nested
  loops behind it. `SleepInv` adds to `NotSpurious` that a job that is not busy is
  at its sleep. `BoundInv` keeps the values in their types, because the job's next
  cluster is one of the device wherever its loop uses it. The module puts the steps
  of the other two together and states the theorems. Locks, flush, copy and queues
  rest on each other in that order only.

## 5. Only model-checked

* All liveness: `MigrationEnds`, `RequestsEnd`, `JobEnds`, `RequestsComplete`,
  `CancelReturns`, `FreeReturns`. Fairness is outside what the prover handles.
* The tree (`WellLinked`, `Balanced`, `FindWithinContract`, `ImplementsIndex`): its
  definitions recurse over the structure, and what a recursion computes for every
  tree needs induction over data, which the prover cannot do.
* The walk (`FramesLive`, `ChainExact`, `MarkerMatchesChain`), for the same reason:
  the chain is what a recursion over the frames returns.

## 6. What is not modelled

Of the tracer: access edges (`helper_load1`, `helper_store1`, `add_pointTo`,
`add_traverse`, `add_call_dst`), which add to sets that only grow; the dump of the
database; instruction decoding, which is a function of the instruction's bytes;
the hash of a call chain. Stores of 64 bits and those of the floating-point and
SSE units are translated without the hook, so the bytes they write are not among
those `WrittenIsTainted` is about. Code that the configuration switches off or
that is not built: size inference, semantic types, system-call tracing,
`hook_inst.c`, `taint2.c`, the index reload in `load_vmstate`.

Of the QEMU parts: coroutines that enter coroutines, the pool of free coroutines,
`qemu_co_queue_wait_insert_head` and `qemu_co_enter_next` (throttling);
`block_job_cancel_sync`, the speed limit of jobs, mirror, stream and commit; copy
on read; the fids and protocol of 9p; XBZRLE, RDMA, transports other than TCP, and
RAM blocks that come or go during a migration; handlers and bottom halves that are
deleted during a walk of the AioContext. Nothing of the translator, devices,
monitor, networking or image formats. `PROJECT.json` lists every part with the
reason.
