------------------------------- MODULE Backup -------------------------------
(***************************************************************************)
(* A backup job (block/backup.c, blockjob.c), the guest's writes that go    *)
(* through its before_write notifier (bdrv_co_do_writev in block.c), and    *)
(* the driver below them, which keeps s->lock during its I/O (block/vmdk.c; *)
(* the bottom half that ends its requests is left out).  All of it runs in  *)
(* coroutines of one thread: control changes hands where they yield, and    *)
(* nowhere else.                                                            *)
(***************************************************************************)
EXTENDS CoLock

CONSTANTS
  Job,               \* the coroutine of backup_run
  NClusters,         \* clusters of the device
  SectorsPerCluster, \* BACKUP_SECTORS_PER_CLUSTER
  Allocations,       \* what may be allocated in the top image at the start
  MaxErrors,         \* bound on I/O errors
  MaxCommands        \* bound on block_job_* commands

ASSUME BackupAssumption ==
  /\ Job \in Co
  /\ {NClusters, SectorsPerCluster} \subseteq Nat \ {0}
  /\ Allocations \subseteq SUBSET (0 .. NClusters - 1)
  /\ MaxErrors \in Nat /\ MaxCommands \in Nat
  /\ {"old", "base", "blank"} \cap Co = {}

VARIABLES
  src, target,       \* contents of the clusters; a guest writes its name
  allocated,         \* clusters with sectors allocated in the top image
  sync_mode,
  job,               \* "none", "active" or "done" (freed)
  copied,            \* job->bitmap
  before_write,      \* the notifier is in the list
  inflight_reqs,     \* the list of CowRequests, each named by its coroutine
  start, end,        \* the clusters of a backup_do_cow (start and end of its
                     \* CowRequest)
  cluster,           \* the one its loop is at
  buf,               \* its bounce buffer
  ret,               \* what it returns: "ok", "read" or "write" (failed)
  next,              \* the start of backup_run
  asked,             \* the i of its loop over the sectors of a cluster
  busy, paused, cancelled,
  spurious,          \* history: a coroutine was entered that waits elsewhere
  early,             \* history: writes in flight when the job began
  asof,              \* history: what a copy as of the start may hold
  errors, commands

dataVars == <<src, target, allocated, copied, buf>>
cowVars == <<inflight_reqs, start, end, cluster, ret>>
scanVars == <<sync_mode, asked>>
jobVars == <<scanVars, job, before_write, next, busy, paused, cancelled>>
histVars == <<spurious, early, asof, errors, commands>>
backupVars == <<dataVars, cowVars, jobVars, histVars>>

Clusters == 0 .. NClusters - 1
Guests == Co \ {Job}     \* the coroutines of the guest's writes
Content == Guests \cup {"old", "base", "blank"}

CowPlaces == {"rdlock", "overlap", "loop", "read_lock", "read", "read_io",
              "write_target", "target_io", "out", "unlock"}
ClosePlaces == {"close", "drained", "flushed", "closed", "abort"}
JobPlaces == {"for", "slept", "is_allocated", "alloc", "alloc_io", "past_end",
              "cowed", "remove", "wrlock", "wrunlock"} \cup ClosePlaces
GuestPlaces == {"write_lock", "write", "write_io"}

BackupTypeOK ==
  /\ src \in [Clusters -> Content] /\ target \in [Clusters -> Content]
  /\ allocated \subseteq Clusters /\ copied \subseteq Clusters
  /\ sync_mode \in {"full", "top", "none"}
  /\ job \in {"none", "active", "done"}
  /\ inflight_reqs \in Seq(Co)
  /\ start \in [Co -> 0..NClusters] /\ end \in [Co -> 0..NClusters]
  /\ cluster \in [Co -> 0..NClusters]
  /\ buf \in [Co -> Content] /\ ret \in [Co -> {"ok", "read", "write"}]
  /\ next \in 0..NClusters
  /\ asked \in 0 .. SectorsPerCluster - 1
  /\ {before_write, busy, paused, cancelled, spurious} \subseteq BOOLEAN
  /\ early \subseteq Guests /\ asof \in [Clusters -> SUBSET Content]
  /\ errors \in 0..MaxErrors /\ commands \in 0..MaxCommands

\* In sync mode top the target has the backing file of the device.
BackupInit ==
  /\ sync_mode \in {"full", "top", "none"}
  /\ allocated \in IF sync_mode = "top" THEN Allocations ELSE {Clusters}
  /\ src = [k \in Clusters |-> IF k \in allocated THEN "old" ELSE "base"]
  /\ target = [k \in Clusters |-> IF sync_mode = "top" THEN "base" ELSE "blank"]
  /\ job = "none" /\ copied = {} /\ before_write = FALSE /\ inflight_reqs = <<>>
  /\ start = [c \in Co |-> 0] /\ end = [c \in Co |-> 0]
  /\ cluster = [c \in Co |-> 0]
  /\ buf = [c \in Co |-> "blank"] /\ ret = [c \in Co |-> "ok"]
  /\ next = 0 /\ asked = 0
  /\ busy = FALSE /\ paused = FALSE /\ cancelled = FALSE
  /\ spurious = FALSE /\ early = {} /\ asof = [k \in Clusters |-> {}]
  /\ errors = 0 /\ commands = 0

Fails == errors < MaxErrors /\ errors' = errors + 1
Works == UNCHANGED errors
----------------------------------------------------------------------------
(* backup_do_cow, for the job and for the guest's writes.                   *)

\* backup_do_cow is called for clusters first .. last - 1.
CallDoCow(c, first, last) ==
  /\ start' = [start EXCEPT ![c] = first]
  /\ end' = [end EXCEPT ![c] = last]
  /\ cluster' = [cluster EXCEPT ![c] = first]
  /\ ret' = [ret EXCEPT ![c] = "ok"]
  /\ UNCHANGED inflight_reqs

CowRdLock(c) ==
  /\ At(c, "rdlock") /\ qemu_co_rwlock_rdlock("flush", c, "overlap")
  /\ UNCHANGED backupVars

Overlaps(c, d) == end[c] > start[d] /\ start[c] < end[d]

\* Seeded fault: a request that has waited does not look again.
CowWait_once(c) ==
  /\ At(c, "overlap") /\ Goto(c, "loop")
  /\ inflight_reqs' = <<c>> \o inflight_reqs
  /\ \E i \in DOMAIN inflight_reqs :
       Overlaps(c, inflight_reqs[i]) /\ qemu_co_queue_wait(inflight_reqs[i], c)
  /\ UNCHANGED <<lockVars, dataVars, start, end, cluster, ret, jobVars, histVars>>

\* wait_for_overlapping_requests waits for the first one in the list that
\* overlaps, and then looks again; without one, cow_request_begin.
CowWait(c) ==
  /\ At(c, "overlap")
  /\ \E i \in DOMAIN inflight_reqs :
       /\ Overlaps(c, inflight_reqs[i])
       /\ \A j \in 1 .. i - 1 : ~Overlaps(c, inflight_reqs[j])
       /\ qemu_co_queue_wait(inflight_reqs[i], c)
  /\ UNCHANGED <<pc, lockVars, backupVars>>
CowBegin(c) ==
  /\ At(c, "overlap") /\ Goto(c, "loop")
  /\ \A i \in DOMAIN inflight_reqs : ~Overlaps(c, inflight_reqs[i])
  /\ inflight_reqs' = <<c>> \o inflight_reqs
  /\ UNCHANGED <<coVars, lockVars, dataVars, start, end, cluster, ret, jobVars,
                 histVars>>

\* The loop goes on to the next cluster that is not copied.
CowLoop(c) ==
  /\ At(c, "loop")
  /\ \E k \in cluster[c] .. end[c] :
       /\ cluster[c] .. k - 1 \subseteq copied
       /\ \/ k = end[c] /\ Goto(c, "out")
          \/ k < end[c] /\ k \notin copied /\ Goto(c, "read_lock")
       /\ cluster' = [cluster EXCEPT ![c] = k]
  /\ UNCHANGED <<coVars, lockVars, dataVars, inflight_reqs, start, end, ret,
                 jobVars, histVars>>

\* bdrv_co_readv of the device: the driver locks, reads and unlocks.
ReadLock(c) == /\ At(c, "read_lock") /\ qemu_co_mutex_lock(c, "read")
               /\ UNCHANGED backupVars
Read(c) == /\ At(c, "read") /\ Goto(c, "read_io")
           /\ qemu_coroutine_yield(c, "io")
           /\ UNCHANGED <<lockVars, backupVars>>
ReadDone(c) ==
  /\ At(c, "read_io") /\ qemu_co_mutex_unlock(c)
  /\ \/ /\ Works /\ Goto(c, "write_target")
        /\ buf' = [buf EXCEPT ![c] = src[cluster[c]]] /\ UNCHANGED ret
     \/ /\ Fails /\ Goto(c, "out")
        /\ ret' = [ret EXCEPT ![c] = "read"] /\ UNCHANGED buf
  /\ UNCHANGED <<src, target, allocated, copied, inflight_reqs, start, end,
                 cluster, jobVars, spurious, early, asof, commands>>

\* bdrv_co_writev or bdrv_co_write_zeroes of the target.  One that fails may
\* have written or not.
WriteTarget(c) == /\ At(c, "write_target") /\ Goto(c, "target_io")
                  /\ qemu_coroutine_yield(c, "io")
                  /\ UNCHANGED <<lockVars, backupVars>>
TargetDone(c) ==
  /\ At(c, "target_io")
  /\ \/ /\ Works /\ Goto(c, "loop")
        /\ target' = [target EXCEPT ![cluster[c]] = buf[c]]
        /\ copied' = copied \cup {cluster[c]}
        /\ cluster' = [cluster EXCEPT ![c] = @ + 1] /\ UNCHANGED ret
     \/ /\ Fails /\ Goto(c, "out")
        /\ target' \in {target, [target EXCEPT ![cluster[c]] = buf[c]]}
        /\ ret' = [ret EXCEPT ![c] = "write"] /\ UNCHANGED <<copied, cluster>>
  /\ UNCHANGED <<coVars, lockVars, src, allocated, buf, inflight_reqs, start,
                 end, jobVars, spurious, early, asof, commands>>

\* The buffer is freed; cow_request_end; then the unlock, and back in the caller.
CowEnd(c) ==
  /\ At(c, "out") /\ Goto(c, "unlock")
  /\ buf' = [buf EXCEPT ![c] = "blank"]
  /\ \E i \in DOMAIN inflight_reqs :
       /\ inflight_reqs[i] = c
       /\ inflight_reqs' = SubSeq(inflight_reqs, 1, i - 1)
                             \o SubSeq(inflight_reqs, i + 1, Len(inflight_reqs))
  /\ qemu_co_queue_restart_all(c, c)
  /\ UNCHANGED <<lockVars, src, target, allocated, copied, start, end, cluster,
                 ret, jobVars, histVars>>
CowUnlock(c) ==
  /\ At(c, "unlock")
  /\ qemu_co_rwlock_unlock("flush", c)
  /\ Goto(c, IF c = Job THEN "cowed"
             ELSE IF ret[c] = "ok" THEN "write_lock" ELSE "complete")
  /\ UNCHANGED backupVars

backup_do_cow(c) ==
  \/ CowRdLock(c) \/ CowWait(c) \/ CowBegin(c) \/ CowLoop(c) \/ ReadLock(c)
  \/ Read(c) \/ ReadDone(c) \/ WriteTarget(c) \/ TargetDone(c) \/ CowEnd(c)
  \/ CowUnlock(c)

----------------------------------------------------------------------------
(* The guest's writes.                                                      *)

\* A device submits a write of clusters first .. last - 1: bdrv_co_do_writev
\* calls the notifier, if there is one, before it does anything.
bdrv_co_do_writev(c) ==
  /\ MainIdle /\ waits[c] = "start" /\ c = qemu_coroutine_create(Guests)
  /\ qemu_coroutine_enter(c)
  /\ \E first \in Clusters, last \in 1..NClusters :
       first < last /\ CallDoCow(c, first, last)
  /\ Goto(c, IF before_write THEN "rdlock" ELSE "write_lock")
  /\ UNCHANGED <<restarting, wakeup, entries, lockVars, dataVars, jobVars,
                 histVars>>

WriteLock(c) == /\ At(c, "write_lock") /\ qemu_co_mutex_lock(c, "write")
                /\ UNCHANGED backupVars
Write(c) == /\ At(c, "write") /\ Goto(c, "write_io")
            /\ qemu_coroutine_yield(c, "io")
            /\ UNCHANGED <<lockVars, backupVars>>
\* A write that fails may have reached some of its clusters.
WriteDone(c) ==
  LET range == start[c] .. end[c] - 1
  IN /\ At(c, "write_io") /\ Goto(c, "complete") /\ qemu_co_mutex_unlock(c)
     /\ \E written \in SUBSET range :
          /\ (written = range /\ Works) \/ Fails
          /\ src' = [k \in Clusters |-> IF k \in written THEN c ELSE src[k]]
          /\ allocated' = allocated \cup written
          /\ asof' = [k \in Clusters |->
                        IF k \in written /\ c \in early
                        THEN asof[k] \cup {c} ELSE asof[k]]
     /\ UNCHANGED <<target, copied, buf, cowVars, jobVars, spurious, early,
                    commands>>

\* The coroutine of a request ends, and what it had on its stack is gone.
Complete(c) ==
  /\ At(c, "complete") /\ Goto(c, "dead")
  /\ SwitchBack(c, "dead")
  /\ start' = [start EXCEPT ![c] = 0] /\ end' = [end EXCEPT ![c] = 0]
  /\ cluster' = [cluster EXCEPT ![c] = 0]
  /\ ret' = IF c = Job THEN ret ELSE [ret EXCEPT ![c] = "ok"]
  /\ UNCHANGED <<wakeup, entries, lockVars, dataVars, inflight_reqs, jobVars,
                 histVars>>

----------------------------------------------------------------------------
(* The job.                                                                 *)

\* qmp_drive_backup, backup_start, and backup_run up to its loop.  Writes may
\* be in flight: nothing drains them.
backup_start ==
  /\ MainIdle /\ job = "none" /\ waits[Job] = "start"
  /\ qemu_coroutine_enter(Job) /\ Goto(Job, "for")
  /\ job' = "active" /\ busy' = TRUE /\ before_write' = TRUE
  /\ copied' = {} /\ next' = 0
  /\ early' = {c \in Guests : waits[c] \notin {"start", "dead"}}
  /\ asof' = [k \in Clusters |-> {src[k]}]
  /\ UNCHANGED <<restarting, wakeup, entries, lockVars, src, target, allocated,
                 buf, cowVars, scanVars, paused, cancelled, spurious, errors,
                 commands>>

\* The head of the loop, with block_job_sleep_ns: in sync mode none the job
\* only waits to be cancelled.
JobFor ==
  /\ At(Job, "for")
  /\ IF cancelled \/ (sync_mode # "none" /\ next = NClusters)
     THEN Goto(Job, "remove") /\ UNCHANGED <<coVars, busy>>
     ELSE /\ Goto(Job, "slept") /\ busy' = FALSE
          /\ qemu_coroutine_yield(Job, IF sync_mode = "none" \/ paused
                                       THEN "resume" ELSE "timer")
  /\ UNCHANGED <<lockVars, dataVars, cowVars, scanVars, job, before_write,
                 next, paused, cancelled, histVars>>

\* Seeded fault: the job does not set busy again.
JobSlept_not_busy ==
  /\ At(Job, "slept")
  /\ IF cancelled
     THEN Goto(Job, "remove") /\ UNCHANGED cowVars
     ELSE \/ sync_mode = "none" /\ Goto(Job, "for") /\ UNCHANGED cowVars
          \/ sync_mode = "top" /\ Goto(Job, "is_allocated") /\ UNCHANGED cowVars
          \/ /\ sync_mode = "full"
             /\ Goto(Job, "rdlock") /\ CallDoCow(Job, next, next + 1)
  /\ UNCHANGED <<coVars, lockVars, dataVars, scanVars, job, before_write, next,
                 busy, paused, cancelled, histVars>>

JobSlept ==
  /\ At(Job, "slept") /\ busy' = TRUE
  /\ IF cancelled
     THEN Goto(Job, "remove") /\ UNCHANGED cowVars
     ELSE \/ sync_mode = "none" /\ Goto(Job, "for") /\ UNCHANGED cowVars
          \/ sync_mode = "top" /\ Goto(Job, "is_allocated") /\ UNCHANGED cowVars
          \/ /\ sync_mode = "full"
             /\ Goto(Job, "rdlock") /\ CallDoCow(Job, next, next + 1)
  /\ UNCHANGED <<coVars, lockVars, dataVars, scanVars, job, before_write, next,
                 paused, cancelled, histVars>>

\* The loop asks for the sectors of the cluster from asked on.  In
\* bdrv_co_is_allocated the driver locks, reads its tables, which may be cached,
\* and unlocks.
JobAllocLock == /\ At(Job, "is_allocated") /\ qemu_co_mutex_lock(Job, "alloc")
                /\ UNCHANGED backupVars
JobAlloc == /\ At(Job, "alloc") /\ Goto(Job, "alloc_io")
            /\ qemu_coroutine_yield(Job, "io") \/ UNCHANGED coVars
            /\ UNCHANGED <<lockVars, backupVars>>

\* None of the next n sectors is allocated.  If the cluster has others, the loop
\* asks for those, unless they are beyond the end of the device: of them the
\* answer is "not allocated" for 0 sectors, for ever, and the loop never yields.
Unallocated(n) ==
  /\ next \in allocated => asked + n < SectorsPerCluster
  /\ \/ /\ asked + n = SectorsPerCluster
        /\ Goto(Job, "for") /\ next' = next + 1 /\ asked' = 0
     \/ /\ asked + n < SectorsPerCluster
        /\ \/ Goto(Job, "is_allocated")
           \/ next = NClusters - 1 /\ next \notin allocated /\ Goto(Job, "past_end")
        /\ asked' = asked + n /\ UNCHANGED next
  /\ UNCHANGED cowVars
JobAllocated ==
  /\ At(Job, "alloc_io") /\ qemu_co_mutex_unlock(Job)
  /\ \/ /\ next \in allocated /\ Goto(Job, "rdlock")
        /\ CallDoCow(Job, next, next + 1) /\ asked' = 0 /\ UNCHANGED next
     \/ \E n \in 1 .. SectorsPerCluster : Unallocated(n)
  /\ UNCHANGED <<dataVars, sync_mode, job, before_write, busy, paused, cancelled,
                 histVars>>

\* Seeded fault: a cluster that could not be copied is passed over.
JobCowed_skips ==
  /\ At(Job, "cowed")
  /\ Goto(Job, "for") /\ next' = next + 1 /\ UNCHANGED paused
  /\ UNCHANGED <<coVars, lockVars, dataVars, cowVars, scanVars, job,
                 before_write, busy, cancelled, histVars>>

\* backup_error_action: report ends the job, stop pauses it, ignore tries the
\* cluster again at once.
JobCowed ==
  /\ At(Job, "cowed")
  /\ IF ret[Job] = "ok"
     THEN Goto(Job, "for") /\ next' = next + 1 /\ UNCHANGED paused
     ELSE /\ \/ Goto(Job, "remove") /\ UNCHANGED paused
             \/ Goto(Job, "for") /\ paused' \in {TRUE, paused}
          /\ UNCHANGED next
  /\ UNCHANGED <<coVars, lockVars, dataVars, cowVars, scanVars, job,
                 before_write, busy, cancelled, histVars>>

\* Seeded fault: the job is freed without the write lock.
JobRemove_frees ==
  /\ At(Job, "remove") /\ Goto(Job, "complete") /\ before_write' = FALSE
  /\ job' = "done" /\ copied' = {}
  /\ UNCHANGED <<coVars, lockVars, src, target, allocated, buf, cowVars,
                 scanVars, next, busy, paused, cancelled, histVars>>

\* The notifier goes; the write lock waits for the calls that are under way;
\* then the bitmap is freed, the target is closed and the job is freed.
JobRemove ==
  /\ At(Job, "remove") /\ Goto(Job, "wrlock") /\ before_write' = FALSE
  /\ UNCHANGED <<coVars, lockVars, dataVars, cowVars, scanVars, job, next,
                 busy, paused, cancelled, histVars>>
JobWrLock == /\ At(Job, "wrlock") /\ qemu_co_rwlock_wrlock("flush", Job, "wrunlock")
             /\ UNCHANGED backupVars
JobFlushed ==
  /\ At(Job, "wrunlock") /\ Goto(Job, "close")
  /\ qemu_co_rwlock_unlock("flush", Job)
  /\ copied' = {}
  /\ UNCHANGED <<src, target, allocated, buf, cowVars, jobVars, histVars>>

\* bdrv_drain_all, in bdrv_close of the target: a nested loop, in which I/O is
\* completed and nothing else happens.  It cannot restart those who were woken up
\* by the job, or by a coroutine whose loop has led to the job: their requests
\* are still in tracked_requests at its end, and the assertion there fails.  (No
\* I/O is under way then: whoever would do it waits for the same mutex.)
Parked == \E d \in {Job} \cup {restarting[i] : i \in DOMAIN restarting} :
            wakeup[d] # <<>>
bdrv_drain_all ==
  /\ At(Job, "close") \/ At(Job, "flushed")
  /\ IF Parked
     THEN Goto(Job, "abort") /\ UNCHANGED coVars
     ELSE /\ Goto(Job, IF pc[Job] = "close" THEN "drained" ELSE "closed")
          /\ qemu_coroutine_yield(Job, "drain")
  /\ UNCHANGED <<lockVars, backupVars>>

\* Between the two calls of it, bdrv_flush of the target.
JobFlush ==
  /\ At(Job, "drained") /\ Goto(Job, "flushed")
  /\ qemu_coroutine_yield(Job, "io") \/ UNCHANGED coVars
  /\ UNCHANGED <<lockVars, backupVars>>

\* The layers below the target are closed in the same way; block_job_completed.
JobCompleted ==
  /\ At(Job, "closed") /\ Goto(Job, "complete")
  /\ job' = "done"
  /\ UNCHANGED <<coVars, lockVars, dataVars, cowVars, scanVars, before_write,
                 next, busy, paused, cancelled, histVars>>

backup_run ==
  \/ JobFor \/ JobSlept \/ JobAllocLock \/ JobAlloc \/ JobAllocated
  \/ JobCowed \/ JobRemove \/ JobWrLock \/ JobFlushed \/ bdrv_drain_all
  \/ JobFlush \/ JobCompleted

----------------------------------------------------------------------------
(* The main loop: the timer of co_sleep_ns, the end of the nested loop, and *)
(* the commands.                                                            *)

Enters(c, reasons) ==
  /\ qemu_coroutine_enter(c)
  /\ spurious' = (spurious \/ waits[c] \notin reasons)
  /\ UNCHANGED <<restarting, wakeup, entries>>

co_sleep_cb ==
  /\ MainIdle /\ waits[Job] = "timer"
  /\ Enters(Job, {"timer"})
  /\ UNCHANGED <<pc, lockVars, dataVars, cowVars, jobVars, early, asof, errors,
                 commands>>

\* The nested loop has no I/O left to wait for, and finds no request; with one,
\* it could not go on.
tracked_requests == {c \in Guests : pc[c] \in CowPlaces \cup GuestPlaces}
CanReturn == waits[Job] = "drain" /\ tracked_requests = {}
DrainReturns ==
  /\ MainIdle /\ CanReturn
  /\ Enters(Job, {"drain"})
  /\ UNCHANGED <<pc, lockVars, dataVars, cowVars, jobVars, early, asof, errors,
                 commands>>

Command == /\ MainIdle /\ job = "active"
           /\ commands < MaxCommands /\ commands' = commands + 1
           /\ UNCHANGED <<pc, lockVars, dataVars, cowVars, scanVars, job,
                          before_write, next, busy, early, asof, errors>>
block_job_pause ==
  /\ Command
  /\ paused' = TRUE
  /\ UNCHANGED <<coVars, cancelled, spurious>>
\* block_job_resume enters the coroutine at once if it is not busy, be it in
\* co_sleep_ns or yielded for the pause.
ResumeJob ==
  /\ paused' = FALSE
  /\ IF busy THEN UNCHANGED <<coVars, spurious>>
     ELSE Enters(Job, {"timer", "resume"})
block_job_resume == Command /\ ResumeJob /\ UNCHANGED cancelled
\* Seeded fault: the cancel only sets the flag.
block_job_cancel_no_resume ==
  Command /\ cancelled' = TRUE /\ UNCHANGED <<coVars, paused, spurious>>

block_job_cancel == Command /\ ResumeJob /\ cancelled' = TRUE

\* What a coroutine of the device does next; what the main loop may do.
BackupStep(c) ==
  \/ backup_do_cow(c)
  \/ WriteLock(c) \/ Write(c) \/ WriteDone(c)
  \/ (c = Job /\ backup_run)
JobMain ==
  \/ backup_start \/ co_sleep_cb
  \/ block_job_pause \/ block_job_resume \/ block_job_cancel

----------------------------------------------------------------------------
(* Properties.                                                              *)

\* The backup is a copy as of its start: a cluster that counts as copied has
\* the content of then in the target; until it does, no write has reached it
\* on the device; and a full backup that completes without error leaves all of
\* it.  A write that was in flight at the start may be in the copy or not.
\* (In sync mode top the last part is false: the job, which skips what is not
\* allocated, may remove the notifier while a call still has clusters to copy.
\* A write that comes then is not held back, and the call copies its data;
\* block/backup.c:332.)
PointInTime ==
  /\ before_write => \A k \in Clusters :
       (IF k \in copied THEN target[k] ELSE src[k]) \in asof[k]
  /\ job = "done" /\ ret[Job] = "ok" /\ ~cancelled /\ sync_mode = "full" =>
       \A k \in Clusters : target[k] \in asof[k]

\* From the free of the bitmap on no backup_do_cow is under way or waits for the
\* lock of the job, also while new writes come in during the flush of the target.
FlushedBeforeFree ==
  pc[Job] \in ClosePlaces \/ job = "done" =>
    \A c \in Co : pc[c] \notin CowPlaces

\* No two calls copy the same cluster at a time.
Copying == {"loop", "read_lock", "read", "read_io", "write_target",
            "target_io", "out"}
OneCopier ==
  \A c, d \in Co :
    c # d /\ pc[c] \in Copying /\ pc[d] \in Copying => ~Overlaps(c, d)

\* A coroutine is entered only for what it waits for: block_job_resume never
\* enters the job while it waits for I/O or in a queue.
NotSpurious == ~spurious
=============================================================================
