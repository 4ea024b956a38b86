------------------------------ MODULE CoSystem ------------------------------
(***************************************************************************)
(* The coroutines of one process: a backup job with the writes it guards,   *)
(* and the requests of a 9p device, entered by one main loop.               *)
(***************************************************************************)
EXTENDS Backup, V9fsPath

CONSTANT Scenes      \* the sets of coroutines that serve the 9p device

ASSUME SceneAssumption == Scenes \subseteq SUBSET Co

vars == <<coVars, pc, lockVars, backupVars, pathVars>>

Places == CowPlaces \cup JobPlaces \cup GuestPlaces \cup PathPlaces
          \cup {"start", "complete", "dead"}
TypeOK ==
  /\ CoTypeOK /\ LockTypeOK /\ BackupTypeOK
  /\ pc \in [Co -> Places] /\ paths \in Scenes /\ sections \in 0..MaxSections

Init ==
  /\ CoInit /\ LockInit /\ BackupInit /\ paths \in Scenes
  /\ Job \in paths => sync_mode = "full"     \* of no account
  /\ pc = [c \in Co |-> "start"] /\ sections = 0

\* The main loop: an I/O request or a worker is done.
io_done(c) ==
  /\ MainIdle /\ waits[c] = "io"
  /\ qemu_coroutine_enter(c)
  /\ UNCHANGED <<restarting, wakeup, entries, pc, lockVars, backupVars, pathVars>>

\* Some coroutine runs, or the wake-ups of one that has run.
Run ==
  \/ \E c \in Co : running = c /\ BackupStep(c) /\ UNCHANGED pathVars
  \/ \E c \in Co : running = c /\ PathStep(c) /\ UNCHANGED backupVars
  \/ \E c \in Co : running = c /\ Complete(c) /\ UNCHANGED pathVars
  \/ (qemu_co_queue_run_restart
      /\ UNCHANGED <<pc, lockVars, backupVars, pathVars>>)
\* The main loop calls somebody back, takes a command or submits a request; a
\* nested one only completes the I/O of the block layer.
Draining == waits[Job] = "drain"
Events ==
  \/ MainIdle /\ ~Draining /\ Job \notin paths /\ JobMain /\ UNCHANGED pathVars
  \/ DrainReturns /\ (\A c \in Co \ paths : waits[c] # "io") /\ UNCHANGED pathVars
  \/ \E c \in Guests \ paths :
       ~Draining /\ bdrv_co_do_writev(c) /\ UNCHANGED pathVars
  \/ \E c \in Co : ~Draining /\ submit_pdu(c) /\ UNCHANGED backupVars
  \/ \E c \in Co : (Draining => c \notin paths) /\ io_done(c)

Next == Run \/ Events
Spec == Init /\ [][Next]_vars

\* The process is at an end, or never leaves a loop.
Halted == pc[Job] \in {"abort", "past_end"}
\* What runs goes on running, I/O is completed, the timer fires and a nested loop
\* with nothing left to do returns: as long as there is something of the kind to
\* do, control changes hands again.  Nobody need submit a request or give a
\* command.
Ready ==
  /\ ~Halted
  /\ ~MainIdle \/ CanReturn \/ \E c \in Co : waits[c] \in {"io", "timer"}
FairSpec ==
  Spec /\ WF_running(Ready /\ running' \in (Co \cup {"leader"}) \ {running})

----------------------------------------------------------------------------
(* Properties.                                                              *)

InSeq(s) == {s[i] : i \in DOMAIN s}
Links == {entries[q] : q \in Queues} \cup {wakeup[c] : c \in Co}

\* co_queue_next is one link: a coroutine that waits in a queue, or has been
\* marked for restart, is in exactly one list, once, and no other is.
LinkedOnce ==
  /\ TypeOK
  /\ \A c \in Co :
       waits[c] = "queue" <=>
         \/ \E q \in Queues : c \in InSeq(entries[q])
         \/ \E d \in Co : c \in InSeq(wakeup[d])
  /\ \A l \in Links : \A i, j \in DOMAIN l : l[i] = l[j] => i = j
  /\ \A c \in Co :
       Cardinality({q \in Queues : c \in InSeq(entries[q])})
         + Cardinality({d \in Co : c \in InSeq(wakeup[d])}) <= 1

\* No wake-up is lost: when somebody waits, the lock is held or the request
\* is in flight, or one of those who wait for it is about to look again.
Awake(places) ==
  \E c \in Co : /\ pc[c] \in places
                /\ \/ running = c
                   \/ \E d \in {running} \cup InSeq(restarting) :
                        d \in Co /\ c \in InSeq(wakeup[d])
WakeupsKept ==
  /\ entries["mutex"] # <<>> => 
       locked \/ Awake({"read_lock", "write_lock", "is_allocated"})
  /\ entries["flush"] # <<>> =>
       writer["flush"] \/ reader["flush"] > 0 \/ Awake({"rdlock", "wrlock"})
  /\ entries["rename"] # <<>> =>
       writer["rename"] \/ reader["rename"] > 0 \/ Awake(LockPlaces)
  /\ \A c \in Co : entries[c] # <<>> => c \in InSeq(inflight_reqs)

\* The locks that the place of a coroutine means it holds.
Holding(h) ==
  CASE h = <<"mutex", "alone">> -> {"read", "read_io", "write", "write_io",
                                 "alloc", "alloc_io"}
    [] h = <<"flush", "shared">> -> CowPlaces \ {"rdlock"}
    [] h = <<"flush", "alone">> -> {"wrunlock"}
    [] h = <<"rename", "shared">> -> {"shared", "shared_work"}
    [] h = <<"rename", "alone">> -> {"alone", "nested", "alone_work"}
Holds == {<<"mutex", "alone">>} \cup (RwLocks \X {"shared", "alone"})
HeldAt == [place \in Places |-> {h \in Holds : place \in Holding(h)}]
held == [c \in Co |-> HeldAt[pc[c]]]
Locks == INSTANCE CoLockSpec

\* The locks implement their specification: a coroutine gets past
\* qemu_co_mutex_lock, rdlock or wrlock only when nobody holds the lock in a
\* way that excludes it.
LocksExclude == Locks!Spec

\* Every request that is submitted ends, the guest's writes during a backup
\* and those to the 9p device, with three exceptions.  A rename that reopens or
\* releases a fid waits as a reader for the write lock it holds itself, and all
\* requests of the device wait behind it (hw/9pfs/virtio-9p.c:232, 292-297).  The
\* job never leaves its loop over a last cluster that is only partly inside the
\* device (block/backup.c:291).  And closing the target it finds a write that it
\* has woken up itself (block.c:1463).  No other order of the steps blocks one.
SelfWait == \E c \in Co : pc[c] = "nested" /\ waits[c] = "queue"
RequestsEnd ==
  \A c \in Co \ {Job} :
    waits[c] \notin {"start", "dead"} ~> waits[c] = "dead" \/ SelfWait \/ Halted

\* A backup ends once it is cancelled, paused or not.  One that nobody cancels
\* goes on until it is done or paused or, in sync mode none, for ever.  The two
\* ways of the job to halt the process are the exceptions.
JobEnds ==
  job = "active" /\ (cancelled \/ sync_mode # "none")
    ~> job = "done" \/ (paused /\ ~cancelled) \/ Halted
=============================================================================
