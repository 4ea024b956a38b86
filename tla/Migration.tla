----------------------------- MODULE Migration -----------------------------
(***************************************************************************)
(* Live migration: the migration thread (migration_thread in migration.c),  *)
(* the handlers of the main loop that start, cancel and clean up after it,  *)
(* the vCPU that goes on writing, and the destination.  Composed with the   *)
(* RAM part of module RamSave.                                              *)
(*                                                                          *)
(* The main loop and the vCPU run under the iothread lock, so one of their  *)
(* handlers is one step; bql names who keeps the lock from one step to the  *)
(* next.  The thread takes it for the sections the code locks and races     *)
(* with the rest: it changes s->state by compare-and-swap without the lock, *)
(* and reads pages the guest is writing.                                    *)
(***************************************************************************)
EXTENDS RamSave

CONSTANTS
  MaxSizes,    \* the values of max_size, in pages
  MaxOps       \* bound on accepted migrate commands and guest stores together

ASSUME MigrationAssumption ==
  MaxSizes \subseteq Nat /\ MaxOps \in Nat

VARIABLES
  state,           \* s->state
  pc,              \* where the migration thread is, "none" if there is none
  bql,             \* "free", "thread", or "cancel" between its two accesses
  cancel_read,     \* the state migrate_fd_cancel read
  connecting,      \* a non-blocking connect is under way
  file,            \* s->file # NULL
  cleanup_bh,      \* "null", "idle" or "scheduled"
  max_size,        \* locals of the thread
  old_vm_running,
  limited,         \* the rate limit: "no", "yes", "slept" through the delay
  runstate,
  eof,             \* QEMU_VM_EOF has reached the destination
  dest_running,    \* the destination has called vm_start
  broken,          \* how the source process ended, if it did
  ops              \* migrate commands and stores so far

controlVars == <<state, pc, bql, cancel_read, connecting, file, cleanup_bh,
                 max_size, old_vm_running, limited, runstate, eof,
                 dest_running, broken, ops>>
vars == <<ramVars, controlVars>>

Idle == {"none", "error", "cancelled", "completed"}
ThreadPc == {"none", "setup", "begin", "loop", "pending", "iterate", "put",
             "more", "stop", "fail", "sync", "final", "final_put", "eof", "done",
             "check", "end"}

TypeOK ==
  /\ RamTypeOK
  /\ state \in Idle \cup {"setup", "active"}
  /\ pc \in ThreadPc
  /\ bql \in {"free", "thread", "cancel"}
  /\ cancel_read \in Idle \cup {"setup", "active"}
  /\ connecting \in BOOLEAN /\ file \in BOOLEAN
  /\ cleanup_bh \in {"null", "idle", "scheduled"}
  /\ max_size \in MaxSizes \cup {0}
  /\ old_vm_running \in BOOLEAN /\ limited \in {"no", "yes", "slept"}
  /\ runstate \in {"running", "paused", "finish_migrate", "postmigrate"}
  /\ eof \in BOOLEAN /\ dest_running \in BOOLEAN
  /\ broken \in {"no", "abort", "reused"}
  /\ ops \in 0..MaxOps

Init ==
  /\ src \in [Page -> Content] /\ dest = [p \in Page |-> Zero]
  /\ dirty_log = Page
  /\ migration_bitmap = {} /\ migration_dirty_pages = 0 /\ logging = FALSE
  /\ last_seen_block = 0 /\ last_offset = 0 /\ ram_bulk_stage = FALSE
  /\ cur = NoPage /\ iov = NoIov /\ iovcnt = 0 /\ file_error = FALSE
  /\ skipped = {}
  /\ state = "none" /\ pc = "none" /\ bql = "free" /\ cancel_read = "none"
  /\ connecting = FALSE /\ file = FALSE /\ cleanup_bh = "null"
  /\ max_size = 0 /\ old_vm_running = FALSE /\ limited = "no"
  /\ runstate \in {"running", "paused"}
  /\ eof = FALSE /\ dest_running = FALSE /\ broken = "no"
  /\ ops = 0

\* migrate_set_state: the compare-and-swap.
migrate_set_state(old, new) == state' = IF state = old THEN new ELSE state

\* runstate_set: abort() when the transition is not in the table of vl.c.
runstate_valid ==
  {<<"running", "paused">>, <<"running", "finish_migrate">>,
   <<"paused", "running">>, <<"paused", "finish_migrate">>,
   <<"postmigrate", "running">>, <<"postmigrate", "finish_migrate">>,
   <<"finish_migrate", "running">>, <<"finish_migrate", "postmigrate">>}
runstate_set(new) ==
  IF <<runstate, new>> \in runstate_valid
  THEN runstate' = new /\ UNCHANGED broken
  ELSE broken' = "abort" /\ UNCHANGED runstate

vm_start == IF runstate = "running" THEN UNCHANGED <<runstate, broken>>
            ELSE runstate_set("running")

----------------------------------------------------------------------------
(* The main loop.                                                           *)

Main == broken = "no" /\ bql = "free"

\* Something of an earlier migration still uses the MigrationState.
InUse == connecting \/ pc # "none" \/ cleanup_bh # "null" \/ file

\* qmp_migrate and migrate_init.  Each migration goes to a destination of its
\* own, started afresh.  The address may be refused at once (local_err), or
\* not be one at all; the last case returns with the state left at setup.
\* migrate_init clears a MigrationState that is still in use just the same:
\* the thread or the bottom half then follows a null pointer, and the process
\* is not followed any further.
qmp_migrate ==
  /\ Main /\ state \notin {"active", "setup"} /\ ops < MaxOps
  /\ ops' = ops + 1
  /\ dest' = [p \in Page |-> Zero] /\ skipped' = {}
  /\ eof' = FALSE /\ dest_running' = FALSE
  /\ broken' = IF InUse THEN "reused" ELSE "no"
  /\ file' = FALSE /\ cleanup_bh' = "null"
  /\ \/ state' = "setup" /\ connecting' = TRUE
     \/ state' = "setup" /\ UNCHANGED connecting
     \/ state' = "error" /\ UNCHANGED connecting
  /\ UNCHANGED <<src, cur, iov, iovcnt, file_error>>
  /\ UNCHANGED bitmapVars /\ UNCHANGED cursorVars
  /\ UNCHANGED <<pc, bql, cancel_read, max_size, old_vm_running, limited,
                 runstate>>

\* tcp_wait_for_connect, with migrate_fd_connect or migrate_fd_error.
tcp_wait_for_connect ==
  /\ Main /\ connecting
  /\ connecting' = FALSE
  /\ \/ /\ state' = "setup" /\ file' = TRUE /\ cleanup_bh' = "idle"
        /\ pc' = "setup" /\ max_size' = 0 /\ old_vm_running' = FALSE
        /\ limited' = "no"
        /\ iov' = NoIov /\ iovcnt' = 0 /\ file_error' = FALSE
     \/ /\ state' = "error" /\ file' = FALSE
        /\ UNCHANGED <<cleanup_bh, pc, max_size, old_vm_running, limited>>
        /\ UNCHANGED <<iov, iovcnt, file_error>>
  /\ UNCHANGED <<src, dest, cur, skipped>>
  /\ UNCHANGED bitmapVars /\ UNCHANGED cursorVars
  /\ UNCHANGED <<bql, cancel_read, runstate, eof, dest_running, broken,
                 ops>>

\* migrate_fd_cancel reads s->state, then swaps: two steps, since the thread
\* may change the state in between.  It is the main loop that waits.
CancelRead ==
  /\ Main
  /\ bql' = "cancel" /\ cancel_read' = state
  /\ UNCHANGED ramVars
  /\ UNCHANGED <<state, pc, connecting, file, cleanup_bh, max_size,
                 old_vm_running, limited, runstate, eof, dest_running, broken,
                 ops>>
CancelSwap ==
  /\ broken = "no" /\ bql = "cancel"
  /\ migrate_set_state(cancel_read, "cancelled")
  /\ bql' = "free" /\ cancel_read' = "none"
  /\ UNCHANGED ramVars
  /\ UNCHANGED <<pc, connecting, file, cleanup_bh, max_size, old_vm_running,
                 limited, runstate, eof, dest_running, broken, ops>>

\* The bottom half migrate_fd_cleanup: join, qemu_fclose with its flush, and
\* qemu_savevm_state_cancel unless the migration completed.
migrate_fd_cleanup ==
  /\ Main /\ cleanup_bh = "scheduled" /\ pc = "none"
  /\ cleanup_bh' = "null"
  /\ file' = FALSE
  /\ IF file THEN qemu_fflush ELSE UNCHANGED fileVars
  /\ IF state # "completed" THEN migration_end ELSE UNCHANGED bitmapVars
  /\ UNCHANGED <<src, cur, skipped>> /\ UNCHANGED cursorVars
  /\ UNCHANGED <<state, pc, bql, cancel_read, connecting, max_size,
                 old_vm_running, limited, runstate, eof, dest_running, broken,
                 ops>>

\* A running vCPU stores to a page.
Write ==
  /\ Main /\ runstate = "running" /\ ops < MaxOps
  /\ ops' = ops + 1
  /\ \E p \in Page, c \in Content :
       src[p] # c /\ notdirty_mem_write(p, c)
  /\ UNCHANGED <<state, pc, bql, cancel_read, connecting, file, cleanup_bh,
                 max_size, old_vm_running, limited, runstate, eof,
                 dest_running, broken>>

\* The destination has read the stream to its end and starts the guest.
process_incoming_migration_co ==
  /\ eof /\ ~dest_running
  /\ dest_running' = TRUE
  /\ UNCHANGED ramVars
  /\ UNCHANGED <<state, pc, bql, cancel_read, connecting, file, cleanup_bh,
                 max_size, old_vm_running, limited, runstate, eof, broken,
                 ops>>

----------------------------------------------------------------------------
(* The migration thread.                                                    *)

\* A step of the thread at a place of its code, and where it goes.
Goto(place) == pc' = place
At(place) ==
  /\ broken = "no" /\ pc = place
  /\ UNCHANGED <<cancel_read, connecting, file, dest_running, ops>>
\* A step that touches nothing else but s->state.
Rest == UNCHANGED <<bql, cleanup_bh, max_size, old_vm_running, runstate, eof,
                    broken>>
Keep == Rest /\ UNCHANGED limited

\* qemu_savevm_state_begin.
Setup == /\ At("setup") /\ Goto("begin") /\ bql = "free" /\ ram_save_setup
         /\ Keep /\ UNCHANGED state
Begin == /\ At("begin") /\ Goto("loop") /\ migrate_set_state("setup", "active")
         /\ Keep /\ UNCHANGED ramVars

\* The while condition and the first test of the rate limit.
LoopEnds == /\ At("loop") /\ Goto("end") /\ state # "active"
            /\ Keep /\ UNCHANGED <<state, ramVars>>
LoopLimited == /\ At("loop") /\ Goto("check") /\ state = "active"
               /\ limited # "no" \/ file_error
               /\ Keep /\ UNCHANGED <<state, ramVars>>
LoopGoes == /\ At("loop") /\ Goto("pending") /\ state = "active"
            /\ limited = "no" /\ ~file_error
            /\ Keep /\ UNCHANGED <<state, ramVars>>

\* qemu_savevm_state_pending, and the comparison that chooses between another
\* iteration and the end.
GoesOn(remaining) == remaining # 0 /\ remaining >= max_size
Pending ==
  /\ At("pending")
  /\ \/ /\ migration_dirty_pages < max_size
        /\ bql = "free" /\ migration_bitmap_sync /\ UNCHANGED logging
     \/ /\ migration_dirty_pages >= max_size
        /\ UNCHANGED bitmapVars
  /\ Goto(IF GoesOn(migration_dirty_pages') THEN "iterate" ELSE "stop")
  /\ UNCHANGED <<src, cur, skipped>>
  /\ UNCHANGED cursorVars /\ UNCHANGED fileVars /\ UNCHANGED state /\ Keep

\* ram_save_iterate: page by page, until there is none, the rate limit is
\* reached or, after a page, the time is up.
Iterate ==
  /\ At("iterate") \/ At("more")
  /\ limited = "no" /\ ~file_error
  /\ ram_save_block
  /\ Goto(IF cur' = NoPage THEN "check" ELSE "put")
  /\ Keep /\ UNCHANGED state
IteratePut == /\ At("put") /\ Goto("more") /\ PutCurrent
              /\ limited' \in {"no", "yes"}
              /\ Rest /\ UNCHANGED state
IterateEnds == /\ At("more") /\ Goto("check")
               /\ Keep /\ UNCHANGED <<state, ramVars>>

\* Under the lock: vm_stop_force_state, whose flush of the disks may fail.
Stop ==
  /\ At("stop") /\ bql = "free"
  /\ old_vm_running' = (runstate = "running")
  /\ runstate_set("finish_migrate")
  /\ \/ Goto("sync") /\ bql' = "thread"
     \/ Goto("fail") /\ UNCHANGED bql
  /\ UNCHANGED <<ramVars, state, cleanup_bh, max_size, limited, eof>>
\* Seeded fault: a failed stop leaves the state active.
Fail_stays_active == /\ At("fail") /\ Goto("end") /\ UNCHANGED state
                     /\ Keep /\ UNCHANGED ramVars

Fail == /\ At("fail") /\ Goto("end") /\ migrate_set_state("active", "error")
        /\ Keep /\ UNCHANGED ramVars

\* Seeded fault: the last stage sends the bitmap as it is.
CompleteSync_skipped == /\ At("sync") /\ Goto("final")
                        /\ Keep /\ UNCHANGED <<state, ramVars>>

\* qemu_savevm_state_complete, still under the lock: ram_save_complete, then
\* the end of the stream and the flush.
CompleteSync ==
  /\ At("sync") /\ Goto("final") /\ migration_bitmap_sync
  /\ Keep /\ UNCHANGED state
  /\ UNCHANGED <<src, cur, skipped, logging>>
  /\ UNCHANGED cursorVars /\ UNCHANGED fileVars
CompletePage ==
  /\ At("final")
  /\ ram_save_block
  /\ Goto(IF cur' = NoPage THEN "eof" ELSE "final_put")
  /\ Keep /\ UNCHANGED state
CompletePut == /\ At("final_put") /\ Goto("final") /\ PutCurrent
               /\ Keep /\ UNCHANGED state
CompleteEnd ==
  /\ At("eof") /\ Goto("done")
  /\ migration_end
  /\ FlushOf(iov, IF file_error THEN 0 ELSE iovcnt + 1)
  /\ eof' = ~file_error'
  /\ bql' = "free"
  /\ UNCHANGED <<src, cur, skipped>> /\ UNCHANGED cursorVars
  /\ UNCHANGED <<state, cleanup_bh, max_size, old_vm_running, limited,
                 runstate, broken>>
Done ==
  /\ At("done")
  /\ \/ ~file_error /\ Goto("end")
        /\ migrate_set_state("active", "completed")
     \/ file_error /\ Goto("check") /\ UNCHANGED state
  /\ Keep /\ UNCHANGED ramVars

\* Seeded fault: a file error is retried.
CheckFails_retries == /\ At("check") /\ Goto("loop") /\ file_error
                      /\ Keep /\ UNCHANGED <<state, ramVars>>

\* The end of the loop body: an error ends the migration; every BUFFER_DELAY
\* qemu_ftell flushes the file, max_size follows the bandwidth and the rate
\* limit is reset.  A limited thread sleeps until then.
CheckFails == /\ At("check") /\ Goto("end") /\ file_error
              /\ migrate_set_state("active", "error")
              /\ Keep /\ UNCHANGED ramVars
CheckAgain == /\ At("check") /\ Goto("loop") /\ ~file_error
              /\ limited # "slept"
              /\ limited' = IF limited = "no" THEN "no" ELSE "slept"
              /\ Rest /\ UNCHANGED <<state, ramVars>>
CheckDelay == /\ At("check") /\ Goto("loop") /\ ~file_error
              /\ qemu_fflush
              /\ max_size' \in MaxSizes /\ limited' = "no"
              /\ UNCHANGED <<src, cur, skipped>>
              /\ UNCHANGED bitmapVars /\ UNCHANGED cursorVars
              /\ UNCHANGED <<state, bql, cleanup_bh, old_vm_running,
                             runstate, eof, broken>>

\* Seeded fault: the two tests are swapped.
End_restarts ==
  /\ At("end") /\ Goto("none") /\ bql = "free"
  /\ IF old_vm_running THEN vm_start
     ELSE IF state = "completed" THEN runstate_set("postmigrate")
     ELSE UNCHANGED <<runstate, broken>>
  /\ cleanup_bh' = "scheduled"
  /\ UNCHANGED <<ramVars, state, bql, max_size, old_vm_running, limited, eof>>

\* Seeded fault: a failed migration leaves the guest stopped.
End_stays_stopped ==
  /\ At("end") /\ Goto("none") /\ bql = "free"
  /\ IF state = "completed" THEN runstate_set("postmigrate")
     ELSE UNCHANGED <<runstate, broken>>
  /\ cleanup_bh' = "scheduled"
  /\ UNCHANGED <<ramVars, state, bql, max_size, old_vm_running, limited, eof>>

\* After the loop, under the lock.
End ==
  /\ At("end") /\ Goto("none") /\ bql = "free"
  /\ IF state = "completed" THEN runstate_set("postmigrate")
     ELSE IF old_vm_running THEN vm_start
     ELSE UNCHANGED <<runstate, broken>>
  /\ cleanup_bh' = "scheduled"
  /\ UNCHANGED <<ramVars, state, bql, max_size, old_vm_running, limited, eof>>

Complete == CompleteSync \/ CompletePage \/ CompletePut \/ CompleteEnd
migration_thread ==
  \/ Setup \/ Begin \/ LoopEnds \/ LoopLimited \/ LoopGoes \/ Pending
  \/ Iterate \/ IterateEnds \/ IteratePut \/ Stop \/ Fail \/ Complete
  \/ Done \/ CheckFails \/ CheckAgain \/ CheckDelay \/ End

Next ==
  \/ qmp_migrate \/ tcp_wait_for_connect \/ CancelRead \/ CancelSwap
  \/ migrate_fd_cleanup \/ Write \/ process_incoming_migration_co
  \/ migration_thread

Spec == Init /\ [][Next]_vars

\* Whether the thread can take its next step: it may have to wait for the
\* iothread lock.
ThreadReady ==
  /\ broken = "no" /\ pc # "none"
  /\ \/ pc \in {"setup", "stop", "end"}
     \/ pc = "pending" /\ migration_dirty_pages < max_size
     => bql = "free"

\* What a connect that succeeds or fails and the bottom half do to the
\* variables only they and qmp_migrate change.
MainMoves ==
  /\ Main
  /\ \/ connecting /\ connecting' = FALSE /\ cleanup_bh' \in {"idle", cleanup_bh}
     \/ cleanup_bh = "scheduled" /\ cleanup_bh' = "null" /\ UNCHANGED connecting

\* The thread and the main loop are scheduled, and a connect succeeds or times
\* out.  The lock is handed on: one who waits while others take it and leave
\* it does not wait for ever.  (Every step of the thread moves pc, and nothing
\* else moves it once there is a thread.)
Fairness ==
  /\ SF_pc(ThreadReady /\ pc' \in ThreadPc \ {pc})
  /\ SF_<<connecting, cleanup_bh>>(MainMoves)
  /\ WF_bql(bql = "cancel" /\ broken = "no" /\ bql' = "free")
FairSpec == Spec /\ Fairness

----------------------------------------------------------------------------
(* Properties.                                                              *)

Sending == pc \notin {"none", "setup"} /\ ~file_error /\ broken = "no"

\* No page is forgotten: while a migration runs, a page that is in neither
\* the dirty log nor the bitmap, is not being put and was not skipped, will
\* have the source's content at the destination once the file is flushed.
\* The bit is reset before the page is read and the log is read under the
\* lock, so a write at any moment is either sent or noted.
NothingForgotten ==
  Sending => \A p \in Page \ (dirty_log \cup migration_bitmap \cup skipped
                              \cup {cur}) : Delivered(iov)[p] = src[p]

\* At the end of the stream the destination has the memory of the stopped
\* guest, but for the pages ram_save_block skipped.
DestMatches ==
  eof /\ runstate # "running" =>
    \A p \in Page \ skipped : dest[p] = src[p]

\* migration_dirty_pages counts the bits of the bitmap, although the bulk
\* stage decrements it without testing the bit.
DirtyPagesCounted ==
  logging => migration_dirty_pages = Cardinality(migration_bitmap)

\* The guest runs on one side only, unless the migration was cancelled after
\* the thread had last looked at the state.
OneSideRuns == eof /\ runstate = "running" => state = "cancelled"

\* When the thread is gone, a completed migration has left the guest in
\* postmigrate, and a failed or cancelled one has restarted the guest it
\* stopped.  A guest that was not running stays in finish_migrate, and only
\* for such a one does runstate_set abort when it is migrated again.
GuestFate ==
  /\ pc = "none" /\ broken = "no" =>
       /\ state = "completed" => runstate = "postmigrate"
       /\ runstate = "finish_migrate" => ~old_vm_running
  /\ broken = "abort" => ~old_vm_running

\* The assertion of migrate_fd_cleanup, and that the state, file and bottom
\* half it uses are those of the thread that scheduled it, unless the command
\* migrate reused them (broken).  When it has run, the bitmap is freed and the
\* dirty log stopped.
CleanupSound ==
  broken = "no" =>
    /\ pc = "none" /\ cleanup_bh = "null" => ~logging
    /\ pc # "none" => file /\ cleanup_bh = "idle"
    /\ cleanup_bh = "scheduled" => pc = "none" /\ file /\ state # "active"

\* A migration ends, completed or not, and is cleaned up: the guest stops
\* writing (MaxOps), a cancel is seen, an error ends the loop, and the lock is
\* never awaited in vain.
MigrationEnds == InUse ~> ~InUse \/ broken # "no"

----------------------------------------------------------------------------
(* What the comment of ram_save_block says.                                 *)

\* "0 means no dirty pages": when it has returned 0 to ram_save_complete,
\* every page has been written.
ZeroMeansNoDirtyPages ==
  pc = "eof" /\ ~file_error => \A p \in Page : Delivered(iov)[p] = src[p]
=============================================================================
