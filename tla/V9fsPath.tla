------------------------------ MODULE V9fsPath ------------------------------
(***************************************************************************)
(* The requests of a 9p device, which keep the rename_lock (a CoRwlock)     *)
(* while a worker thread does their system call: shared in the v9fs_co_*    *)
(* functions, exclusive in v9fs_rename and v9fs_renameat.  These look up    *)
(* and release fids with the lock held, and to reopen a fid whose           *)
(* descriptor was reclaimed, or to write the attribute of one that was      *)
(* clunked meanwhile, they call functions that take the lock as a reader.   *)
(***************************************************************************)
EXTENDS CoLock

CONSTANT MaxSections \* bound on the locked sections of all requests

ASSUME PathAssumption == MaxSections \in Nat

VARIABLES
  paths,             \* the coroutines that serve requests (never changes)
  sections           \* locked sections begun so far

pathVars == <<paths, sections>>

\* Where a request goes to get the lock.
LockPlaces == {"path_rdlock", "path_wrlock"}
PathPlaces == LockPlaces \cup {"shared", "shared_work", "alone", "nested",
                               "alone_work"}

\* The device hands a request to a new coroutine.
submit_pdu(c) ==
  /\ MainIdle /\ waits[c] = "start" /\ c \in paths /\ sections < MaxSections
  /\ c = qemu_coroutine_create(paths)
  /\ qemu_coroutine_enter(c)
  /\ \E place \in LockPlaces : Goto(c, place)
  /\ sections' = sections + 1
  /\ UNCHANGED <<paths, lockVars, restarting, wakeup, entries>>

v9fs_path_read_lock(c) ==
  /\ At(c, "path_rdlock") /\ qemu_co_rwlock_rdlock("rename", c, "shared")
  /\ UNCHANGED pathVars
v9fs_path_write_lock(c) ==
  /\ At(c, "path_wrlock") /\ qemu_co_rwlock_wrlock("rename", c, "alone")
  /\ UNCHANGED pathVars

\* The coroutine yields here, runs in a worker thread and yields there; it
\* comes back when the main loop has read the completion.
v9fs_co_run_in_worker(c) ==
  /\ \/ At(c, "shared") /\ Goto(c, "shared_work")
     \/ At(c, "alone") /\ Goto(c, "alone_work")
  /\ qemu_coroutine_yield(c, "io")
  /\ UNCHANGED <<lockVars, pathVars>>

\* Seeded fault: the error path leaves without the unlock.
RenameFails_locked(c) ==
  /\ At(c, "alone") /\ Goto(c, "complete")
  /\ UNCHANGED <<coVars, lockVars, pathVars>>

\* In a rename, a fid is not found or the request was cancelled: no system call.
RenameFails(c) ==
  /\ At(c, "alone") /\ Goto(c, "alone_work")
  /\ UNCHANGED <<coVars, lockVars, pathVars>>

\* In a rename, get_fid meets a fid that was reclaimed, or put_fid drops the last
\* reference to one that was made an attribute's and clunked by another request.
v9fs_reopen_fid(c) ==
  /\ At(c, "alone") /\ Goto(c, "nested")
  /\ UNCHANGED <<coVars, lockVars, pathVars>>
put_fid(c) ==
  /\ At(c, "alone_work") /\ Goto(c, "nested")
  /\ UNCHANGED <<coVars, lockVars, pathVars>>
NestedReadLock(c) ==
  /\ At(c, "nested") /\ qemu_co_rwlock_rdlock("rename", c, "shared")
  /\ UNCHANGED pathVars

\* v9fs_path_unlock; then the request ends or makes another such call.
v9fs_path_unlock(c) ==
  /\ At(c, "shared_work") \/ At(c, "alone_work")
  /\ qemu_co_rwlock_unlock("rename", c) /\ UNCHANGED paths
  /\ \/ Goto(c, "complete") /\ UNCHANGED sections
     \/ /\ sections < MaxSections /\ sections' = sections + 1
        /\ \E place \in LockPlaces : Goto(c, place)

PathStep(c) ==
  \/ v9fs_path_read_lock(c) \/ v9fs_path_write_lock(c)
  \/ v9fs_co_run_in_worker(c) \/ RenameFails(c)
  \/ v9fs_reopen_fid(c) \/ put_fid(c) \/ NestedReadLock(c)
  \/ v9fs_path_unlock(c)
=============================================================================
