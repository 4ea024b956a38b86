------------------------------- MODULE CoLock -------------------------------
(***************************************************************************)
(* The locks of qemu-coroutine-lock.c: a CoMutex, the s->lock of a block    *)
(* driver, and two CoRwlocks, the flush_rwlock of a backup job and the      *)
(* rename_lock of a 9p device.  A coroutine that finds the lock taken waits *)
(* and looks again when it is entered; it may be taken once more by then.   *)
(***************************************************************************)
EXTENDS Coroutine

VARIABLES
  pc,                \* where each coroutine is
  locked,            \* mutex->locked
  writer, reader     \* of the CoRwlocks

lockVars == <<locked, writer, reader>>

LockTypeOK ==
  /\ locked \in BOOLEAN
  /\ writer \in [RwLocks -> BOOLEAN] /\ reader \in [RwLocks -> Nat]
LockInit ==
  /\ locked = FALSE
  /\ writer = [l \in RwLocks |-> FALSE] /\ reader = [l \in RwLocks |-> 0]

\* Coroutine c runs and is at a place of its code; and it goes on elsewhere.
At(c, place) == running = c /\ pc[c] = place
Goto(c, place) == pc' = [pc EXCEPT ![c] = place]

\* Seeded fault: a coroutine that has waited does not look again.
mutex_lock_once(c, place) ==
  IF locked
  THEN qemu_co_queue_wait("mutex", c) /\ Goto(c, place) /\ UNCHANGED lockVars
  ELSE locked' = TRUE /\ Goto(c, place) /\ UNCHANGED <<writer, reader, coVars>>

qemu_co_mutex_lock(c, place) ==
  IF locked
  THEN qemu_co_queue_wait("mutex", c) /\ UNCHANGED <<pc, lockVars>>
  ELSE locked' = TRUE /\ Goto(c, place) /\ UNCHANGED <<writer, reader, coVars>>

qemu_co_mutex_unlock(c) ==
  /\ locked' = FALSE
  /\ qemu_co_queue_next("mutex", c)
  /\ UNCHANGED <<writer, reader>>

qemu_co_rwlock_rdlock(l, c, place) ==
  IF writer[l]
  THEN qemu_co_queue_wait(l, c) /\ UNCHANGED <<pc, lockVars>>
  ELSE /\ reader' = [reader EXCEPT ![l] = @ + 1]
       /\ Goto(c, place)
       /\ UNCHANGED <<locked, writer, coVars>>

qemu_co_rwlock_wrlock(l, c, place) ==
  IF writer[l] \/ reader[l] > 0
  THEN qemu_co_queue_wait(l, c) /\ UNCHANGED <<pc, lockVars>>
  ELSE /\ writer' = [writer EXCEPT ![l] = TRUE]
       /\ Goto(c, place)
       /\ UNCHANGED <<locked, reader, coVars>>

\* Seeded fault: the counter is looked at before it is decremented.
rwlock_unlock_early(l, c) ==
  /\ IF writer[l]
     THEN writer' = [writer EXCEPT ![l] = FALSE] /\ UNCHANGED reader
          /\ qemu_co_queue_restart_all(l, c)
     ELSE reader' = [reader EXCEPT ![l] = @ - 1] /\ UNCHANGED <<writer, coVars>>
  /\ UNCHANGED locked

qemu_co_rwlock_unlock(l, c) ==
  /\ IF writer[l]
     THEN writer' = [writer EXCEPT ![l] = FALSE] /\ UNCHANGED reader
          /\ qemu_co_queue_restart_all(l, c)
     ELSE reader' = [reader EXCEPT ![l] = @ - 1] /\ UNCHANGED writer
          /\ IF reader[l] = 1 THEN qemu_co_queue_next(l, c)
             ELSE UNCHANGED coVars
  /\ UNCHANGED locked
=============================================================================
