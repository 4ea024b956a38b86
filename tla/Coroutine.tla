----------------------------- MODULE Coroutine -----------------------------
(***************************************************************************)
(* Coroutines and the queues they wait in (qemu-coroutine.c and the CoQueue *)
(* of qemu-coroutine-lock.c).  A coroutine runs until it yields or ends;    *)
(* what it wakes up meanwhile is only linked to its own co_queue_wakeup,    *)
(* and the one who entered it enters those next.                            *)
(*                                                                          *)
(* Coroutines are entered from outside coroutines here: by the main loop,   *)
(* or one nested in a coroutine that waits for it to end, and by the loops  *)
(* of qemu_co_queue_run_restart it is in.  Objects are not reused, so the   *)
(* pool of free ones is left out.                                           *)
(***************************************************************************)
EXTENDS Integers, Sequences, FiniteSets

CONSTANT Co          \* the coroutines

ASSUME CoAssumption ==
  /\ {"leader", "mutex", "flush", "rename"} \cap Co = {}
  /\ IsFiniteSet(Co)

VARIABLES
  running,           \* the coroutine that runs, "leader" outside coroutines
  restarting,        \* the run_restart loops the leader is in, inner first
  wakeup,            \* co->co_queue_wakeup
  entries,           \* queue->entries
  waits              \* what a coroutine that does not run waits for

coVars == <<running, restarting, wakeup, entries, waits>>

\* The queues of the CoMutex and of the two CoRwlocks, and the wait_queue of
\* the request each coroutine makes.
RwLocks == {"flush", "rename"}
Queues == {"mutex"} \cup RwLocks \cup Co
Reasons == {"none", "start", "queue", "io", "timer", "resume", "drain", "dead"}

CoTypeOK ==
  /\ running \in Co \cup {"leader"}
  /\ restarting \in Seq(Co)
  /\ wakeup \in [Co -> Seq(Co)]
  /\ entries \in [Queues -> Seq(Co)]
  /\ waits \in [Co -> Reasons]

CoInit ==
  /\ running = "leader" /\ restarting = <<>>
  /\ wakeup = [c \in Co |-> <<>>]
  /\ entries = [q \in Queues |-> <<>>]
  /\ waits = [c \in Co |-> "start"]

\* The main loop is between two of its callbacks.
MainIdle == running = "leader" /\ restarting = <<>>

\* The coroutine object the next request of a set gets: any unused one will do.
qemu_coroutine_create(S) == CHOOSE c \in S : waits[c] = "start"

qemu_coroutine_enter(c) ==
  /\ running' = c
  /\ waits' = [waits EXCEPT ![c] = "none"]

\* coroutine_swap: the switch in the caller returns, and the loops over the
\* wake-ups go on, that of the coroutine which just ran first.  A loop that has
\* none left returns to the one that had entered its coroutine.
SwitchBack(c, why) ==
  LET loops == <<c>> \o restarting
  IN /\ running' = "leader"
     /\ waits' = [waits EXCEPT ![c] = why]
     /\ \E n \in 0 .. Len(loops) :
          /\ \A i \in 1 .. n : wakeup[loops[i]] = <<>>
          /\ n < Len(loops) => wakeup[loops[n + 1]] # <<>>
          /\ restarting' = SubSeq(loops, n + 1, Len(loops))

qemu_coroutine_yield(c, why) ==
  SwitchBack(c, why) /\ UNCHANGED <<wakeup, entries>>

\* Seeded fault: the loop enters one coroutine and forgets the others.
run_restart_once ==
  /\ running = "leader" /\ restarting # <<>>
  /\ LET c == Head(restarting)
     IN /\ qemu_coroutine_enter(Head(wakeup[c]))
        /\ wakeup' = [wakeup EXCEPT ![c] = <<>>]
  /\ UNCHANGED <<restarting, entries>>

qemu_co_queue_run_restart ==
  /\ running = "leader" /\ restarting # <<>>
  /\ LET c == Head(restarting)
     IN /\ qemu_coroutine_enter(Head(wakeup[c]))
        /\ wakeup' = [wakeup EXCEPT ![c] = Tail(@)]
  /\ UNCHANGED <<restarting, entries>>

----------------------------------------------------------------------------
(* CoQueue.                                                                 *)

qemu_co_queue_wait(q, c) ==
  /\ entries' = [entries EXCEPT ![q] = Append(@, c)]
  /\ SwitchBack(c, "queue")
  /\ UNCHANGED wakeup

qemu_co_queue_next(q, c) ==
  /\ IF entries[q] = <<>>
     THEN UNCHANGED <<entries, wakeup>>
     ELSE /\ entries' = [entries EXCEPT ![q] = Tail(@)]
          /\ wakeup' = [wakeup EXCEPT ![c] = Append(@, Head(entries[q]))]
  /\ UNCHANGED <<running, restarting, waits>>

qemu_co_queue_restart_all(q, c) ==
  /\ entries' = [entries EXCEPT ![q] = <<>>]
  /\ wakeup' = [wakeup EXCEPT ![c] = @ \o entries[q]]
  /\ UNCHANGED <<running, restarting, waits>>
=============================================================================
