---------------------------- MODULE CoInvariants ----------------------------
(***************************************************************************)
(* The inductive invariants of CoSystem: what is always true of the locks,  *)
(* of the job and the calls, of the copy, of the queues, and of the values. *)
(* CoStepProofs, QueueProofs and BackupProofs show that they are.           *)
(***************************************************************************)
EXTENDS CoSystem

----------------------------------------------------------------------------
(* Steps of a coroutine.                                                    *)

\* Coroutine c goes to place p; it now waits for r.
Moves(c, p) == pc' = [pc EXCEPT ![c] = p]
Waits(c, r) == waits' = [waits EXCEPT ![c] = r]
\* It yields; or it goes on running.
Halts(c, r) == running' = "leader" /\ Waits(c, r)
GoesOn == UNCHANGED <<running, waits>>

----------------------------------------------------------------------------
(* The locks.                                                               *)

Mutex == <<"mutex", "alone">>
Shared(l) == <<l, "shared">>
Alone(l) == <<l, "alone">>
Holders(h) == {c \in Co : h \in held[c]}

\* Where the coroutines are; one that waits to be created is at its start.
Placed ==
  /\ pc \in [Co -> Places] /\ waits \in [Co -> Reasons]
  /\ \A c \in Co : waits[c] = "start" => pc[c] = "start"

\* The fields of the locks say who holds them.
LockFields ==
  /\ LockTypeOK
  /\ locked <=> Holders(Mutex) # {}
  /\ \A l \in RwLocks : writer[l] <=> Holders(Alone(l)) # {}
  /\ \A l \in RwLocks : reader[l] = Cardinality(Holders(Shared(l)))
\* Locks that exclude each other are not held by two, nor in two ways by one.
NoConflict ==
  \A c, d \in Co : \A h \in held[c], i \in held[d] :
    Locks!Conflict(h, i) => c = d /\ h = i

LockInv == Placed /\ LockFields /\ NoConflict

----------------------------------------------------------------------------
(* Who runs, and what the job's state says of the others.                   *)

\* Nothing happens between the moment a coroutine gets to these places and
\* the moment it leaves them; one that has not begun, or has ended, is nowhere
\* else.
Prompt ==
  /\ \A c \in Co : pc[c] \in {"rdlock", "wrunlock"} => running = c
  /\ \A c \in Co : waits[c] \in {"start", "dead"} => pc[c] = waits[c]
  /\ \A c \in Co : pc[c] = "wrunlock" => c = Job

\* While a call is under way, and as long as the notifier is there, so is the
\* job; once the job has had the write lock, there is no call.
JobState ==
  /\ before_write => job = "active" /\ pc[Job] \notin {"wrlock", "wrunlock"} \cup ClosePlaces
  /\ pc[Job] \in JobPlaces => job = "active"
  /\ \A c \in Co : pc[c] \in CowPlaces => job = "active"
  /\ pc[Job] \in {"wrunlock"} \cup ClosePlaces => \A c \in Co : pc[c] \notin CowPlaces

FlushInv == Prompt /\ JobState
Somewhere == pc \in [Co -> Places]

Calls == CowPlaces \cup JobPlaces

----------------------------------------------------------------------------
(* The copy.                                                                *)

\* The values that arithmetic and updates need to be what they are.
CopyTypes ==
  /\ inflight_reqs \in Seq(Co)
  /\ start \in [Co -> Nat] /\ end \in [Co -> Nat] /\ cluster \in [Co -> Nat]
  /\ next \in Nat
  /\ DOMAIN buf = Co /\ DOMAIN ret = Co /\ DOMAIN target = Clusters

AtCluster == {"read_lock", "read", "read_io", "write_target", "target_io"}
WithData == {"write_target", "target_io"}
Ended == {"out", "unlock"}
Asked(c) == start[c] .. end[c] - 1
InList(s, x) == \E i \in DOMAIN s : s[i] = x
Listed(c) == InList(inflight_reqs, c)

\* What a call has copied so far, by the place it is at: the clusters before
\* its cluster and, when it has ended without error, all of them.  A guest's
\* write that the notifier has seen goes to clusters that are copied.
CallOf(c) ==
  /\ pc[c] \in Copying => Listed(c)
  /\ pc[c] \in CowPlaces =>
       start[c] <= cluster[c] /\ start[c] .. cluster[c] - 1 \subseteq copied
  /\ pc[c] \in AtCluster => cluster[c] < end[c] /\ cluster[c] \notin copied
  /\ pc[c] \in Ended /\ ret[c] = "ok" => Asked(c) \subseteq copied
  /\ before_write /\ pc[c] \in GuestPlaces /\ c \notin early =>
       Asked(c) \subseteq copied
Calling == OneCopier /\ \A c \in Co : CallOf(c)

\* What the job has copied so far: the clusters before next and, if it is a
\* full one that ends without error, all of them.  The notifier is there until
\* the job removes it.
Looping == {"for", "slept", "cowed"} \cup CowPlaces
Allocating == {"is_allocated", "alloc", "alloc_io", "past_end"}
Removed == {"wrlock", "wrunlock"}
Gone == Removed \cup ClosePlaces
JobLoop ==
  /\ pc[Job] \in Calls \ Gone => before_write
  /\ pc[Job] \in CowPlaces => start[Job] = next /\ end[Job] = next + 1
  /\ pc[Job] = "cowed" /\ ret[Job] = "ok" => next \in copied
  /\ sync_mode = "full" =>
       /\ pc[Job] \notin Allocating
       /\ pc[Job] \in Looping => 0 .. next - 1 \subseteq copied
       /\ pc[Job] \in {"remove"} \cup Removed /\ ret[Job] = "ok" /\ ~cancelled =>
            Clusters \subseteq copied

\* What is copied, and what is about to be, is from the start of the job.
Kept == \A k \in Clusters : (IF k \in copied THEN target[k] ELSE src[k]) \in asof[k]
Buffered(c) == pc[c] \in WithData /\ cluster[c] \in Clusters => buf[c] \in asof[cluster[c]]
FullCopy ==
  /\ pc[Job] \in Gone \/ job = "done"
  /\ sync_mode = "full" /\ ret[Job] = "ok" /\ ~cancelled
CopyData ==
  /\ before_write => Kept /\ \A c \in Co : Buffered(c)
  /\ FullCopy => \A k \in Clusters : target[k] \in asof[k]

CopyInv == CopyTypes /\ Calling /\ JobLoop /\ CopyData

----------------------------------------------------------------------------
(* The queues.                                                              *)

\* Everything is at most once in the lists L[l]; x is in one of them.
Once(N, L) ==
  \A l, m \in N : \A i \in 1 .. Len(L[l]), j \in 1 .. Len(L[m]) :
    L[l][i] = L[m][j] => l = m /\ i = j
Has(N, L, x) == \E l \in N : \E i \in 1 .. Len(L[l]) : L[l][i] = x

\* All lists that co_queue_next may link a coroutine into.
Names == ({"entries"} \X Queues) \cup ({"wakeup"} \X Co)
ListsOf(e, w) == [n \in Names |-> IF n[1] = "entries" THEN e[n[2]] ELSE w[n[2]]]
Lists == ListsOf(entries, wakeup)
Linked(c) == Has(Names, Lists, c)

\* A coroutine runs, is in one list, or waits for something else.
Queued ==
  /\ CoTypeOK
  /\ Once(Names, Lists)
  /\ \A c \in Co : waits[c] = "queue" <=> Linked(c)
  /\ \A c \in Co : waits[c] = "none" <=> running = c

\* Whoever is marked for restart, some loop will get to; the inner loop has one.
Pending ==
  /\ running = "leader" /\ restarting # <<>> => wakeup[Head(restarting)] # <<>>
  /\ \A d \in Co : wakeup[d] # <<>> => running = d \/ d \in InSeq(restarting)

\* Those who wait for a lock are where they look at it again, and one of them
\* is about to when nobody has it.
LockQueues == {"mutex"} \cup RwLocks
WaitsAt(q) == CASE q = "mutex" -> {"read_lock", "write_lock", "is_allocated"}
                [] q = "flush" -> {"rdlock", "wrlock"}
                [] q = "rename" -> LockPlaces \cup {"nested"}
Busy(q) == IF q = "mutex" THEN locked ELSE writer[q] \/ reader[q] > 0
Looks(q) ==
  \E w \in Co : pc[w] \in WaitsAt(q)
                /\ (running = w \/ \E d \in Co : w \in InSeq(wakeup[d]))
Waiters(q) == \A w \in InSeq(entries[q]) : pc[w] \in WaitsAt(q)
Served(q) == entries[q] # <<>> => Busy(q) \/ Looks(q)
Inflight == \A c \in Co : entries[c] # <<>> => Listed(c)

QueueInv == /\ Queued /\ Pending
            /\ \A q \in LockQueues : Waiters(q) /\ Served(q)
            /\ Inflight

\* A job that is not busy sleeps.
SleepInv ==
  /\ ~spurious
  /\ job = "active" /\ ~busy =>
       pc[Job] = "slept" /\ waits[Job] \in {"none", "timer", "resume"}

\* The values are in bounds, because the job's loop is.
BoundInv ==
  /\ BackupTypeOK /\ paths \in Scenes /\ sections \in 0 .. MaxSections
  /\ pc[Job] \notin GuestPlaces
  /\ pc[Job] \in CowPlaces \cup Allocating \cup {"cowed"} => next < NClusters
  /\ pc[Job] = "slept" /\ sync_mode # "none" => next < NClusters
=============================================================================
