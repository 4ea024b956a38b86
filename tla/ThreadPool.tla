----------------------------- MODULE ThreadPool -----------------------------
(***************************************************************************)
(* thread-pool.c: requests queued by the thread that runs an AioContext,   *)
(* executed by worker threads that come and go, and completed in the       *)
(* AioContext again when the workers have set its event notifier.          *)
(*                                                                         *)
(* A section under pool->lock is one step.  What happens outside the lock  *)
(* is a step of its own: the waits on the semaphore and the condition      *)
(* variables, the store of THREAD_DONE, the post that ends a submission,   *)
(* and every look of event_notifier_ready at a request's state.            *)
(***************************************************************************)
EXTENDS Integers, Sequences, FiniteSets, Functions

CONSTANTS
  Reqs,         \* requests; each can be submitted again after its release
  Silent,       \* those submitted without a callback
  Draining,     \* those whose callback calls aio_poll until nothing is left
  Workers,      \* identities of worker threads
  max_threads,  \* 64 in the code
  NoReq

ASSUME PoolAssumption ==
  /\ Silent \subseteq Reqs /\ Draining \subseteq Reqs \ Silent
  /\ IsFiniteSet(Workers) /\ max_threads \in 1 .. Cardinality(Workers)
  /\ NoReq \notin Reqs /\ Reqs \cap {"run", "post", "free", "gone"} = {}

VARIABLES
  state,            \* of each request; "free" before submission and after release
  head,             \* requests submitted and not released, newest first
  request_list,     \* requests for the workers, oldest first
  sem,              \* the semaphore
  cur_threads, idle_threads, new_threads, pending_threads,
  pending_cancellations,
  stopping,
  bh,               \* new_thread_bh is scheduled
  notifier,         \* the event notifier is set
  wpc, job,         \* where each worker is, and the request it works on
  main,             \* what the AioContext's thread is waiting for or doing
  woken,            \* the condition it sleeps on was signalled
  stack             \* its nested activities, innermost last

pool == <<cur_threads, idle_threads, new_threads, pending_threads>>
vars == <<state, head, request_list, sem, pool, pending_cancellations, stopping,
          bh, notifier, wpc, job, main, woken, stack>>

-----------------------------------------------------------------------------
\* QLIST_REMOVE and QTAILQ_REMOVE.
Unlink(s, x) ==
  LET i == CHOOSE i \in DOMAIN s : s[i] = x
  IN  IF x \in Range(s) THEN SubSeq(s, 1, i - 1) \o SubSeq(s, i + 1, Len(s)) ELSE s

-----------------------------------------------------------------------------
(* Worker threads.                                                         *)

\* Seeded fault: the new thread is not counted as pending.
do_spawn_uncounted(cur, new, pending, pc) ==
  LET w == CHOOSE v \in Workers : pc[v] = "none"
  IN  /\ cur_threads' = cur
      /\ new_threads' = IF new = 0 THEN 0 ELSE new - 1
      /\ pending_threads' = pending
      /\ wpc' = IF new = 0 THEN pc ELSE [pc EXCEPT ![w] = "new"]

\* The end of a locked section: the counters, after one waiting thread has
\* been created if there is one.  A thread is created on a free identity.
do_spawn_thread(cur, new, pending, pc) ==
  LET w == CHOOSE v \in Workers : pc[v] = "none"
  IN  /\ cur_threads' = cur
      /\ new_threads' = IF new = 0 THEN 0 ELSE new - 1
      /\ pending_threads' = IF new = 0 THEN pending ELSE pending + 1
      /\ wpc' = IF new = 0 THEN pc ELSE [pc EXCEPT ![w] = "new"]

\* Seeded fault: the signal is left out.
Exits_silently(w) ==
  /\ cur_threads' = cur_threads - 1
  /\ wpc' = [wpc EXCEPT ![w] = "none"]
  /\ UNCHANGED woken

\* The end of worker_thread, with a signal for thread_pool_free.
Exits(w) ==
  /\ cur_threads' = cur_threads - 1
  /\ wpc' = [wpc EXCEPT ![w] = "none"]
  /\ woken' = (woken \/ main = "free")

\* The first locked section of worker_thread, up to the semaphore.
WorkerStart(w) ==
  /\ wpc[w] = "new"
  /\ IF stopping
     THEN /\ Exits(w)
          /\ pending_threads' = pending_threads - 1
          /\ UNCHANGED <<idle_threads, new_threads>>
     ELSE /\ do_spawn_thread(cur_threads, new_threads, pending_threads - 1,
                             [wpc EXCEPT ![w] = "wait"])
          /\ idle_threads' = idle_threads + 1
          /\ UNCHANGED woken
  /\ UNCHANGED <<state, head, request_list, sem, pending_cancellations, stopping,
                 bh, notifier, job, main, stack>>

\* qemu_sem_timedwait(&pool->sem, 10000) takes a token, or none came in time.
SemTimedwait(w) ==
  /\ wpc[w] = "wait"
  /\ \/ sem > 0 /\ sem' = sem - 1 /\ wpc' = [wpc EXCEPT ![w] = "got"]
     \/ sem = 0 /\ sem' = sem /\ wpc' = [wpc EXCEPT ![w] = "late"]
  /\ UNCHANGED <<state, head, request_list, pool, pending_cancellations, stopping,
                 bh, notifier, job, main, woken, stack>>

\* Seeded fault: a timeout ends the thread whether or not requests are waiting.
WaitsAgainNever(w) == FALSE

\* while (ret == -1 && !QTAILQ_EMPTY(&pool->request_list))
WaitsAgain(w) == wpc[w] = "late" /\ request_list # <<>>

\* The locked section behind the semaphore.
WorkerTake(w) ==
  /\ wpc[w] \in {"got", "late"}
  /\ \/ /\ WaitsAgain(w)
        /\ wpc' = [wpc EXCEPT ![w] = "wait"]
        /\ UNCHANGED <<cur_threads, idle_threads, woken, state, request_list, job>>
     \/ /\ ~WaitsAgain(w) /\ (wpc[w] = "late" \/ stopping)
        /\ idle_threads' = idle_threads - 1
        /\ Exits(w)
        /\ UNCHANGED <<state, request_list, job>>
     \/ /\ wpc[w] = "got" /\ ~stopping
        /\ idle_threads' = idle_threads - 1
        /\ job' = [job EXCEPT ![w] = Head(request_list)]
        /\ state' = [state EXCEPT ![Head(request_list)] = "active"]
        /\ request_list' = Tail(request_list)
        /\ wpc' = [wpc EXCEPT ![w] = "work"]
        /\ UNCHANGED <<cur_threads, woken>>
  /\ UNCHANGED <<head, sem, new_threads, pending_threads, pending_cancellations,
                 stopping, bh, notifier, main, stack>>

\* The request's function has run; the state is stored without the lock.
WorkerDone(w) ==
  /\ wpc[w] = "work"
  /\ state' = [state EXCEPT ![job[w]] = "done"]
  /\ wpc' = [wpc EXCEPT ![w] = "done"]
  /\ UNCHANGED <<head, request_list, sem, pool, pending_cancellations, stopping,
                 bh, notifier, job, main, woken, stack>>

\* Seeded fault: the notifier is left alone.
NotifyForgotten == UNCHANGED notifier

\* event_notifier_set
Notify == notifier' = TRUE

\* Seeded fault: off by one.
broadcast_wanted_many == pending_cancellations > 1

\* if (pool->pending_cancellations)
broadcast_wanted == pending_cancellations > 0

\* The locked section behind the request: wake thread_pool_cancel, set the
\* notifier, and wait for the next request unless the pool is stopping.
WorkerFinish(w) ==
  /\ wpc[w] = "done"
  /\ job' = [job EXCEPT ![w] = NoReq]
  /\ Notify
  /\ IF stopping
     THEN Exits(w) /\ UNCHANGED idle_threads
     ELSE /\ wpc' = [wpc EXCEPT ![w] = "wait"]
          /\ idle_threads' = idle_threads + 1
          /\ woken' = (woken \/ (broadcast_wanted /\ main \in Reqs))
          /\ UNCHANGED cur_threads
  /\ UNCHANGED <<state, head, request_list, sem, new_threads, pending_threads,
                 pending_cancellations, stopping, bh, main, stack>>

-----------------------------------------------------------------------------
(* The thread of the AioContext.  Its stack holds a "scan" for every        *)
(* event_notifier_ready in progress and a "call" for every callback; code   *)
(* that uses the pool runs in the main loop and in callbacks.               *)

Scan(todo) == [at |-> "scan", todo |-> todo, req |-> NoReq]
Callback(r) == [at |-> "call", todo |-> <<>>, req |-> r]
Top == stack[Len(stack)]
Outer == SubSeq(stack, 1, Len(stack) - 1)
Innermost == IF stack = <<>> THEN "loop" ELSE Top.at
UserCode == main = "run" /\ Innermost \in {"loop", "call"}

\* The main loop always polls; a callback polls if it drains.
Polls ==
  /\ main = "run"
  /\ Innermost = "loop" \/ (Innermost = "call" /\ Top.req \in Draining)

\* When thread_pool_submit_aio asks for another thread.
spawn_wanted == idle_threads = 0 /\ cur_threads < max_threads

\* When spawn_thread schedules the bottom half.
bh_wanted == pending_threads = 0

\* thread_pool_submit_aio up to the unlock, with spawn_thread.
thread_pool_submit_aio(r) ==
  /\ UserCode /\ state[r] = "free"
  /\ state' = [state EXCEPT ![r] = "queued"]
  /\ head' = <<r>> \o head
  /\ request_list' = Append(request_list, r)
  /\ IF spawn_wanted
     THEN /\ cur_threads' = cur_threads + 1
          /\ new_threads' = new_threads + 1
          /\ bh' = (bh \/ bh_wanted)
     ELSE UNCHANGED <<cur_threads, new_threads, bh>>
  /\ main' = "post"
  /\ UNCHANGED <<sem, idle_threads, pending_threads, pending_cancellations, stopping,
                 notifier, wpc, job, woken, stack>>

\* Its qemu_sem_post, after the unlock.
SubmitPost ==
  /\ main = "post"
  /\ sem' = sem + 1
  /\ main' = "run"
  /\ UNCHANGED <<state, head, request_list, pool, pending_cancellations, stopping,
                 bh, notifier, wpc, job, woken, stack>>

\* Seeded fault: a request that a worker has begun is taken as well.
Steals_active(r) ==
  /\ state[r] \in {"queued", "active"} /\ sem > 0
  /\ sem' = sem - 1

\* Seeded fault: a queued request is taken off the list without its token.
Steals_without_token(r) ==
  /\ state[r] = "queued" /\ sem > 0
  /\ sem' = sem

\* qemu_sem_timedwait(&pool->sem, 0) for a request that is still queued.
Steals(r) ==
  /\ state[r] = "queued" /\ sem > 0
  /\ sem' = sem - 1

CanSteal(r) == state[r] = "queued" /\ sem > 0

\* thread_pool_cancel: steal the request from the workers, or wait for it; for
\* a finished one it does nothing.
thread_pool_cancel(r) ==
  /\ UserCode /\ r \in Range(head)
  /\ \/ /\ Steals(r)
        /\ request_list' = Unlink(request_list, r)
        /\ state' = [state EXCEPT ![r] = "canceled"]
        /\ Notify
        /\ UNCHANGED <<pending_cancellations, main>>
     \/ /\ ~CanSteal(r) /\ state[r] \in {"queued", "active"}
        /\ pending_cancellations' = pending_cancellations + 1
        /\ main' = r
        /\ UNCHANGED <<sem, request_list, state, notifier>>
  /\ UNCHANGED <<head, pool, stopping, bh, wpc, job, woken, stack>>

\* qemu_cond_wait(&pool->check_cancel) returns and the state is read again.
CancelWakes ==
  /\ main \in Reqs /\ woken
  /\ woken' = FALSE
  /\ IF state[main] \in {"canceled", "done"}
     THEN main' = "run" /\ pending_cancellations' = pending_cancellations - 1
     ELSE UNCHANGED <<main, pending_cancellations>>
  /\ UNCHANGED <<state, head, request_list, sem, pool, stopping, bh, notifier,
                 wpc, job, stack>>

\* aio_bh_poll runs spawn_thread_bh_fn.
spawn_thread_bh_fn ==
  /\ Polls /\ bh
  /\ bh' = FALSE
  /\ do_spawn_thread(cur_threads, new_threads, pending_threads, wpc)
  /\ UNCHANGED <<state, head, request_list, sem, idle_threads, pending_cancellations,
                 stopping, notifier, job, main, woken, stack>>

thread_pool_active == head # <<>>

\* aio_dispatch calls event_notifier_ready, which clears the notifier first.
\* aio_poll leaves the notifier out unless the pool is active; the main loop
\* does not.
event_notifier_ready ==
  /\ Polls /\ ~bh /\ notifier
  /\ Innermost = "loop" \/ thread_pool_active
  /\ notifier' = FALSE
  /\ stack' = Append(stack, Scan(head))
  /\ UNCHANGED <<state, head, request_list, sem, pool, pending_cancellations,
                 stopping, bh, wpc, job, main, woken>>

Finished(r) == state[r] \in {"canceled", "done"}

\* Seeded fault: the loop goes on behind the request it has just completed.
Restarted_behind(frames) == [frames EXCEPT ![Len(frames)].todo = Tail(@)]

\* goto restart: the scan below a callback begins again.
Restarted(frames) == [frames EXCEPT ![Len(frames)].todo = head]

\* One turn of the loop of event_notifier_ready, or its end.
ScanTurn ==
  /\ main = "run" /\ Innermost = "scan"
  /\ LET todo == Top.todo
         rest == [stack EXCEPT ![Len(stack)].todo = Tail(todo)]
     IN  \/ /\ todo = <<>>
            /\ stack' = Outer
            /\ UNCHANGED <<head, state>>
         \/ /\ todo # <<>> /\ ~Finished(Head(todo))
            /\ stack' = rest
            /\ UNCHANGED <<head, state>>
         \/ /\ todo # <<>> /\ state[Head(todo)] = "done" /\ Head(todo) \notin Silent
            /\ head' = Unlink(head, Head(todo))
            /\ stack' = Append(stack, Callback(Head(todo)))
            /\ UNCHANGED state
         \/ /\ todo # <<>> /\ Finished(Head(todo))
            /\ state[Head(todo)] = "canceled" \/ Head(todo) \in Silent
            /\ head' = Unlink(head, Head(todo))
            /\ state' = [state EXCEPT ![Head(todo)] = "free"]
            /\ stack' = rest
  /\ UNCHANGED <<request_list, sem, pool, pending_cancellations, stopping, bh,
                 notifier, wpc, job, main, woken>>

\* A callback returns, one that drains only when no request is left; its
\* request is released.
CallbackReturns ==
  /\ main = "run" /\ Innermost = "call"
  /\ Top.req \in Draining => ~thread_pool_active /\ ~bh
  /\ state' = [state EXCEPT ![Top.req] = "free"]
  /\ stack' = Restarted(Outer)
  /\ UNCHANGED <<head, request_list, sem, pool, pending_cancellations, stopping, bh,
                 notifier, wpc, job, main, woken>>

\* The threads thread_pool_free has to wait for.
threads_to_wait_for == cur_threads - new_threads

\* while (pool->cur_threads > 0)
workers_left(n) == n > 0

\* thread_pool_free up to the first wait for worker_stopped.
thread_pool_free ==
  /\ main = "run" /\ stack = <<>> /\ head = <<>>
  /\ bh' = FALSE
  /\ cur_threads' = threads_to_wait_for
  /\ new_threads' = 0
  /\ stopping' = TRUE
  /\ IF workers_left(cur_threads')
     THEN sem' = sem + 1 /\ main' = "free"
     ELSE sem' = sem /\ main' = "gone"
  /\ UNCHANGED <<state, head, request_list, idle_threads, pending_threads,
                 pending_cancellations, notifier, wpc, job, woken, stack>>

\* The loop of thread_pool_free, when worker_stopped was signalled.
FreeWakes ==
  /\ main = "free" /\ woken
  /\ woken' = FALSE
  /\ IF workers_left(cur_threads)
     THEN sem' = sem + 1 /\ UNCHANGED main
     ELSE main' = "gone" /\ UNCHANGED sem
  /\ UNCHANGED <<state, head, request_list, pool, pending_cancellations, stopping,
                 bh, notifier, wpc, job, stack>>

-----------------------------------------------------------------------------
Init ==
  /\ state = [r \in Reqs |-> "free"]
  /\ head = <<>> /\ request_list = <<>>
  /\ sem = 0
  /\ cur_threads = 0 /\ idle_threads = 0 /\ new_threads = 0 /\ pending_threads = 0
  /\ pending_cancellations = 0
  /\ stopping = FALSE /\ bh = FALSE /\ notifier = FALSE
  /\ wpc = [w \in Workers |-> "none"]
  /\ job = [w \in Workers |-> NoReq]
  /\ main = "run" /\ woken = FALSE
  /\ stack = <<>>

WorkerStep(w) ==
  WorkerStart(w) \/ SemTimedwait(w) \/ WorkerTake(w) \/ WorkerDone(w) \/ WorkerFinish(w)

\* What the thread of the AioContext does by itself, without new requests.
MainStep ==
  \/ SubmitPost \/ CancelWakes \/ FreeWakes
  \/ spawn_thread_bh_fn \/ event_notifier_ready \/ ScanTurn \/ CallbackReturns

Next ==
  \/ \E w \in Workers : WorkerStep(w)
  \/ MainStep
  \/ \E r \in Reqs : thread_pool_submit_aio(r)
  \/ \E r \in Reqs : thread_pool_cancel(r)
  \/ thread_pool_free

Spec == Init /\ [][Next]_vars

\* Threads are scheduled, a function that was started returns, and the main
\* loop goes on polling.  Nobody has to submit, cancel or free anything.
Fairness == WF_vars(MainStep) /\ \A w \in Workers : WF_vars(WorkerStep(w))

FairSpec == Spec /\ Fairness

-----------------------------------------------------------------------------
\* Counters never go below zero, and every pointer is to a request.
TypeOK ==
  /\ state \in [Reqs -> {"free", "queued", "active", "done", "canceled"}]
  /\ head \in Seq(Reqs) /\ request_list \in Seq(Reqs)
  /\ {sem, cur_threads, idle_threads, new_threads, pending_threads,
      pending_cancellations} \subseteq Nat
  /\ {stopping, bh, notifier, woken} \subseteq BOOLEAN
  /\ wpc \in [Workers -> {"none", "new", "wait", "got", "late", "work", "done"}]
  /\ job \in [Workers -> Reqs \cup {NoReq}]
  /\ main \in Reqs \cup {"run", "post", "free", "gone"}
  /\ stack \in Seq([at : {"scan", "call"}, todo : Seq(Reqs), req : Reqs \cup {NoReq}])

At(places) == {w \in Workers : wpc[w] \in places}

\* A worker that has a token finds a request on the list: tokens in the
\* semaphore and in the hands of workers are as many as the requests queued,
\* whatever thread_pool_cancel takes of both (thread-pool.c:96-105, 214-222).
TokensMatchRequests ==
  ~stopping =>
    sem + Cardinality(At({"got"})) + (IF main = "post" THEN 1 ELSE 0) = Len(request_list)

\* A request is with one worker at most, and neither a canceled nor a released
\* one is with any; the list holds exactly the requests that are queued, once
\* (the comment on state, thread-pool.c:44-47).
OneWorkerPerRequest ==
  /\ \A w \in At({"work"}) : state[job[w]] = "active"
  /\ \A v, w \in At({"work"}) : job[v] = job[w] => v = w
  /\ Range(request_list) = {r \in Reqs : state[r] = "queued"}
  /\ \A i, j \in DOMAIN request_list : request_list[i] = request_list[j] => i = j

\* cur_threads and its parts count the threads there are, so that the limit
\* holds and thread_pool_free, which waits for the counter, frees the pool
\* under none of them (thread-pool.c:73-76, 338-353).  A thread that was asked
\* for and not created has somebody who will create it: the bottom half, or a
\* created thread that has not started yet (thread-pool.c:158-167).
ThreadsCounted ==
  /\ TypeOK
  /\ cur_threads = Cardinality(Workers) - Cardinality(At({"none"})) + new_threads
  /\ pending_threads = Cardinality(At({"new"}))
  /\ idle_threads = Cardinality(At({"wait", "got", "late"}))
  /\ cur_threads <= max_threads
  /\ new_threads > 0 => bh \/ pending_threads > 0
  /\ main = "gone" => At({"none"}) = Workers

\* The scan never follows a pointer to a request that was released under it, by
\* another scan inside one of its callbacks (thread-pool.c:176-197).
ScanPointersValid ==
  Innermost = "scan" => Range(Top.todo) \subseteq Range(head)

\* A request that finished is on its way to event_notifier_ready: the notifier
\* is set or about to be, or a scan that will still reach it is in progress
\* (thread-pool.c:114-121, 175-191).
FinishedIsSeen ==
  \A r \in Range(head) : Finished(r) =>
    \/ notifier
    \/ \E w \in At({"done"}) : job[w] = r
    \/ \E i \in DOMAIN stack :
         stack[i].at = "scan" /\ (r \in Range(stack[i].todo) \/ i < Len(stack))

CallbackSubmits == main = "post" /\ stack # <<>>
CallbackDrains == \E i \in DOMAIN stack : stack[i].at = "call" /\ stack[i].req \in Draining

\* Every request is completed and released, however the workers time out, exit
\* and are created anew, and whatever else is canceled meanwhile
\* (thread-pool.c:93-121, 170-198).  The exceptions are in the code: requests that
\* callbacks submit go to the front of the list, goto restart looks at them
\* first, and callbacks that never stop submitting can starve an older request;
\* and a callback that polls may wait for ever (see NestedPollReturns).
RequestsComplete ==
  <>[]~CallbackSubmits /\ []<>~CallbackDrains =>
    \A r \in Reqs : state[r] # "free" ~> state[r] = "free"

\* thread_pool_cancel returns: the broadcast of the worker is never missed
\* (thread-pool.c:117-119, 225-229).
CancelReturns == main \in Reqs ~> main \notin Reqs

\* thread_pool_free returns: every worker gets a token or times out, and the
\* last signal of worker_stopped is not missed (thread-pool.c:339-343).
FreeReturns == main = "free" ~> main = "gone"

\* What include/block/aio.h:194-195 says of a blocking aio_poll: it waits "until
\* one or more AIO events have completed".  A callback that polls for requests
\* which have all finished gets to see one of them.
NestedPollReturns ==
  (Innermost = "call" /\ head # <<>> /\ \A r \in Range(head) : Finished(r))
    ~> (Innermost # "call" \/ head = <<>>)
=============================================================================
