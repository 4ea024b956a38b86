------------------------- MODULE ThreadPoolProofs --------------------------
(***************************************************************************)
(* The safety of the thread pool, for any number of requests and workers:  *)
(* requests and tokens stay in step, the counters count the threads, the   *)
(* scans follow valid pointers and reach every request that has finished.  *)
(***************************************************************************)
EXTENDS ThreadPool, TLAPS

Places == {"none", "new", "wait", "got", "late", "work", "done"}

States == {"free", "queued", "active", "done", "canceled"}

Frame == [at : {"scan", "call"}, todo : Seq(Reqs), req : Reqs \cup {NoReq}]

Once(s) == \A i, j \in DOMAIN s : s[i] = s[j] => i = j

\* What a worker holds is a request, and OneWorkerPerRequest.
Worked ==
  /\ \A w \in Workers : wpc[w] \in {"work", "done"} => job[w] \in Reqs
  /\ \A w \in Workers : wpc[w] = "work" => state[job[w]] = "active"
  /\ \A v, w \in Workers : wpc[v] = "work" /\ wpc[w] = "work" /\ job[v] = job[w] => v = w
  /\ Range(request_list) = {r \in Reqs : state[r] = "queued"}
  /\ Once(request_list)

\* Once thread_pool_free has run nothing is left that needs the AioContext, and
\* one call of thread_pool_cancel waits at a time.
MainInv ==
  /\ stopping <=> main \in {"free", "gone"}
  /\ stopping => stack = <<>> /\ head = <<>> /\ new_threads = 0 /\ ~bh
  /\ pending_cancellations = IF main \in Reqs THEN 1 ELSE 0

\* A scan is the outermost activity, a scan runs callbacks and a callback scans.
\* Every call has its own request, finished and unlinked.  The list holds each
\* request once, and none that was released; the scan in progress has part of it
\* before it.
Nested(s, h, st) ==
  /\ s # <<>> => s[1].at = "scan"
  /\ \A i \in 1 .. Len(s) - 1 : s[i].at # s[i + 1].at
  /\ \A i \in 1 .. Len(s) : s[i].at = "call" =>
       s[i].req \in Reqs /\ st[s[i].req] = "done" /\ s[i].req \notin Range(h)
  /\ \A i, j \in 1 .. Len(s) : s[i].at = "call" /\ s[j].at = "call" /\ s[i].req = s[j].req => i = j
  /\ Once(h) /\ \A r \in Range(h) : st[r] # "free"
  /\ s # <<>> /\ s[Len(s)].at = "scan" =>
       Once(s[Len(s)].todo) /\ Range(s[Len(s)].todo) \subseteq Range(h)

\* FinishedIsSeen: a scan will reach the request, now or when it begins again.
Reaches(s, r) ==
  \E i \in 1 .. Len(s) : s[i].at = "scan" /\ (r \in Range(s[i].todo) \/ i < Len(s))

Seen ==
  \A r \in Range(head) : Finished(r) =>
    notifier \/ (\E w \in Workers : wpc[w] = "done" /\ job[w] = r) \/ Reaches(stack, r)

\* The workers at some places, and the four numbers of them that the counters
\* and the semaphore are compared with.
Num(pc, places) == Cardinality({w \in Workers : pc[w] \in places})

Free(pc) == Num(pc, {"none"})

New(pc) == Num(pc, {"new"})

Idle(pc) == Num(pc, {"wait", "got", "late"})

Got(pc) == Num(pc, {"got"})

\* What ThreadsCounted and TokensMatchRequests say, in these numbers.
Counted ==
  /\ cur_threads = Cardinality(Workers) - Free(wpc) + new_threads
  /\ pending_threads = New(wpc) /\ idle_threads = Idle(wpc)
  /\ cur_threads <= max_threads
  /\ new_threads > 0 => bh \/ pending_threads > 0
  /\ main = "gone" => At({"none"}) = Workers

Posting == IF main = "post" THEN 1 ELSE 0

Tokens == ~stopping => sem + Got(wpc) + Posting = Len(request_list)

\* The inductive invariant.
PoolInv ==
  /\ TypeOK /\ Counted /\ MainInv /\ Tokens
  /\ Worked
  /\ Nested(stack, head, state) /\ Seen

\* A thread that was asked for finds an identity, and a worker with a token a
\* request: what the counters and the tokens are there for.
Supplied ==
  /\ new_threads > 0 => \E v \in Workers : wpc[v] = "none"
  /\ \A w \in Workers : wpc[w] = "got" /\ ~stopping => request_list # <<>>

\* What is used of the theory of finite sets: Workers is finite, so that its
\* subsets can be counted (lemma WorkersCountable at the end).
Countable ==
  \A S \in SUBSET Workers :
    /\ Cardinality(S) \in Nat /\ (Cardinality(S) = 0 <=> S = {})
    /\ Cardinality(S) <= Cardinality(Workers)
    /\ Cardinality(S) = Cardinality(Workers) => S = Workers
    /\ \A x : /\ Cardinality(S \ {x}) =
                   IF x \in S THEN Cardinality(S) - 1 ELSE Cardinality(S)
              /\ Cardinality(S \cup {x}) =
                   IF x \in S THEN Cardinality(S) ELSE Cardinality(S) + 1

----------------------------------------------------------------------------
(* Sequences without repetition, as the pool's lists are.                   *)

LEMMA RangeIs ==
  ASSUME NEW S, NEW s \in Seq(S)
  PROVE  /\ DOMAIN s = 1 .. Len(s) /\ Len(s) \in Nat
         /\ \A i \in 1 .. Len(s) : s[i] \in Range(s)
         /\ \A x \in Range(s) : x \in S /\ \E i \in 1 .. Len(s) : s[i] = x
<1>1. DOMAIN s = 1 .. Len(s) /\ Len(s) \in Nat /\ \A i \in 1 .. Len(s) : s[i] \in S
  OBVIOUS
<1> QED
  BY <1>1, Zenon DEF Range

LEMMA OnceIs ==
  ASSUME NEW S, NEW s \in Seq(S)
  PROVE  Once(s) <=> \A i, j \in 1 .. Len(s) : s[i] = s[j] => i = j
  BY RangeIs DEF Once

LEMMA ConcatIs ==
  ASSUME NEW S, NEW a \in Seq(S), NEW b \in Seq(S)
  PROVE  a \o b \in Seq(S) /\ Len(a \o b) = Len(a) + Len(b)
  OBVIOUS

LEMMA ConcatAt ==
  ASSUME NEW S, NEW a \in Seq(S), NEW b \in Seq(S), NEW n \in 1 .. Len(b)
  PROVE  (a \o b)[Len(a) + n] = b[n]
  OBVIOUS

\* QTAILQ_REMOVE and QLIST_REMOVE take one request off a list.
LEMMA CutAt ==
  ASSUME NEW S, NEW s \in Seq(S), Once(s), NEW i \in 1 .. Len(s)
  PROVE  LET t == SubSeq(s, 1, i - 1) \o SubSeq(s, i + 1, Len(s))
         IN  /\ t \in Seq(S) /\ Len(t) = Len(s) - 1
             /\ Range(t) = Range(s) \ {s[i]} /\ Once(t)
<1> DEFINE a == SubSeq(s, 1, i - 1)
           b == SubSeq(s, i + 1, Len(s))
           t == a \o b
<1>0. Len(s) \in Nat /\ i \in Nat /\ i >= 1 /\ i <= Len(s)
  OBVIOUS
<1>1. a \in Seq(S) /\ Len(a) = i - 1 /\ \A j \in 1 .. i - 1 : a[j] = s[j]
  BY <1>0
<1>2. b \in Seq(S) /\ Len(b) = Len(s) - i /\ \A j \in 1 .. Len(s) - i : b[j] = s[i + j]
  BY <1>0
<1> HIDE DEF a, b
<1>3. t \in Seq(S) /\ Len(t) = Len(s) - 1
  <2>1. t \in Seq(S) /\ Len(t) = Len(a) + Len(b)
    BY <1>1, <1>2, ConcatIs, Zenon
  <2> QED
    BY <1>0, <1>1, <1>2, <2>1
<1>4. \A j \in 1 .. Len(s) - 1 : j < i => t[j] = s[j]
  BY <1>0, <1>1, <1>2
<1>5. ASSUME NEW j \in 1 .. Len(s) - 1, j >= i PROVE t[j] = s[j + 1]
  <2>1. j - (i - 1) \in 1 .. Len(b)
    BY <1>0, <1>2, <1>5
  <2>2. t[Len(a) + (j - (i - 1))] = b[j - (i - 1)]
    <3>1. a \in Seq(S) /\ b \in Seq(S)
      BY <1>1, <1>2, Zenon
    <3> QED
      BY <2>1, <3>1, ConcatAt, Zenon
  <2>3. Len(a) + (j - (i - 1)) = j /\ i + (j - (i - 1)) = j + 1
    BY <1>0, <1>1
  <2>4. b[j - (i - 1)] = s[i + (j - (i - 1))]
    BY <1>2, <2>1
  <2> QED
    BY <2>2, <2>3, <2>4, Zenon
<1> DEFINE from(j) == IF j < i THEN j ELSE j + 1
<1> HIDE DEF t
<1>7. \A j, k \in 1 .. Len(s) : s[j] = s[k] => j = k
  BY OnceIs, Zenon
<1>8. Once(t)
  <2>1. ASSUME NEW j \in 1 .. Len(s) - 1, NEW k \in 1 .. Len(s) - 1, t[j] = t[k]
        PROVE  j = k
    BY <1>0, <1>4, <1>5, <1>7, <2>1
  <2> QED
    BY <1>3, <2>1, OnceIs
<1>9. ASSUME NEW x \in Range(t) PROVE x \in Range(s) \ {s[i]}
  <2>1. PICK j \in 1 .. Len(s) - 1 : x = t[j]
    BY <1>3, <1>9, RangeIs
  <2>2. PICK k \in 1 .. Len(s) : x = s[k] /\ k # i
    BY <1>0, <1>4, <1>5, <2>1
  <2> QED
    BY <1>7, <2>2, RangeIs
<1>10. ASSUME NEW k \in 1 .. Len(s), k # i PROVE s[k] \in Range(t)
  <2>1. PICK j \in 1 .. Len(s) - 1 : t[j] = s[k]
    <3>1. CASE k < i
      BY <1>0, <1>4, <3>1
    <3>2. CASE k > i
      <4>1. k - 1 \in 1 .. Len(s) - 1 /\ k - 1 >= i /\ (k - 1) + 1 = k
        BY <1>0, <3>2
      <4> QED
        BY <1>5, <4>1, Zenon
    <3> QED
      BY <1>0, <1>10, <3>1, <3>2
  <2> QED
    BY <1>3, <2>1, RangeIs
<1>11. \A x \in Range(s) : x = s[i] \/ x \in Range(t)
  BY <1>10, RangeIs
<1> QED
  BY <1>3, <1>8, <1>9, <1>11, Zenon DEF t, a, b

LEMMA Unlinked ==
  ASSUME NEW S, NEW s \in Seq(S), Once(s), NEW x \in Range(s)
  PROVE  LET t == Unlink(s, x)
         IN  /\ t \in Seq(S) /\ Len(t) = Len(s) - 1
             /\ Range(t) = Range(s) \ {x} /\ Once(t)
<1> DEFINE i == CHOOSE i \in DOMAIN s : s[i] = x
<1>1. i \in 1 .. Len(s) /\ s[i] = x
  <2>1. DOMAIN s = 1 .. Len(s) /\ \E k \in 1 .. Len(s) : s[k] = x
    BY RangeIs
  <2> QED
    BY <2>1, Zenon
<1>2. Unlink(s, x) = SubSeq(s, 1, i - 1) \o SubSeq(s, i + 1, Len(s))
  BY Zenon DEF Unlink
<1> HIDE DEF i
<1>3. LET t == SubSeq(s, 1, i - 1) \o SubSeq(s, i + 1, Len(s))
      IN  /\ t \in Seq(S) /\ Len(t) = Len(s) - 1
          /\ Range(t) = Range(s) \ {s[i]} /\ Once(t)
  BY <1>1, CutAt, Zenon
<1> QED
  BY <1>1, <1>2, <1>3, Zenon

LEMMA TailIs ==
  ASSUME NEW S, NEW s \in Seq(S), s # <<>>
  PROVE  /\ Head(s) \in Range(s) /\ Tail(s) \in Seq(S) /\ Len(Tail(s)) = Len(s) - 1
         /\ Range(s) = Range(Tail(s)) \cup {Head(s)}
         /\ Once(s) => Once(Tail(s)) /\ Head(s) \notin Range(Tail(s))
<1>1. Len(s) \in Nat /\ Len(s) > 0 /\ Head(s) = s[1]
  OBVIOUS
<1>2. Tail(s) \in Seq(S) /\ Len(Tail(s)) = Len(s) - 1
  BY <1>1
<1>3. \A i \in 1 .. Len(s) - 1 : Tail(s)[i] = s[i + 1]
  BY <1>1
<1>4. ASSUME NEW k \in 1 .. Len(s), k # 1 PROVE s[k] \in Range(Tail(s))
  <2>1. k - 1 \in 1 .. Len(s) - 1 /\ (k - 1) + 1 = k
    BY <1>1, <1>4
  <2>2. Tail(s)[k - 1] = s[k]
    BY <1>3, <2>1
  <2> QED
    BY <1>2, <2>1, <2>2, RangeIs, Zenon
<1>5. ASSUME NEW x \in Range(Tail(s)) PROVE \E k \in 1 .. Len(s) : k # 1 /\ x = s[k]
  <2>1. PICK i \in 1 .. Len(s) - 1 : x = Tail(s)[i]
    <3>0. DOMAIN Tail(s) = 1 .. Len(Tail(s))
      BY <1>2
    <3>1. \A y \in Range(Tail(s)) : \E i \in 1 .. Len(Tail(s)) : Tail(s)[i] = y
      BY <3>0, Zenon DEF Range
    <3> QED
      BY <1>2, <3>1
  <2> QED
    BY <1>1, <1>3, <2>1
<1>6. Head(s) \in Range(s)
  BY <1>1, RangeIs
<1>7. Range(s) = Range(Tail(s)) \cup {Head(s)}
  BY <1>1, <1>4, <1>5, <1>6, RangeIs
<1>8. ASSUME Once(s) PROVE Once(Tail(s)) /\ Head(s) \notin Range(Tail(s))
  <2>1. \A i, j \in 1 .. Len(s) : s[i] = s[j] => i = j
    BY <1>8, OnceIs, Zenon
  <2>2. \A i, j \in 1 .. Len(s) - 1 : Tail(s)[i] = Tail(s)[j] => i = j
    BY <1>1, <1>3, <2>1
  <2>3. Once(Tail(s))
    BY <1>2, <2>2, OnceIs, Zenon
  <2>4. Head(s) \notin Range(Tail(s))
    BY <1>1, <1>5, <2>1
  <2> QED
    BY <2>3, <2>4
<1> QED
  BY <1>2, <1>6, <1>7, <1>8

\* QTAILQ_INSERT_TAIL
Tailed(s, x) == Append(s, x)

LEMMA AtTail ==
  ASSUME NEW S, NEW s \in Seq(S), NEW x \in S
  PROVE  LET t == Tailed(s, x) IN
         /\ t \in Seq(S) /\ Range(t) = Range(s) \cup {x} /\ Len(t) = Len(s) + 1
         /\ Once(s) /\ x \notin Range(s) => Once(t)
<1> DEFINE t == Tailed(s, x)
<1>0. Len(s) \in Nat
  OBVIOUS
<1>1. t \in Seq(S) /\ Len(t) = Len(s) + 1 /\ t[Len(s) + 1] = x
      /\ \A i \in 1 .. Len(s) : t[i] = s[i]
  BY <1>0 DEF Tailed
<1> HIDE DEF t
<1>2. Range(t) = Range(s) \cup {x}
  <2>1. x \in Range(t) /\ \A y \in Range(s) : y \in Range(t)
    BY <1>0, <1>1, RangeIs
  <2>2. \A y \in Range(t) : y = x \/ y \in Range(s)
    BY <1>0, <1>1, RangeIs
  <2> QED
    BY <2>1, <2>2
<1>3. ASSUME Once(s), x \notin Range(s) PROVE Once(t)
  <2>1. \A i \in 1 .. Len(s) : s[i] # x
    BY <1>3, RangeIs
  <2>2. \A i, j \in 1 .. Len(s) : s[i] = s[j] => i = j
    BY <1>3, OnceIs, Zenon
  <2>3. \A i, j \in 1 .. Len(s) + 1 : t[i] = t[j] => i = j
    BY <1>0, <1>1, <2>1, <2>2
  <2> QED
    BY <1>1, <2>3, OnceIs
<1> QED
  BY <1>1, <1>2, <1>3 DEF t

\* QLIST_INSERT_HEAD
Headed(s, x) == <<x>> \o s

LEMMA AtHead ==
  ASSUME NEW S, NEW s \in Seq(S), NEW x \in S
  PROVE  LET h == Headed(s, x) IN
         /\ h \in Seq(S) /\ Range(h) = Range(s) \cup {x}
         /\ Once(s) /\ x \notin Range(s) => Once(h)
<1> DEFINE h == Headed(s, x)
<1>0. Len(s) \in Nat
  OBVIOUS
<1>1. <<x>> \in Seq(S) /\ Len(<<x>>) = 1 /\ <<x>>[1] = x
  OBVIOUS
<1>2. h \in Seq(S) /\ Len(h) = Len(s) + 1 /\ h[1] = x
  BY <1>0, <1>1 DEF Headed
<1>3. \A i \in 1 .. Len(s) : h[1 + i] = s[i]
  BY <1>1, ConcatAt DEF Headed
<1> HIDE DEF h
<1>4. ASSUME NEW i \in 2 .. Len(s) + 1 PROVE h[i] = s[i - 1] /\ i - 1 \in 1 .. Len(s)
  <2>1. i - 1 \in 1 .. Len(s) /\ 1 + (i - 1) = i
    BY <1>0
  <2> QED
    BY <1>3, <2>1
<1>5. \A i \in 1 .. Len(s) + 1 : i = 1 \/ i \in 2 .. Len(s) + 1
  BY <1>0
<1>6. Range(h) = Range(s) \cup {x}
  <2>1. x \in Range(h)
    BY <1>0, <1>2, RangeIs
  <2>2. ASSUME NEW y \in Range(s) PROVE y \in Range(h)
    <3>1. PICK i \in 1 .. Len(s) : s[i] = y
      BY RangeIs
    <3>2. 1 + i \in 1 .. Len(h)
      BY <1>0, <1>2
    <3> QED
      BY <1>2, <1>3, <3>1, <3>2, RangeIs
  <2>3. ASSUME NEW y \in Range(h) PROVE y = x \/ y \in Range(s)
    <3>1. PICK i \in 1 .. Len(s) + 1 : h[i] = y
      BY <1>2, RangeIs
    <3> QED
      BY <1>2, <1>4, <1>5, <3>1, RangeIs
  <2> QED
    BY <2>1, <2>2, <2>3
<1>7. ASSUME Once(s), x \notin Range(s) PROVE Once(h)
  <2>1. \A i \in 1 .. Len(s) : s[i] # x
    BY <1>7, RangeIs
  <2>2. \A i, j \in 1 .. Len(s) : s[i] = s[j] => i = j
    BY <1>7, OnceIs, Zenon
  <2>3. \A i, j \in 1 .. Len(s) + 1 : h[i] = h[j] => i = j
    <3>1. ASSUME NEW i \in 2 .. Len(s) + 1 PROVE h[i] # x
      BY <1>4, <2>1
    <3>2. ASSUME NEW i \in 2 .. Len(s) + 1, NEW j \in 2 .. Len(s) + 1, h[i] = h[j]
          PROVE  i = j
      BY <1>0, <1>4, <2>2, <3>2
    <3> QED
      BY <1>2, <1>5, <3>1, <3>2, Zenon
  <2> QED
    BY <1>2, <2>3, OnceIs
<1> QED
  BY <1>2, <1>6, <1>7 DEF h

----------------------------------------------------------------------------
(* The steps, taken apart.                                                  *)

\* A worker moves from one place to another.
Goes(pc, w, q, new) == \A v \in Workers : new[v] = IF v = w THEN q ELSE pc[v]

LEMMA GoesIs ==
  ASSUME NEW pc, DOMAIN pc = Workers, NEW to, NEW w, NEW q, to = [pc EXCEPT ![w] = q]
  PROVE  Goes(pc, w, q, to)
  BY DEF Goes

\* No worker begins or ends a request.
Steady ==
  \A v \in Workers : {wpc[v], wpc'[v]} \cap {"work", "done"} # {} => wpc'[v] = wpc[v]

LEMMA Naturals ==
  ASSUME TypeOK
  PROVE  /\ sem \in Nat /\ cur_threads \in Nat /\ idle_threads \in Nat /\ new_threads \in Nat
         /\ pending_threads \in Nat /\ pending_cancellations \in Nat
         /\ wpc \in [Workers -> Places] /\ DOMAIN wpc = Workers
  BY DEF TypeOK, Places

\* do_spawn_thread creates one thread if one is waiting to be created.
LEMMA Spawns ==
  ASSUME NEW cur, NEW new \in Nat, NEW pending, NEW pc \in [Workers -> Places],
         new > 0 => \E v \in Workers : pc[v] = "none", do_spawn_thread(cur, new, pending, pc)
  PROVE  /\ wpc' \in [Workers -> Places]
         /\ new_threads' \in Nat /\ new_threads' = IF new = 0 THEN 0 ELSE new - 1
         /\ \/ new = 0 /\ wpc' = pc
            \/ new > 0 /\ \E w \in Workers : pc[w] = "none" /\ Goes(pc, w, "new", wpc')
<1>1. CASE new = 0
  BY <1>1 DEF do_spawn_thread
<1>2. CASE new > 0
  <2> DEFINE w == CHOOSE v \in Workers : pc[v] = "none"
  <2>1. w \in Workers /\ pc[w] = "none"
    BY <1>2
  <2>2. wpc' = [pc EXCEPT ![w] = "new"] /\ new_threads' = new - 1
    BY <1>2 DEF do_spawn_thread
  <2> HIDE DEF w
  <2>3. Goes(pc, w, "new", wpc') /\ wpc' \in [Workers -> Places]
    BY <2>1, <2>2 DEF Goes, Places
  <2> QED
    BY <1>2, <2>1, <2>2, <2>3
<1> QED
  BY <1>1, <1>2

LEMMA StartSteady ==
  ASSUME TypeOK, Supplied, NEW w \in Workers, WorkerStart(w)
  PROVE  wpc' \in [Workers -> Places] /\ new_threads' \in Nat /\ Steady
<1>0. wpc[w] = "new" /\ new_threads \in Nat /\ wpc \in [Workers -> Places]
  BY Naturals DEF WorkerStart
<1>1. CASE stopping
  <2>1. wpc' = [wpc EXCEPT ![w] = "none"] /\ new_threads' = new_threads
    BY <1>1 DEF WorkerStart, Exits
  <2> QED
    BY <1>0, <2>1 DEF Places, Steady
<1>2. CASE ~stopping
  <2> DEFINE mid == [wpc EXCEPT ![w] = "wait"]
  <2>1. do_spawn_thread(cur_threads, new_threads, pending_threads - 1, mid)
    BY <1>2 DEF WorkerStart
  <2>2. mid \in [Workers -> Places] /\ \A v \in Workers : mid[v] = IF v = w THEN "wait" ELSE wpc[v]
    BY <1>0 DEF Places
  <2> HIDE DEF mid
  <2>3. new_threads > 0 => \E v \in Workers : mid[v] = "none"
    BY <1>0, <2>2 DEF Supplied
  <2>4. /\ wpc' \in [Workers -> Places] /\ new_threads' \in Nat
        /\ wpc' = mid \/ \E v \in Workers : mid[v] = "none" /\ Goes(mid, v, "new", wpc')
    BY <1>0, <2>1, <2>2, <2>3, Spawns, Zenon
  <2>5. Steady
    BY <1>0, <2>2, <2>4 DEF Goes, Steady
  <2> QED
    BY <2>4, <2>5
<1> QED
  BY <1>1, <1>2

LEMMA BhSteady ==
  ASSUME TypeOK, Supplied, spawn_thread_bh_fn
  PROVE  wpc' \in [Workers -> Places] /\ new_threads' \in Nat /\ Steady
<1>1. do_spawn_thread(cur_threads, new_threads, pending_threads, wpc)
  BY DEF spawn_thread_bh_fn
<1>2. new_threads \in Nat /\ wpc \in [Workers -> Places]
  BY Naturals
<1>3. new_threads > 0 => \E v \in Workers : wpc[v] = "none"
  BY DEF Supplied
<1>4. /\ wpc' \in [Workers -> Places] /\ new_threads' \in Nat
      /\ wpc' = wpc \/ \E v \in Workers : wpc[v] = "none" /\ Goes(wpc, v, "new", wpc')
  BY <1>1, <1>2, <1>3, Spawns, Zenon
<1>5. Steady
  BY <1>4 DEF Goes, Steady
<1> QED
  BY <1>4, <1>5

\* The three ways the section behind the semaphore ends.
TakesAgain(w) ==
  /\ wpc[w] = "late" /\ wpc' = [wpc EXCEPT ![w] = "wait"]
  /\ UNCHANGED <<cur_threads, idle_threads, woken, state, request_list, job>>

TakesExit(w) ==
  /\ wpc[w] = "late" \/ stopping
  /\ idle_threads' = idle_threads - 1 /\ Exits(w)
  /\ UNCHANGED <<state, request_list, job>>

TakesRequest(w) ==
  /\ wpc[w] = "got" /\ ~stopping
  /\ idle_threads' = idle_threads - 1
  /\ job' = [job EXCEPT ![w] = Head(request_list)]
  /\ state' = [state EXCEPT ![Head(request_list)] = "active"]
  /\ request_list' = Tail(request_list)
  /\ wpc' = [wpc EXCEPT ![w] = "work"]
  /\ UNCHANGED <<cur_threads, woken>>

LEMMA TakeIs ==
  ASSUME NEW w, WorkerTake(w)
  PROVE  /\ wpc[w] \in {"got", "late"}
         /\ TakesAgain(w) \/ TakesExit(w) \/ TakesRequest(w)
         /\ UNCHANGED <<head, sem, new_threads, pending_threads, pending_cancellations,
                        stopping, bh, notifier, main, stack>>
  BY Zenon DEF WorkerTake, WaitsAgain, TakesAgain, TakesExit, TakesRequest

\* thread_pool_cancel steals a request or waits for it.
CancelSteals(r) ==
  /\ state[r] = "queued" /\ sem > 0 /\ sem' = sem - 1
  /\ request_list' = Unlink(request_list, r)
  /\ state' = [state EXCEPT ![r] = "canceled"]
  /\ notifier' = TRUE
  /\ UNCHANGED <<pending_cancellations, main>>

CancelWaits(r) ==
  /\ state[r] \in {"queued", "active"}
  /\ pending_cancellations' = pending_cancellations + 1 /\ main' = r
  /\ UNCHANGED <<sem, request_list, state, notifier>>

LEMMA CancelIs ==
  ASSUME NEW r, thread_pool_cancel(r)
  PROVE  /\ UserCode /\ r \in Range(head)
         /\ CancelSteals(r) \/ CancelWaits(r)
         /\ UNCHANGED <<head, pool, stopping, bh, wpc, job, woken, stack>>
  BY Zenon DEF thread_pool_cancel, Steals, Notify, CancelSteals, CancelWaits

\* The four ways a turn of event_notifier_ready's loop goes.
Rest == [stack EXCEPT ![Len(stack)].todo = Tail(Top.todo)]
TurnEnds == Top.todo = <<>> /\ stack' = Outer /\ UNCHANGED <<head, state>>
TurnSkips ==
  Top.todo # <<>> /\ ~Finished(Head(Top.todo)) /\ stack' = Rest /\ UNCHANGED <<head, state>>
TurnCalls ==
  /\ Top.todo # <<>> /\ state[Head(Top.todo)] = "done"
  /\ head' = Unlink(head, Head(Top.todo))
  /\ stack' = Append(stack, Callback(Head(Top.todo)))
  /\ UNCHANGED state
TurnReleases ==
  /\ Top.todo # <<>> /\ Finished(Head(Top.todo))
  /\ head' = Unlink(head, Head(Top.todo))
  /\ state' = [state EXCEPT ![Head(Top.todo)] = "free"]
  /\ stack' = Rest

LEMMA TurnIs ==
  ASSUME ScanTurn
  PROVE  /\ main = "run" /\ Innermost = "scan"
         /\ TurnEnds \/ TurnSkips \/ TurnCalls \/ TurnReleases
         /\ UNCHANGED <<request_list, sem, pool, pending_cancellations, stopping, bh,
                        notifier, wpc, job, main, woken>>
  BY Zenon DEF ScanTurn, Rest, TurnEnds, TurnSkips, TurnCalls, TurnReleases

LEMMA StackTypes ==
  ASSUME TypeOK
  PROVE  stack \in Seq(Frame) /\ head \in Seq(Reqs) /\ request_list \in Seq(Reqs)
  BY DEF TypeOK, Frame

\* The innermost activity, when there is one.
LEMMA TopIs ==
  ASSUME TypeOK, stack # <<>>
  PROVE  /\ Len(stack) \in Nat /\ Len(stack) > 0 /\ Len(stack) \in DOMAIN stack
         /\ DOMAIN stack = 1 .. Len(stack)
         /\ Top \in Frame /\ Innermost = Top.at /\ Innermost \in {"scan", "call"}
         /\ Top.todo \in Seq(Reqs) /\ Top.req \in Reqs \cup {NoReq}
<1>1. stack \in Seq(Frame)
  BY DEF TypeOK, Frame
<1>2. /\ Len(stack) \in Nat /\ Len(stack) > 0 /\ Len(stack) \in DOMAIN stack
      /\ DOMAIN stack = 1 .. Len(stack)
  BY <1>1
<1>3. Top \in Frame
  BY <1>1, <1>2 DEF Top
<1>4. Innermost = Top.at
  BY DEF Innermost
<1> QED
  BY <1>2, <1>3, <1>4 DEF Frame

LEMMA TurnFinds ==
  ASSUME TypeOK, Nested(stack, head, state), Innermost = "scan", Top.todo # <<>>
  PROVE  Head(Top.todo) \in Reqs /\ Head(Top.todo) \in Range(head)
<1>1. stack # <<>>
  BY DEF Innermost
<1>2. Top.todo \in Seq(Reqs) /\ Top.at = "scan"
  BY <1>1, TopIs
<1>3. Head(Top.todo) \in Range(Top.todo)
  BY <1>2, TailIs
<1>4. Range(Top.todo) \subseteq Range(head)
  BY <1>1, <1>2 DEF Nested, Top
<1> QED
  BY <1>2, <1>3, <1>4, RangeIs

LEMMA ReturnFinds ==
  ASSUME TypeOK, Nested(stack, head, state), Innermost = "call"
  PROVE  stack # <<>> /\ Top.req \in Reqs /\ state[Top.req] = "done" /\ Top.req \notin Range(head)
<1>1. stack # <<>>
  BY DEF Innermost
<1>2. Len(stack) \in 1 .. Len(stack) /\ stack[Len(stack)].at = "call"
  BY <1>1, TopIs DEF Top
<1> QED
  BY <1>1, <1>2 DEF Nested, Top

----------------------------------------------------------------------------
(* A request is with one worker at most.                                    *)

LEMMA OneWorkerIs ==
  ASSUME Worked
  PROVE  OneWorkerPerRequest
  BY Zenon DEF Worked, OneWorkerPerRequest, At, Once

LEMMA QuietWork ==
  ASSUME Worked, Steady, UNCHANGED <<state, request_list, job>>
  PROVE  Worked'
<1>1. \A v \in Workers : wpc'[v] \in {"work", "done"} => wpc'[v] = wpc[v]
  BY Zenon DEF Steady
<1> QED
  BY <1>1 DEF Worked

\* A worker moves to a place where it holds nothing.
LEMMA Aside ==
  ASSUME Worked, NEW w \in Workers, NEW q, q \notin {"work", "done"}, Goes(wpc, w, q, wpc'),
         UNCHANGED <<state, request_list>>, \A v \in Workers \ {w} : job'[v] = job[v]
  PROVE  Worked'
<1>1. \A v \in Workers : wpc'[v] \in {"work", "done"} => wpc'[v] = wpc[v] /\ job'[v] = job[v]
  BY DEF Goes
<1> QED
  BY <1>1 DEF Worked

LEMMA TakeWork ==
  ASSUME TypeOK, Worked, NEW w \in Workers, TakesRequest(w), request_list # <<>>
  PROVE  Worked' /\ Head(request_list) \in Reqs /\ state[Head(request_list)] = "queued"
<1> DEFINE r == Head(request_list)
<1>0. request_list \in Seq(Reqs) /\ DOMAIN state = Reqs /\ DOMAIN job = Workers
      /\ DOMAIN wpc = Workers
  BY DEF TypeOK
<1>1. /\ r \in Range(request_list) /\ Range(request_list) = Range(Tail(request_list)) \cup {r}
      /\ Once(Tail(request_list)) /\ r \notin Range(Tail(request_list))
  BY <1>0, TailIs DEF Worked
<1>2. r \in Reqs /\ state[r] = "queued"
  BY <1>1 DEF Worked
<1>3. /\ job' = [job EXCEPT ![w] = r] /\ state' = [state EXCEPT ![r] = "active"]
      /\ request_list' = Tail(request_list) /\ wpc' = [wpc EXCEPT ![w] = "work"]
  BY DEF TakesRequest
<1> HIDE DEF r
<1>4. /\ \A v \in Workers \ {w} : job'[v] = job[v] /\ wpc'[v] = wpc[v]
      /\ job'[w] = r /\ wpc'[w] = "work"
  BY <1>0, <1>3
<1>5. \A x \in Reqs : state'[x] = IF x = r THEN "active" ELSE state[x]
  BY <1>0, <1>3
<1>6. \A v \in Workers \ {w} : wpc[v] = "work" => job[v] \in Reqs /\ job[v] # r
  BY <1>2 DEF Worked
<1>7. Range(request_list)' = {x \in Reqs : state'[x] = "queued"}
  BY <1>1, <1>2, <1>3, <1>5 DEF Worked
<1>8. Worked'
  BY <1>1, <1>2, <1>3, <1>4, <1>5, <1>6, <1>7 DEF Worked
<1> QED
  BY <1>2, <1>8 DEF r

LEMMA DoneWork ==
  ASSUME TypeOK, Worked, NEW w \in Workers, WorkerDone(w)
  PROVE  Worked' /\ job[w] \in Reqs /\ state[job[w]] = "active"
<1>0. DOMAIN state = Reqs /\ DOMAIN wpc = Workers
  BY DEF TypeOK
<1>1. /\ wpc[w] = "work" /\ state' = [state EXCEPT ![job[w]] = "done"]
      /\ wpc' = [wpc EXCEPT ![w] = "done"] /\ UNCHANGED <<job, request_list>>
  BY DEF WorkerDone
<1>2. job[w] \in Reqs /\ state[job[w]] = "active"
  BY <1>1 DEF Worked
<1>3. /\ \A v \in Workers \ {w} : wpc'[v] = wpc[v]
      /\ wpc'[w] = "done"
  BY <1>0, <1>1
<1>4. \A x \in Reqs : state'[x] = IF x = job[w] THEN "done" ELSE state[x]
  BY <1>0, <1>1
<1>5. \A v \in Workers \ {w} : wpc[v] = "work" => job[v] \in Reqs /\ job[v] # job[w]
  BY <1>1 DEF Worked
<1>6. {x \in Reqs : state'[x] = "queued"} = {x \in Reqs : state[x] = "queued"}
  BY <1>2, <1>4
<1>7. Worked'
  BY <1>1, <1>2, <1>3, <1>4, <1>5, <1>6 DEF Worked
<1> QED
  BY <1>2, <1>7

\* A request that nobody works on and nobody waits for changes its state.
LEMMA Settled ==
  ASSUME TypeOK, Worked, NEW r \in Reqs, state[r] \notin {"active", "queued"}, NEW q,
         q # "queued", state' = [state EXCEPT ![r] = q],
         UNCHANGED <<wpc, job, request_list>>
  PROVE  Worked'
<1>0. DOMAIN state = Reqs
  BY DEF TypeOK
<1>1. \A x \in Reqs : state'[x] = IF x = r THEN q ELSE state[x]
  BY <1>0
<1>2. {x \in Reqs : state'[x] = "queued"} = {x \in Reqs : state[x] = "queued"}
  BY <1>1
<1> QED
  BY <1>1, <1>2 DEF Worked

LEMMA SubmitWork ==
  ASSUME TypeOK, Worked, NEW r \in Reqs, thread_pool_submit_aio(r)
  PROVE  Worked' /\ Len(request_list') = Len(request_list) + 1
<1>0. DOMAIN state = Reqs /\ request_list \in Seq(Reqs)
  BY DEF TypeOK
<1>1. /\ state[r] = "free" /\ state' = [state EXCEPT ![r] = "queued"]
      /\ request_list' = Append(request_list, r) /\ UNCHANGED <<wpc, job>>
  BY DEF thread_pool_submit_aio
<1>2. r \notin Range(request_list)
  BY <1>1 DEF Worked
<1>3. /\ Range(request_list') = Range(request_list) \cup {r} /\ Once(request_list')
      /\ Len(request_list') = Len(request_list) + 1
  <2>1. Once(request_list) /\ request_list' = Tailed(request_list, r)
    BY <1>1 DEF Worked, Tailed
  <2> QED
    <3>0. request_list \in Seq(Reqs) /\ Once(request_list)
      BY <1>0, <2>1
    <3>1. /\ Range(Tailed(request_list, r)) = Range(request_list) \cup {r}
          /\ Once(Tailed(request_list, r))
          /\ Len(Tailed(request_list, r)) = Len(request_list) + 1
      BY <1>2, <3>0, AtTail
    <3> QED
      BY <2>1, <3>1, Zenon
<1>4. \A x \in Reqs : state'[x] = IF x = r THEN "queued" ELSE state[x]
  BY <1>0, <1>1
<1>5. {x \in Reqs : state'[x] = "queued"} = {x \in Reqs : state[x] = "queued"} \cup {r}
  BY <1>4
<1> QED
  BY <1>1, <1>3, <1>4, <1>5 DEF Worked

\* thread_pool_cancel takes a queued request off the list.
LEMMA StealWork ==
  ASSUME TypeOK, Worked, NEW r \in Reqs, state[r] = "queued",
         request_list' = Unlink(request_list, r),
         state' = [state EXCEPT ![r] = "canceled"], UNCHANGED <<wpc, job>>
  PROVE  Worked' /\ Len(request_list') = Len(request_list) - 1 /\ request_list' \in Seq(Reqs)
<1>0. DOMAIN state = Reqs /\ request_list \in Seq(Reqs)
  BY DEF TypeOK
<1>1. r \in Range(request_list) /\ Once(request_list)
  BY DEF Worked
<1>2. /\ Range(request_list') = Range(request_list) \ {r} /\ Once(request_list')
      /\ Len(request_list') = Len(request_list) - 1 /\ request_list' \in Seq(Reqs)
  BY <1>0, <1>1, Unlinked
<1>3. \A x \in Reqs : state'[x] = IF x = r THEN "canceled" ELSE state[x]
  BY <1>0
<1>4. {x \in Reqs : state'[x] = "queued"} = {x \in Reqs : state[x] = "queued"} \ {r}
  BY <1>3
<1> QED
  BY <1>2, <1>3, <1>4 DEF Worked

LEMMA WorkNext ==
  ASSUME TypeOK, Supplied, Worked, Nested(stack, head, state), [Next]_vars
  PROVE  Worked'
<1>0. DOMAIN wpc = Workers
  BY DEF TypeOK
<1>1. ASSUME NEW w \in Workers, WorkerStart(w) PROVE Worked'
  <2>1. Steady
    BY <1>1, StartSteady
  <2> QED
    BY <1>1, <2>1, QuietWork DEF WorkerStart
<1>2. ASSUME NEW w \in Workers, SemTimedwait(w) PROVE Worked'
  <2>1. \E q \in {"got", "late"} : wpc' = [wpc EXCEPT ![w] = q]
    BY <1>2 DEF SemTimedwait
  <2>2. PICK q \in {"got", "late"} : Goes(wpc, w, q, wpc')
    BY <1>0, <2>1, GoesIs, Zenon
  <2> QED
    BY <1>2, <2>2, Aside DEF SemTimedwait
<1>3. ASSUME NEW w \in Workers, WorkerTake(w) PROVE Worked'
  <2>1. ASSUME TakesAgain(w) PROVE Worked'
    <3>1. Goes(wpc, w, "wait", wpc')
      BY <1>0, <2>1, GoesIs, Zenon DEF TakesAgain
    <3> QED
      BY <2>1, <3>1, Aside, Zenon DEF TakesAgain
  <2>2. ASSUME TakesExit(w) PROVE Worked'
    <3>1. Goes(wpc, w, "none", wpc')
      BY <1>0, <2>2, GoesIs, Zenon DEF TakesExit, Exits
    <3> QED
      BY <2>2, <3>1, Aside DEF TakesExit
  <2>3. ASSUME TakesRequest(w) PROVE Worked'
    <3>3. request_list # <<>>
      BY <2>3 DEF TakesRequest, Supplied
    <3> QED
      BY <2>3, <3>3, TakeWork
  <2> QED
    BY <1>3, <2>1, <2>2, <2>3, TakeIs
<1>4. ASSUME NEW w \in Workers, WorkerDone(w) PROVE Worked'
  BY <1>4, DoneWork
<1>5. ASSUME NEW w \in Workers, WorkerFinish(w) PROVE Worked'
  <2>1. \E q \in {"none", "wait"} : wpc' = [wpc EXCEPT ![w] = q]
    BY <1>5 DEF WorkerFinish, Exits
  <2>2. PICK q \in {"none", "wait"} : Goes(wpc, w, q, wpc')
    BY <1>0, <2>1, GoesIs, Zenon
  <2>3. \A v \in Workers \ {w} : job'[v] = job[v]
    BY <1>5 DEF WorkerFinish, TypeOK
  <2> QED
    BY <1>5, <2>2, <2>3, Aside DEF WorkerFinish
<1>6. ASSUME UNCHANGED <<wpc, state, request_list, job>> PROVE Worked'
  BY <1>6, QuietWork DEF Steady
<1>7. CASE spawn_thread_bh_fn
  <2>1. Steady
    BY <1>7, BhSteady
  <2> QED
    BY <1>7, <2>1, QuietWork DEF spawn_thread_bh_fn
<1>8. CASE ScanTurn
  <2>1. UNCHANGED <<wpc, request_list, job>> /\ Innermost = "scan"
    BY <1>8, TurnIs
  <2>2. CASE UNCHANGED state
    BY <1>6, <2>1, <2>2
  <2>3. CASE TurnReleases
    <3>1. Head(Top.todo) \in Reqs /\ state[Head(Top.todo)] \notin {"active", "queued"}
      BY <2>1, <2>3, TurnFinds DEF TurnReleases, Finished
    <3> QED
      BY <2>1, <2>3, <3>1, Settled, Zenon DEF TurnReleases
  <2> QED
    BY <1>8, <2>2, <2>3, TurnIs DEF TurnEnds, TurnSkips, TurnCalls
<1>9. CASE CallbackReturns
  <2>1. /\ Innermost = "call" /\ UNCHANGED <<wpc, request_list, job>>
        /\ state' = [state EXCEPT ![Top.req] = "free"]
    BY <1>9 DEF CallbackReturns
  <2>2. Top.req \in Reqs /\ state[Top.req] \notin {"active", "queued"}
    BY <2>1, ReturnFinds
  <2> QED
    BY <2>1, <2>2, Settled, Zenon
<1>10. ASSUME NEW r \in Reqs, thread_pool_cancel(r) PROVE Worked'
  <2>1. CASE CancelSteals(r)
    BY <1>10, <2>1, CancelIs, StealWork, Zenon DEF CancelSteals
  <2>2. CASE CancelWaits(r)
    BY <1>6, <1>10, <2>2, CancelIs DEF CancelWaits
  <2> QED
    BY <1>10, <2>1, <2>2, CancelIs
<1>11. ASSUME NEW w \in Workers, WorkerStep(w) PROVE Worked'
  BY <1>1, <1>2, <1>3, <1>4, <1>5, <1>11 DEF WorkerStep
<1>12. CASE MainStep
  BY <1>6, <1>7, <1>8, <1>9, <1>12 DEF MainStep, SubmitPost, CancelWakes, FreeWakes,
     event_notifier_ready
<1> QED
  BY <1>6, <1>10, <1>11, <1>12, SubmitWork DEF Next, vars, thread_pool_free

----------------------------------------------------------------------------
(* One call waits, and nothing is left when the pool stops.                 *)

LEMMA MainNext ==
  ASSUME TypeOK, MainInv, [Next]_vars
  PROVE  MainInv'
<1>0. "run" \notin Reqs /\ "post" \notin Reqs /\ "free" \notin Reqs /\ "gone" \notin Reqs
  BY PoolAssumption
<1>1. ASSUME UNCHANGED <<main, stopping, pending_cancellations>>,
             stopping => UNCHANGED <<stack, head, new_threads, bh>>
      PROVE  MainInv'
  BY <1>1 DEF MainInv
<1>2. ASSUME NEW w \in Workers, WorkerStep(w) PROVE MainInv'
  <2>1. /\ UNCHANGED <<main, stopping, pending_cancellations, stack, head, bh>>
        /\ stopping => UNCHANGED new_threads
    BY <1>2, TakeIs, Zenon DEF WorkerStep, WorkerStart, SemTimedwait, WorkerDone, WorkerFinish, pool
  <2> QED
    BY <1>1, <2>1
<1>3. CASE SubmitPost
  BY <1>0, <1>3 DEF SubmitPost, MainInv, pool
<1>4. CASE CancelWakes
  <2>1. /\ main \in Reqs /\ UNCHANGED <<stopping, stack, head, new_threads, bh>>
        /\ \/ main' = "run" /\ pending_cancellations' = pending_cancellations - 1
           \/ UNCHANGED <<main, pending_cancellations>>
    BY <1>4 DEF CancelWakes, pool
  <2> QED
    BY <1>0, <2>1 DEF MainInv
<1>5. CASE FreeWakes
  <2>1. /\ main = "free" /\ main' \in {"free", "gone"}
        /\ UNCHANGED <<stopping, stack, head, new_threads, bh, pending_cancellations>>
    BY <1>5 DEF FreeWakes, pool
  <2> QED
    BY <1>0, <2>1 DEF MainInv
<1>6. CASE spawn_thread_bh_fn \/ event_notifier_ready \/ ScanTurn \/ CallbackReturns
  <2>1. main = "run" /\ UNCHANGED <<main, stopping, pending_cancellations>>
    BY <1>6, TurnIs DEF spawn_thread_bh_fn, event_notifier_ready, CallbackReturns, Polls
  <2>2. ~stopping
    BY <2>1 DEF MainInv
  <2> QED
    BY <1>1, <2>1, <2>2
<1>7. ASSUME NEW r \in Reqs, thread_pool_submit_aio(r) PROVE MainInv'
  <2>1. main = "run" /\ main' = "post" /\ UNCHANGED <<stopping, pending_cancellations>>
    BY <1>7 DEF thread_pool_submit_aio, UserCode
  <2> QED
    BY <1>0, <2>1 DEF MainInv
<1>8. ASSUME NEW r \in Reqs, thread_pool_cancel(r) PROVE MainInv'
  <2>1. /\ main = "run" /\ UNCHANGED stopping
        /\ \/ main' = r /\ pending_cancellations' = pending_cancellations + 1
           \/ UNCHANGED <<main, pending_cancellations>>
    BY <1>8, CancelIs, Zenon DEF UserCode, CancelSteals, CancelWaits
  <2>2. ~stopping /\ r \notin {"free", "gone"}
    BY <1>0, <2>1 DEF MainInv
  <2> QED
    BY <1>0, <2>1, <2>2 DEF MainInv
<1>9. CASE thread_pool_free
  <2>1. /\ main = "run" /\ stack = <<>> /\ head = <<>> /\ ~bh' /\ new_threads' = 0 /\ stopping'
        /\ main' \in {"free", "gone"} /\ UNCHANGED <<stack, head, pending_cancellations>>
    BY <1>9 DEF thread_pool_free
  <2> QED
    BY <1>0, <2>1 DEF MainInv
<1>10. CASE UNCHANGED vars
  BY <1>1, <1>10 DEF vars, pool
<1> QED
  BY <1>2, <1>3, <1>4, <1>5, <1>6, <1>7, <1>8, <1>9, <1>10 DEF Next, MainStep

----------------------------------------------------------------------------
(* The nested activities of the AioContext's thread.                        *)

Retodo(s, x) == [s EXCEPT ![Len(s)].todo = x]

LEMMA Replaced ==
  ASSUME NEW S, NEW s \in Seq(S), NEW n \in 1 .. Len(s), NEW v \in S
  PROVE  LET t == [s EXCEPT ![n] = v]
         IN  /\ t \in Seq(S) /\ Len(t) = Len(s) /\ t[n] = v
             /\ \A i \in 1 .. Len(s) : i # n => t[i] = s[i]
  OBVIOUS

LEMMA FrameRetodo ==
  ASSUME NEW f \in Frame, NEW x \in Seq(Reqs)
  PROVE  LET g == [f EXCEPT !.todo = x]
         IN  g \in Frame /\ g.at = f.at /\ g.req = f.req /\ g.todo = x
  BY DEF Frame

LEMMA RetodoIs ==
  ASSUME NEW s \in Seq(Frame), s # <<>>, NEW x \in Seq(Reqs)
  PROVE  LET t == Retodo(s, x)
         IN  /\ t \in Seq(Frame) /\ Len(t) = Len(s) /\ t # <<>>
             /\ \A i \in 1 .. Len(s) : t[i].at = s[i].at /\ t[i].req = s[i].req
             /\ \A i \in 1 .. Len(s) - 1 : t[i].todo = s[i].todo
             /\ t[Len(s)].todo = x
<1> DEFINE t == Retodo(s, x)
<1>1. Len(s) \in Nat /\ Len(s) > 0 /\ s[Len(s)] \in Frame
  OBVIOUS
<1>2. /\ t \in Seq(Frame) /\ Len(t) = Len(s)
      /\ \A i \in 1 .. Len(s) : i # Len(s) => t[i] = s[i]
      /\ t[Len(s)] = [s[Len(s)] EXCEPT !.todo = x]
  <2> DEFINE v == [s[Len(s)] EXCEPT !.todo = x]
  <2>1. v \in Frame /\ Len(s) \in 1 .. Len(s)
    BY <1>1, FrameRetodo
  <2>2. t = [s EXCEPT ![Len(s)] = v]
    BY DEF Retodo
  <2> HIDE DEF v
  <2>3. LET u == [s EXCEPT ![Len(s)] = v]
        IN  /\ u \in Seq(Frame) /\ Len(u) = Len(s) /\ u[Len(s)] = v
            /\ \A i \in 1 .. Len(s) : i # Len(s) => u[i] = s[i]
    BY <2>1, Replaced
  <2> QED
    BY <2>2, <2>3 DEF v
<1> HIDE DEF t
<1>3. t[Len(s)].at = s[Len(s)].at /\ t[Len(s)].req = s[Len(s)].req /\ t[Len(s)].todo = x
  BY <1>1, <1>2, FrameRetodo
<1>4. t # <<>>
  BY <1>1, <1>2
<1>5. \A i \in 1 .. Len(s) : t[i].at = s[i].at /\ t[i].req = s[i].req
  BY <1>2, <1>3, Zenon
<1>6. \A i \in 1 .. Len(s) - 1 : t[i].todo = s[i].todo
  BY <1>1, <1>2
<1> QED
  BY <1>2, <1>3, <1>4, <1>5, <1>6 DEF t

Pushed(s, f) == Append(s, f)

LEMMA PushedIs ==
  ASSUME NEW s \in Seq(Frame), NEW f \in Frame
  PROVE  LET t == Pushed(s, f)
         IN  /\ t \in Seq(Frame) /\ Len(t) = Len(s) + 1 /\ t # <<>>
             /\ \A i \in 1 .. Len(s) : t[i] = s[i]
             /\ t[Len(s) + 1] = f
  BY DEF Pushed

Popped(s) == SubSeq(s, 1, Len(s) - 1)

LEMMA PoppedIs ==
  ASSUME NEW s \in Seq(Frame), s # <<>>
  PROVE  LET t == Popped(s)
         IN  /\ t \in Seq(Frame) /\ Len(t) = Len(s) - 1
             /\ \A i \in 1 .. Len(s) - 1 : t[i] = s[i]
<1>1. Len(s) \in Nat /\ Len(s) > 0
  OBVIOUS
<1>2. Len(s) - 1 \in Nat /\ Len(s) - 1 <= Len(s)
  BY <1>1
<1>3. \A n \in Nat : n <= Len(s) => /\ SubSeq(s, 1, n) \in Seq(Frame) /\ Len(SubSeq(s, 1, n)) = n
                                    /\ \A i \in 1 .. n : SubSeq(s, 1, n)[i] = s[i]
  OBVIOUS
<1> QED
  BY <1>2, <1>3, Zenon DEF Popped

LEMMA NestedIs ==
  ASSUME TypeOK, Nested(stack, head, state), Seen
  PROVE  ScanPointersValid /\ FinishedIsSeen
<1>1. DOMAIN stack = 1 .. Len(stack)
  BY DEF TypeOK
<1>2. ScanPointersValid
  BY DEF Nested, ScanPointersValid, Innermost, Top
<1>3. FinishedIsSeen
  BY <1>1 DEF Seen, Reaches, FinishedIsSeen, At
<1> QED
  BY <1>2, <1>3

LEMMA FramesAre ==
  /\ \A h \in Seq(Reqs) : /\ Scan(h) \in Frame /\ Scan(h).at = "scan" /\ Scan(h).todo = h
  /\ \A r \in Reqs : /\ Callback(r) \in Frame /\ Callback(r).at = "call" /\ Callback(r).req = r
<1>1. <<>> \in Seq(Reqs)
  OBVIOUS
<1> QED
  BY <1>1 DEF Frame, Scan, Callback

\* event_notifier_ready begins.
LEMMA NestScan ==
  ASSUME NEW s \in Seq(Frame), NEW h \in Seq(Reqs), NEW st, Nested(s, h, st),
         s # <<>> => s[Len(s)].at = "call"
  PROVE  Nested(Pushed(s, Scan(h)), h, st)
<1> DEFINE t == Pushed(s, Scan(h))
<1>0. Len(s) \in Nat /\ (s = <<>> <=> Len(s) = 0)
  OBVIOUS
<1>1. /\ t \in Seq(Frame) /\ Len(t) = Len(s) + 1 /\ t # <<>>
      /\ \A i \in 1 .. Len(s) : t[i] = s[i]
      /\ t[Len(s) + 1] = Scan(h)
  BY PushedIs, FramesAre
<1>2. t[Len(t)].at = "scan" /\ t[Len(t)].todo = h
  BY <1>1, FramesAre
<1> HIDE DEF t
<1>3. t[1].at = "scan"
  BY <1>0, <1>1, <1>2 DEF Nested
<1>4. \A i \in 1 .. Len(t) - 1 : t[i].at # t[i + 1].at
  BY <1>0, <1>1, <1>2 DEF Nested
<1>5. \A i \in 1 .. Len(t) : t[i].at = "call" => i \in 1 .. Len(s) /\ t[i] = s[i]
  BY <1>0, <1>1, <1>2
<1>6. /\ \A i \in 1 .. Len(t) : t[i].at = "call" =>
           t[i].req \in Reqs /\ st[t[i].req] = "done" /\ t[i].req \notin Range(h)
      /\ \A i, j \in 1 .. Len(t) :
           t[i].at = "call" /\ t[j].at = "call" /\ t[i].req = t[j].req => i = j
  <2>1. ASSUME NEW i \in 1 .. Len(t), t[i].at = "call"
        PROVE  t[i].req \in Reqs /\ st[t[i].req] = "done" /\ t[i].req \notin Range(h)
    <3>1. i \in 1 .. Len(s) /\ t[i] = s[i] /\ s[i].at = "call"
      BY <1>5, <2>1, Zenon
    <3> QED
      BY <3>1 DEF Nested
  <2>2. ASSUME NEW i \in 1 .. Len(t), NEW j \in 1 .. Len(t), t[i].at = "call", t[j].at = "call",
               t[i].req = t[j].req
        PROVE  i = j
    <3>1. /\ i \in 1 .. Len(s) /\ t[i] = s[i] /\ s[i].at = "call"
          /\ j \in 1 .. Len(s) /\ t[j] = s[j] /\ s[j].at = "call"
      BY <1>5, <2>2, Zenon
    <3> QED
      BY <2>2, <3>1, Zenon DEF Nested
  <2> QED
    BY <2>1, <2>2
<1>7. Once(h) /\ \A r \in Range(h) : st[r] # "free"
  BY DEF Nested
<1> QED
  BY <1>2, <1>3, <1>4, <1>6, <1>7 DEF Nested, t

\* A turn of its loop ends it.
LEMMA NestEnd ==
  ASSUME NEW s \in Seq(Frame), s # <<>>, NEW h, NEW st, Nested(s, h, st),
         s[Len(s)].at = "scan"
  PROVE  Nested(Popped(s), h, st)
<1> DEFINE t == Popped(s)
<1>0. Len(s) \in Nat /\ Len(s) > 0
  OBVIOUS
<1>1. t \in Seq(Frame) /\ Len(t) = Len(s) - 1 /\ \A i \in 1 .. Len(s) - 1 : t[i] = s[i]
  BY PoppedIs
<1> HIDE DEF t
<1>2. t # <<>> => Len(t) > 0 /\ Len(s) > 1
  BY <1>0, <1>1
<1>3. t # <<>> => t[1].at = "scan"
  BY <1>0, <1>1, <1>2 DEF Nested
<1>4. \A i \in 1 .. Len(t) - 1 : t[i].at # t[i + 1].at
  BY <1>0, <1>1 DEF Nested
<1>5. \A i \in 1 .. Len(t) : i \in 1 .. Len(s) /\ t[i] = s[i]
  BY <1>0, <1>1
<1>6. t # <<>> => t[Len(t)].at # "scan"
  <2>1. ASSUME t # <<>> PROVE Len(t) \in 1 .. Len(s) - 1 /\ Len(t) + 1 = Len(s)
    BY <1>0, <1>1, <1>2, <2>1
  <2> QED
    BY <1>1, <2>1 DEF Nested
<1> QED
  BY <1>3, <1>4, <1>5, <1>6 DEF Nested, t

\* A turn takes the scan one request on, and may release that request.
LEMMA NestTurn ==
  ASSUME NEW s \in Seq(Frame), s # <<>>, NEW h, NEW k, NEW st, NEW st1, Nested(s, h, st),
         s[Len(s)].at = "scan", s[Len(s)].todo # <<>>,
         NEW r, r = Head(s[Len(s)].todo),
         \/ k = h /\ st1 = st
         \/ /\ Once(k) /\ Range(k) = Range(h) \ {r} /\ Range(h) \subseteq Reqs
            /\ \A x \in Reqs \ {r} : st1[x] = st[x]
  PROVE  Nested(Retodo(s, Tail(s[Len(s)].todo)), k, st1)
<1> DEFINE t == Retodo(s, Tail(s[Len(s)].todo))
           todo == s[Len(s)].todo
<1>0. Len(s) \in Nat /\ Len(s) > 0 /\ todo \in Seq(Reqs)
  <2>1. Len(s) \in Nat /\ Len(s) > 0 /\ s[Len(s)] \in Frame
    OBVIOUS
  <2> QED
    BY <2>1 DEF Frame
<1>1. /\ r \in Range(todo) /\ Tail(todo) \in Seq(Reqs) /\ Range(todo) = Range(Tail(todo)) \cup {r}
      /\ Once(todo) => Once(Tail(todo)) /\ r \notin Range(Tail(todo))
  BY <1>0, TailIs
<1>2. Once(todo) /\ Range(todo) \subseteq Range(h) /\ r \in Range(h)
  BY <1>1 DEF Nested
<1>3. /\ t \in Seq(Frame) /\ Len(t) = Len(s) /\ t # <<>>
      /\ \A i \in 1 .. Len(s) : t[i].at = s[i].at /\ t[i].req = s[i].req
      /\ t[Len(s)].todo = Tail(todo)
  BY <1>1, RetodoIs, Zenon
<1> HIDE DEF t, todo
<1>4. Once(k) /\ Range(Tail(todo)) \subseteq Range(k) /\ Range(k) \subseteq Range(h)
  BY <1>1, <1>2 DEF Nested
<1>5. \A x \in Range(k) : st1[x] # "free"
  BY <1>4 DEF Nested
<1>6. \A i \in 1 .. Len(s) : s[i].at = "call" =>
        s[i].req \in Reqs /\ st1[s[i].req] = "done" /\ s[i].req \notin Range(k)
  BY <1>2, <1>4 DEF Nested
<1>7. t[1].at = "scan" /\ \A i \in 1 .. Len(t) - 1 : t[i].at # t[i + 1].at
  BY <1>0, <1>3 DEF Nested
<1>8. \A i, j \in 1 .. Len(t) : t[i].at = "call" /\ t[j].at = "call" /\ t[i].req = t[j].req => i = j
  BY <1>3 DEF Nested
<1> QED
  BY <1>1, <1>2, <1>3, <1>4, <1>5, <1>6, <1>7, <1>8, Zenon DEF Nested, t

\* A callback begins; its request has been taken off the list.
LEMMA NestCall ==
  ASSUME NEW s \in Seq(Frame), s # <<>>, NEW h, NEW k, NEW st, Nested(s, h, st),
         s[Len(s)].at = "scan", NEW r \in Reqs, r \in Range(h), st[r] = "done",
         Once(k), Range(k) = Range(h) \ {r}
  PROVE  Nested(Pushed(s, Callback(r)), k, st)
<1> DEFINE t == Pushed(s, Callback(r))
<1>0. Len(s) \in Nat /\ Len(s) > 0
  OBVIOUS
<1>1. /\ t \in Seq(Frame) /\ Len(t) = Len(s) + 1 /\ t # <<>>
      /\ \A i \in 1 .. Len(s) : t[i] = s[i]
      /\ t[Len(s) + 1] = Callback(r)
  BY PushedIs, FramesAre
<1>2. t[Len(t)].at = "call" /\ t[Len(t)].req = r
  BY <1>1, FramesAre
<1> HIDE DEF t
<1>3. t[1].at = "scan"
  BY <1>0, <1>1 DEF Nested
<1>4. \A i \in 1 .. Len(t) - 1 : t[i].at # t[i + 1].at
  BY <1>0, <1>1, <1>2 DEF Nested
<1>5. \A i \in 1 .. Len(t) : i = Len(t) \/ (i \in 1 .. Len(s) /\ t[i] = s[i])
  BY <1>0, <1>1
<1>6. \A i \in 1 .. Len(s) : s[i].at = "call" =>
        s[i].req \in Reqs /\ st[s[i].req] = "done" /\ s[i].req \notin Range(h) /\ s[i].req # r
  BY DEF Nested
<1>7. \A i, j \in 1 .. Len(t) : t[i].at = "call" /\ t[j].at = "call" /\ t[i].req = t[j].req => i = j
  BY <1>2, <1>5, <1>6 DEF Nested
<1>8. \A i \in 1 .. Len(t) : t[i].at = "call" =>
        t[i].req \in Reqs /\ st[t[i].req] = "done" /\ t[i].req \notin Range(k)
  BY <1>2, <1>5, <1>6
<1>9. \A x \in Range(k) : st[x] # "free"
  BY DEF Nested
<1> QED
  BY <1>2, <1>3, <1>4, <1>7, <1>8, <1>9 DEF Nested, t

\* A callback returns: its request is released and the scan below starts again.
LEMMA NestReturn ==
  ASSUME NEW s \in Seq(Frame), s # <<>>, NEW h \in Seq(Reqs), NEW st, NEW st1, Nested(s, h, st),
         s[Len(s)].at = "call", \A x \in Reqs : x # s[Len(s)].req => st1[x] = st[x]
  PROVE  /\ Nested(Retodo(Popped(s), h), h, st1) /\ Popped(s) # <<>>
         /\ Popped(s)[Len(Popped(s))].at = "scan"
<1> DEFINE m == Popped(s)
           t == Retodo(m, h)
           r == s[Len(s)].req
<1>0. Len(s) \in Nat /\ Len(s) > 0 /\ Len(s) \in 1 .. Len(s)
  OBVIOUS
<1>1. Len(s) > 1
  BY <1>0 DEF Nested
<1>2. m \in Seq(Frame) /\ Len(m) = Len(s) - 1 /\ \A i \in 1 .. Len(s) - 1 : m[i] = s[i]
  BY PoppedIs, Zenon
<1> HIDE DEF m
<1>3. m # <<>> /\ Len(m) > 0 /\ Len(m) \in 1 .. Len(s) - 1 /\ Len(m) + 1 = Len(s)
  BY <1>0, <1>1, <1>2
<1>4. /\ t \in Seq(Frame) /\ Len(t) = Len(m) /\ t # <<>>
      /\ \A i \in 1 .. Len(m) : t[i].at = m[i].at /\ t[i].req = m[i].req
      /\ t[Len(m)].todo = h
  BY <1>2, <1>3, RetodoIs
<1> HIDE DEF t, r
<1>5. \A i \in 1 .. Len(t) : i \in 1 .. Len(s) /\ i # Len(s) /\ t[i].at = s[i].at /\ t[i].req = s[i].req
  <2>1. \A i \in 1 .. Len(m) : i \in 1 .. Len(s) /\ i # Len(s) /\ m[i] = s[i]
    <3>1. \A i \in 1 .. Len(s) - 1 : i \in 1 .. Len(s) /\ i # Len(s)
      BY <1>0
    <3> QED
      BY <1>2, <3>1
  <2> QED
    BY <1>4, <2>1, Zenon
<1>6. t[1].at = "scan" /\ \A i \in 1 .. Len(t) - 1 : t[i].at # t[i + 1].at
  <2>1. 1 \in 1 .. Len(t)
    BY <1>0, <1>2, <1>3, <1>4
  <2>2. \A i \in 1 .. Len(t) - 1 : i \in 1 .. Len(t) /\ i + 1 \in 1 .. Len(t) /\ i \in 1 .. Len(s) - 1
    BY <1>0, <1>2, <1>4
  <2>3. s[1].at = "scan" /\ \A i \in 1 .. Len(s) - 1 : s[i].at # s[i + 1].at
    BY DEF Nested
  <2> QED
    BY <1>5, <2>1, <2>2, <2>3, Zenon
<1>7. \A i \in 1 .. Len(t) : t[i].at = "call" => s[i].req # r
  BY <1>0, <1>5 DEF Nested, r
<1>8. \A i \in 1 .. Len(t) : t[i].at = "call" =>
        t[i].req \in Reqs /\ st1[t[i].req] = "done" /\ t[i].req \notin Range(h)
  BY <1>5, <1>7 DEF Nested, r
<1>9. \A i, j \in 1 .. Len(t) : t[i].at = "call" /\ t[j].at = "call" /\ t[i].req = t[j].req => i = j
  <2>1. \A i, j \in 1 .. Len(s) : s[i].at = "call" /\ s[j].at = "call" /\ s[i].req = s[j].req => i = j
    BY DEF Nested
  <2> QED
    BY <1>5, <2>1, Zenon
<1>10. Once(h) /\ \A x \in Range(h) : st1[x] # "free"
  <2>1. r \notin Range(h)
    BY <1>0 DEF Nested, r
  <2>2. \A x \in Range(h) : x \in Reqs
    BY RangeIs
  <2> QED
    BY <2>1, <2>2 DEF Nested, r
<1>11. m[Len(m)].at = "scan"
  <2>1. s[Len(m)].at # s[Len(m) + 1].at
    BY <1>3 DEF Nested
  <2>2. m[Len(m)] = s[Len(m)] /\ s[Len(m)].at \in {"scan", "call"}
    <3>1. s[Len(m)] \in Frame
      BY <1>0, <1>3
    <3> QED
      BY <1>2, <1>3, <3>1, Zenon DEF Frame
  <2> QED
    BY <1>3, <2>1, <2>2
<1>12. Nested(t, h, st1)
  BY <1>4, <1>6, <1>8, <1>9, <1>10 DEF Nested
<1> QED
  BY <1>3, <1>11, <1>12 DEF t, m

\* Requests that are not finished change their state.
LEMMA NestStates ==
  ASSUME NEW s, NEW h \in Seq(Reqs), NEW st, NEW st1, Nested(s, h, st),
         \A x \in Reqs : st1[x] = st[x] \/ (st[x] \in {"queued", "active"} /\ st1[x] # "free")
  PROVE  Nested(s, h, st1)
<1>1. \A x \in Range(h) : x \in Reqs
  BY RangeIs
<1>2. \A x \in Range(h) : st1[x] # "free"
  BY <1>1 DEF Nested
<1>3. \A i \in 1 .. Len(s) : s[i].at = "call" => st1[s[i].req] = "done"
  BY DEF Nested
<1> QED
  BY <1>2, <1>3, Zenon DEF Nested

\* A request is submitted by the main loop or by a callback.
LEMMA NestSubmit ==
  ASSUME NEW s, NEW h \in Seq(Reqs), NEW st, NEW st1, Nested(s, h, st),
         s = <<>> \/ s[Len(s)].at # "scan", NEW r \in Reqs, st[r] = "free", st1[r] # "free",
         \A x \in Reqs \ {r} : st1[x] = st[x]
  PROVE  Nested(s, Headed(h, r), st1)
<1>1. \A x \in Range(h) : x \in Reqs
  BY RangeIs
<1>2. r \notin Range(h) /\ Once(h)
  BY DEF Nested
<1>3. Range(Headed(h, r)) = Range(h) \cup {r} /\ Once(Headed(h, r))
  BY <1>2, AtHead
<1>4. \A x \in Range(Headed(h, r)) : st1[x] # "free"
  BY <1>1, <1>3 DEF Nested
<1>5. \A i \in 1 .. Len(s) : s[i].at = "call" =>
        s[i].req \in Reqs /\ st1[s[i].req] = "done" /\ s[i].req \notin Range(Headed(h, r))
  BY <1>3 DEF Nested
<1> QED
  BY <1>3, <1>4, <1>5, Zenon DEF Nested

\* The steps of the AioContext's thread on the stack, in these operators.
LEMMA StacksAre ==
  /\ Outer = Popped(stack)
  /\ Rest = Retodo(stack, Tail(Top.todo))
  /\ \A s : Restarted(s) = Retodo(s, head)
  /\ \A f : Append(stack, f) = Pushed(stack, f)
  BY DEF Outer, Popped, Rest, Retodo, Restarted, Pushed

LEMMA TurnNest ==
  ASSUME TypeOK, Nested(stack, head, state), ScanTurn
  PROVE  Nested(stack', head', state')
<1>0. stack \in Seq(Frame) /\ head \in Seq(Reqs)
  BY StackTypes
<1>1. stack # <<>> /\ stack[Len(stack)].at = "scan" /\ Innermost = "scan"
  BY TurnIs, TopIs DEF Innermost, Top
<1>2. Once(head) /\ \A x \in Range(head) : x \in Reqs
  BY <1>0, RangeIs DEF Nested
<1>3. CASE TurnEnds
  <2>1. Nested(Popped(stack), head, state)
    BY <1>0, <1>1, NestEnd
  <2> QED
    BY <1>3, <2>1, StacksAre DEF TurnEnds
<1>4. CASE TurnSkips
  <2>1. stack[Len(stack)].todo # <<>>
    BY <1>4 DEF TurnSkips, Top
  <2>2. Nested(Retodo(stack, Tail(stack[Len(stack)].todo)), head, state)
    BY <1>0, <1>1, <2>1, NestTurn, Zenon
  <2> QED
    BY <1>4, <2>2, StacksAre DEF TurnSkips, Top
<1>5. CASE TurnCalls
  <2>1. Head(Top.todo) \in Reqs /\ Head(Top.todo) \in Range(head) /\ state[Head(Top.todo)] = "done"
    BY <1>1, <1>5, TurnFinds DEF TurnCalls
  <2> DEFINE r == Head(Top.todo)
             k == Unlink(head, r)
  <2>2. Once(k) /\ Range(k) = Range(head) \ {r}
    BY <1>0, <1>2, <2>1, Unlinked
  <2>3. stack' = Pushed(stack, Callback(r)) /\ head' = k /\ state' = state
    BY <1>5, StacksAre DEF TurnCalls
  <2> HIDE DEF k, r
  <2>4. r \in Reqs /\ r \in Range(head) /\ state[r] = "done"
    BY <2>1 DEF r
  <2>5. Nested(Pushed(stack, Callback(r)), k, state)
    BY <1>0, <1>1, <2>2, <2>4, NestCall
  <2> QED
    BY <2>3, <2>5
<1>6. CASE TurnReleases
  <2>1. /\ Head(Top.todo) \in Reqs /\ Head(Top.todo) \in Range(head)
        /\ stack[Len(stack)].todo # <<>>
    BY <1>1, <1>6, TurnFinds DEF TurnReleases, Top
  <2> DEFINE r == Head(Top.todo)
             k == Unlink(head, r)
  <2>2. Once(k) /\ Range(k) = Range(head) \ {r}
    BY <1>0, <1>2, <2>1, Unlinked
  <2>3. /\ stack' = Retodo(stack, Tail(stack[Len(stack)].todo)) /\ head' = k
        /\ state' = [state EXCEPT ![r] = "free"] /\ r = Head(stack[Len(stack)].todo)
    BY <1>6, StacksAre DEF TurnReleases, Top
  <2> HIDE DEF k, r
  <2>4. \A x \in Reqs \ {r} : state'[x] = state[x]
    BY <2>3 DEF TypeOK
  <2>5. Range(head) \subseteq Reqs /\ r = Head(stack[Len(stack)].todo)
    BY <1>2, <2>3
  <2>6. Nested(Retodo(stack, Tail(stack[Len(stack)].todo)), k, state')
    BY <1>0, <1>1, <2>1, <2>2, <2>4, <2>5, NestTurn, Zenon
  <2> QED
    BY <2>3, <2>6
<1> QED
  BY <1>3, <1>4, <1>5, <1>6, TurnIs

LEMMA NestNext ==
  ASSUME TypeOK, Supplied, Worked, Nested(stack, head, state), [Next]_vars
  PROVE  Nested(stack', head', state')
<1>0. stack \in Seq(Frame) /\ head \in Seq(Reqs) /\ DOMAIN state = Reqs
  BY StackTypes DEF TypeOK
<1>1. ASSUME UNCHANGED <<stack, head, state>> PROVE Nested(stack', head', state')
  BY <1>1
<1>2. ASSUME UNCHANGED <<stack, head>>, NEW r \in Reqs, state[r] \in {"queued", "active"},
             NEW q, q # "free", state' = [state EXCEPT ![r] = q]
      PROVE  Nested(stack', head', state')
  <2>1. \A x \in Reqs : state'[x] = state[x] \/ (state[x] \in {"queued", "active"} /\ state'[x] # "free")
    BY <1>0, <1>2
  <2>2. Nested(stack, head, state')
    BY <1>0, <2>1, NestStates
  <2> QED
    BY <1>2, <2>2
<1>3. ASSUME NEW w \in Workers, WorkerTake(w) PROVE Nested(stack', head', state')
  <2>1. UNCHANGED <<stack, head>>
    BY <1>3, TakeIs
  <2>2. CASE TakesRequest(w)
    <3>3. request_list # <<>>
      BY <2>2 DEF TakesRequest, Supplied
    <3>4. Head(request_list) \in Reqs /\ state[Head(request_list)] = "queued"
      BY <2>2, <3>3, TakeWork
    <3> QED
      BY <1>2, <2>1, <2>2, <3>4, Zenon DEF TakesRequest
  <2> QED
    BY <1>1, <1>3, <2>1, <2>2, TakeIs DEF TakesAgain, TakesExit
<1>4. ASSUME NEW w \in Workers, WorkerDone(w) PROVE Nested(stack', head', state')
  <2>1. job[w] \in Reqs /\ state[job[w]] = "active"
    BY <1>4, DoneWork
  <2> QED
    BY <1>2, <1>4, <2>1, Zenon DEF WorkerDone
<1>5. ASSUME NEW w \in Workers, WorkerStep(w) PROVE Nested(stack', head', state')
  BY <1>1, <1>3, <1>4, <1>5 DEF WorkerStep, WorkerStart, SemTimedwait, WorkerFinish
<1>6. ASSUME NEW r \in Reqs, thread_pool_cancel(r) PROVE Nested(stack', head', state')
  <2>1. UNCHANGED <<stack, head>>
    BY <1>6, CancelIs
  <2>2. CASE CancelSteals(r)
    BY <1>2, <2>1, <2>2, Zenon DEF CancelSteals
  <2>3. CASE CancelWaits(r)
    BY <1>1, <2>1, <2>3 DEF CancelWaits
  <2> QED
    BY <1>6, <2>2, <2>3, CancelIs
<1>7. ASSUME NEW r \in Reqs, thread_pool_submit_aio(r) PROVE Nested(stack', head', state')
  <2>1. /\ UNCHANGED stack /\ head' = Headed(head, r) /\ state[r] = "free"
        /\ state' = [state EXCEPT ![r] = "queued"] /\ Innermost # "scan"
    BY <1>7 DEF thread_pool_submit_aio, Headed, UserCode
  <2>2. stack = <<>> \/ stack[Len(stack)].at # "scan"
    BY <2>1 DEF Innermost, Top
  <2>3. state'[r] # "free" /\ \A x \in Reqs \ {r} : state'[x] = state[x]
    BY <1>0, <2>1
  <2>4. head \in Seq(Reqs) /\ state[r] = "free"
    BY <1>0, <2>1
  <2>5. Nested(stack, Headed(head, r), state')
    BY <2>2, <2>3, <2>4, NestSubmit, Zenon
  <2> QED
    BY <2>1, <2>5
<1>8. CASE event_notifier_ready
  <2>1. stack' = Pushed(stack, Scan(head)) /\ UNCHANGED <<head, state>> /\ Innermost # "scan"
    BY <1>8, StacksAre DEF event_notifier_ready, Polls
  <2>2. stack # <<>> => stack[Len(stack)].at = "call"
    BY <2>1, TopIs DEF Top
  <2>3. Nested(Pushed(stack, Scan(head)), head, state)
    BY <1>0, <2>2, NestScan
  <2> QED
    BY <2>1, <2>3
<1>9. CASE ScanTurn
  BY <1>9, TurnNest
<1>10. CASE CallbackReturns
  <2>1. /\ Innermost = "call" /\ stack' = Retodo(Popped(stack), head) /\ UNCHANGED head
        /\ state' = [state EXCEPT ![Top.req] = "free"]
    BY <1>10, StacksAre DEF CallbackReturns
  <2>2. stack # <<>> /\ stack[Len(stack)].at = "call"
    BY <2>1, TopIs DEF Innermost, Top
  <2>3. \A x \in Reqs : x # stack[Len(stack)].req => state'[x] = state[x]
    BY <1>0, <2>1 DEF Top
  <2>4. Nested(Retodo(Popped(stack), head), head, state')
    BY <1>0, <2>2, <2>3, NestReturn
  <2> QED
    BY <2>1, <2>4
<1>11. CASE MainStep
  BY <1>1, <1>8, <1>9, <1>10, <1>11 DEF MainStep, SubmitPost, CancelWakes, FreeWakes,
     spawn_thread_bh_fn
<1> QED
  BY <1>1, <1>5, <1>6, <1>7, <1>11 DEF Next, vars, thread_pool_free

----------------------------------------------------------------------------
(* A request that finished is seen.                                         *)

LEMMA ReachTop ==
  ASSUME NEW s \in Seq(Frame), s # <<>>, s[Len(s)].at = "scan", NEW r, r \in Range(s[Len(s)].todo)
  PROVE  Reaches(s, r)
<1>1. Len(s) \in 1 .. Len(s)
  OBVIOUS
<1> QED
  BY <1>1 DEF Reaches

LEMMA ReachBelow ==
  ASSUME NEW s \in Seq(Frame), s # <<>>, s[Len(s)].at = "scan", NEW f \in Frame, NEW r
  PROVE  Reaches(Pushed(s, f), r)
<1> DEFINE t == Pushed(s, f)
<1>1. Len(s) \in 1 .. Len(s) /\ Len(s) \in Nat
  OBVIOUS
<1>2. Len(t) = Len(s) + 1 /\ t[Len(s)] = s[Len(s)]
  BY <1>1, PushedIs
<1> HIDE DEF t
<1>3. Len(s) \in 1 .. Len(t) /\ Len(s) < Len(t) /\ t[Len(s)].at = "scan"
  BY <1>1, <1>2
<1>4. Reaches(t, r)
  BY <1>3 DEF Reaches
<1> QED
  BY <1>4 DEF t

LEMMA ReachEnd ==
  ASSUME NEW s \in Seq(Frame), s # <<>>, s[Len(s)].at = "scan", s[Len(s)].todo = <<>>,
         \A i \in 1 .. Len(s) - 1 : s[i].at # s[i + 1].at, NEW r, Reaches(s, r)
  PROVE  Reaches(Popped(s), r)
<1> DEFINE t == Popped(s)
<1>0. Len(s) \in Nat /\ Len(s) > 0
  OBVIOUS
<1>1. Len(t) = Len(s) - 1 /\ \A i \in 1 .. Len(s) - 1 : t[i] = s[i]
  BY PoppedIs
<1> HIDE DEF t
<1>2. PICK i \in 1 .. Len(s) : s[i].at = "scan" /\ (r \in Range(s[i].todo) \/ i < Len(s))
  BY DEF Reaches
<1>3. Range(<<>>) = {}
  BY DEF Range
<1>4. i # Len(s)
  BY <1>0, <1>2, <1>3
<1>5. i # Len(s) - 1
  <2>1. ASSUME i = Len(s) - 1 PROVE FALSE
    <3>1. i \in 1 .. Len(s) - 1 /\ i + 1 = Len(s)
      BY <1>0, <2>1
    <3>2. s[i].at # s[i + 1].at
      BY <3>1
    <3> QED
      BY <1>2, <3>1, <3>2
  <2> QED
    BY <2>1
<1>6. i \in 1 .. Len(t) /\ i < Len(t) /\ t[i].at = "scan"
  BY <1>0, <1>1, <1>2, <1>4, <1>5
<1>7. Reaches(t, r)
  BY <1>6 DEF Reaches
<1> QED
  BY <1>7 DEF t

LEMMA ReachOn ==
  ASSUME NEW s \in Seq(Frame), s # <<>>, NEW x \in Seq(Reqs), NEW r, Reaches(s, r),
         r \in Range(s[Len(s)].todo) => r \in Range(x)
  PROVE  Reaches(Retodo(s, x), r)
<1> DEFINE t == Retodo(s, x)
<1>0. Len(s) \in Nat /\ Len(s) > 0
  OBVIOUS
<1>1. /\ Len(t) = Len(s) /\ t[Len(s)].todo = x
      /\ \A i \in 1 .. Len(s) : t[i].at = s[i].at
  BY RetodoIs
<1> HIDE DEF t
<1>2. PICK i \in 1 .. Len(s) : s[i].at = "scan" /\ (r \in Range(s[i].todo) \/ i < Len(s))
  BY DEF Reaches
<1>3. i \in 1 .. Len(t) /\ t[i].at = "scan"
  BY <1>1, <1>2, Zenon
<1>4. i < Len(t) \/ (i = Len(s) /\ r \in Range(s[Len(s)].todo))
  <2>1. i < Len(s) \/ i = Len(s)
    BY <1>0
  <2>2. i = Len(s) => r \in Range(s[Len(s)].todo)
    BY <1>0, <1>2
  <2> QED
    BY <1>1, <2>1, <2>2
<1>5. i < Len(t) \/ r \in Range(t[i].todo)
  BY <1>1, <1>4
<1>6. Reaches(t, r)
  BY <1>3, <1>5 DEF Reaches
<1> QED
  BY <1>6 DEF t

Carried(r) == \E w \in Workers : wpc[w] = "done" /\ job[w] = r

LEMMA QuietSeen ==
  ASSUME Seen, UNCHANGED <<head, stack>>, notifier => notifier',
         \A r \in Range(head) : Finished(r)' => Finished(r) \/ notifier' \/ Carried(r)',
         notifier' \/ \A w \in Workers : wpc[w] = "done" => wpc'[w] = "done" /\ job'[w] = job[w]
  PROVE  Seen'
<1> SUFFICES ASSUME NEW r \in Range(head), Finished(r)', ~notifier', ~Carried(r)'
             PROVE  Reaches(stack, r)
  BY DEF Seen, Carried
<1>1. Finished(r) /\ ~notifier
  OBVIOUS
<1>2. ~Carried(r)
  BY Zenon DEF Carried
<1> QED
  BY <1>1, <1>2 DEF Seen, Carried

LEMMA TurnSeen ==
  ASSUME TypeOK, Nested(stack, head, state), Seen, ScanTurn
  PROVE  Seen'
<1>0. stack \in Seq(Frame) /\ head \in Seq(Reqs)
  BY StackTypes
<1>1. stack # <<>> /\ stack[Len(stack)].at = "scan" /\ Innermost = "scan"
  BY TurnIs, TopIs DEF Innermost, Top
<1>2. UNCHANGED <<notifier, wpc, job>>
  BY TurnIs
<1>3. Top.todo \in Seq(Reqs) /\ Once(head)
  BY <1>1, TopIs DEF Nested
<1>4. CASE TurnEnds
  <2>1. stack' = Popped(stack) /\ UNCHANGED <<head, state>> /\ stack[Len(stack)].todo = <<>>
    BY <1>4, StacksAre DEF TurnEnds, Top
  <2>2. \A i \in 1 .. Len(stack) - 1 : stack[i].at # stack[i + 1].at
    BY DEF Nested
  <2>3. stack[Len(stack)].todo = <<>>
    BY <2>1
  <2>4. \A r : Reaches(stack, r) => Reaches(Popped(stack), r)
    BY <1>0, <1>1, <2>2, <2>3, ReachEnd, Zenon
  <2> QED
    BY <1>2, <2>1, <2>4 DEF Seen, Finished
<1>5. CASE TurnCalls
  <2>1. Head(Top.todo) \in Reqs /\ Head(Top.todo) \in Range(head)
    BY <1>1, <1>5, TurnFinds DEF TurnCalls
  <2>2. Callback(Head(Top.todo)) \in Frame
    BY <2>1, FramesAre
  <2>3. \A r : Reaches(Pushed(stack, Callback(Head(Top.todo))), r)
    BY <1>0, <1>1, <2>2, ReachBelow
  <2>4. stack' = Pushed(stack, Callback(Head(Top.todo)))
    BY <1>5, StacksAre, Zenon DEF TurnCalls
  <2> QED
    BY <2>3, <2>4 DEF Seen
<1>6. CASE TurnSkips \/ TurnReleases
  <2>1. Top.todo # <<>> /\ stack' = Retodo(stack, Tail(Top.todo))
    BY <1>6, StacksAre DEF TurnSkips, TurnReleases
  <2>2. Head(Top.todo) \in Reqs /\ Head(Top.todo) \in Range(head)
    BY <1>1, <2>1, TurnFinds
  <2>3. /\ Range(Top.todo) = Range(Tail(Top.todo)) \cup {Head(Top.todo)}
        /\ Tail(Top.todo) \in Seq(Reqs)
    BY <1>3, <2>1, TailIs
  <2>4. ASSUME NEW r \in Range(head'), Finished(r)'
        PROVE  r \in Range(head) /\ Finished(r) /\ r # Head(Top.todo)
    <3>1. CASE TurnSkips
      BY <2>4, <3>1 DEF TurnSkips, Finished
    <3>2. CASE TurnReleases
      <4>1. Range(head') = Range(head) \ {Head(Top.todo)}
        <5>1. Range(Unlink(head, Head(Top.todo))) = Range(head) \ {Head(Top.todo)}
          BY <1>0, <1>3, <2>2, Unlinked
        <5> QED
          BY <3>2, <5>1 DEF TurnReleases
      <4>2. r \in Range(head) /\ r # Head(Top.todo)
        BY <2>4, <4>1
      <4>3. state'[r] = state[r]
        BY <3>2, <4>2 DEF TurnReleases, TypeOK
      <4> QED
        BY <2>4, <4>2, <4>3 DEF Finished
    <3> QED
      BY <1>6, <3>1, <3>2
  <2>5. ASSUME NEW r, r # Head(Top.todo), Reaches(stack, r)
        PROVE  Reaches(Retodo(stack, Tail(Top.todo)), r)
    <3>1. r \in Range(stack[Len(stack)].todo) => r \in Range(Tail(Top.todo))
      BY <2>3, <2>5 DEF Top
    <3> QED
      BY <1>0, <1>1, <2>3, <2>5, <3>1, ReachOn, Zenon
  <2> QED
    BY <1>2, <2>1, <2>4, <2>5, Zenon DEF Seen
<1> QED
  BY <1>4, <1>5, <1>6, TurnIs

LEMMA StepSeen ==
  ASSUME TypeOK, Supplied, Worked, Seen, NEW w \in Workers, WorkerStep(w)
  PROVE  Seen'
<1>0. DOMAIN state = Reqs /\ DOMAIN job = Workers /\ DOMAIN wpc = Workers
  BY DEF TypeOK
<1>1. ASSUME UNCHANGED <<head, stack, notifier, state, job>>, Steady PROVE Seen'
  <2>1. \A v \in Workers : wpc[v] = "done" => wpc'[v] = "done" /\ job'[v] = job[v]
    BY <1>1, Zenon DEF Steady
  <2>2. \A r \in Range(head) : Finished(r)' => Finished(r)
    BY <1>1 DEF Finished
  <2> QED
    BY <1>1, <2>1, <2>2, QuietSeen
<1>2. CASE WorkerStart(w)
  BY <1>1, <1>2, StartSteady DEF WorkerStart
<1>3. CASE SemTimedwait(w)
  <2>1. Steady
    BY <1>0, <1>3 DEF SemTimedwait, Steady
  <2> QED
    BY <1>1, <1>3, <2>1 DEF SemTimedwait
<1>4. CASE WorkerTake(w)
  <2>1. UNCHANGED <<head, stack, notifier>> /\ wpc[w] \in {"got", "late"}
    BY <1>4, TakeIs
  <2>2. CASE TakesAgain(w) \/ TakesExit(w)
    <3>1. Steady
      BY <1>0, <2>1, <2>2 DEF TakesAgain, TakesExit, Exits, Steady
    <3> QED
      BY <1>1, <2>1, <2>2, <3>1 DEF TakesAgain, TakesExit
  <2>3. CASE TakesRequest(w)
    <3>1. \A v \in Workers : wpc[v] = "done" => wpc'[v] = "done" /\ job'[v] = job[v]
      BY <1>0, <2>1, <2>3 DEF TakesRequest
    <3>2. \A r \in Reqs : Finished(r)' => Finished(r)
      BY <1>0, <2>3 DEF TakesRequest, Finished
    <3>3. Range(head) \subseteq Reqs
      BY StackTypes, RangeIs
    <3> QED
      BY <2>1, <3>1, <3>2, <3>3, QuietSeen, Zenon
  <2> QED
    BY <1>4, <2>2, <2>3, TakeIs
<1>5. CASE WorkerDone(w)
  <2>1. UNCHANGED <<head, stack, notifier, job>> /\ wpc[w] = "work" /\ wpc'[w] = "done"
    BY <1>0, <1>5 DEF WorkerDone
  <2>2. \A v \in Workers : wpc[v] = "done" => wpc'[v] = "done"
    BY <1>0, <1>5 DEF WorkerDone
  <2>3. \A r \in Reqs : Finished(r)' => Finished(r) \/ r = job[w]
    BY <1>0, <1>5 DEF WorkerDone, Finished
  <2>4. \A r \in Reqs : r = job[w] => Carried(r)'
    BY <2>1 DEF Carried
  <2>5. Range(head) \subseteq Reqs
    BY StackTypes, RangeIs
  <2>6. \A r \in Range(head) : Finished(r)' => Finished(r) \/ notifier' \/ Carried(r)'
    BY <2>3, <2>4, <2>5
  <2>7. \A v \in Workers : wpc[v] = "done" => wpc'[v] = "done" /\ job'[v] = job[v]
    BY <2>1, <2>2
  <2> QED
    BY <2>1, <2>6, <2>7, QuietSeen, Zenon
<1>6. CASE WorkerFinish(w)
  <2>1. UNCHANGED <<head, stack>> /\ notifier'
    BY <1>6 DEF WorkerFinish, Notify
  <2> QED
    BY <2>1 DEF Seen
<1> QED
  BY <1>2, <1>3, <1>4, <1>5, <1>6 DEF WorkerStep

LEMMA SeenNext ==
  ASSUME TypeOK, Supplied, Worked, Nested(stack, head, state), Seen, [Next]_vars
  PROVE  Seen'
<1>0. stack \in Seq(Frame) /\ head \in Seq(Reqs) /\ DOMAIN state = Reqs
  BY StackTypes DEF TypeOK
<1>1. ASSUME UNCHANGED <<head, stack, notifier, state, wpc, job>> PROVE Seen'
  BY <1>1 DEF Seen, Finished
<1>2. ASSUME NEW r \in Reqs, thread_pool_cancel(r) PROVE Seen'
  <2>1. UNCHANGED <<head, stack, wpc, job>>
    BY <1>2, CancelIs
  <2>2. CASE CancelSteals(r)
    BY <2>1, <2>2 DEF CancelSteals, Seen
  <2>3. CASE CancelWaits(r)
    BY <1>1, <2>1, <2>3 DEF CancelWaits
  <2> QED
    BY <1>2, <2>2, <2>3, CancelIs
<1>3. ASSUME NEW r \in Reqs, thread_pool_submit_aio(r) PROVE Seen'
  <2>1. /\ UNCHANGED <<stack, notifier, wpc, job>> /\ head' = Headed(head, r)
        /\ state' = [state EXCEPT ![r] = "queued"]
    BY <1>3 DEF thread_pool_submit_aio, Headed
  <2>2. Range(Headed(head, r)) = Range(head) \cup {r}
    BY <1>0, AtHead
  <2>3. ~Finished(r)' /\ \A x \in Reqs \ {r} : Finished(x)' => Finished(x)
    BY <1>0, <2>1 DEF Finished
  <2>4. Range(head) \subseteq Reqs
    BY <1>0, RangeIs
  <2>5. \A x \in Range(head') : Finished(x)' => x \in Range(head) /\ Finished(x)
    BY <2>1, <2>2, <2>3, <2>4
  <2> QED
    BY <2>1, <2>5, Zenon DEF Seen
<1>4. CASE spawn_thread_bh_fn
  <2>1. UNCHANGED <<head, stack, notifier, state, job>> /\ Steady
    BY <1>4, BhSteady, Zenon DEF spawn_thread_bh_fn
  <2>2. \A v \in Workers : wpc[v] = "done" => wpc'[v] = "done" /\ job'[v] = job[v]
    BY <2>1, Zenon DEF Steady
  <2>3. \A r \in Range(head) : Finished(r)' => Finished(r)
    BY <2>1 DEF Finished
  <2> QED
    BY <2>1, <2>2, <2>3, QuietSeen
<1>5. CASE event_notifier_ready
  <2>1. stack' = Pushed(stack, Scan(head)) /\ UNCHANGED head
    BY <1>5, StacksAre DEF event_notifier_ready
  <2>2. ASSUME NEW r \in Range(head) PROVE Reaches(Pushed(stack, Scan(head)), r)
    <3> DEFINE t == Pushed(stack, Scan(head))
    <3>1. Scan(head) \in Frame /\ Scan(head).at = "scan" /\ Scan(head).todo = head
      BY <1>0, FramesAre, Zenon
    <3>2. t \in Seq(Frame) /\ t # <<>> /\ Len(t) = Len(stack) + 1 /\ t[Len(stack) + 1] = Scan(head)
      BY <1>0, <3>1, PushedIs
    <3> HIDE DEF t
    <3>3. t[Len(t)].at = "scan" /\ r \in Range(t[Len(t)].todo)
      BY <3>1, <3>2
    <3>4. Reaches(t, r)
      BY <3>2, <3>3, ReachTop
    <3> QED
      BY <3>4 DEF t
  <2> QED
    BY <2>1, <2>2, Zenon DEF Seen
<1>6. CASE CallbackReturns
  <2>1. Innermost = "call" /\ stack' = Retodo(Popped(stack), head) /\ UNCHANGED head
    BY <1>6, StacksAre DEF CallbackReturns
  <2>2. stack # <<>> /\ stack[Len(stack)].at = "call"
    BY <2>1, TopIs DEF Innermost, Top
  <2>3. Popped(stack) # <<>> /\ Popped(stack)[Len(Popped(stack))].at = "scan"
    BY <1>0, <2>2, NestReturn, Zenon
  <2>4. Popped(stack) \in Seq(Frame)
    BY <1>0, <2>2, PoppedIs
  <2>5. ASSUME NEW r \in Range(head) PROVE Reaches(Retodo(Popped(stack), head), r)
    <3> DEFINE b == Popped(stack)
               t == Retodo(b, head)
    <3> HIDE DEF b
    <3>1. b \in Seq(Frame) /\ b # <<>> /\ b[Len(b)].at = "scan"
      BY <2>3, <2>4 DEF b
    <3>2. /\ t \in Seq(Frame) /\ Len(t) = Len(b) /\ t # <<>> /\ t[Len(b)].todo = head
          /\ \A i \in 1 .. Len(b) : t[i].at = b[i].at
      BY <1>0, <3>1, RetodoIs
    <3> HIDE DEF t
    <3>3. t[Len(t)].at = "scan" /\ r \in Range(t[Len(t)].todo)
      BY <3>1, <3>2
    <3>4. Reaches(t, r)
      BY <3>2, <3>3, ReachTop
    <3> QED
      BY <3>4 DEF t, b
  <2> QED
    BY <2>1, <2>5 DEF Seen
<1>7. CASE MainStep
  BY <1>1, <1>4, <1>5, <1>6, <1>7, TurnSeen DEF MainStep, SubmitPost, CancelWakes, FreeWakes
<1> QED
  BY <1>1, <1>2, <1>3, <1>7, StepSeen DEF Next, vars, thread_pool_free

----------------------------------------------------------------------------
(* Types.                                                                   *)

LEMMA PlacesNext ==
  ASSUME TypeOK, Supplied, [Next]_vars
  PROVE  wpc' \in [Workers -> Places] /\ new_threads' \in Nat /\ sem' \in Nat
<1>0. /\ wpc \in [Workers -> Places] /\ new_threads \in Nat /\ sem \in Nat
      /\ {"none", "wait", "got", "late", "work", "done"} \subseteq Places
  BY Naturals DEF Places
<1>1. ASSUME NEW w \in Workers, NEW q \in Places, wpc' = [wpc EXCEPT ![w] = q]
      PROVE  wpc' \in [Workers -> Places]
  BY <1>0, <1>1
<1>2. ASSUME NEW w \in Workers, WorkerStep(w)
      PROVE  wpc' \in [Workers -> Places] /\ new_threads' \in Nat /\ sem' \in Nat
  <2>1. CASE WorkerStart(w)
    BY <1>0, <2>1, StartSteady, Zenon DEF WorkerStart
  <2>2. CASE SemTimedwait(w)
    BY <1>0, <1>1, <2>2 DEF SemTimedwait, pool
  <2>3. CASE WorkerTake(w)
    BY <1>0, <1>1, <2>3, TakeIs DEF TakesAgain, TakesExit, Exits, TakesRequest
  <2>4. CASE WorkerDone(w)
    BY <1>0, <1>1, <2>4 DEF WorkerDone, pool
  <2>5. CASE WorkerFinish(w)
    BY <1>0, <1>1, <2>5 DEF WorkerFinish, Exits
  <2> QED
    BY <1>2, <2>1, <2>2, <2>3, <2>4, <2>5 DEF WorkerStep
<1>3. ASSUME NEW r \in Reqs, thread_pool_cancel(r)
      PROVE  wpc' \in [Workers -> Places] /\ new_threads' \in Nat /\ sem' \in Nat
  <2>1. UNCHANGED <<pool, wpc>>
    BY <1>3, CancelIs
  <2>2. sem' \in Nat
    <3>1. CASE CancelSteals(r)
      BY <1>0, <3>1 DEF CancelSteals
    <3>2. CASE CancelWaits(r)
      BY <1>0, <3>2 DEF CancelWaits
    <3> QED
      BY <1>3, <3>1, <3>2, CancelIs
  <2> QED
    BY <1>0, <2>1, <2>2 DEF pool
<1>4. ASSUME NEW r \in Reqs, thread_pool_submit_aio(r)
      PROVE  wpc' \in [Workers -> Places] /\ new_threads' \in Nat /\ sem' \in Nat
  BY <1>0, <1>4 DEF thread_pool_submit_aio
<1>5. CASE MainStep
  <2>1. CASE spawn_thread_bh_fn
    BY <1>0, <2>1, BhSteady, Zenon DEF spawn_thread_bh_fn
  <2>2. CASE SubmitPost \/ CancelWakes \/ FreeWakes \/ event_notifier_ready \/ CallbackReturns
    BY <1>0, <2>2 DEF SubmitPost, CancelWakes, FreeWakes, event_notifier_ready, CallbackReturns, pool
  <2>3. CASE ScanTurn
    BY <1>0, <2>3, TurnIs DEF pool
  <2> QED
    BY <1>5, <2>1, <2>2, <2>3 DEF MainStep
<1>6. CASE thread_pool_free
  BY <1>0, <1>6 DEF thread_pool_free
<1>7. CASE UNCHANGED vars
  BY <1>0, <1>7 DEF vars, pool
<1> QED
  BY <1>2, <1>3, <1>4, <1>5, <1>6, <1>7 DEF Next

LEMMA RequestsNext ==
  ASSUME TypeOK, Supplied, Worked, Nested(stack, head, state), [Next]_vars
  PROVE  /\ state' \in [Reqs -> States] /\ request_list' \in Seq(Reqs)
         /\ job' \in [Workers -> Reqs \cup {NoReq}] /\ head' \in Seq(Reqs)
<1> DEFINE G == /\ state' \in [Reqs -> States] /\ request_list' \in Seq(Reqs)
                /\ job' \in [Workers -> Reqs \cup {NoReq}] /\ head' \in Seq(Reqs)
<1>0. /\ state \in [Reqs -> States] /\ request_list \in Seq(Reqs) /\ head \in Seq(Reqs)
      /\ job \in [Workers -> Reqs \cup {NoReq}]
  BY Zenon DEF TypeOK, States
<1>1. ASSUME UNCHANGED <<state, request_list, job, head>> PROVE G
  BY <1>0, <1>1
<1>2. ASSUME NEW r \in Reqs, NEW q \in States, state' = [state EXCEPT ![r] = q]
      PROVE  state' \in [Reqs -> States]
  BY <1>0, <1>2
<1>3. ASSUME NEW w \in Workers, NEW x \in Reqs \cup {NoReq}, job' = [job EXCEPT ![w] = x]
      PROVE  job' \in [Workers -> Reqs \cup {NoReq}]
  BY <1>0, <1>3
<1>4. {"free", "queued", "active", "done", "canceled"} \subseteq States
  BY DEF States
<1>5. ASSUME NEW w \in Workers, WorkerTake(w) PROVE G
  <2>1. UNCHANGED head
    BY <1>5, TakeIs
  <2>2. CASE TakesRequest(w)
    <3>3. request_list # <<>>
      BY <2>2 DEF TakesRequest, Supplied
    <3>4. Head(request_list) \in Reqs /\ Tail(request_list) \in Seq(Reqs)
      BY <1>0, <3>3
    <3>5. state' \in [Reqs -> States]
      BY <1>2, <1>4, <2>2, <3>4, Zenon DEF TakesRequest
    <3>6. job' \in [Workers -> Reqs \cup {NoReq}]
      BY <1>3, <2>2, <3>4, Zenon DEF TakesRequest
    <3> QED
      BY <1>0, <2>1, <2>2, <3>4, <3>5, <3>6 DEF TakesRequest
  <2> QED
    BY <1>1, <1>5, <2>1, <2>2, TakeIs DEF TakesAgain, TakesExit
<1>6. ASSUME NEW w \in Workers, WorkerDone(w) PROVE G
  <2>1. job[w] \in Reqs
    BY <1>6, DoneWork
  <2> QED
    BY <1>0, <1>2, <1>4, <1>6, <2>1 DEF WorkerDone
<1>7. ASSUME NEW w \in Workers, WorkerFinish(w) PROVE G
  BY <1>0, <1>3, <1>7 DEF WorkerFinish
<1>8. ASSUME NEW w \in Workers, WorkerStep(w) PROVE G
  BY <1>1, <1>5, <1>6, <1>7, <1>8 DEF WorkerStep, WorkerStart, SemTimedwait
<1>9. ASSUME NEW r \in Reqs, thread_pool_cancel(r) PROVE G
  <2>1. UNCHANGED <<wpc, job, head>>
    BY <1>9, CancelIs
  <2>2. CASE CancelSteals(r)
    <3>1. request_list' \in Seq(Reqs)
      BY <2>1, <2>2, StealWork, Zenon DEF CancelSteals
    <3> QED
      BY <1>0, <1>2, <1>4, <2>1, <2>2, <3>1 DEF CancelSteals
  <2>3. CASE CancelWaits(r)
    BY <1>1, <2>1, <2>3 DEF CancelWaits
  <2> QED
    BY <1>9, <2>2, <2>3, CancelIs
<1>10. ASSUME NEW r \in Reqs, thread_pool_submit_aio(r) PROVE G
  <2>1. <<r>> \o head \in Seq(Reqs) /\ Append(request_list, r) \in Seq(Reqs)
    BY <1>0
  <2> QED
    BY <1>0, <1>2, <1>4, <1>10, <2>1 DEF thread_pool_submit_aio
<1>11. CASE ScanTurn
  <2>1. UNCHANGED <<request_list, job>> /\ Innermost = "scan"
    BY <1>11, TurnIs
  <2>2. CASE Top.todo = <<>>
    BY <1>1, <1>11, <2>1, <2>2, TurnIs, Zenon DEF TurnEnds, TurnSkips, TurnCalls, TurnReleases
  <2>3. CASE Top.todo # <<>>
    <3>1. Head(Top.todo) \in Reqs /\ Head(Top.todo) \in Range(head) /\ Once(head)
      BY <2>1, <2>3, TurnFinds, Zenon DEF Nested
    <3>2. Unlink(head, Head(Top.todo)) \in Seq(Reqs)
      BY <1>0, <3>1, Unlinked
    <3> QED
      BY <1>0, <1>2, <1>4, <1>11, <2>1, <3>1, <3>2, TurnIs, Zenon
         DEF TurnEnds, TurnSkips, TurnCalls, TurnReleases
  <2> QED
    BY <2>2, <2>3
<1>12. CASE CallbackReturns
  <2>1. Top.req \in Reqs
    BY <1>12, ReturnFinds DEF CallbackReturns
  <2> QED
    BY <1>0, <1>2, <1>4, <1>12, <2>1 DEF CallbackReturns
<1>13. CASE MainStep
  BY <1>1, <1>11, <1>12, <1>13 DEF MainStep, SubmitPost, CancelWakes, FreeWakes,
     spawn_thread_bh_fn, event_notifier_ready
<1> QED
  BY <1>1, <1>8, <1>9, <1>10, <1>13 DEF Next, vars, thread_pool_free

LEMMA StackNext ==
  ASSUME TypeOK, Nested(stack, head, state), [Next]_vars
  PROVE  stack' \in Seq(Frame)
<1>0. stack \in Seq(Frame) /\ head \in Seq(Reqs)
  BY StackTypes
<1>1. ASSUME UNCHANGED stack PROVE stack' \in Seq(Frame)
  BY <1>0, <1>1
<1>2. CASE event_notifier_ready
  <2>1. Scan(head) \in Frame
    BY <1>0, FramesAre
  <2>2. Pushed(stack, Scan(head)) \in Seq(Frame)
    BY <1>0, <2>1, PushedIs
  <2> QED
    BY <1>2, <2>2, StacksAre, Zenon DEF event_notifier_ready
<1>3. CASE ScanTurn
  <2>1. Innermost = "scan" /\ (TurnEnds \/ TurnSkips \/ TurnCalls \/ TurnReleases)
    BY <1>3, TurnIs
  <2>2. stack # <<>> /\ Top.todo \in Seq(Reqs)
    BY <2>1, TopIs DEF Innermost
  <2>3. Popped(stack) \in Seq(Frame)
    BY <1>0, <2>2, PoppedIs
  <2>4. CASE TurnEnds
    BY <2>3, <2>4, StacksAre DEF TurnEnds
  <2>5. CASE TurnCalls
    <3>1. Callback(Head(Top.todo)) \in Frame
      BY <2>1, <2>5, TurnFinds, FramesAre DEF TurnCalls
    <3>2. Pushed(stack, Callback(Head(Top.todo))) \in Seq(Frame)
      BY <1>0, <3>1, PushedIs
    <3> QED
      BY <2>5, <3>2, StacksAre, Zenon DEF TurnCalls
  <2>6. CASE TurnSkips \/ TurnReleases
    <3>1. Top.todo # <<>>
      BY <2>6 DEF TurnSkips, TurnReleases
    <3>2. Tail(Top.todo) \in Seq(Reqs)
      BY <2>2, <3>1
    <3>3. Retodo(stack, Tail(Top.todo)) \in Seq(Frame)
      BY <1>0, <2>2, <3>2, RetodoIs, Zenon
    <3> QED
      BY <2>6, <3>3, StacksAre, Zenon DEF TurnSkips, TurnReleases
  <2> QED
    BY <2>1, <2>4, <2>5, <2>6
<1>4. CASE CallbackReturns
  <2>1. Innermost = "call" /\ stack' = Retodo(Popped(stack), head)
    BY <1>4, StacksAre DEF CallbackReturns
  <2>2. stack # <<>> /\ stack[Len(stack)].at = "call"
    BY <2>1, TopIs DEF Innermost, Top
  <2>3. Popped(stack) # <<>>
    BY <1>0, <2>2, NestReturn, Zenon
  <2>4. Popped(stack) \in Seq(Frame)
    BY <1>0, <2>2, PoppedIs
  <2>5. Retodo(Popped(stack), head) \in Seq(Frame)
    BY <1>0, <2>3, <2>4, RetodoIs
  <2> QED
    BY <2>1, <2>5
<1>5. ASSUME NEW w \in Workers, WorkerStep(w) PROVE stack' \in Seq(Frame)
  BY <1>1, <1>5 DEF WorkerStep, WorkerStart, SemTimedwait, WorkerTake, WorkerDone, WorkerFinish
<1>6. CASE MainStep
  BY <1>1, <1>2, <1>3, <1>4, <1>6 DEF MainStep, SubmitPost, CancelWakes, FreeWakes,
     spawn_thread_bh_fn
<1> QED
  BY <1>1, <1>5, <1>6, Zenon DEF Next, vars, thread_pool_free, thread_pool_submit_aio, thread_pool_cancel

Flags == stopping \in BOOLEAN /\ bh \in BOOLEAN /\ notifier \in BOOLEAN /\ woken \in BOOLEAN

Mains == Reqs \cup {"run", "post", "free", "gone"}

LEMMA FlagsNext ==
  ASSUME Flags, main \in Mains, [Next]_vars
  PROVE  Flags' /\ main' \in Mains
<1>1. ASSUME NEW w \in Workers, WorkerStep(w) PROVE Flags' /\ main' \in Mains
  <2>1. ASSUME Exits(w) PROVE woken' \in BOOLEAN
    BY <2>1 DEF Exits
  <2>2. CASE WorkerStart(w)
    BY <2>1, <2>2 DEF WorkerStart, Flags
  <2>3. CASE SemTimedwait(w) \/ WorkerDone(w)
    BY <2>3 DEF SemTimedwait, WorkerDone, Flags
  <2>4. CASE WorkerTake(w)
    BY <2>1, <2>4, TakeIs DEF TakesAgain, TakesExit, TakesRequest, Flags
  <2>5. CASE WorkerFinish(w)
    BY <2>1, <2>5, Zenon DEF WorkerFinish, Flags, Notify
  <2> QED
    BY <1>1, <2>2, <2>3, <2>4, <2>5 DEF WorkerStep
<1>2. ASSUME NEW r \in Reqs, thread_pool_cancel(r) PROVE Flags' /\ main' \in Mains
  <2>1. UNCHANGED <<stopping, bh, woken>> /\ (CancelSteals(r) \/ CancelWaits(r))
    BY <1>2, CancelIs
  <2>2. CASE CancelSteals(r)
    BY <2>1, <2>2 DEF CancelSteals, Flags
  <2>3. CASE CancelWaits(r)
    BY <2>1, <2>3 DEF CancelWaits, Flags, Mains
  <2> QED
    BY <2>1, <2>2, <2>3
<1>3. ASSUME NEW r \in Reqs, thread_pool_submit_aio(r) PROVE Flags' /\ main' \in Mains
  BY <1>3, Zenon DEF thread_pool_submit_aio, Flags, Mains
<1>4. CASE MainStep
  <2>1. CASE SubmitPost \/ CancelWakes \/ FreeWakes
    BY <2>1, Zenon DEF SubmitPost, CancelWakes, FreeWakes, Flags, Mains
  <2>2. CASE spawn_thread_bh_fn \/ event_notifier_ready \/ CallbackReturns
    BY <2>2, Zenon DEF spawn_thread_bh_fn, event_notifier_ready, CallbackReturns, Flags
  <2>3. CASE ScanTurn
    BY <2>3, TurnIs DEF Flags
  <2> QED
    BY <1>4, <2>1, <2>2, <2>3 DEF MainStep
<1>5. CASE thread_pool_free
  BY <1>5, Zenon DEF thread_pool_free, Flags, Mains
<1> QED
  BY <1>1, <1>2, <1>3, <1>4, <1>5 DEF Next, vars, Flags

----------------------------------------------------------------------------
(* Counting the workers that are at some places.                            *)

One(p, places) == IF p \in places THEN 1 ELSE 0

LEMMA NumIs ==
  ASSUME Countable, NEW pc, NEW places
  PROVE  /\ Num(pc, places) \in Nat /\ Num(pc, places) <= Cardinality(Workers)
         /\ \A w \in Workers : pc[w] \in places => Num(pc, places) > 0
         /\ Num(pc, places) > 0 => \E w \in Workers : pc[w] \in places
<1> DEFINE S == {w \in Workers : pc[w] \in places}
<1>1. S \in SUBSET Workers
  OBVIOUS
<1>2. /\ Cardinality(S) \in Nat /\ (Cardinality(S) = 0 <=> S = {})
      /\ Cardinality(S) <= Cardinality(Workers)
  BY <1>1, Zenon DEF Countable
<1>3. \A w \in Workers : pc[w] \in places => S # {}
  OBVIOUS
<1> QED
  BY <1>2, <1>3 DEF Num

LEMMA NumMoves ==
  ASSUME Countable, NEW pc, NEW new, NEW w \in Workers, NEW q, Goes(pc, w, q, new), NEW places
  PROVE  Num(new, places) = Num(pc, places) - One(pc[w], places) + One(q, places)
<1> DEFINE S == {v \in Workers : pc[v] \in places}
           T == {v \in Workers : new[v] \in places}
           R == S \ {w}
<1>1. S \in SUBSET Workers /\ R \in SUBSET Workers /\ w \notin R
  OBVIOUS
<1>2. (w \in S) <=> (pc[w] \in places)
  OBVIOUS
<1>3. T = IF q \in places THEN R \cup {w} ELSE R
  BY DEF Goes
<1>4. Num(pc, places) = Cardinality(S) /\ Num(new, places) = Cardinality(T)
  BY DEF Num
<1>0. R = S \ {w}
  OBVIOUS
<1> HIDE DEF S, T, R
<1>5. Cardinality(R) = IF w \in S THEN Cardinality(S) - 1 ELSE Cardinality(S)
  BY <1>0, <1>1, Zenon DEF Countable
<1>6. Cardinality(S) \in Nat /\ Cardinality(R) \in Nat
      /\ Cardinality(R \cup {w}) = Cardinality(R) + 1
  <2>1. Cardinality(S) \in Nat
    BY <1>1 DEF Countable
  <2>2. Cardinality(R) \in Nat /\ \A x : x \notin R => Cardinality(R \cup {x}) = Cardinality(R) + 1
    BY <1>1 DEF Countable
  <2> QED
    BY <1>1, <2>1, <2>2
<1>7. Cardinality(T) = IF q \in places THEN Cardinality(R) + 1 ELSE Cardinality(R)
  BY <1>3, <1>6
<1> QED
  BY <1>2, <1>4, <1>5, <1>6, <1>7 DEF One

LEMMA CountsAre ==
  ASSUME Countable, NEW pc
  PROVE  /\ Free(pc) \in Nat /\ New(pc) \in Nat /\ Idle(pc) \in Nat /\ Got(pc) \in Nat
         /\ \A w \in Workers :
              /\ pc[w] = "none" => Free(pc) > 0
              /\ pc[w] = "new" => New(pc) > 0
              /\ pc[w] \in {"wait", "got", "late"} => Idle(pc) > 0
              /\ pc[w] = "got" => Got(pc) > 0
         /\ Free(pc) > 0 => \E w \in Workers : pc[w] = "none"
         /\ Cardinality(Workers) \in Nat /\ Free(pc) <= Cardinality(Workers)
<1>1. Cardinality(Workers) \in Nat /\ Free(pc) <= Cardinality(Workers)
  BY NumIs DEF Countable, Free
<1> QED
  BY <1>1, NumIs DEF Free, New, Idle, Got

\* Everybody is gone when as many identities are free as there are.
LEMMA AllFree ==
  ASSUME Countable, Free(wpc) = Cardinality(Workers)
  PROVE  At({"none"}) = Workers
<1>1. At({"none"}) \in SUBSET Workers /\ Cardinality(At({"none"})) = Free(wpc)
  BY Zenon DEF At, Free, Num
<1> QED
  BY <1>1 DEF Countable

----------------------------------------------------------------------------
(* How the steps change the numbers.                                        *)

LEMMA CountedIs ==
  /\ ThreadsCounted <=> TypeOK /\ Counted
  /\ TokensMatchRequests <=> Tokens
<1>1. /\ Cardinality(At({"none"})) = Free(wpc) /\ Cardinality(At({"new"})) = New(wpc)
      /\ Cardinality(At({"wait", "got", "late"})) = Idle(wpc)
      /\ Cardinality(At({"got"})) = Got(wpc)
  BY Zenon DEF At, Free, New, Idle, Got, Num
<1> QED
  BY <1>1, Zenon DEF ThreadsCounted, TokensMatchRequests, Counted, Tokens, Posting

\* The numbers after a step, as differences.
Change(pc, to, free, new, idle, got) ==
  /\ Free(to) = Free(pc) + free /\ New(to) = New(pc) + new
  /\ Idle(to) = Idle(pc) + idle /\ Got(to) = Got(pc) + got

LEMMA Moved ==
  ASSUME Countable, NEW pc, NEW to, NEW w \in Workers, NEW q, Goes(pc, w, q, to)
  PROVE  /\ pc[w] = "wait" /\ q = "got" => Change(pc, to, 0, 0, 0, 1)
         /\ pc[w] = "wait" /\ q = "late" => Change(pc, to, 0, 0, 0, 0)
         /\ pc[w] = "late" /\ q = "wait" => Change(pc, to, 0, 0, 0, 0)
         /\ pc[w] = "got" /\ q = "work" => Change(pc, to, 0, 0, -1, -1)
         /\ pc[w] = "work" /\ q = "done" => Change(pc, to, 0, 0, 0, 0)
         /\ pc[w] = "done" /\ q = "wait" => Change(pc, to, 0, 0, 1, 0)
         /\ pc[w] = "new" /\ q = "wait" => Change(pc, to, 0, -1, 1, 0)
         /\ pc[w] = "new" /\ q = "none" => Change(pc, to, 1, -1, 0, 0)
         /\ pc[w] = "got" /\ q = "none" => Change(pc, to, 1, 0, -1, -1)
         /\ pc[w] = "late" /\ q = "none" => Change(pc, to, 1, 0, -1, 0)
         /\ pc[w] = "done" /\ q = "none" => Change(pc, to, 1, 0, 0, 0)
<1>1. /\ Free(to) = Free(pc) - One(pc[w], {"none"}) + One(q, {"none"})
      /\ New(to) = New(pc) - One(pc[w], {"new"}) + One(q, {"new"})
      /\ Idle(to) = Idle(pc) - One(pc[w], {"wait", "got", "late"})
                      + One(q, {"wait", "got", "late"})
      /\ Got(to) = Got(pc) - One(pc[w], {"got"}) + One(q, {"got"})
  <2>1. \A places : Num(to, places) = Num(pc, places) - One(pc[w], places) + One(q, places)
    BY NumMoves
  <2> QED
    BY <2>1, Zenon DEF Free, New, Idle, Got
<1>2. Free(pc) \in Nat /\ New(pc) \in Nat /\ Idle(pc) \in Nat /\ Got(pc) \in Nat
  BY CountsAre
<1>3. pc[w] = "wait" /\ q = "got" => Change(pc, to, 0, 0, 0, 1)
  BY <1>1, <1>2 DEF One, Change
<1>4. pc[w] = "wait" /\ q = "late" => Change(pc, to, 0, 0, 0, 0)
  BY <1>1, <1>2 DEF One, Change
<1>5. pc[w] = "late" /\ q = "wait" => Change(pc, to, 0, 0, 0, 0)
  BY <1>1, <1>2 DEF One, Change
<1>6. pc[w] = "got" /\ q = "work" => Change(pc, to, 0, 0, -1, -1)
  BY <1>1, <1>2 DEF One, Change
<1>7. pc[w] = "work" /\ q = "done" => Change(pc, to, 0, 0, 0, 0)
  BY <1>1, <1>2 DEF One, Change
<1>8. pc[w] = "done" /\ q = "wait" => Change(pc, to, 0, 0, 1, 0)
  BY <1>1, <1>2 DEF One, Change
<1>9. pc[w] = "new" /\ q = "wait" => Change(pc, to, 0, -1, 1, 0)
  BY <1>1, <1>2 DEF One, Change
<1>10. pc[w] = "new" /\ q = "none" => Change(pc, to, 1, -1, 0, 0)
  BY <1>1, <1>2 DEF One, Change
<1>11. pc[w] = "got" /\ q = "none" => Change(pc, to, 1, 0, -1, -1)
  BY <1>1, <1>2 DEF One, Change
<1>12. pc[w] = "late" /\ q = "none" => Change(pc, to, 1, 0, -1, 0)
  BY <1>1, <1>2 DEF One, Change
<1>13. pc[w] = "done" /\ q = "none" => Change(pc, to, 1, 0, 0, 0)
  BY <1>1, <1>2 DEF One, Change
<1> QED
  BY <1>3, <1>4, <1>5, <1>6, <1>7, <1>8, <1>9, <1>10, <1>11, <1>12, <1>13, Zenon

LEMMA Spawned ==
  ASSUME Countable, NEW cur, NEW new \in Nat, NEW pending, NEW pc \in [Workers -> Places],
         new > 0 => Free(pc) > 0, do_spawn_thread(cur, new, pending, pc)
  PROVE  /\ new_threads' = IF new = 0 THEN 0 ELSE new - 1
         /\ Free(wpc') = Free(pc) - (new - new_threads')
         /\ New(wpc') = New(pc) + (new - new_threads')
         /\ Idle(wpc') = Idle(pc) /\ Got(wpc') = Got(pc)
<1>0. Free(pc) \in Nat /\ New(pc) \in Nat /\ Idle(pc) \in Nat /\ Got(pc) \in Nat
  BY CountsAre
<1>1. new > 0 => \E v \in Workers : pc[v] = "none"
  BY CountsAre
<1>2. /\ new_threads' = IF new = 0 THEN 0 ELSE new - 1
      /\ \/ new = 0 /\ wpc' = pc
         \/ new > 0 /\ \E w \in Workers : pc[w] = "none" /\ Goes(pc, w, "new", wpc')
  BY <1>1, Spawns, Zenon
<1>3. CASE new = 0
  BY <1>0, <1>2, <1>3
<1>4. CASE new > 0
  <2>1. PICK w \in Workers : pc[w] = "none" /\ Goes(pc, w, "new", wpc')
    BY <1>2, <1>4
  <2>2. /\ Free(wpc') = Free(pc) - One(pc[w], {"none"}) + One("new", {"none"})
        /\ New(wpc') = New(pc) - One(pc[w], {"new"}) + One("new", {"new"})
        /\ Idle(wpc') = Idle(pc) - One(pc[w], {"wait", "got", "late"})
                          + One("new", {"wait", "got", "late"})
        /\ Got(wpc') = Got(pc) - One(pc[w], {"got"}) + One("new", {"got"})
    <3>1. \A places : Num(wpc', places) = Num(pc, places) - One(pc[w], places) + One("new", places)
      BY <2>1, NumMoves
    <3> QED
      BY <3>1, Zenon DEF Free, New, Idle, Got
  <2> QED
    BY <1>0, <1>2, <1>4, <2>1, <2>2 DEF One
<1> QED
  BY <1>3, <1>4

----------------------------------------------------------------------------
(* The counters count the threads.                                          *)

LEMMA Numbers ==
  ASSUME Countable, TypeOK
  PROVE  /\ sem \in Nat /\ cur_threads \in Nat /\ idle_threads \in Nat /\ new_threads \in Nat
         /\ pending_threads \in Nat /\ pending_cancellations \in Nat
         /\ wpc \in [Workers -> Places] /\ DOMAIN wpc = Workers
         /\ max_threads \in Nat /\ max_threads <= Cardinality(Workers)
         /\ Cardinality(Workers) \in Nat
         /\ Free(wpc) \in Nat /\ New(wpc) \in Nat /\ Idle(wpc) \in Nat /\ Got(wpc) \in Nat
<1>1. Cardinality(Workers) \in Nat
  BY DEF Countable
<1>2. max_threads \in Nat /\ max_threads <= Cardinality(Workers)
  BY <1>1, PoolAssumption
<1>3. Free(wpc) \in Nat /\ New(wpc) \in Nat /\ Idle(wpc) \in Nat /\ Got(wpc) \in Nat
  BY CountsAre
<1> QED
  BY <1>1, <1>2, <1>3 DEF TypeOK, Places

\* What the counters and the tokens are for.
LEMMA IsSupplied ==
  ASSUME Countable, TypeOK, Counted, Tokens
  PROVE  Supplied
<1>1. new_threads > 0 => \E v \in Workers : wpc[v] = "none"
  <2>1. new_threads > 0 => Free(wpc) > 0
    BY Numbers DEF Counted
  <2> QED
    BY <2>1, CountsAre
<1>2. ASSUME NEW w \in Workers, wpc[w] = "got", ~stopping PROVE request_list # <<>>
  <2>1. Got(wpc) > 0
    BY <1>2, CountsAre
  <2>2. Len(request_list) > 0
    BY <1>2, <2>1, Numbers DEF Tokens, Posting
  <2> QED
    BY <2>2
<1> QED
  BY <1>1, <1>2 DEF Supplied

\* A worker is there, so the pool is not gone.
LEMMA Alive ==
  ASSUME Counted, NEW w \in Workers, wpc[w] # "none"
  PROVE  main # "gone"
  BY DEF Counted, At

LEMMA ExitCount ==
  ASSUME Countable, TypeOK, Counted, NEW w \in Workers, Exits(w),
         wpc[w] \in {"new", "got", "late", "done"},
         UNCHANGED <<new_threads, bh, main>>,
         pending_threads' = pending_threads - One(wpc[w], {"new"}),
         idle_threads' = idle_threads - One(wpc[w], {"got", "late"}),
         new_threads > 0 => bh \/ pending_threads' > 0
  PROVE  Counted'
<1>1. Goes(wpc, w, "none", wpc')
  BY GoesIs, Numbers, Zenon DEF Exits
<1>2. /\ wpc[w] = "new" => Change(wpc, wpc', 1, -1, 0, 0)
      /\ wpc[w] = "got" => Change(wpc, wpc', 1, 0, -1, -1)
      /\ wpc[w] = "late" => Change(wpc, wpc', 1, 0, -1, 0)
      /\ wpc[w] = "done" => Change(wpc, wpc', 1, 0, 0, 0)
  BY <1>1, Moved, Zenon
<1>3. cur_threads' = cur_threads - 1
  BY DEF Exits
<1>4. main' # "gone"
  BY Alive
<1>5. /\ cur_threads' = Cardinality(Workers) - Free(wpc') + new_threads'
      /\ pending_threads' = New(wpc') /\ idle_threads' = Idle(wpc')
      /\ cur_threads' <= max_threads
  BY <1>2, <1>3, Numbers DEF Change, Counted, One
<1> QED
  BY <1>4, <1>5 DEF Counted

LEMMA StartCount ==
  ASSUME Countable, TypeOK, Counted, MainInv, NEW w \in Workers, WorkerStart(w)
  PROVE  Counted' /\ Got(wpc') = Got(wpc)
<1>0. wpc[w] = "new" /\ main # "gone" /\ UNCHANGED <<main, bh>>
  BY Alive DEF WorkerStart
<1>1. CASE stopping
  <2>1. /\ Exits(w) /\ pending_threads' = pending_threads - 1
        /\ UNCHANGED <<idle_threads, new_threads>>
    BY <1>1 DEF WorkerStart
  <2>2. new_threads = 0 /\ idle_threads \in Nat
    BY <1>1, Numbers DEF MainInv
  <2>3. Counted'
    BY <1>0, <2>1, <2>2, ExitCount DEF One
  <2>4. wpc' = [wpc EXCEPT ![w] = "none"]
    BY <2>1 DEF Exits
  <2>6. Goes(wpc, w, "none", wpc')
    BY <2>4, GoesIs, Numbers, Zenon
  <2>7. Got(wpc') = Got(wpc)
    <3>1. Change(wpc, wpc', 1, -1, 0, 0)
      BY <1>0, <2>6, Moved, Zenon
    <3> QED
      BY <3>1, Numbers DEF Change
  <2> QED
    BY <2>3, <2>7
<1>2. CASE ~stopping
  <2> DEFINE mid == [wpc EXCEPT ![w] = "wait"]
  <2>1. /\ do_spawn_thread(cur_threads, new_threads, pending_threads - 1, mid)
        /\ idle_threads' = idle_threads + 1
    BY <1>2 DEF WorkerStart
  <2>2. mid \in [Workers -> Places]
    BY Numbers DEF Places
  <2>3. Goes(wpc, w, "wait", mid)
    BY GoesIs, Numbers, Zenon
  <2> HIDE DEF mid
  <2>4. Change(wpc, mid, 0, -1, 1, 0)
    BY <1>0, <2>3, Moved, Zenon
  <2>5. new_threads > 0 => Free(mid) > 0
    BY <2>4, Numbers DEF Change, Counted
  <2>6. /\ new_threads' = IF new_threads = 0 THEN 0 ELSE new_threads - 1
        /\ Free(wpc') = Free(mid) - (new_threads - new_threads')
        /\ New(wpc') = New(mid) + (new_threads - new_threads')
        /\ Idle(wpc') = Idle(mid) /\ Got(wpc') = Got(mid)
    <3>1. new_threads \in Nat
      BY Numbers
    <3> QED
      BY <2>1, <2>2, <2>5, <3>1, Spawned, Zenon
  <2>7. /\ cur_threads' = cur_threads
        /\ pending_threads' = IF new_threads = 0 THEN pending_threads - 1 ELSE pending_threads
    BY <2>1, Numbers DEF do_spawn_thread
  <2>8. pending_threads > 0
    BY <1>0, CountsAre DEF Counted
  <2>9. Counted'
    BY <1>0, <2>1, <2>4, <2>6, <2>7, <2>8, Numbers DEF Counted, Change
  <2>10. Got(wpc') = Got(wpc)
    BY <2>4, <2>6, Numbers DEF Change
  <2> QED
    BY <2>9, <2>10
<1> QED
  BY <1>1, <1>2

LEMMA BhCount ==
  ASSUME Countable, TypeOK, Counted, spawn_thread_bh_fn
  PROVE  Counted' /\ Got(wpc') = Got(wpc)
<1>1. /\ do_spawn_thread(cur_threads, new_threads, pending_threads, wpc)
      /\ UNCHANGED <<idle_threads, main>> /\ main = "run"
  BY DEF spawn_thread_bh_fn, Polls
<1>2. new_threads \in Nat /\ wpc \in [Workers -> Places]
  BY Numbers
<1>3. new_threads > 0 => Free(wpc) > 0
  BY Numbers DEF Counted
<1>4. /\ new_threads' = IF new_threads = 0 THEN 0 ELSE new_threads - 1
      /\ Free(wpc') = Free(wpc) - (new_threads - new_threads')
      /\ New(wpc') = New(wpc) + (new_threads - new_threads')
      /\ Idle(wpc') = Idle(wpc) /\ Got(wpc') = Got(wpc)
  BY <1>1, <1>2, <1>3, Spawned, Zenon
<1>5. /\ cur_threads' = cur_threads
      /\ pending_threads' = IF new_threads = 0 THEN pending_threads ELSE pending_threads + 1
  BY <1>1 DEF do_spawn_thread
<1>6. Counted'
  BY <1>1, <1>4, <1>5, Numbers DEF Counted
<1> QED
  BY <1>4, <1>6

\* A worker that stays changes the number of idle threads only.
LEMMA StayCount ==
  ASSUME TypeOK, Counted, NEW w \in Workers, wpc[w] # "none",
         Free(wpc') = Free(wpc), New(wpc') = New(wpc), idle_threads' = Idle(wpc'),
         UNCHANGED <<cur_threads, new_threads, pending_threads, bh, main>>
  PROVE  Counted'
<1>1. main' # "gone"
  BY Alive
<1> QED
  BY <1>1 DEF Counted

LEMMA SemCount ==
  ASSUME Countable, TypeOK, Counted, NEW w \in Workers, SemTimedwait(w)
  PROVE  Counted' /\ Got(wpc') + sem' = Got(wpc) + sem
<1>0. wpc[w] = "wait" /\ UNCHANGED <<cur_threads, idle_threads, new_threads, pending_threads, bh, main>>
  BY DEF SemTimedwait, pool
<1>1. CASE sem > 0 /\ sem' = sem - 1 /\ wpc' = [wpc EXCEPT ![w] = "got"]
  <2>1. Goes(wpc, w, "got", wpc')
    BY <1>1, GoesIs, Numbers, Zenon
  <2>2. Change(wpc, wpc', 0, 0, 0, 1)
    BY <1>0, <2>1, Moved, Zenon
  <2>3. /\ Free(wpc') = Free(wpc) /\ New(wpc') = New(wpc) /\ idle_threads' = Idle(wpc')
        /\ Got(wpc') = Got(wpc) + 1
    BY <1>0, <2>2, Numbers DEF Change, Counted
  <2>4. Counted'
    BY <1>0, <2>3, StayCount
  <2> QED
    BY <1>1, <2>3, <2>4, Numbers
<1>2. CASE sem = 0 /\ sem' = sem /\ wpc' = [wpc EXCEPT ![w] = "late"]
  <2>1. Goes(wpc, w, "late", wpc')
    BY <1>2, GoesIs, Numbers, Zenon
  <2>2. Change(wpc, wpc', 0, 0, 0, 0)
    BY <1>0, <2>1, Moved, Zenon
  <2>3. /\ Free(wpc') = Free(wpc) /\ New(wpc') = New(wpc) /\ idle_threads' = Idle(wpc')
        /\ Got(wpc') = Got(wpc)
    BY <1>0, <2>2, Numbers DEF Change, Counted
  <2>4. Counted'
    BY <1>0, <2>3, StayCount
  <2> QED
    BY <1>2, <2>3, <2>4
<1> QED
  BY <1>1, <1>2 DEF SemTimedwait

LEMMA TakeCount ==
  ASSUME Countable, TypeOK, Counted, NEW w \in Workers, WorkerTake(w)
  PROVE  /\ Counted'
         /\ TakesAgain(w) => Got(wpc') = Got(wpc)
         /\ TakesExit(w) => stopping \/ Got(wpc') = Got(wpc)
         /\ TakesRequest(w) => Got(wpc) > 0 /\ Got(wpc') = Got(wpc) - 1
<1>0. /\ wpc[w] \in {"got", "late"}
      /\ UNCHANGED <<new_threads, pending_threads, bh, main>>
  BY TakeIs
<1>1. ASSUME TakesAgain(w) PROVE Counted' /\ Got(wpc') = Got(wpc)
  <2>0. wpc[w] = "late" /\ UNCHANGED <<cur_threads, idle_threads>>
    BY <1>1 DEF TakesAgain
  <2>1. Goes(wpc, w, "wait", wpc')
    BY <1>1, GoesIs, Numbers, Zenon DEF TakesAgain
  <2>2. Change(wpc, wpc', 0, 0, 0, 0)
    BY <2>0, <2>1, Moved
  <2>3. /\ Free(wpc') = Free(wpc) /\ New(wpc') = New(wpc) /\ idle_threads' = Idle(wpc')
        /\ Got(wpc') = Got(wpc)
    BY <2>0, <2>2, Numbers DEF Change, Counted
  <2>4. Counted'
    BY <1>0, <2>0, <2>3, StayCount
  <2> QED
    BY <2>3, <2>4
<1>2. ASSUME TakesExit(w) PROVE Counted' /\ (stopping \/ Got(wpc') = Got(wpc))
  <2>1. Exits(w) /\ idle_threads' = idle_threads - 1 /\ (wpc[w] = "late" \/ stopping)
    BY <1>2 DEF TakesExit
  <2>2. Goes(wpc, w, "none", wpc')
    BY <2>1, GoesIs, Numbers, Zenon DEF Exits
  <2>3. wpc[w] = "late" => Got(wpc') = Got(wpc)
    <3>1. wpc[w] = "late" => Change(wpc, wpc', 1, 0, -1, 0)
      BY <2>2, Moved, Zenon
    <3> QED
      BY <3>1, Numbers DEF Change
  <2>4. pending_threads \in Nat /\ pending_threads' = pending_threads - One(wpc[w], {"new"})
    BY <1>0, Numbers DEF One
  <2>5. idle_threads' = idle_threads - One(wpc[w], {"got", "late"})
    BY <1>0, <2>1 DEF One
  <2>6. Counted'
    BY <1>0, <2>1, <2>4, <2>5, ExitCount DEF Counted
  <2> QED
    BY <2>1, <2>3, <2>6
<1>3. ASSUME TakesRequest(w) PROVE Counted' /\ Got(wpc) > 0 /\ Got(wpc') = Got(wpc) - 1
  <2>0. wpc[w] = "got" /\ UNCHANGED cur_threads /\ idle_threads' = idle_threads + (-1)
    BY <1>3, Numbers DEF TakesRequest
  <2>1. Goes(wpc, w, "work", wpc')
    BY <1>3, GoesIs, Numbers, Zenon DEF TakesRequest
  <2>2. Change(wpc, wpc', 0, 0, -1, -1)
    BY <2>0, <2>1, Moved, Zenon
  <2>3. /\ Free(wpc') = Free(wpc) /\ New(wpc') = New(wpc) /\ idle_threads' = Idle(wpc')
        /\ Got(wpc') = Got(wpc) - 1
    BY <2>0, <2>2, Numbers DEF Change, Counted
  <2>4. Counted'
    BY <1>0, <2>0, <2>3, StayCount
  <2>5. Got(wpc) > 0
    BY <2>0, CountsAre
  <2> QED
    BY <2>3, <2>4, <2>5
<1> QED
  BY <1>1, <1>2, <1>3, TakeIs

LEMMA DoneCount ==
  ASSUME Countable, TypeOK, Counted, NEW w \in Workers, WorkerDone(w)
  PROVE  Counted' /\ Got(wpc') = Got(wpc)
<1>0. /\ wpc[w] = "work" /\ wpc' = [wpc EXCEPT ![w] = "done"]
      /\ UNCHANGED <<cur_threads, idle_threads, new_threads, pending_threads, bh, main>>
  BY Zenon DEF WorkerDone, pool
<1>1. Goes(wpc, w, "done", wpc')
  BY <1>0, GoesIs, Numbers, Zenon
<1>2. Change(wpc, wpc', 0, 0, 0, 0)
  BY <1>0, <1>1, Moved, Zenon
<1>3. /\ Free(wpc') = Free(wpc) /\ New(wpc') = New(wpc) /\ idle_threads' = Idle(wpc')
      /\ Got(wpc') = Got(wpc)
  BY <1>0, <1>2, Numbers DEF Change, Counted
<1>4. Counted'
  BY <1>0, <1>3, StayCount, Zenon
<1> QED
  BY <1>3, <1>4

LEMMA FinishCount ==
  ASSUME Countable, TypeOK, Counted, NEW w \in Workers, WorkerFinish(w)
  PROVE  Counted' /\ Got(wpc') = Got(wpc)
<1>0. wpc[w] = "done" /\ UNCHANGED <<new_threads, pending_threads, bh, main>>
  BY DEF WorkerFinish
<1>1. CASE stopping
  <2>1. Exits(w) /\ UNCHANGED idle_threads
    BY <1>1 DEF WorkerFinish
  <2>2. Goes(wpc, w, "none", wpc')
    BY <2>1, GoesIs, Numbers, Zenon DEF Exits
  <2>3. Change(wpc, wpc', 1, 0, 0, 0)
    BY <1>0, <2>2, Moved, Zenon
  <2>4. /\ pending_threads' = pending_threads - One(wpc[w], {"new"})
        /\ idle_threads' = idle_threads - One(wpc[w], {"got", "late"})
    BY <1>0, <2>1, Numbers DEF One
  <2>5. Counted'
    BY <1>0, <2>1, <2>4, ExitCount, Zenon DEF Counted
  <2> QED
    BY <2>3, <2>5, Numbers DEF Change
<1>2. CASE ~stopping
  <2>1. /\ wpc' = [wpc EXCEPT ![w] = "wait"] /\ UNCHANGED cur_threads
        /\ idle_threads' = idle_threads + 1
    BY <1>2 DEF WorkerFinish
  <2>2. Goes(wpc, w, "wait", wpc')
    BY <2>1, GoesIs, Numbers, Zenon
  <2>3. Change(wpc, wpc', 0, 0, 1, 0)
    BY <1>0, <2>2, Moved, Zenon
  <2>4. /\ Free(wpc') = Free(wpc) /\ New(wpc') = New(wpc) /\ idle_threads' = Idle(wpc')
        /\ Got(wpc') = Got(wpc)
    BY <2>1, <2>3, Numbers DEF Change, Counted
  <2>5. Counted'
    BY <1>0, <2>1, <2>4, StayCount, Zenon
  <2> QED
    BY <2>4, <2>5
<1> QED
  BY <1>1, <1>2

LEMMA SubmitCount ==
  ASSUME Countable, TypeOK, Counted, NEW r, thread_pool_submit_aio(r)
  PROVE  Counted'
<1>0. /\ main' = "post" /\ UNCHANGED <<idle_threads, pending_threads, wpc>>
      /\ Free(wpc') = Free(wpc) /\ New(wpc') = New(wpc) /\ Idle(wpc') = Idle(wpc)
  BY DEF thread_pool_submit_aio
<1>1. CASE spawn_wanted
  <2>1. /\ cur_threads' = cur_threads + 1 /\ new_threads' = new_threads + 1
        /\ bh' = (bh \/ pending_threads = 0)
    BY <1>1 DEF thread_pool_submit_aio, bh_wanted
  <2>2. cur_threads < max_threads
    BY <1>1 DEF spawn_wanted
  <2>3. /\ cur_threads' = Cardinality(Workers) - Free(wpc') + new_threads'
        /\ cur_threads' <= max_threads
    BY <1>0, <2>1, <2>2, Numbers DEF Counted
  <2>4. bh' \/ pending_threads' > 0
    <3>1. pending_threads = 0 \/ pending_threads > 0
      BY Numbers
    <3> QED
      BY <1>0, <2>1, <3>1, Zenon
  <2> QED
    BY <1>0, <2>3, <2>4 DEF Counted
<1>2. CASE ~spawn_wanted
  <2>1. UNCHANGED <<cur_threads, new_threads, bh>>
    BY <1>2 DEF thread_pool_submit_aio
  <2> QED
    BY <1>0, <2>1 DEF Counted
<1> QED
  BY <1>1, <1>2

LEMMA AllCounted ==
  ASSUME NEW c \in Nat, NEW n \in Nat, NEW k \in Nat, NEW f \in Nat,
         c = k - f + n, f <= k, ~(c - n > 0)
  PROVE  f = k
  OBVIOUS

\* thread_pool_free is done when the counter says that no thread is left.
LEMMA NoneLeft ==
  ASSUME Countable, TypeOK, Counted, ~workers_left(cur_threads - new_threads)
  PROVE  At({"none"}) = Workers
<1>1. Free(wpc) <= Cardinality(Workers)
  BY CountsAre
<1>2. cur_threads = Cardinality(Workers) - Free(wpc) + new_threads
  BY DEF Counted
<1>3. ~(cur_threads - new_threads > 0)
  BY DEF workers_left
<1>4. /\ cur_threads \in Nat /\ new_threads \in Nat
      /\ Cardinality(Workers) \in Nat /\ Free(wpc) \in Nat
  BY Numbers
<1>5. Free(wpc) = Cardinality(Workers)
  BY <1>1, <1>2, <1>3, <1>4, AllCounted, Zenon
<1> QED
  BY <1>5, AllFree

LEMMA FreeCount ==
  ASSUME Countable, TypeOK, Counted, thread_pool_free
  PROVE  Counted' /\ cur_threads' \in Nat
<1>0. /\ cur_threads' = cur_threads - new_threads /\ new_threads' = 0
      /\ UNCHANGED <<idle_threads, pending_threads, wpc>>
      /\ main' = "gone" => ~workers_left(cur_threads - new_threads)
      /\ Free(wpc') = Free(wpc) /\ New(wpc') = New(wpc) /\ Idle(wpc') = Idle(wpc)
  BY DEF thread_pool_free, threads_to_wait_for
<1>1. main' = "gone" => At({"none"})' = Workers
  <2>1. At({"none"})' = At({"none"})
    BY <1>0 DEF At
  <2> QED
    BY <1>0, <2>1, NoneLeft
<1>2. cur_threads' \in Nat
  <2>1. Free(wpc) <= Cardinality(Workers)
    BY CountsAre
  <2> QED
    BY <1>0, <2>1, Numbers DEF Counted
<1> QED
  BY <1>0, <1>1, <1>2, Numbers DEF Counted

\* A step that leaves the threads alone.
LEMMA QuietCount ==
  ASSUME Counted, UNCHANGED <<pool, wpc, bh>>,
         main' = "gone" => main = "gone" \/ At({"none"}) = Workers
  PROVE  Counted'
<1>1. At({"none"})' = At({"none"})
  BY DEF At
<1>2. Free(wpc') = Free(wpc) /\ New(wpc') = New(wpc) /\ Idle(wpc') = Idle(wpc)
  OBVIOUS
<1> QED
  BY <1>1, <1>2 DEF Counted, pool

LEMMA FreeWakesCount ==
  ASSUME Countable, TypeOK, Counted, MainInv, FreeWakes
  PROVE  Counted'
<1>1. /\ UNCHANGED <<pool, wpc, bh>> /\ main = "free"
      /\ main' = "gone" => ~workers_left(cur_threads)
  BY DEF FreeWakes
<1>2. new_threads = 0
  BY <1>1 DEF MainInv
<1>3. cur_threads - new_threads = cur_threads
  BY <1>2, Numbers
<1>4. main' = "gone" => At({"none"}) = Workers
  BY <1>1, <1>3, NoneLeft
<1> QED
  BY <1>1, <1>4, QuietCount

LEMMA CountNext ==
  ASSUME Countable, TypeOK, Counted, MainInv, [Next]_vars
  PROVE  Counted'
<1>1. ASSUME NEW w \in Workers, WorkerStep(w) PROVE Counted'
  BY <1>1, StartCount, SemCount, TakeCount, DoneCount, FinishCount, Zenon DEF WorkerStep
<1>2. CASE MainStep
  <2>1. CASE SubmitPost
    BY <2>1, QuietCount, Zenon DEF SubmitPost
  <2>2. CASE CancelWakes
    BY <2>2, QuietCount DEF CancelWakes
  <2>3. CASE FreeWakes
    BY <2>3, FreeWakesCount
  <2>4. CASE spawn_thread_bh_fn
    BY <2>4, BhCount
  <2>5. CASE event_notifier_ready
    BY <2>5, QuietCount, Zenon DEF event_notifier_ready
  <2>6. CASE ScanTurn
    BY <2>6, QuietCount, Zenon DEF ScanTurn
  <2>7. CASE CallbackReturns
    BY <2>7, QuietCount, Zenon DEF CallbackReturns
  <2> QED
    BY <1>2, <2>1, <2>2, <2>3, <2>4, <2>5, <2>6, <2>7 DEF MainStep
<1>3. ASSUME NEW r \in Reqs, thread_pool_submit_aio(r) PROVE Counted'
  BY <1>3, SubmitCount
<1>4. ASSUME NEW r \in Reqs, thread_pool_cancel(r) PROVE Counted'
  <2>1. main' = main \/ main' = r
    BY <1>4, Zenon DEF thread_pool_cancel
  <2>2. r # "gone"
    BY PoolAssumption
  <2> QED
    BY <1>4, <2>1, <2>2, QuietCount, Zenon DEF thread_pool_cancel
<1>5. CASE thread_pool_free
  BY <1>5, FreeCount
<1>6. CASE UNCHANGED vars
  BY <1>6, QuietCount, Zenon DEF vars
<1> QED
  BY <1>1, <1>2, <1>3, <1>4, <1>5, <1>6 DEF Next

----------------------------------------------------------------------------
(* Tokens match the requests.                                               *)

LEMMA TokensNext ==
  ASSUME Countable, TypeOK, Counted, MainInv, Tokens, Worked, [Next]_vars
  PROVE  Tokens'
<1>0. sem \in Nat /\ Got(wpc) \in Nat /\ request_list \in Seq(Reqs) /\ Len(request_list) \in Nat
      /\ Posting \in {0, 1}
  <2>1. sem \in Nat /\ Got(wpc) \in Nat
    BY Numbers
  <2>2. request_list \in Seq(Reqs)
    BY DEF TypeOK
  <2> QED
    BY <2>1, <2>2 DEF Posting
<1>1. ASSUME UNCHANGED <<sem, request_list, main, stopping>>, Got(wpc') = Got(wpc) PROVE Tokens'
  BY <1>1 DEF Tokens, Posting
<1>2. ASSUME NEW w \in Workers, WorkerStart(w) PROVE Tokens'
  BY <1>1, <1>2, StartCount DEF WorkerStart
<1>3. ASSUME NEW w \in Workers, SemTimedwait(w) PROVE Tokens'
  <2>1. UNCHANGED <<request_list, main, stopping>> /\ sem' \in Nat
    BY <1>0, <1>3 DEF SemTimedwait
  <2>2. Got(wpc') + sem' = Got(wpc) + sem /\ Got(wpc') \in Nat
    BY <1>3, SemCount, CountsAre
  <2>3. Posting' = Posting
    BY <2>1 DEF Posting
  <2> QED
    BY <1>0, <2>1, <2>2, <2>3 DEF Tokens
<1>4. ASSUME NEW w \in Workers, WorkerTake(w) PROVE Tokens'
  <2>1. UNCHANGED <<sem, main, stopping>> /\ Posting' = Posting
    BY <1>4, TakeIs DEF Posting
  <2>2. CASE TakesAgain(w)
    BY <1>1, <1>4, <2>1, <2>2, TakeCount, Zenon DEF TakesAgain
  <2>3. CASE TakesExit(w)
    <3>1. stopping \/ Got(wpc') = Got(wpc)
      BY <1>4, <2>3, TakeCount
    <3> QED
      BY <1>1, <2>1, <2>3, <3>1 DEF TakesExit, Tokens
  <2>4. CASE TakesRequest(w)
    <3>1. Got(wpc) > 0 /\ Got(wpc') = Got(wpc) - 1 /\ ~stopping
      BY <1>4, <2>4, TakeCount, Zenon DEF TakesRequest
    <3>2. sem + Got(wpc) + Posting = Len(request_list)
      BY <3>1 DEF Tokens
    <3>3. request_list # <<>>
      BY <1>0, <3>1, <3>2
    <3>4. Len(request_list') = Len(request_list) - 1
      BY <1>0, <2>4, <3>3 DEF TakesRequest
    <3> QED
      BY <1>0, <2>1, <3>1, <3>2, <3>4 DEF Tokens
  <2> QED
    BY <1>4, <2>2, <2>3, <2>4, TakeIs
<1>5. ASSUME NEW w \in Workers, WorkerDone(w) PROVE Tokens'
  BY <1>1, <1>5, DoneCount, Zenon DEF WorkerDone
<1>6. ASSUME NEW w \in Workers, WorkerFinish(w) PROVE Tokens'
  BY <1>1, <1>6, FinishCount, Zenon DEF WorkerFinish
<1>7. CASE SubmitPost
  <2>1. /\ main = "post" /\ main' = "run" /\ sem' = sem + 1
        /\ UNCHANGED <<request_list, stopping, wpc>>
    BY <1>7 DEF SubmitPost
  <2>2. Posting = 1 /\ Posting' = 0 /\ Got(wpc') = Got(wpc)
    BY <2>1 DEF Posting
  <2> QED
    BY <1>0, <2>1, <2>2 DEF Tokens
<1>8. CASE CancelWakes
  <2>1. /\ main \in Reqs /\ main' \in {main, "run"} /\ UNCHANGED <<sem, request_list, stopping, wpc>>
    BY <1>8 DEF CancelWakes
  <2>2. Posting = 0 /\ Posting' = 0 /\ Got(wpc') = Got(wpc)
    BY <2>1, PoolAssumption DEF Posting
  <2> QED
    BY <2>1, <2>2 DEF Tokens
<1>9. CASE FreeWakes
  <2>1. stopping /\ UNCHANGED stopping
    BY <1>9 DEF FreeWakes, MainInv
  <2> QED
    BY <2>1 DEF Tokens
<1>10. CASE spawn_thread_bh_fn
  BY <1>1, <1>10, BhCount, Zenon DEF spawn_thread_bh_fn
<1>11. CASE event_notifier_ready \/ ScanTurn \/ CallbackReturns
  <2>1. UNCHANGED <<sem, request_list, main, stopping, wpc>>
    BY <1>11, TurnIs DEF event_notifier_ready, CallbackReturns
  <2> QED
    BY <1>1, <2>1
<1>12. ASSUME NEW r \in Reqs, thread_pool_submit_aio(r) PROVE Tokens'
  <2>1. main = "run" /\ main' = "post" /\ UNCHANGED <<sem, stopping, wpc>>
    BY <1>12 DEF thread_pool_submit_aio, UserCode
  <2>2. Posting = 0 /\ Posting' = 1 /\ Got(wpc') = Got(wpc)
    BY <2>1 DEF Posting
  <2>3. Len(request_list') = Len(request_list) + 1
    BY <1>12, SubmitWork
  <2> QED
    BY <1>0, <2>1, <2>2, <2>3 DEF Tokens
<1>13. ASSUME NEW r \in Reqs, thread_pool_cancel(r) PROVE Tokens'
  <2>1. main = "run" /\ UNCHANGED <<stopping, wpc, job>> /\ Got(wpc') = Got(wpc)
    BY <1>13, CancelIs DEF UserCode
  <2>2. CASE CancelSteals(r)
    <3>1. Len(request_list') = Len(request_list) - 1
      BY <2>1, <2>2, StealWork, Zenon DEF CancelSteals
    <3>2. sem > 0 /\ sem' = sem - 1 /\ Posting' = Posting
      BY <2>2 DEF CancelSteals, Posting
    <3> QED
      BY <1>0, <2>1, <3>1, <3>2 DEF Tokens
  <2>3. CASE CancelWaits(r)
    <3>1. UNCHANGED <<sem, request_list>> /\ main' = r
      BY <2>3 DEF CancelWaits
    <3>2. Posting = 0 /\ Posting' = 0
      BY <2>1, <3>1, PoolAssumption DEF Posting
    <3> QED
      BY <2>1, <3>1, <3>2 DEF Tokens
  <2> QED
    BY <1>13, <2>2, <2>3, CancelIs
<1>14. CASE thread_pool_free
  <2>1. stopping'
    BY <1>14 DEF thread_pool_free
  <2> QED
    BY <2>1 DEF Tokens
<1>15. CASE UNCHANGED vars
  <2>1. UNCHANGED <<sem, request_list, main, stopping, wpc>>
    BY <1>15 DEF vars
  <2> QED
    BY <1>1, <2>1
<1> QED
  BY <1>2, <1>3, <1>4, <1>5, <1>6, <1>7, <1>8, <1>9, <1>10, <1>11, <1>12, <1>13, <1>14,
     <1>15 DEF Next, WorkerStep, MainStep

----------------------------------------------------------------------------
(* The invariant, and what it says of the pool.                             *)

LEMMA NumbersNext ==
  ASSUME Countable, TypeOK, Counted, MainInv, Tokens, [Next]_vars
  PROVE  /\ sem' \in Nat /\ cur_threads' \in Nat /\ idle_threads' \in Nat /\ new_threads' \in Nat
         /\ pending_threads' \in Nat /\ pending_cancellations' \in Nat
<1> DEFINE to == wpc'
<1>1. Counted' /\ MainInv'
  BY CountNext, MainNext
<1>2. new_threads' \in Nat /\ sem' \in Nat
  BY IsSupplied, PlacesNext
<1>3. /\ cur_threads' = Cardinality(Workers) - Free(to) + new_threads'
      /\ pending_threads' = New(to) /\ idle_threads' = Idle(to)
      /\ pending_cancellations' = IF main' \in Reqs THEN 1 ELSE 0
  BY <1>1 DEF Counted, MainInv
<1> HIDE DEF to
<1>4. /\ Free(to) \in Nat /\ New(to) \in Nat /\ Idle(to) \in Nat
      /\ Cardinality(Workers) \in Nat /\ Free(to) <= Cardinality(Workers)
  BY CountsAre
<1> QED
  BY <1>2, <1>3, <1>4

LEMMA TypeNext ==
  ASSUME Countable, TypeOK, Counted, MainInv, Tokens, Worked, Nested(stack, head, state), [Next]_vars
  PROVE  TypeOK'
<1>1. Flags /\ main \in Mains
  BY DEF TypeOK, Flags, Mains
<1>2. Flags' /\ main' \in Mains
  BY <1>1, FlagsNext
<1>3. wpc' \in [Workers -> Places]
  BY IsSupplied, PlacesNext
<1>4. stack' \in Seq(Frame)
  BY StackNext
<1> QED
  BY <1>2, <1>3, <1>4, IsSupplied, NumbersNext, RequestsNext, Zenon DEF TypeOK, Flags, Mains, Places, States, Frame

LEMMA PoolInit == Countable /\ Init => PoolInv
<1> SUFFICES ASSUME Countable, Init PROVE PoolInv
  OBVIOUS
<1>1. TypeOK
  <2>1. <<>> \in Seq(Reqs) /\ <<>> \in Seq(Frame)
    OBVIOUS
  <2>2. /\ stack \in Seq(Frame) /\ head \in Seq(Reqs) /\ request_list \in Seq(Reqs)
        /\ {stopping, bh, notifier, woken} \subseteq BOOLEAN
        /\ main \in Reqs \cup {"run", "post", "free", "gone"}
    BY <2>1, Zenon DEF Init
  <2>3. {sem, cur_threads, idle_threads, new_threads, pending_threads,
         pending_cancellations} \subseteq Nat
    BY DEF Init
  <2>4. /\ state \in [Reqs -> {"free", "queued", "active", "done", "canceled"}]
        /\ wpc \in [Workers -> {"none", "new", "wait", "got", "late", "work", "done"}]
        /\ job \in [Workers -> Reqs \cup {NoReq}]
    BY DEF Init
  <2> QED
    BY <2>2, <2>3, <2>4 DEF TypeOK, Frame
<1>2. \A w \in Workers : wpc[w] = "none"
  BY DEF Init
<1>3. Free(wpc) = Cardinality(Workers) /\ New(wpc) = 0 /\ Idle(wpc) = 0 /\ Got(wpc) = 0
  <2>1. /\ {w \in Workers : wpc[w] \in {"none"}} = Workers
        /\ {w \in Workers : wpc[w] \in {"new"}} = {}
        /\ {w \in Workers : wpc[w] \in {"wait", "got", "late"}} = {}
        /\ {w \in Workers : wpc[w] \in {"got"}} = {}
    BY <1>2
  <2>2. Cardinality({}) = 0
    BY DEF Countable
  <2> QED
    BY <2>1, <2>2 DEF Free, New, Idle, Got, Num
<1>4. Counted
  BY <1>1, <1>3, Numbers DEF Init, Counted
<1>5. MainInv
  BY PoolAssumption DEF Init, MainInv
<1>6. Tokens
  BY <1>3 DEF Init, Tokens, Posting
<1>7. Range(<<>>) = {} /\ Once(<<>>)
  BY DEF Range, Once
<1>8. Worked
  <2>1. \A r \in Reqs : state[r] # "queued"
    BY DEF Init
  <2>2. request_list = <<>>
    BY DEF Init
  <2>3. {r \in Reqs : state[r] = "queued"} = {}
    BY <2>1
  <2> QED
    BY <1>2, <1>7, <2>2, <2>3, Zenon DEF Worked
<1>9. Nested(stack, head, state) /\ Seen
  <2>1. stack = <<>> /\ head = <<>>
    BY DEF Init
  <2>2. Len(<<>>) = 0 /\ 1 .. 0 = {} /\ 1 .. 0 - 1 = {}
    OBVIOUS
  <2>3. Nested(<<>>, <<>>, state)
    BY <1>7, <2>2 DEF Nested
  <2>4. Seen
    BY <1>7, <2>1, Zenon DEF Seen
  <2> QED
    BY <2>1, <2>3, <2>4, Zenon
<1> QED
  BY <1>1, <1>4, <1>5, <1>6, <1>8, <1>9 DEF PoolInv

LEMMA PoolNext == Countable /\ PoolInv /\ [Next]_vars => PoolInv'
<1> SUFFICES ASSUME Countable, PoolInv, [Next]_vars PROVE PoolInv'
  OBVIOUS
<1>1. TypeOK /\ Counted /\ MainInv /\ Tokens /\ Worked /\ Nested(stack, head, state) /\ Seen
  BY DEF PoolInv
<1>2. TypeOK' /\ Counted' /\ MainInv' /\ Tokens' /\ Worked' /\ Seen' /\ Nested(stack', head', state')
  BY <1>1, TypeNext, CountNext, MainNext, TokensNext, WorkNext, NestNext, SeenNext, IsSupplied
<1> QED
  BY <1>2 DEF PoolInv

LOCAL F == INSTANCE FiniteSetTheorems

LEMMA WorkersCountable == Countable
<1> SUFFICES ASSUME NEW S \in SUBSET Workers
             PROVE  /\ Cardinality(S) \in Nat /\ (Cardinality(S) = 0 <=> S = {})
                    /\ Cardinality(S) <= Cardinality(Workers)
                    /\ Cardinality(S) = Cardinality(Workers) => S = Workers
                    /\ \A x : /\ Cardinality(S \ {x}) =
                                   IF x \in S THEN Cardinality(S) - 1 ELSE Cardinality(S)
                              /\ Cardinality(S \cup {x}) =
                                   IF x \in S THEN Cardinality(S) ELSE Cardinality(S) + 1
  BY Zenon DEF Countable
<1>1. ASSUME NEW T PROVE F!Cardinality(T) = Cardinality(T)
  BY DEF Cardinality, F!Cardinality
<1>2. F!IsFiniteSet(Workers)
  <2>1. F!IsFiniteSet(Workers) <=> IsFiniteSet(Workers)
    BY DEF IsFiniteSet, F!IsFiniteSet
  <2> QED
    BY <2>1, PoolAssumption, Zenon
<1>3. /\ F!IsFiniteSet(S) /\ F!Cardinality(S) <= F!Cardinality(Workers)
      /\ F!Cardinality(Workers) = F!Cardinality(S) => Workers = S
  BY <1>2, F!FS_Subset
<1>4. F!Cardinality(S) \in Nat
  BY <1>3, F!FS_CardinalityType
<1>5. F!Cardinality(S) = 0 <=> S = {}
  BY <1>3, F!FS_EmptySet
<1>6. ASSUME NEW x
      PROVE  /\ F!Cardinality(S \ {x}) =
                  IF x \in S THEN F!Cardinality(S) - 1 ELSE F!Cardinality(S)
             /\ F!Cardinality(S \cup {x}) =
                  IF x \in S THEN F!Cardinality(S) ELSE F!Cardinality(S) + 1
  BY <1>3, F!FS_RemoveElement, F!FS_AddElement
<1> QED
  BY <1>1, <1>3, <1>4, <1>5, <1>6

\* The invariant holds: it is inductive, and the five properties follow from it.
THEOREM PoolInvariant == Spec => []PoolInv
<1>1. PoolInv /\ UNCHANGED vars => PoolInv'
  BY WorkersCountable, PoolNext
<1> QED
  BY WorkersCountable, PoolInit, PoolNext, PTL DEF Spec

\* worker_thread never finds the list empty when it holds a token: QTAILQ_FIRST
\* is a request, whatever thread_pool_cancel took (thread-pool.c:96-105, 214-222).
THEOREM TokensForRequests == Spec => []TokensMatchRequests
<1>1. PoolInv => TokensMatchRequests
  BY CountedIs DEF PoolInv
<1> QED
  BY <1>1, PoolInvariant, PTL

\* No two workers run one request, none runs a canceled or released one, and the
\* list holds the queued requests, each once (thread-pool.c:44-47, 104-117).
THEOREM WorkersApart == Spec => []OneWorkerPerRequest
<1>1. PoolInv => OneWorkerPerRequest
  BY OneWorkerIs DEF PoolInv
<1> QED
  BY <1>1, PoolInvariant, PTL

\* The four counters count the threads, the limit holds, thread_pool_free leaves
\* no thread behind, and a thread that was asked for has somebody to create it
\* (thread-pool.c:73-76, 125-167, 338-353).
THEOREM CountersCount == Spec => []ThreadsCounted
<1>1. PoolInv => ThreadsCounted
  BY CountedIs DEF PoolInv
<1> QED
  BY <1>1, PoolInvariant, PTL

\* A finished request is never overlooked: event_notifier_ready is due, or a scan
\* in progress reaches the request (thread-pool.c:114-121, 175-191).
THEOREM NoneOverlooked == Spec => []FinishedIsSeen
<1>1. PoolInv => FinishedIsSeen
  BY NestedIs DEF PoolInv
<1> QED
  BY <1>1, PoolInvariant, PTL

\* The scans follow pointers to requests that are on the list, however callbacks
\* submit, cancel, poll and release meanwhile (thread-pool.c:175-197).
THEOREM PointersValid == Spec => []ScanPointersValid
<1>1. PoolInv => ScanPointersValid
  BY NestedIs DEF PoolInv
<1> QED
  BY <1>1, PoolInvariant, PTL

=============================================================================
