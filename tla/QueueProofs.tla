---------------------------- MODULE QueueProofs ----------------------------
(***************************************************************************)
(* What every step of the coroutines does to the queues, for every number   *)
(* of coroutines, clusters, errors, commands and requests.                  *)
(*                                                                          *)
(* A coroutine has one link, co_queue_next, so the lists are looked at      *)
(* together (Once): a step appends to one of them, takes the head of one,   *)
(* or moves all of one to another.                                          *)
(***************************************************************************)
EXTENDS CoInvariants, TLAPS

----------------------------------------------------------------------------
(* Lists in which everything is at most once.                               *)

AddsTo(N, L, M, l, x) ==
  M[l] = Append(L[l], x) /\ \A n \in N : n # l => M[n] = L[n]
TakesFrom(N, L, M, l, x) ==
  /\ L[l] # <<>> /\ M[l] = Tail(L[l]) /\ x = Head(L[l])
  /\ \A n \in N : n # l => M[n] = L[n]
Joins(N, L, M, l, m) ==
  /\ l # m /\ M[l] = <<>> /\ M[m] = L[m] \o L[l]
  /\ \A n \in N : n # l /\ n # m => M[n] = L[n]

Loses(N, L, M, x) ==
  Has(N, L, x) /\ \A y : Has(N, M, y) <=> Has(N, L, y) /\ y # x

\* Sequences stay sequences when an element leaves or comes.
LEMMA SeqMoves ==
  ASSUME NEW S, NEW s \in Seq(S), NEW t \in Seq(S), NEW x \in S, s # <<>>
  PROVE  Tail(s) \in Seq(S) /\ Append(t, x) \in Seq(S)
  OBVIOUS

\* A reader that is not the only one leaves others behind.
LEMMA OneReader == \A n \in Nat : n # 1 => n - 1 > 0 \/ ~(n > 0)
  OBVIOUS

\* QTAILQ_INSERT_TAIL.
LEMMA AtTail ==
  ASSUME NEW S, NEW N, NEW L \in [N -> Seq(S)], NEW M \in [N -> Seq(S)], Once(N, L),
         NEW l \in N, NEW x \in S, ~Has(N, L, x), AddsTo(N, L, M, l, x)
  PROVE  /\ Once(N, M)
         /\ \A y : Has(N, M, y) <=> Has(N, L, y) \/ y = x
<1>1. \A m \in N : L[m] \in Seq(S) /\ Len(L[m]) \in Nat
  OBVIOUS
<1>2. /\ \A m \in N : m # l => M[m] = L[m]
      /\ M[l] = Append(L[l], x)
  BY DEF AddsTo
<1>3. /\ Len(M[l]) = Len(L[l]) + 1 /\ M[l][Len(L[l]) + 1] = x
      /\ \A i \in 1 .. Len(L[l]) : M[l][i] = L[l][i]
  BY <1>1, <1>2
<1>4. \A m \in N : \A i \in 1 .. Len(M[m]) :
        \/ i \in 1 .. Len(L[m]) /\ M[m][i] = L[m][i]
        \/ m = l /\ i = Len(L[l]) + 1 /\ M[m][i] = x
  <2>1. \A i \in 1 .. Len(M[l]) : i \in 1 .. Len(L[l]) \/ i = Len(L[l]) + 1
    BY <1>1, <1>3
  <2> QED
    BY <1>2, <1>3, <2>1
<1>5. \A m \in N : \A i \in 1 .. Len(L[m]) :
        i \in 1 .. Len(M[m]) /\ M[m][i] = L[m][i]
  <2>1. \A i \in 1 .. Len(L[l]) : i \in 1 .. Len(M[l])
    BY <1>1, <1>3
  <2> QED
    BY Zenon, <1>2, <1>3, <2>1
<1>6. Len(L[l]) + 1 \in 1 .. Len(M[l])
  BY <1>1, <1>3
<1>7. \A y : Has(N, M, y) <=> Has(N, L, y) \/ y = x
  <2> TAKE y
  <2>1. ASSUME Has(N, M, y)
        PROVE  Has(N, L, y) \/ y = x
    BY <1>4, <2>1 DEF Has
  <2>2. ASSUME Has(N, L, y) \/ y = x
        PROVE  Has(N, M, y)
    <3>1. CASE y = x
      BY <1>3, <1>6, <3>1 DEF Has
    <3>2. CASE Has(N, L, y)
      BY Zenon, <1>5, <3>2 DEF Has
    <3> QED
      BY <2>2, <3>1, <3>2
  <2> QED
    BY <2>1, <2>2
<1>8. ASSUME NEW m \in N, NEW k \in N, NEW i \in 1 .. Len(M[m]), NEW j \in 1 .. Len(M[k]),
             M[m][i] = M[k][j]
      PROVE  m = k /\ i = j
  <2>1. \A n \in N : \A h \in 1 .. Len(L[n]) : L[n][h] # x
    BY Zenon DEF Has
  <2>2. CASE i \in 1 .. Len(L[m]) /\ M[m][i] = L[m][i]
    <3>1. j \in 1 .. Len(L[k]) /\ M[k][j] = L[k][j]
      BY <1>4, <1>8, <2>1, <2>2, Zenon
    <3>2. L[m][i] = L[k][j]
      BY <1>8, <2>2, <3>1, Zenon
    <3>3. \A h \in 1 .. Len(L[m]), g \in 1 .. Len(L[k]) :
            L[m][h] = L[k][g] => m = k /\ h = g
      BY Zenon DEF Once
    <3> QED
      BY <2>2, <3>1, <3>2, <3>3, Zenon
  <2>3. CASE m = l /\ i = Len(L[l]) + 1 /\ M[m][i] = x
    BY <1>4, <1>8, <2>1, <2>3, ZenonT(40)
  <2> QED
    BY <1>4, <2>2, <2>3, Zenon
<1>9. Once(N, M)
  BY <1>8, Zenon DEF Once
<1> QED
  BY <1>2, <1>7, <1>9

\* QTAILQ_REMOVE of the first one.
LEMMA OffHead ==
  ASSUME NEW S, NEW N, NEW L \in [N -> Seq(S)], NEW M \in [N -> Seq(S)], Once(N, L),
         NEW l \in N, NEW x \in S, TakesFrom(N, L, M, l, x)
  PROVE  /\ Once(N, M)
         /\ Loses(N, L, M, x)
<1>1. \A m \in N : L[m] \in Seq(S) /\ Len(L[m]) \in Nat
  OBVIOUS
<1>2. /\ \A m \in N : m # l => M[m] = L[m]
      /\ M[l] = Tail(L[l]) /\ L[l] # <<>> /\ x = Head(L[l])
  BY DEF TakesFrom
<1>3. /\ Len(L[l]) > 0 /\ Len(M[l]) = Len(L[l]) - 1
      /\ \A i \in 1 .. Len(L[l]) - 1 : M[l][i] = L[l][i + 1]
      /\ x = L[l][1] /\ 1 \in 1 .. Len(L[l]) /\ L[l][1] \in S
  BY <1>1, <1>2
<1>4. \A m \in N : \A i \in 1 .. Len(M[m]) :
        \/ m # l /\ i \in 1 .. Len(L[m]) /\ M[m][i] = L[m][i]
        \/ m = l /\ i + 1 \in 1 .. Len(L[l]) /\ M[m][i] = L[l][i + 1] /\ i + 1 # 1
  <2>1. \A i \in 1 .. Len(M[l]) :
          i \in 1 .. Len(L[l]) - 1 /\ i + 1 \in 1 .. Len(L[l]) /\ i + 1 # 1
    BY <1>1, <1>3
  <2> QED
    BY Zenon, <1>2, <1>3, <2>1
<1>5. \A m \in N : \A i \in 1 .. Len(L[m]) :
        \/ m # l /\ i \in 1 .. Len(M[m]) /\ M[m][i] = L[m][i]
        \/ m = l /\ i # 1 /\ i - 1 \in 1 .. Len(M[l]) /\ M[l][i - 1] = L[l][i]
        \/ m = l /\ i = 1
  BY <1>1, <1>2, <1>3
<1>6. \A m \in N : \A i \in 1 .. Len(L[m]) : L[m][i] = L[l][1] => m = l /\ i = 1
  BY <1>3 DEF Once
<1>7. \A y : Has(N, M, y) <=> Has(N, L, y) /\ y # L[l][1]
  <2> TAKE y
  <2>1. ASSUME Has(N, M, y)
        PROVE  Has(N, L, y) /\ y # L[l][1]
    <3>0. PICK n \in N : \E i \in 1 .. Len(M[n]) : M[n][i] = y
      BY <2>1 DEF Has
    <3>1. PICK i \in 1 .. Len(M[n]) : M[n][i] = y
      BY <3>0
    <3>2. CASE n # l /\ i \in 1 .. Len(L[n]) /\ M[n][i] = L[n][i]
      BY <1>6, <3>1, <3>2 DEF Has
    <3>3. CASE n = l /\ i + 1 \in 1 .. Len(L[l]) /\ M[n][i] = L[l][i + 1] /\ i + 1 # 1
      BY <1>6, <3>1, <3>3 DEF Has
    <3> QED
      BY <1>4, <3>1, <3>2, <3>3
  <2>2. ASSUME Has(N, L, y), y # L[l][1]
        PROVE  Has(N, M, y)
    <3>0. PICK n \in N : \E i \in 1 .. Len(L[n]) : L[n][i] = y
      BY <2>2 DEF Has
    <3>1. PICK i \in 1 .. Len(L[n]) : L[n][i] = y
      BY <3>0
    <3>2. CASE n # l /\ i \in 1 .. Len(M[n]) /\ M[n][i] = L[n][i]
      BY <3>1, <3>2 DEF Has
    <3>3. CASE n = l /\ i # 1 /\ i - 1 \in 1 .. Len(M[l]) /\ M[l][i - 1] = L[l][i]
      BY <3>1, <3>3 DEF Has
    <3> QED
      BY <1>5, <2>2, <3>1, <3>2, <3>3
  <2> QED
    BY <2>1, <2>2
<1>8. ASSUME NEW m \in N, NEW k \in N, NEW i \in 1 .. Len(M[m]), NEW j \in 1 .. Len(M[k]),
             M[m][i] = M[k][j]
      PROVE  m = k /\ i = j
  <2>1. i \in Int /\ j \in Int /\ (i + 1 = j + 1 => i = j)
    OBVIOUS
  <2> QED
    <3>1. CASE m # l /\ i \in 1 .. Len(L[m]) /\ M[m][i] = L[m][i]
      <4>1. CASE k # l /\ j \in 1 .. Len(L[k]) /\ M[k][j] = L[k][j]
        <5>1. L[m][i] = L[k][j]
          BY Zenon, <1>8, <3>1, <4>1
        <5> QED
          BY <3>1, <4>1, <5>1 DEF Once
      <4>2. CASE k = l /\ j + 1 \in 1 .. Len(L[l]) /\ M[k][j] = L[l][j + 1]
        <5>1. L[m][i] = L[l][j + 1]
          BY Zenon, <1>8, <3>1, <4>2
        <5> QED
          BY <3>1, <4>2, <5>1 DEF Once
      <4> QED
        BY <1>4, <4>1, <4>2
    <3>2. CASE m = l /\ i + 1 \in 1 .. Len(L[l]) /\ M[m][i] = L[l][i + 1]
      <4>1. CASE k # l /\ j \in 1 .. Len(L[k]) /\ M[k][j] = L[k][j]
        <5>1. L[l][i + 1] = L[k][j]
          BY <1>8, <3>2, <4>1
        <5> QED
          BY <3>2, <4>1, <5>1 DEF Once
      <4>2. CASE k = l /\ j + 1 \in 1 .. Len(L[l]) /\ M[k][j] = L[l][j + 1]
        <5>1. L[l][i + 1] = L[l][j + 1]
          BY <1>8, <3>2, <4>2
        <5>2. \A g, h \in 1 .. Len(L[l]) : L[l][g] = L[l][h] => g = h
          BY DEF Once
        <5> QED
          BY <2>1, <3>2, <4>2, <5>1, <5>2
      <4> QED
        BY <1>4, <4>1, <4>2
    <3> QED
      BY Zenon, <1>4, <3>1, <3>2
<1>9. Once(N, M)
  BY <1>8, Zenon DEF Once
<1> QED
  <2>1. Has(N, L, L[l][1])
    BY <1>3 DEF Has
  <2> QED
    BY <1>2, <1>3, <1>7, <1>9, <2>1 DEF Loses

\* A list is moved behind another one.
LEMMA Behind ==
  ASSUME NEW S, NEW N, NEW L \in [N -> Seq(S)], NEW M \in [N -> Seq(S)], Once(N, L),
         NEW l \in N, NEW m \in N, Joins(N, L, M, l, m)
  PROVE  /\ Once(N, M)
         /\ \A y : Has(N, M, y) <=> Has(N, L, y)
<1>1. \A n \in N : L[n] \in Seq(S) /\ Len(L[n]) \in Nat
  OBVIOUS
<1>2. /\ \A n \in N : n # l /\ n # m => M[n] = L[n]
      /\ l # m /\ M[l] = <<>> /\ M[m] = L[m] \o L[l]
  BY DEF Joins
<1>3. /\ Len(M[l]) = 0 /\ Len(M[m]) = Len(L[m]) + Len(L[l])
      /\ \A i \in 1 .. Len(L[m]) : M[m][i] = L[m][i]
      /\ \A i \in 1 .. Len(L[l]) : M[m][Len(L[m]) + i] = L[l][i]
  BY <1>1, <1>2
<1>4. \A n \in N : \A i \in 1 .. Len(M[n]) :
        \/ n \notin {l} /\ i \in 1 .. Len(L[n]) /\ M[n][i] = L[n][i]
        \/ n = m /\ i - Len(L[m]) \in 1 .. Len(L[l]) /\ M[n][i] = L[l][i - Len(L[m])]
  <2> SUFFICES ASSUME NEW n \in N, NEW i \in 1 .. Len(M[n])
               PROVE  \/ n \notin {l} /\ i \in 1 .. Len(L[n]) /\ M[n][i] = L[n][i]
                      \/ n = m /\ i - Len(L[m]) \in 1 .. Len(L[l]) /\ M[n][i] = L[l][i - Len(L[m])]
    OBVIOUS
  <2>1. CASE n \notin {l, m}
    BY <1>2, <2>1
  <2>2. CASE n = l
    BY <1>3, <2>2
  <2>3. CASE n = m
    <3>1. CASE i <= Len(L[m])
      BY <1>1, <1>3, <2>3, <3>1
    <3>2. CASE i > Len(L[m])
      <4>1. i - Len(L[m]) \in 1 .. Len(L[l]) /\ i = Len(L[m]) + (i - Len(L[m]))
        BY <1>1, <1>3, <2>3, <3>2
      <4> QED
        BY Zenon, <1>3, <2>3, <4>1
    <3> QED
      BY <1>1, <3>1, <3>2
  <2> QED
    BY <2>1, <2>2, <2>3
<1>5. \A n \in N : \A i \in 1 .. Len(L[n]) :
        \/ n # l /\ i \in 1 .. Len(M[n]) /\ M[n][i] = L[n][i]
        \/ n = l /\ Len(L[m]) + i \in 1 .. Len(M[m]) /\ M[m][Len(L[m]) + i] = L[l][i]
  <2>1. /\ \A i \in 1 .. Len(L[l]) : Len(L[m]) + i \in 1 .. Len(M[m])
        /\ \A i \in 1 .. Len(L[m]) : i \in 1 .. Len(M[m])
    BY <1>1, <1>3
  <2> QED
    BY Zenon, <1>2, <1>3, <2>1
<1>6. \A y : Has(N, M, y) <=> Has(N, L, y)
  <2> TAKE y
  <2>1. ASSUME Has(N, M, y)
        PROVE  Has(N, L, y)
    <3>0. PICK n \in N : \E i \in 1 .. Len(M[n]) : M[n][i] = y
      BY <2>1 DEF Has
    <3>1. PICK i \in 1 .. Len(M[n]) : M[n][i] = y
      BY <3>0
    <3> QED
      BY Zenon, <1>4, <3>1 DEF Has
  <2>2. ASSUME Has(N, L, y)
        PROVE  Has(N, M, y)
    <3>0. PICK n \in N : \E i \in 1 .. Len(L[n]) : L[n][i] = y
      BY <2>2 DEF Has
    <3>1. PICK i \in 1 .. Len(L[n]) : L[n][i] = y
      BY <3>0
    <3> QED
      BY Zenon, <1>5, <3>1 DEF Has
  <2> QED
    BY <2>1, <2>2
<1>7. ASSUME NEW n \in N, NEW k \in N, NEW i \in 1 .. Len(M[n]), NEW j \in 1 .. Len(M[k]),
             M[n][i] = M[k][j]
      PROVE  n = k /\ i = j
  <2>1. i \in Int /\ j \in Int /\ (i - Len(L[m]) = j - Len(L[m]) => i = j)
    BY <1>1
  <2> QED
    <3>1. CASE n \notin {l} /\ i \in 1 .. Len(L[n]) /\ M[n][i] = L[n][i]
      <4>1. CASE k \notin {l} /\ j \in 1 .. Len(L[k]) /\ M[k][j] = L[k][j]
        <5>1. L[n][i] = L[k][j]
          BY Zenon, <1>7, <3>1, <4>1
        <5> QED
          BY <3>1, <4>1, <5>1 DEF Once
      <4>2. CASE k = m /\ j - Len(L[m]) \in 1 .. Len(L[l]) /\ M[k][j] = L[l][j - Len(L[m])]
        <5>1. L[n][i] = L[l][j - Len(L[m])]
          BY Zenon, <1>7, <3>1, <4>2
        <5>2. n = l
          BY <3>1, <4>2, <5>1 DEF Once
        <5> QED
          BY <3>1, <5>2
      <4> QED
        BY <1>4, <4>1, <4>2
    <3>2. CASE n = m /\ i - Len(L[m]) \in 1 .. Len(L[l]) /\ M[n][i] = L[l][i - Len(L[m])]
      <4>1. CASE k \notin {l} /\ j \in 1 .. Len(L[k]) /\ M[k][j] = L[k][j]
        BY <1>7, <3>2, <4>1 DEF Once
      <4>2. CASE k = m /\ j - Len(L[m]) \in 1 .. Len(L[l]) /\ M[k][j] = L[l][j - Len(L[m])]
        <5>1. i - Len(L[m]) = j - Len(L[m])
          <6>1. L[l][i - Len(L[m])] = L[l][j - Len(L[m])]
            BY <1>7, <3>2, <4>2
          <6>2. \A g, h \in 1 .. Len(L[l]) : L[l][g] = L[l][h] => g = h
            BY DEF Once
          <6> QED
            BY Zenon, <3>2, <4>2, <6>1, <6>2
        <5> QED
          BY <2>1, <3>2, <4>2, <5>1
      <4> QED
        BY <1>4, <4>1, <4>2
    <3> QED
      BY <1>4, <3>1, <3>2
<1>8. Once(N, M)
  BY <1>7, Zenon DEF Once
<1> QED
  BY <1>2, <1>6, <1>8

----------------------------------------------------------------------------
(* What the operations on coroutines and queues do to the lists.            *)

\* Who runs after an operation, and where.
LEMMA Runs ==
  ASSUME NEW c \in Co
  PROVE  /\ \A p : qemu_co_mutex_lock(c, p) =>
                     \/ pc' = pc /\ Halts(c, "queue")
                     \/ Moves(c, p) /\ GoesOn
         /\ \A p, l : qemu_co_rwlock_rdlock(l, c, p) =>
                        \/ pc' = pc /\ Halts(c, "queue") /\ writer[l]
                        \/ Moves(c, p) /\ GoesOn
         /\ \A p, l : qemu_co_rwlock_wrlock(l, c, p) =>
                        \/ pc' = pc /\ Halts(c, "queue")
                        \/ Moves(c, p) /\ GoesOn /\ ~(reader[l] > 0)
         /\ qemu_co_mutex_unlock(c) => GoesOn
         /\ \A l : qemu_co_rwlock_unlock(l, c) => GoesOn
         /\ \A l : qemu_co_queue_wait(l, c) => Halts(c, "queue")
         /\ \A l : qemu_co_queue_restart_all(l, c) => GoesOn
         /\ \A r : qemu_coroutine_yield(c, r) => Halts(c, r)
         /\ \A p : Goto(c, p) <=> Moves(c, p)
         /\ UNCHANGED coVars => GoesOn
  BY Zenon DEF qemu_co_mutex_lock, qemu_co_mutex_unlock, qemu_co_rwlock_rdlock,
     qemu_co_rwlock_wrlock, qemu_co_rwlock_unlock, qemu_co_queue_wait,
     qemu_co_queue_next, qemu_co_queue_restart_all, qemu_coroutine_yield,
     SwitchBack, Goto, Moves, Waits, Halts, GoesOn, coVars

InEntries(q) == <<"entries", q>>
InWakeup(c) == <<"wakeup", c>>

LEMMA NamesAre ==
  /\ \A q \in Queues : InEntries(q) \in Names
  /\ \A c \in Co : InWakeup(c) \in Names
  /\ \A n \in Names : \/ \E q \in Queues : n = InEntries(q)
                      \/ \E c \in Co : n = InWakeup(c)
  /\ \A q, r \in Queues : InEntries(q) = InEntries(r) => q = r
  /\ \A c, d \in Co : InWakeup(c) = InWakeup(d) => c = d
  /\ \A q \in Queues, c \in Co : InEntries(q) # InWakeup(c)
  BY DEF Names, InEntries, InWakeup

LEMMA ListsAre ==
  ASSUME NEW e \in [Queues -> Seq(Co)], NEW w \in [Co -> Seq(Co)]
  PROVE  /\ ListsOf(e, w) \in [Names -> Seq(Co)]
         /\ \A q \in Queues : ListsOf(e, w)[InEntries(q)] = e[q]
         /\ \A c \in Co : ListsOf(e, w)[InWakeup(c)] = w[c]
<1>1. \A q \in Queues : ListsOf(e, w)[InEntries(q)] = e[q]
  BY Zenon, NamesAre DEF ListsOf, InEntries
<1>2. \A c \in Co : ListsOf(e, w)[InWakeup(c)] = w[c]
  BY Zenon, NamesAre DEF ListsOf, InWakeup
<1>3. \A n \in Names : ListsOf(e, w)[n] \in Seq(Co)
  BY <1>1, <1>2, NamesAre
<1>4. ListsOf(e, w) = [n \in Names |-> ListsOf(e, w)[n]]
  BY DEF ListsOf
<1> QED
  BY <1>1, <1>2, <1>3, <1>4

\* Pushing a loop, and returning from those that have nothing left to do.
Unwinds(x, s, l, n, t) ==
  l = <<x>> \o s /\ n \in 0 .. Len(l) /\ t = SubSeq(l, n + 1, Len(l))

\* The lists of this and of the next state.
LEMMA ListsNow ==
  ASSUME CoTypeOK, CoTypeOK'
  PROVE  /\ Lists \in [Names -> Seq(Co)] /\ Lists' \in [Names -> Seq(Co)]
         /\ \A q \in Queues : Lists[InEntries(q)] = entries[q] /\ Lists'[InEntries(q)] = entries'[q]
         /\ \A c \in Co : Lists[InWakeup(c)] = wakeup[c] /\ Lists'[InWakeup(c)] = wakeup'[c]
<1>1. Lists = ListsOf(entries, wakeup) /\ Lists' = ListsOf(entries', wakeup')
  BY DEF Lists, ListsOf
<1>2. /\ entries \in [Queues -> Seq(Co)] /\ wakeup \in [Co -> Seq(Co)]
      /\ entries' \in [Queues -> Seq(Co)] /\ wakeup' \in [Co -> Seq(Co)]
  BY DEF CoTypeOK
<1> QED
  BY Zenon, <1>1, <1>2, ListsAre

LEMMA RestartKeeps ==
  ASSUME Queued, Pending, qemu_co_queue_run_restart
  PROVE  \E c \in Co, x \in Co :
           /\ Queued' /\ Pending' /\ UNCHANGED entries /\ running' = x
           /\ waits[x] = "queue" /\ waits' = [waits EXCEPT ![x] = "none"]
           /\ wakeup[c] # <<>> /\ x = Head(wakeup[c]) /\ wakeup'[c] = Tail(wakeup[c])
           /\ \A d \in Co : d # c => wakeup'[d] = wakeup[d]
<1> DEFINE c == Head(restarting)
           x == Head(wakeup[c])
<1>1. /\ CoTypeOK /\ c \in Co /\ wakeup[c] \in Seq(Co) /\ wakeup[c] # <<>> /\ x \in Co
      /\ restarting \in Seq(Co) /\ running = "leader"
  <2>1. restarting \in Seq(Co) /\ restarting # <<>> /\ running = "leader" /\ CoTypeOK
    BY DEF Queued, CoTypeOK, qemu_co_queue_run_restart
  <2>2. c \in Co
    BY <2>1
  <2>3. wakeup[c] \in Seq(Co) /\ wakeup[c] # <<>>
    BY Zenon, <2>1, <2>2 DEF Pending, CoTypeOK
  <2> QED
    BY <2>1, <2>2, <2>3
<1>2. /\ running' = x /\ waits' = [waits EXCEPT ![x] = "none"]
      /\ wakeup' = [wakeup EXCEPT ![c] = Tail(@)] /\ UNCHANGED <<restarting, entries>>
  BY DEF qemu_co_queue_run_restart, qemu_coroutine_enter
<1>3. x = Head(wakeup[c])
  OBVIOUS
<1> HIDE DEF c, x
<1>4. CoTypeOK'
  BY <1>1, <1>2 DEF CoTypeOK, Reasons
<1>5. wakeup'[c] = Tail(wakeup[c]) /\ \A d \in Co : d # c => wakeup'[d] = wakeup[d]
  BY <1>1, <1>2 DEF CoTypeOK
<1>6. /\ Lists'[InWakeup(c)] = Tail(Lists[InWakeup(c)]) /\ Lists[InWakeup(c)] = wakeup[c]
      /\ \A n \in Names : n # InWakeup(c) => Lists'[n] = Lists[n]
  <2>1. Lists'[InWakeup(c)] = Tail(Lists[InWakeup(c)]) /\ Lists[InWakeup(c)] = wakeup[c]
    BY <1>1, <1>4, <1>5, ListsNow
  <2>2. ASSUME NEW p \in Queues PROVE Lists'[InEntries(p)] = Lists[InEntries(p)]
    BY <1>1, <1>2, <1>4, ListsNow
  <2>3. ASSUME NEW d \in Co, d # c PROVE Lists'[InWakeup(d)] = Lists[InWakeup(d)]
    BY <1>1, <1>4, <1>5, <2>3, ListsNow
  <2> QED
    BY <2>1, <2>2, <2>3, NamesAre
<1>7. /\ Lists \in [Names -> Seq(Co)] /\ Lists' \in [Names -> Seq(Co)]
      /\ Once(Names, Lists) /\ InWakeup(c) \in Names
  BY <1>1, <1>4, ListsNow, NamesAre DEF Queued
<1>8. /\ Once(Names, Lists') /\ Has(Names, Lists, x)
      /\ \A y : Has(Names, Lists', y) <=> Has(Names, Lists, y) /\ y # x
  <2>1. TakesFrom(Names, Lists, Lists', InWakeup(c), x)
    BY <1>1, <1>3, <1>6 DEF TakesFrom
  <2> QED
    <3>1. Once(Names, Lists') /\ Loses(Names, Lists, Lists', x)
      BY Zenon, <1>1, <1>7, <2>1, OffHead
    <3> QED
      BY <3>1 DEF Loses
<1>9. waits[x] = "queue" /\ \A d \in Co : waits'[d] = IF d = x THEN "none" ELSE waits[d]
  BY <1>1, <1>2, <1>8 DEF Queued, Linked, CoTypeOK
<1>10. \A d \in Co : waits'[d] = "queue" <=> Has(Names, Lists', d)
  BY <1>8, <1>9 DEF Queued, Linked
<1>11. \A d \in Co : waits'[d] = "none" <=> running' = d
  BY Zenon, <1>1, <1>2, <1>9, CoAssumption DEF Queued
<1>12. Queued'
  BY <1>4, <1>8, <1>10, <1>11 DEF Queued, Linked
<1>13. \A d \in Co : wakeup'[d] # <<>> => wakeup[d] # <<>>
  BY <1>1, <1>5
<1>14. Pending'
  BY <1>1, <1>2, <1>13, CoAssumption DEF Pending, InSeq
<1> QED
  BY Zenon, <1>1, <1>2, <1>3, <1>5, <1>9, <1>12, <1>14

\* The effect on the lists of one step of coroutine c, for the waiters of q:
\* nobody comes, or c does; nobody goes, or one or all are marked for restart.
Grows == \A d \in Co : InSeq(wakeup[d]) \subseteq InSeq(wakeup[d])'
Comes(q, c) == InSeq(entries[q])' = InSeq(entries[q]) \cup {c}
Stay(q) == UNCHANGED entries[q]
OneGoes(q, c) ==
  /\ entries[q] # <<>> /\ InSeq(entries[q])' \subseteq InSeq(entries[q])
  /\ \E w \in InSeq(entries[q]) : w \in InSeq(wakeup[c])'
AllGo(q) == entries'[q] = <<>>

LEMMA InEmpty == InSeq(<<>>) = {}
  BY DEF InSeq

\* What a step of c must be for those who wait for lock q.
Minds(q, c) ==
  \/ Stay(q) /\ (Busy(q)' \/ (~Busy(q) /\ pc[c] \notin WaitsAt(q)))
  \/ Comes(q, c) /\ Busy(q)' /\ pc'[c] \in WaitsAt(q)
  \/ AllGo(q)
  \/ OneGoes(q, c)
OnlyMoves(c) == \A d \in Co : d # c => pc'[d] = pc[d]

\* One who waits for nothing: where a coroutine does not ask for a lock.
WaitPlaces == {"read_lock", "write_lock", "is_allocated", "rdlock", "wrlock",
               "path_rdlock", "path_wrlock", "nested"}
LEMMA WaitsAre ==
  /\ LockQueues = {"mutex", "flush", "rename"} /\ LockQueues \subseteq Queues
  /\ Co \subseteq Queues /\ \A c \in Co : c \notin LockQueues
  /\ WaitsAt("mutex") = {"read_lock", "write_lock", "is_allocated"}
  /\ WaitsAt("flush") = {"rdlock", "wrlock"}
  /\ WaitsAt("rename") = {"path_rdlock", "path_wrlock", "nested"}
  /\ \A q \in LockQueues : WaitsAt(q) \subseteq WaitPlaces
  /\ \A q, r \in LockQueues : q # r => WaitsAt(q) \cap WaitsAt(r) = {}
<1>1. LockQueues = {"mutex", "flush", "rename"} /\ LockQueues \subseteq Queues
  BY DEF LockQueues, Queues, RwLocks
<1>2. Co \subseteq Queues /\ \A c \in Co : c \notin LockQueues
  BY <1>1, CoAssumption DEF Queues
<1>3. /\ WaitsAt("mutex") = {"read_lock", "write_lock", "is_allocated"}
      /\ WaitsAt("flush") = {"rdlock", "wrlock"}
      /\ WaitsAt("rename") = {"path_rdlock", "path_wrlock", "nested"}
  BY DEF WaitsAt, LockPlaces
<1>4. \A q \in LockQueues : WaitsAt(q) \subseteq WaitPlaces
  BY <1>1, <1>3 DEF WaitPlaces
<1>5. \A q, r \in LockQueues : q # r => WaitsAt(q) \cap WaitsAt(r) = {}
  BY <1>1, <1>3
<1> QED
  BY <1>1, <1>2, <1>3, <1>4, <1>5

----------------------------------------------------------------------------
(* Every action keeps the queues.                                           *)

\* What QLIST_INSERT_HEAD and QLIST_REMOVE of inflight_reqs leave in the list.
ListSteps ==
  \A c \in Co :
    /\ CowBegin(c) => \A d \in Co : Listed(d) => Listed(d)'
    /\ CowEnd(c) => \A d \in Co : d # c /\ Listed(d) => Listed(d)'

LEMMA QueueNext ==
  LockInv /\ CopyInv /\ ListSteps /\ SleepInv /\ QueueInv /\ [Next]_vars => QueueInv'
<1>Returns.
  ASSUME NEW S, NEW s \in Seq(S), NEW x \in S, NEW l, NEW n, NEW t, Unwinds(x, s, l, n, t)
  PROVE  /\ t \in Seq(S)
         /\ t # <<>> => n < Len(l) /\ Head(t) = l[n + 1]
         /\ \A y : y = x \/ y \in InSeq(s) =>
              y \in InSeq(t) \/ \E i \in 1 .. n : y = l[i]
  <2> USE <1>Returns
  <2>0. l = <<x>> \o s
    BY DEF Unwinds
  <2>1. /\ l \in Seq(S) /\ Len(l) = Len(s) + 1 /\ l[1] = x /\ Len(s) \in Nat
        /\ \A i \in 1 .. Len(s) : l[i + 1] = s[i]
    BY <2>0
  <2>2. t = SubSeq(l, n + 1, Len(l)) /\ n \in 0 .. Len(l)
    BY DEF Unwinds
  <2>3. t \in Seq(S) /\ Len(t) = Len(l) - n /\ \A i \in 1 .. Len(l) - n : t[i] = l[n + i]
    BY <2>1, <2>2
  <2>4. t # <<>> => n < Len(l) /\ Head(t) = l[n + 1]
    <3> SUFFICES ASSUME t # <<>> PROVE n < Len(l) /\ Head(t) = l[n + 1]
      OBVIOUS
    <3>1. Len(t) > 0 /\ Head(t) = t[1]
      BY <2>3
    <3> QED
      BY <2>1, <2>2, <2>3, <3>1
  <2>5. ASSUME NEW i \in 1 .. Len(l), i > n PROVE l[i] \in InSeq(t)
    <3>1. i - n \in 1 .. Len(l) - n /\ n + (i - n) = i
      BY <2>1, <2>2, <2>5
    <3>2. t[i - n] = l[i]
      BY <2>3, <3>1
    <3>3. i - n \in DOMAIN t
      BY <2>3, <3>1
    <3> QED
      BY <3>2, <3>3, Zenon DEF InSeq
  <2>6. ASSUME NEW y, y = x \/ y \in InSeq(s)
        PROVE  \E i \in 1 .. Len(l) : y = l[i]
    <3>1. CASE y = x
      BY <2>1, <3>1
    <3>2. CASE y \in InSeq(s)
      <4>1. PICK j \in 1 .. Len(s) : y = s[j]
        BY <3>2 DEF InSeq
      <4>2. j + 1 \in 1 .. Len(l) /\ l[j + 1] = s[j]
        BY <2>1
      <4> QED
        BY <4>1, <4>2
    <3> QED
      BY <2>6, <3>1, <3>2
  <2>7. \A y : y = x \/ y \in InSeq(s) => y \in InSeq(t) \/ \E i \in 1 .. n : y = l[i]
    <3> TAKE y
    <3> HAVE y = x \/ y \in InSeq(s)
    <3>1. PICK i \in 1 .. Len(l) : y = l[i]
      BY <2>6
    <3>2. CASE i > n
      BY <2>5, <3>1, <3>2
    <3>3. CASE ~(i > n)
      <4>1. i \in 1 .. n
        BY <2>1, <2>2, <3>3
      <4> QED
        BY <3>1, <4>1
    <3> QED
      BY <3>2, <3>3
  <2> QED
    BY <2>3, <2>4, <2>7
<1>SwitchedBack.
  ASSUME CoTypeOK, Pending, NEW c \in Co, running = c, NEW r \in Reasons, SwitchBack(c, r),
         UNCHANGED wakeup
  PROVE  /\ running' = "leader" /\ restarting' \in Seq(Co)
         /\ waits' \in [Co -> Reasons]
         /\ \A d \in Co : waits'[d] = IF d = c THEN r ELSE waits[d]
         /\ Pending'
  <2> USE <1>SwitchedBack
  <2>1. /\ running' = "leader" /\ waits' = [waits EXCEPT ![c] = r]
    BY DEF SwitchBack
  <2> DEFINE loops == <<c>> \o restarting
  <2>2. PICK n \in 0 .. Len(loops) :
          /\ \A i \in 1 .. n : wakeup[loops[i]] = <<>>
          /\ n < Len(loops) => wakeup[loops[n + 1]] # <<>>
          /\ restarting' = SubSeq(loops, n + 1, Len(loops))
    BY Zenon DEF SwitchBack
  <2>3. restarting \in Seq(Co) /\ loops = <<c>> \o restarting
    BY DEF CoTypeOK
  <2> HIDE DEF loops
  <2>4. /\ restarting' \in Seq(Co)
        /\ restarting' # <<>> => n < Len(loops) /\ Head(restarting') = loops[n + 1]
        /\ \A y : y = c \/ y \in InSeq(restarting) =>
             y \in InSeq(restarting') \/ \E i \in 1 .. n : y = loops[i]
    <3>1. Unwinds(c, restarting, loops, n, restarting')
      BY <2>2, <2>3 DEF Unwinds
    <3>2. restarting \in Seq(Co)
      BY <2>3
    <3> QED
      BY <3>1, <3>2, <1>Returns
  <2>5. restarting' # <<>> => wakeup'[Head(restarting')] # <<>>
    BY <2>2, <2>4, Zenon
  <2>6. \A d \in Co : wakeup'[d] # <<>> => d \in InSeq(restarting')
    <3> TAKE d \in Co
    <3> HAVE wakeup'[d] # <<>>
    <3>1. d = c \/ d \in InSeq(restarting)
      BY DEF Pending
    <3>2. \A i \in 1 .. n : d # loops[i]
      BY <2>2
    <3> QED
      BY <2>4, <3>1, <3>2, Zenon
  <2>7. InSeq(restarting)' = InSeq(restarting')
    BY DEF InSeq
  <2>8. Pending'
    BY <2>5, <2>6, <2>7, Zenon DEF Pending
  <2> QED
    BY <2>1, <2>4, <2>8 DEF CoTypeOK

\* A coroutine yields for something else than a queue.
<1>YieldKeeps.
  ASSUME Queued, Pending, NEW c \in Co, running = c, NEW r \in Reasons \ {"none", "queue"},
         SwitchBack(c, r), UNCHANGED <<wakeup, entries>>
  PROVE  Queued' /\ Pending'
  <2> USE <1>YieldKeeps
  <2>1. /\ running' = "leader" /\ restarting' \in Seq(Co) /\ waits' \in [Co -> Reasons]
        /\ \A d \in Co : waits'[d] = IF d = c THEN r ELSE waits[d]
        /\ Pending'
    BY <1>SwitchedBack DEF Queued
  <2>2. CoTypeOK'
    BY <2>1 DEF Queued, CoTypeOK
  <2>3. Lists' = Lists
    BY DEF Lists, ListsOf
  <2>4. ~Linked(c)
    BY DEF Queued
  <2>5. \A d \in Co : waits'[d] = "queue" <=> Has(Names, Lists', d)
    BY <2>1, <2>3, <2>4 DEF Queued, Linked
  <2>6. \A d \in Co : waits'[d] = "none" <=> running' = d
    BY Zenon, <2>1, CoAssumption DEF Queued
  <2> QED
    BY <2>1, <2>2, <2>3, <2>5, <2>6 DEF Queued, Linked

\* qemu_co_queue_wait.
<1>WaitKeeps.
  ASSUME Queued, Pending, NEW c \in Co, running = c, NEW q \in Queues, qemu_co_queue_wait(q, c)
  PROVE  /\ Queued' /\ Pending' /\ UNCHANGED wakeup
         /\ entries'[q] = Append(entries[q], c)
         /\ \A p \in Queues : p # q => entries'[p] = entries[p]
  <2> USE <1>WaitKeeps
  <2>1. /\ running' = "leader" /\ restarting' \in Seq(Co) /\ waits' \in [Co -> Reasons]
        /\ \A d \in Co : waits'[d] = IF d = c THEN "queue" ELSE waits[d]
        /\ Pending'
    BY <1>SwitchedBack DEF Queued, qemu_co_queue_wait, Reasons
  <2>2. /\ entries'[q] = Append(entries[q], c) /\ UNCHANGED wakeup
        /\ \A p \in Queues : p # q => entries'[p] = entries[p]
    BY DEF qemu_co_queue_wait, Queued, CoTypeOK
  <2>3. CoTypeOK'
    BY <2>1, <2>2 DEF Queued, CoTypeOK, qemu_co_queue_wait
  <2>4. ~Has(Names, Lists, c)
    BY DEF Queued, Linked
  <2>5. /\ Lists'[InEntries(q)] = Append(Lists[InEntries(q)], c)
        /\ \A n \in Names : n # InEntries(q) => Lists'[n] = Lists[n]
    <3>1. CoTypeOK
      BY Zenon DEF Queued
    <3>2. Lists'[InEntries(q)] = Append(Lists[InEntries(q)], c)
      BY Zenon, <2>2, <2>3, <3>1, ListsNow
    <3>3. ASSUME NEW p \in Queues, p # q PROVE Lists'[InEntries(p)] = Lists[InEntries(p)]
      BY Zenon, <2>2, <2>3, <3>1, <3>3, ListsNow
    <3>4. ASSUME NEW d \in Co PROVE Lists'[InWakeup(d)] = Lists[InWakeup(d)]
      BY <2>2, <2>3, <3>1, ListsNow
    <3> QED
      BY <3>2, <3>3, <3>4, NamesAre
  <2>6. /\ Once(Names, Lists')
        /\ \A y : Has(Names, Lists', y) <=> Has(Names, Lists, y) \/ y = c
    <3>1. Lists \in [Names -> Seq(Co)] /\ Lists' \in [Names -> Seq(Co)] /\ Once(Names, Lists)
      BY <2>3, ListsNow DEF Queued
    <3>2. InEntries(q) \in Names
      BY NamesAre
    <3> QED
      <4>1. AddsTo(Names, Lists, Lists', InEntries(q), c)
        BY <2>5, Zenon DEF AddsTo
      <4> QED
        BY Zenon, <2>4, <3>1, <3>2, <4>1, AtTail
  <2>7. \A d \in Co : waits'[d] = "queue" <=> Has(Names, Lists', d)
    BY <2>1, <2>6 DEF Queued, Linked
  <2>8. \A d \in Co : waits'[d] = "none" <=> running' = d
    BY <2>1, CoAssumption DEF Queued
  <2> QED
    BY <2>1, <2>2, <2>3, <2>6, <2>7, <2>8 DEF Queued, Linked

\* qemu_co_queue_next and qemu_co_queue_restart_all, when somebody waits.
<1>NextKeeps.
  ASSUME Queued, Pending, NEW c \in Co, running = c, NEW q \in Queues,
         qemu_co_queue_next(q, c), entries[q] # <<>>
  PROVE  /\ Queued' /\ Pending' /\ UNCHANGED <<running, waits>>
         /\ entries'[q] = Tail(entries[q]) /\ Head(entries[q]) \in Co
         /\ wakeup'[c] = Append(wakeup[c], Head(entries[q]))
         /\ \A p \in Queues : p # q => entries'[p] = entries[p]
         /\ \A d \in Co : d # c => wakeup'[d] = wakeup[d]
  <2> USE <1>NextKeeps
  <2> DEFINE x == Head(entries[q])
  <2>1. CoTypeOK /\ entries[q] \in Seq(Co) /\ x \in Co /\ wakeup[c] \in Seq(Co)
    BY DEF Queued, CoTypeOK
  <2>2. /\ entries' = [entries EXCEPT ![q] = Tail(@)]
        /\ wakeup' = [wakeup EXCEPT ![c] = Append(@, x)]
        /\ UNCHANGED <<running, restarting, waits>>
    BY DEF qemu_co_queue_next
  <2> HIDE DEF x
  <2>3. CoTypeOK'
    <3>1. Tail(entries[q]) \in Seq(Co) /\ Append(wakeup[c], x) \in Seq(Co)
      BY Zenon, <2>1, SeqMoves
    <3> QED
      BY Zenon, <2>1, <2>2, <3>1 DEF CoTypeOK
  <2>4. /\ entries'[q] = Tail(entries[q]) /\ wakeup'[c] = Append(wakeup[c], x)
        /\ \A p \in Queues : p # q => entries'[p] = entries[p]
        /\ \A d \in Co : d # c => wakeup'[d] = wakeup[d]
    BY <2>1, <2>2 DEF CoTypeOK
  <2> DEFINE M == ListsOf(entries', wakeup)
  <2>5. /\ M \in [Names -> Seq(Co)]
        /\ M[InEntries(q)] = Tail(Lists[InEntries(q)])
        /\ Lists[InEntries(q)] = entries[q]
        /\ \A n \in Names : n # InEntries(q) => M[n] = Lists[n]
    <3>1. /\ entries' \in [Queues -> Seq(Co)] /\ wakeup \in [Co -> Seq(Co)]
      BY Zenon, <2>1, <2>3 DEF CoTypeOK
    <3>2. /\ M \in [Names -> Seq(Co)] /\ \A p \in Queues : M[InEntries(p)] = entries'[p]
          /\ \A d \in Co : M[InWakeup(d)] = wakeup[d]
      BY Zenon, <3>1, ListsAre
    <3> HIDE DEF M
    <3>3. M[InEntries(q)] = Tail(Lists[InEntries(q)]) /\ Lists[InEntries(q)] = entries[q]
      BY Zenon, <2>1, <2>3, <2>4, <3>2, ListsNow
    <3>4. ASSUME NEW p \in Queues, p # q PROVE M[InEntries(p)] = Lists[InEntries(p)]
      BY ZenonT(40), <2>1, <2>3, <2>4, <3>2, <3>4, ListsNow
    <3>5. ASSUME NEW d \in Co PROVE M[InWakeup(d)] = Lists[InWakeup(d)]
      BY <2>1, <2>3, <3>2, ListsNow
    <3>6. \A n \in Names : n # InEntries(q) => M[n] = Lists[n]
      <4> TAKE n \in Names
      <4>1. (\E p \in Queues : n = InEntries(p)) \/ \E d \in Co : n = InWakeup(d)
        BY Zenon, NamesAre
      <4> QED
        BY Zenon, <3>4, <3>5, <4>1
    <3> QED
      BY Zenon, <3>2, <3>3, <3>6
  <2>6. /\ Lists' \in [Names -> Seq(Co)]
        /\ Lists'[InWakeup(c)] = Append(M[InWakeup(c)], x)
        /\ \A n \in Names : n # InWakeup(c) => Lists'[n] = M[n]
    <3>1. /\ entries' \in [Queues -> Seq(Co)] /\ wakeup \in [Co -> Seq(Co)]
      BY <2>1, <2>3 DEF CoTypeOK
    <3>2. /\ \A p \in Queues : M[InEntries(p)] = entries'[p]
          /\ \A d \in Co : M[InWakeup(d)] = wakeup[d]
      BY Zenon, <3>1, ListsAre
    <3> HIDE DEF M
    <3>3. Lists' \in [Names -> Seq(Co)] /\ Lists'[InWakeup(c)] = Append(M[InWakeup(c)], x)
      BY Zenon, <2>1, <2>3, <2>4, <3>2, ListsNow
    <3>4. ASSUME NEW p \in Queues PROVE Lists'[InEntries(p)] = M[InEntries(p)]
      BY Zenon, <2>1, <2>3, <3>2, ListsNow
    <3>5. ASSUME NEW d \in Co, d # c PROVE Lists'[InWakeup(d)] = M[InWakeup(d)]
      BY ZenonT(40), <2>1, <2>3, <2>4, <3>2, <3>5, ListsNow
    <3> QED
      BY ZenonT(40), <3>3, <3>4, <3>5, NamesAre
  <2> HIDE DEF M
  <2>7. Lists \in [Names -> Seq(Co)] /\ Once(Names, Lists)
    BY Zenon, <2>1, <2>3, ListsNow DEF Queued
  <2>8. InEntries(q) \in Names /\ InWakeup(c) \in Names
    BY Zenon, NamesAre
  <2>9. /\ Once(Names, M) /\ Has(Names, Lists, x)
        /\ \A y : Has(Names, M, y) <=> Has(Names, Lists, y) /\ y # x
    <3>1. TakesFrom(Names, Lists, M, InEntries(q), x)
      BY Zenon, <2>5 DEF TakesFrom, x
    <3>2. M \in [Names -> Seq(Co)]
      BY <2>5
    <3> QED
      <4>1. Once(Names, M) /\ Loses(Names, Lists, M, x)
        BY Zenon, <2>1, <2>7, <2>8, <3>1, <3>2, OffHead
      <4> QED
        BY <4>1 DEF Loses
  <2>10. /\ Once(Names, Lists')
         /\ \A y : Has(Names, Lists', y) <=> Has(Names, M, y) \/ y = x
    <3>1. AddsTo(Names, M, Lists', InWakeup(c), x)
      BY <2>6, Zenon DEF AddsTo
    <3>2. M \in [Names -> Seq(Co)] /\ Lists' \in [Names -> Seq(Co)] /\ ~Has(Names, M, x)
      BY <2>5, <2>6, <2>9
    <3> QED
      BY ZenonT(40), <2>1, <2>8, <2>9, <3>1, <3>2, AtTail
  <2>11. \A d \in Co : waits'[d] = "queue" <=> Has(Names, Lists', d)
    BY <2>2, <2>9, <2>10 DEF Queued, Linked
  <2>12. Queued'
    BY <2>2, <2>3, <2>10, <2>11 DEF Queued, Linked
  <2>13. Pending'
    BY <2>2, <2>4, CoAssumption DEF Pending, InSeq
  <2> QED
    BY <2>1, <2>2, <2>4, <2>12, <2>13 DEF x
<1>AllKeeps.
  ASSUME Queued, Pending, NEW c \in Co, running = c, NEW q \in Queues,
         qemu_co_queue_restart_all(q, c)
  PROVE  /\ Queued' /\ Pending' /\ UNCHANGED <<running, waits>>
         /\ entries'[q] = <<>> /\ wakeup'[c] = wakeup[c] \o entries[q]
         /\ \A p \in Queues : p # q => entries'[p] = entries[p]
         /\ \A d \in Co : d # c => wakeup'[d] = wakeup[d]
  <2> USE <1>AllKeeps
  <2>1. CoTypeOK /\ entries[q] \in Seq(Co) /\ wakeup[c] \in Seq(Co)
    BY DEF Queued, CoTypeOK
  <2>2. /\ entries' = [entries EXCEPT ![q] = <<>>]
        /\ wakeup' = [wakeup EXCEPT ![c] = @ \o entries[q]]
        /\ UNCHANGED <<running, restarting, waits>>
    BY DEF qemu_co_queue_restart_all
  <2>3. CoTypeOK'
    BY <2>1, <2>2 DEF CoTypeOK
  <2>4. /\ entries'[q] = <<>> /\ wakeup'[c] = wakeup[c] \o entries[q]
        /\ \A p \in Queues : p # q => entries'[p] = entries[p]
        /\ \A d \in Co : d # c => wakeup'[d] = wakeup[d]
    BY Zenon, <2>1, <2>2 DEF CoTypeOK
  <2>5. /\ Lists'[InEntries(q)] = <<>>
        /\ Lists'[InWakeup(c)] = Lists[InWakeup(c)] \o Lists[InEntries(q)]
        /\ \A n \in Names : n # InEntries(q) /\ n # InWakeup(c) => Lists'[n] = Lists[n]
    <3>1. /\ Lists'[InEntries(q)] = <<>>
          /\ Lists'[InWakeup(c)] = Lists[InWakeup(c)] \o Lists[InEntries(q)]
      BY Zenon, <2>1, <2>3, <2>4, ListsNow
    <3>2. ASSUME NEW p \in Queues, p # q PROVE Lists'[InEntries(p)] = Lists[InEntries(p)]
      BY Zenon, <2>1, <2>3, <2>4, <3>2, ListsNow
    <3>3. ASSUME NEW d \in Co, d # c PROVE Lists'[InWakeup(d)] = Lists[InWakeup(d)]
      BY Zenon, <2>1, <2>3, <2>4, <3>3, ListsNow
    <3> QED
      BY <3>1, <3>2, <3>3, NamesAre
  <2>6. /\ Lists \in [Names -> Seq(Co)] /\ Lists' \in [Names -> Seq(Co)]
        /\ Once(Names, Lists)
    BY <2>1, <2>3, ListsNow DEF Queued
  <2>7. InEntries(q) \in Names /\ InWakeup(c) \in Names /\ InEntries(q) # InWakeup(c)
    BY NamesAre
  <2>8. Once(Names, Lists') /\ \A y : Has(Names, Lists', y) <=> Has(Names, Lists, y)
    <3>1. Joins(Names, Lists, Lists', InEntries(q), InWakeup(c))
      BY <2>5, <2>7, Zenon DEF Joins
    <3> QED
      BY Zenon, <2>6, <2>7, <3>1, Behind
  <2>9. Queued'
    BY Zenon, <2>2, <2>3, <2>8 DEF Queued, Linked
  <2>10. Pending'
    BY <2>2, <2>4, CoAssumption DEF Pending, InSeq
  <2> QED
    BY Zenon, <2>2, <2>4, <2>9, <2>10

\* The main loop enters a coroutine that neither runs nor is in a list.
<1>EnterKeeps.
  ASSUME Queued, Pending, MainIdle, NEW c \in Co, waits[c] # "queue", qemu_coroutine_enter(c),
         UNCHANGED <<restarting, wakeup, entries>>
  PROVE  Queued' /\ Pending'
  <2> USE <1>EnterKeeps
  <2>1. /\ running' = c /\ waits' \in [Co -> Reasons] /\ CoTypeOK'
        /\ \A d \in Co : waits'[d] = IF d = c THEN "none" ELSE waits[d]
    BY Zenon DEF qemu_coroutine_enter, Queued, CoTypeOK, Reasons
  <2>2. Lists' = Lists
    BY DEF Lists, ListsOf
  <2>3. \A d \in Co : waits'[d] = "queue" <=> Has(Names, Lists', d)
    BY <2>1, <2>2 DEF Queued, Linked
  <2>4. \A d \in Co : waits'[d] = "none" <=> running' = d
    BY <2>1, CoAssumption DEF Queued, MainIdle
  <2>5. Queued'
    BY Zenon, <2>1, <2>2, <2>3, <2>4 DEF Queued, Linked
  <2>6. \A d \in Co : wakeup[d] = <<>>
    BY CoAssumption DEF Pending, MainIdle, InSeq
  <2>7. Pending'
    BY <2>1, <2>6, CoAssumption DEF Pending, MainIdle
  <2> QED
    BY Zenon, <2>5, <2>7

(* Those who wait for a lock.                                               *)
<1>InSeqs.
  ASSUME NEW S, NEW s \in Seq(S), NEW t \in Seq(S), NEW x \in S
  PROVE  /\ InSeq(s) \subseteq S
         /\ InSeq(Append(s, x)) = InSeq(s) \cup {x}
         /\ s # <<>> => Head(s) \in InSeq(s) /\ InSeq(s) = InSeq(Tail(s)) \cup {Head(s)}
         /\ InSeq(s) \subseteq InSeq(s \o t)
         /\ InSeq(<<>>) = {}
  <2> USE <1>InSeqs
  <2>1. InSeq(s) = {s[i] : i \in 1 .. Len(s)} /\ Len(s) \in Nat
    BY DEF InSeq
  <2>2. InSeq(Append(s, x)) = InSeq(s) \cup {x}
    <3>1. /\ DOMAIN Append(s, x) = 1 .. Len(s) + 1 /\ Append(s, x)[Len(s) + 1] = x
          /\ \A i \in 1 .. Len(s) : Append(s, x)[i] = s[i]
      OBVIOUS
    <3>2. \A i \in 1 .. Len(s) + 1 : i \in 1 .. Len(s) \/ i = Len(s) + 1
      BY <2>1
    <3>3. \A i \in 1 .. Len(s) : i \in 1 .. Len(s) + 1
      BY <2>1
    <3>4. Len(s) + 1 \in 1 .. Len(s) + 1
      BY <2>1
    <3> QED
      BY <2>1, <3>1, <3>2, <3>3, <3>4 DEF InSeq
  <2>3. ASSUME s # <<>> PROVE Head(s) \in InSeq(s) /\ InSeq(s) = InSeq(Tail(s)) \cup {Head(s)}
    <3>1. /\ DOMAIN Tail(s) = 1 .. Len(s) - 1 /\ Head(s) = s[1] /\ Len(s) > 0
          /\ \A i \in 1 .. Len(s) - 1 : Tail(s)[i] = s[i + 1]
      BY <2>3
    <3>2. 1 \in 1 .. Len(s)
      BY <2>1, <3>1
    <3>3. \A i \in 1 .. Len(s) : i = 1 \/ (i - 1 \in 1 .. Len(s) - 1 /\ (i - 1) + 1 = i)
      BY <2>1, <3>1
    <3>4. \A i \in 1 .. Len(s) - 1 : i + 1 \in 1 .. Len(s)
      BY <2>1, <3>1
    <3>5. InSeq(Tail(s)) = {Tail(s)[i] : i \in 1 .. Len(s) - 1}
      BY Zenon, <3>1 DEF InSeq
    <3>6. ASSUME NEW y \in InSeq(s) PROVE y \in InSeq(Tail(s)) \cup {Head(s)}
      <4>1. PICK i \in 1 .. Len(s) : y = s[i]
        BY <2>1
      <4>2. CASE i = 1
        BY <3>1, <4>1, <4>2
      <4>3. CASE i - 1 \in 1 .. Len(s) - 1 /\ (i - 1) + 1 = i
        <5>1. Tail(s)[i - 1] = y
          BY <3>1, <4>1, <4>3
        <5> QED
          BY Zenon, <3>5, <4>3, <5>1
      <4> QED
        BY <3>3, <4>2, <4>3
    <3>7. ASSUME NEW y \in InSeq(Tail(s)) \cup {Head(s)} PROVE y \in InSeq(s)
      BY <2>1, <3>1, <3>2, <3>4, <3>5
    <3> QED
      BY <3>6, <3>7
  <2>4. InSeq(s) \subseteq InSeq(s \o t)
    <3>1. /\ DOMAIN (s \o t) = 1 .. Len(s) + Len(t) /\ Len(t) \in Nat
          /\ \A i \in 1 .. Len(s) : (s \o t)[i] = s[i]
      OBVIOUS
    <3>2. \A i \in 1 .. Len(s) : i \in 1 .. Len(s) + Len(t)
      BY <2>1, <3>1
    <3> QED
      BY <2>1, <3>1, <3>2 DEF InSeq
  <2>5. InSeq(s) \subseteq S
    BY <2>1
  <2>6. InSeq(<<>>) = {}
    BY DEF InSeq
  <2> QED
    BY <2>2, <2>3, <2>4, <2>5, <2>6
<1>Effects.
  ASSUME Queued, Pending, NEW c \in Co, running = c, NEW q \in Queues
  PROVE  /\ UNCHANGED coVars => /\ Queued' /\ Pending' /\ Grows
                                /\ \A p \in Queues : Stay(p)
         /\ \A r \in Reasons \ {"none", "queue"} : qemu_coroutine_yield(c, r) =>
              /\ Queued' /\ Pending' /\ Grows /\ \A p \in Queues : Stay(p)
         /\ qemu_co_queue_wait(q, c) =>
              /\ Queued' /\ Pending' /\ Grows /\ Comes(q, c)
              /\ \A p \in Queues : p # q => Stay(p)
         /\ qemu_co_queue_next(q, c) =>
              /\ Queued' /\ Pending' /\ Grows /\ (AllGo(q) \/ OneGoes(q, c))
              /\ \A p \in Queues : p # q => Stay(p)
         /\ qemu_co_queue_restart_all(q, c) =>
              /\ Queued' /\ Pending' /\ Grows /\ AllGo(q)
              /\ \A p \in Queues : p # q => Stay(p)
  <2> USE <1>Effects
  <2>0. CoTypeOK
    BY Zenon DEF Queued
  <2>1. UNCHANGED coVars => Queued' /\ Pending' /\ Grows /\ \A p \in Queues : Stay(p)
    BY DEF coVars, Queued, Pending, Lists, ListsOf, Linked, Grows, Stay, InSeq, CoTypeOK
  <2>2. ASSUME NEW r \in Reasons \ {"none", "queue"}, qemu_coroutine_yield(c, r)
        PROVE  Queued' /\ Pending' /\ Grows /\ \A p \in Queues : Stay(p)
    <3>1. SwitchBack(c, r) /\ UNCHANGED <<wakeup, entries>>
      BY <2>2 DEF qemu_coroutine_yield
    <3>2. Grows /\ \A p \in Queues : Stay(p)
      BY Zenon, <3>1 DEF Grows, Stay, InSeq
    <3> QED
      BY <3>1, <3>2, <1>YieldKeeps
  <2>3. ASSUME qemu_co_queue_wait(q, c)
        PROVE  /\ Queued' /\ Pending' /\ Grows /\ Comes(q, c)
               /\ \A p \in Queues : p # q => Stay(p)
    <3>1. /\ Queued' /\ Pending' /\ UNCHANGED wakeup /\ entries'[q] = Append(entries[q], c)
          /\ \A p \in Queues : p # q => entries'[p] = entries[p]
      BY Zenon, <2>3, <1>WaitKeeps
    <3>2. InSeq(entries[q])' = InSeq(Append(entries[q], c)) /\ entries[q] \in Seq(Co)
      BY Zenon, <2>0, <3>1 DEF InSeq, CoTypeOK
    <3>3. Comes(q, c)
      BY <3>2, <1>InSeqs DEF Comes
    <3>4. Grows /\ \A p \in Queues : p # q => Stay(p)
      BY Zenon, <3>1 DEF Grows, Stay, InSeq
    <3> QED
      BY Zenon, <3>1, <3>3, <3>4
  <2>4. ASSUME qemu_co_queue_next(q, c)
        PROVE  /\ Queued' /\ Pending' /\ Grows /\ (AllGo(q) \/ OneGoes(q, c))
               /\ \A p \in Queues : p # q => Stay(p)
    <3>1. CASE entries[q] = <<>>
      <4>1. UNCHANGED coVars
        BY Zenon, <2>4, <3>1 DEF qemu_co_queue_next, coVars
      <4> QED
        BY Zenon, <2>1, <3>1, <4>1 DEF AllGo, coVars
    <3>2. CASE entries[q] # <<>>
      <4>1. /\ Queued' /\ Pending' /\ entries'[q] = Tail(entries[q]) /\ Head(entries[q]) \in Co
            /\ wakeup'[c] = Append(wakeup[c], Head(entries[q]))
            /\ \A p \in Queues : p # q => entries'[p] = entries[p]
            /\ \A d \in Co : d # c => wakeup'[d] = wakeup[d]
        BY <2>4, <3>2, <1>NextKeeps
      <4>2. entries[q] \in Seq(Co) /\ wakeup[c] \in Seq(Co)
        BY Zenon, <2>0 DEF CoTypeOK
      <4>3. /\ InSeq(entries[q])' = InSeq(Tail(entries[q]))
            /\ InSeq(wakeup[c])' = InSeq(Append(wakeup[c], Head(entries[q])))
        BY Zenon, <4>1 DEF InSeq
      <4>4. Head(entries[q]) \in InSeq(entries[q]) /\ InSeq(Tail(entries[q])) \subseteq InSeq(entries[q])
        <5>1. /\ Head(entries[q]) \in InSeq(entries[q])
              /\ InSeq(entries[q]) = InSeq(Tail(entries[q])) \cup {Head(entries[q])}
          BY Zenon, <3>2, <4>1, <4>2, <1>InSeqs
        <5> QED
          BY Zenon, <5>1
      <4>5. InSeq(wakeup[c])' = InSeq(wakeup[c]) \cup {Head(entries[q])}
        BY <4>1, <4>2, <4>3, <1>InSeqs
      <4>6. OneGoes(q, c)
        BY Zenon, <3>2, <4>3, <4>4, <4>5 DEF OneGoes
      <4>7. \A d \in Co : d # c => InSeq(wakeup[d])' = InSeq(wakeup[d])
        BY <4>1 DEF InSeq
      <4>8. Grows /\ \A p \in Queues : p # q => Stay(p)
        BY Zenon, <4>1, <4>5, <4>7 DEF Grows, Stay
      <4> QED
        BY ZenonT(40), <4>1, <4>6, <4>8
    <3> QED
      BY Zenon, <3>1, <3>2
  <2>5. ASSUME qemu_co_queue_restart_all(q, c)
        PROVE  /\ Queued' /\ Pending' /\ Grows /\ AllGo(q)
               /\ \A p \in Queues : p # q => Stay(p)
    <3>1. /\ Queued' /\ Pending' /\ entries'[q] = <<>> /\ wakeup'[c] = wakeup[c] \o entries[q]
          /\ \A p \in Queues : p # q => entries'[p] = entries[p]
          /\ \A d \in Co : d # c => wakeup'[d] = wakeup[d]
      BY Zenon, <2>5, <1>AllKeeps
    <3>2. entries[q] \in Seq(Co) /\ wakeup[c] \in Seq(Co)
      BY <2>0 DEF CoTypeOK
    <3>3. InSeq(wakeup[c])' = InSeq(wakeup[c] \o entries[q])
      BY Zenon, <3>1 DEF InSeq
    <3>4. InSeq(wakeup[c]) \subseteq InSeq(wakeup[c])'
      BY <3>2, <3>3, <1>InSeqs
    <3>5. \A d \in Co : d # c => InSeq(wakeup[d])' = InSeq(wakeup[d])
      BY Zenon, <3>1 DEF InSeq
    <3> QED
      BY Zenon, <3>1, <3>4, <3>5 DEF Grows, Stay, AllGo
  <2> QED
    BY <2>1, <2>2, <2>3, <2>4, <2>5
<1>Members.
  ASSUME Queued, NEW w
  PROVE  /\ \A q \in Queues : w \in InSeq(entries[q]) => w \in Co /\ waits[w] = "queue"
         /\ \A d \in Co : w \in InSeq(wakeup[d]) => w \in Co /\ waits[w] = "queue"
  <2> USE <1>Members
  <2>1. entries \in [Queues -> Seq(Co)] /\ wakeup \in [Co -> Seq(Co)]
    BY Zenon DEF Queued, CoTypeOK
  <2>2. /\ \A q \in Queues : InEntries(q) \in Names /\ Lists[InEntries(q)] = entries[q]
        /\ \A d \in Co : InWakeup(d) \in Names /\ Lists[InWakeup(d)] = wakeup[d]
    BY <2>1, ListsAre, NamesAre DEF Lists
  <2>3. ASSUME NEW n \in Names, NEW s \in Seq(Co), Lists[n] = s, w \in InSeq(s)
        PROVE  w \in Co /\ waits[w] = "queue"
    <3>1. PICK i \in 1 .. Len(s) : w = s[i]
      BY <2>3 DEF InSeq
    <3>2. Has(Names, Lists, w)
      BY <2>3, <3>1 DEF Has
    <3>3. w \in Co
      BY <3>1
    <3> QED
      BY Zenon, <3>2, <3>3 DEF Queued, Linked
  <2>4. ASSUME NEW q \in Queues, w \in InSeq(entries[q]) PROVE w \in Co /\ waits[w] = "queue"
    BY Zenon, <2>1, <2>2, <2>3, <2>4
  <2>5. ASSUME NEW d \in Co, w \in InSeq(wakeup[d]) PROVE w \in Co /\ waits[w] = "queue"
    BY <2>1, <2>2, <2>3, <2>5
  <2> QED
    BY <2>4, <2>5
<1>MindsKeeps.
  ASSUME Queued, NEW c \in Co, running = c, NEW q \in LockQueues, Waiters(q), Served(q),
         Grows, OnlyMoves(c), Minds(q, c)
  PROVE  Waiters(q)' /\ Served(q)'
  <2> USE <1>MindsKeeps
  <2>0. q \in Queues
    BY DEF LockQueues, Queues
  <2>1. waits[c] = "none"
    BY Zenon DEF Queued
  <2>2. \A w \in InSeq(entries[q]) : w \in Co /\ w # c /\ pc'[w] \in WaitsAt(q)
    BY <2>0, <2>1, <1>Members DEF Waiters, OnlyMoves
  <2>3. CASE Stay(q) /\ (Busy(q)' \/ (~Busy(q) /\ pc[c] \notin WaitsAt(q)))
    <3>1. Waiters(q)'
      BY Zenon, <2>2, <2>3 DEF Waiters, Stay
    <3>2. Served(q)'
      <4>1. CASE Busy(q)'
        BY Zenon, <4>1 DEF Served
      <4>2. CASE entries[q] = <<>>
        BY Zenon, <2>3, <4>2 DEF Served, Stay
      <4>3. CASE entries[q] # <<>> /\ ~Busy(q) /\ pc[c] \notin WaitsAt(q)
        <5>1. PICK w \in Co : pc[w] \in WaitsAt(q)
                              /\ (running = w \/ \E d \in Co : w \in InSeq(wakeup[d]))
          BY Zenon, <4>3 DEF Served, Looks
        <5>2. w # c
          BY Zenon, <4>3, <5>1
        <5>3. PICK d \in Co : w \in InSeq(wakeup[d])
          BY Zenon, <5>1, <5>2
        <5>4. pc'[w] \in WaitsAt(q) /\ w \in InSeq(wakeup[d])'
          BY Zenon, <5>1, <5>2, <5>3 DEF Grows, OnlyMoves
        <5>5. Looks(q)'
          BY <5>4 DEF Looks
        <5> QED
          BY Zenon, <5>5 DEF Served
      <4> QED
        BY Zenon, <2>3, <4>1, <4>2, <4>3
    <3> QED
      BY Zenon, <3>1, <3>2
  <2>4. CASE Comes(q, c) /\ Busy(q)' /\ pc'[c] \in WaitsAt(q)
    BY Zenon, <2>2, <2>4 DEF Waiters, Served, Comes
  <2>5. CASE AllGo(q)
    BY ZenonT(40), <2>5, InEmpty DEF AllGo, Waiters, Served
  <2>6. CASE OneGoes(q, c)
    <3>1. Waiters(q)'
      BY Zenon, <2>2, <2>6 DEF OneGoes, Waiters
    <3>2. Looks(q)'
      BY <2>2, <2>6 DEF OneGoes, Looks
    <3> QED
      BY Zenon, <3>1, <3>2 DEF Served
  <2> QED
    BY Zenon, <2>3, <2>4, <2>5, <2>6 DEF Minds
<1>MovesOnly.
  ASSUME Placed, NEW c \in Co, pc' = pc \/ \E p : Moves(c, p)
  PROVE  OnlyMoves(c)
  BY <1>MovesOnly DEF Placed, Moves, OnlyMoves
<1>StillListed.
  ASSUME Inflight, UNCHANGED inflight_reqs, \A d \in Co : Stay(d)
  PROVE  Inflight'
  BY <1>StillListed DEF Inflight, Stay, Listed, InList

(* The operations on locks, and steps without one.                          *)
<1>QuietQueue.
  ASSUME Placed, QueueInv, NEW c \in Co, running = c, pc[c] \notin WaitPlaces,
         pc' = pc \/ \E p : Moves(c, p), UNCHANGED <<lockVars, inflight_reqs>>,
         \/ UNCHANGED coVars
         \/ \E r \in Reasons \ {"none", "queue"} : qemu_coroutine_yield(c, r)
  PROVE  QueueInv'
  <2> USE <1>QuietQueue
  <2>1. Queued' /\ Pending' /\ Grows /\ \A p \in Queues : Stay(p)
    BY <1>Effects DEF QueueInv, Queues
  <2>2. OnlyMoves(c)
    BY <1>MovesOnly
  <2>3. ASSUME NEW q \in LockQueues PROVE Waiters(q)' /\ Served(q)'
    <3>1. Busy(q)' <=> Busy(q)
      BY DEF Busy, lockVars
    <3>2. Minds(q, c)
      BY <2>1, <3>1, WaitsAre DEF Minds
    <3> QED
      BY <2>1, <2>2, <3>2, <1>MindsKeeps DEF QueueInv
  <2>4. Inflight'
    BY <2>1, <1>StillListed, WaitsAre DEF QueueInv
  <2> QED
    BY Zenon, <2>1, <2>3, <2>4 DEF QueueInv
<1>MutexLockQueue.
  ASSUME Placed, QueueInv, NEW c \in Co, running = c, pc[c] \in WaitsAt("mutex"),
         NEW p, qemu_co_mutex_lock(c, p), UNCHANGED inflight_reqs
  PROVE  QueueInv'
  <2> USE <1>MutexLockQueue
  <2>1. CASE locked
    <3>1. qemu_co_queue_wait("mutex", c) /\ UNCHANGED <<pc, lockVars>>
      BY Zenon, <2>1 DEF qemu_co_mutex_lock
    <3>2. /\ Queued' /\ Pending' /\ Grows /\ Comes("mutex", c)
          /\ \A q \in Queues : q # "mutex" => Stay(q)
      BY <3>1, <1>Effects, WaitsAre DEF QueueInv
    <3>3. ASSUME NEW q \in LockQueues PROVE Waiters(q)' /\ Served(q)'
      <4>1. Busy(q)' <=> Busy(q)
        BY Zenon, <3>1 DEF Busy, lockVars
      <4>2. Minds(q, c)
        BY <2>1, <3>1, <3>2, <4>1, WaitsAre DEF Minds, Busy, lockVars
      <4>3. OnlyMoves(c)
        BY <3>1 DEF OnlyMoves
      <4> QED
        BY <3>2, <4>2, <4>3, <1>MindsKeeps DEF QueueInv
    <3>4. Inflight'
      BY <3>2, <1>StillListed, WaitsAre DEF QueueInv
    <3> QED
      BY <3>2, <3>3, <3>4 DEF QueueInv
  <2>2. CASE ~locked
    <3>1. locked' = TRUE /\ Moves(c, p) /\ UNCHANGED <<writer, reader, coVars>>
      BY Zenon, <2>2 DEF qemu_co_mutex_lock, Goto, Moves
    <3>2. Queued' /\ Pending' /\ Grows /\ \A q \in Queues : Stay(q)
      BY <3>1, <1>Effects DEF QueueInv, Queues
    <3>3. ASSUME NEW q \in LockQueues PROVE Waiters(q)' /\ Served(q)'
      <4>1. Busy(q)' \/ (~Busy(q) /\ q # "mutex")
        BY <3>1 DEF Busy
      <4>2. Minds(q, c)
        BY <3>2, <4>1, WaitsAre DEF Minds
      <4>3. OnlyMoves(c)
        BY <3>1, <1>MovesOnly
      <4> QED
        BY Zenon, <3>2, <4>2, <4>3, <1>MindsKeeps DEF QueueInv
    <3>4. Inflight'
      BY <3>2, <1>StillListed, WaitsAre DEF QueueInv
    <3> QED
      BY <3>2, <3>3, <3>4 DEF QueueInv
  <2> QED
    BY <2>1, <2>2
<1>MutexUnlockQueue.
  ASSUME Placed, QueueInv, NEW c \in Co, running = c, pc[c] \notin WaitPlaces,
         pc' = pc \/ \E p : Moves(c, p), qemu_co_mutex_unlock(c), UNCHANGED inflight_reqs
  PROVE  QueueInv'
  <2> USE <1>MutexUnlockQueue
  <2>1. qemu_co_queue_next("mutex", c) /\ UNCHANGED <<writer, reader>>
    BY Zenon DEF qemu_co_mutex_unlock
  <2>2. /\ Queued' /\ Pending' /\ Grows /\ (AllGo("mutex") \/ OneGoes("mutex", c))
        /\ \A q \in Queues : q # "mutex" => Stay(q)
    BY Zenon, <2>1, <1>Effects, WaitsAre DEF QueueInv
  <2>3. ASSUME NEW q \in LockQueues PROVE Waiters(q)' /\ Served(q)'
    <3>1. q # "mutex" => (Busy(q)' <=> Busy(q))
      BY Zenon, <2>1 DEF Busy
    <3>2. Minds(q, c)
      BY <2>2, <3>1, WaitsAre DEF Minds
    <3>3. OnlyMoves(c)
      BY Zenon, <1>MovesOnly
    <3> QED
      BY Zenon, <2>2, <3>2, <3>3, <1>MindsKeeps DEF QueueInv
  <2>4. Inflight'
    BY Zenon, <2>2, <1>StillListed, WaitsAre DEF QueueInv
  <2> QED
    BY <2>2, <2>3, <2>4 DEF QueueInv

\* A lock is not to be had: the coroutine waits.
<1>RwWaitQueue.
  ASSUME Placed, QueueInv, NEW c \in Co, running = c, NEW l \in RwLocks,
         pc[c] \in WaitsAt(l), Busy(l), qemu_co_queue_wait(l, c),
         UNCHANGED <<pc, lockVars, inflight_reqs>>
  PROVE  QueueInv'
  <2> USE <1>RwWaitQueue
  <2>0. l \in LockQueues /\ l \in Queues
    BY Zenon, WaitsAre DEF LockQueues
  <2>1. /\ Queued' /\ Pending' /\ Grows /\ Comes(l, c)
        /\ \A q \in Queues : q # l => Stay(q)
    BY Zenon, <2>0, <1>Effects DEF QueueInv
  <2>2. ASSUME NEW q \in LockQueues PROVE Waiters(q)' /\ Served(q)'
    <3>1. Busy(q)' <=> Busy(q)
      BY Zenon DEF Busy, lockVars
    <3>2. Minds(q, c)
      BY Zenon, <2>0, <2>1, <3>1, WaitsAre DEF Minds
    <3>3. OnlyMoves(c)
      BY Zenon DEF OnlyMoves
    <3> QED
      BY Zenon, <2>1, <3>2, <3>3, <1>MindsKeeps DEF QueueInv
  <2>3. Inflight'
    BY Zenon, <2>0, <2>1, <1>StillListed, WaitsAre DEF QueueInv
  <2> QED
    BY Zenon, <2>1, <2>2, <2>3 DEF QueueInv

\* It is: the coroutine goes on, and the lock is taken.
<1>RwTakeQueue.
  ASSUME Placed, QueueInv, NEW c \in Co, running = c, NEW l \in RwLocks,
         pc[c] \in WaitsAt(l), Busy(l)', NEW p, Moves(c, p),
         \A q \in LockQueues : q # l => (Busy(q)' <=> Busy(q)),
         UNCHANGED <<coVars, inflight_reqs>>
  PROVE  QueueInv'
  <2> USE <1>RwTakeQueue
  <2>0. l \in LockQueues /\ l \in Queues
    BY Zenon, WaitsAre DEF LockQueues
  <2>1. Queued' /\ Pending' /\ Grows /\ \A q \in Queues : Stay(q)
    BY Zenon, <1>Effects DEF QueueInv, Queues
  <2>2. ASSUME NEW q \in LockQueues PROVE Waiters(q)' /\ Served(q)'
    <3>1. Minds(q, c)
      BY Zenon, <2>0, <2>1, WaitsAre DEF Minds
    <3>2. OnlyMoves(c)
      BY Zenon, <1>MovesOnly
    <3> QED
      BY Zenon, <2>1, <3>1, <3>2, <1>MindsKeeps DEF QueueInv
  <2>3. Inflight'
    BY Zenon, <2>1, <1>StillListed, WaitsAre DEF QueueInv
  <2> QED
    BY Zenon, <2>1, <2>2, <2>3 DEF QueueInv
<1>RwLockQueue.
  ASSUME Placed, QueueInv, LockTypeOK, NEW c \in Co, running = c, NEW l \in RwLocks,
         pc[c] \in WaitsAt(l), NEW p,
         qemu_co_rwlock_rdlock(l, c, p) \/ qemu_co_rwlock_wrlock(l, c, p),
         UNCHANGED inflight_reqs
  PROVE  QueueInv'
  <2> USE <1>RwLockQueue
  <2>0. l # "mutex" /\ "mutex" \notin RwLocks /\ LockQueues = {"mutex"} \cup RwLocks
    BY Zenon DEF RwLocks, LockQueues
  <2>1. CASE qemu_co_queue_wait(l, c) /\ UNCHANGED <<pc, lockVars>> /\ (writer[l] \/ reader[l] > 0)
    BY Zenon, <2>0, <2>1, <1>RwWaitQueue DEF Busy
  <2>2. CASE /\ reader' = [reader EXCEPT ![l] = @ + 1] /\ Moves(c, p)
             /\ UNCHANGED <<locked, writer, coVars>>
    <3>1. reader'[l] > 0 /\ \A m \in RwLocks : m # l => reader'[m] = reader[m]
      BY <2>2 DEF LockTypeOK
    <3>2. Busy(l)' /\ \A q \in LockQueues : q # l => (Busy(q)' <=> Busy(q))
      BY Zenon, <2>0, <2>2, <3>1 DEF Busy
    <3> QED
      BY Zenon, <2>2, <3>2, <1>RwTakeQueue
  <2>3. CASE /\ writer' = [writer EXCEPT ![l] = TRUE] /\ Moves(c, p)
             /\ UNCHANGED <<locked, reader, coVars>>
    <3>1. writer'[l] /\ \A m \in RwLocks : m # l => writer'[m] = writer[m]
      BY Zenon, <2>3 DEF LockTypeOK
    <3>2. Busy(l)' /\ \A q \in LockQueues : q # l => (Busy(q)' <=> Busy(q))
      BY Zenon, <2>0, <2>3, <3>1 DEF Busy
    <3> QED
      BY Zenon, <2>3, <3>2, <1>RwTakeQueue
  <2> QED
    BY Zenon, <2>1, <2>2, <2>3 DEF qemu_co_rwlock_rdlock, qemu_co_rwlock_wrlock, Goto, Moves
<1>RwUnlockQueue.
  ASSUME Placed, QueueInv, LockTypeOK, NEW c \in Co, running = c, NEW l \in RwLocks,
         pc[c] \notin WaitPlaces, pc' = pc \/ \E p : Moves(c, p),
         qemu_co_rwlock_unlock(l, c), UNCHANGED inflight_reqs
  PROVE  QueueInv'
  <2> USE <1>RwUnlockQueue
  <2>0. /\ l \in LockQueues /\ l \in Queues /\ l # "mutex" /\ LockQueues = {"mutex"} \cup RwLocks
        /\ "mutex" \notin RwLocks /\ OnlyMoves(c)
    BY Zenon, WaitsAre, <1>MovesOnly DEF LockQueues, RwLocks
  <2>1. /\ UNCHANGED locked
        /\ \A m \in RwLocks : m # l => writer'[m] = writer[m] /\ reader'[m] = reader[m]
    BY Zenon DEF qemu_co_rwlock_unlock, LockTypeOK
  <2>2. \A q \in LockQueues : q # l => (Busy(q)' <=> Busy(q))
    BY <2>0, <2>1 DEF Busy
  <2>3. \/ qemu_co_queue_restart_all(l, c) \/ qemu_co_queue_next(l, c)
        \/ UNCHANGED coVars /\ (Busy(l)' \/ ~Busy(l))
    <3>1. CASE writer[l]
      BY Zenon, <3>1 DEF qemu_co_rwlock_unlock
    <3>2. CASE ~writer[l] /\ reader[l] = 1
      BY Zenon, <3>2 DEF qemu_co_rwlock_unlock
    <3>3. CASE ~writer[l] /\ reader[l] # 1
      <4>1. UNCHANGED <<coVars, writer>> /\ reader'[l] = reader[l] - 1 /\ reader[l] \in Nat
        BY Zenon, <3>3 DEF qemu_co_rwlock_unlock, LockTypeOK
      <4>2. reader'[l] > 0 \/ ~(reader[l] > 0)
        BY Zenon, <3>3, <4>1, OneReader
      <4> QED
        BY Zenon, <2>0, <3>3, <4>1, <4>2 DEF Busy
    <3> QED
      BY Zenon, <3>1, <3>2, <3>3
  <2>4. /\ Queued' /\ Pending' /\ Grows /\ \A q \in Queues : q # l => Stay(q)
        /\ \/ AllGo(l) \/ OneGoes(l, c)
           \/ Stay(l) /\ (Busy(l)' \/ ~Busy(l))
    BY <2>0, <2>3, <1>Effects DEF QueueInv
  <2>5. ASSUME NEW q \in LockQueues PROVE Waiters(q)' /\ Served(q)'
    <3>1. Minds(q, c)
      BY Zenon, <2>0, <2>2, <2>4, WaitsAre DEF Minds
    <3> QED
      BY Zenon, <2>0, <2>4, <3>1, <1>MindsKeeps DEF QueueInv
  <2>6. Inflight'
    BY Zenon, <2>0, <2>4, <1>StillListed, WaitsAre DEF QueueInv
  <2> QED
    BY Zenon, <2>4, <2>5, <2>6 DEF QueueInv
<1>CowQueue.
  ASSUME Placed, LockTypeOK, CopyTypes, ListSteps, QueueInv, NEW c \in Co, running = c, backup_do_cow(c)
  PROVE  QueueInv'
  <2> USE <1>CowQueue
  <2>0. /\ "flush" \in RwLocks /\ pc[c] \in Places
        /\ "rdlock" \in WaitsAt("flush") /\ "read_lock" \in WaitsAt("mutex")
    BY Zenon, WaitsAre DEF RwLocks, Placed
  <2>1. ASSUME CowRdLock(c) PROVE QueueInv'
    BY <2>0, <2>1, <1>RwLockQueue DEF CowRdLock, At, backupVars, cowVars
  <2>2. ASSUME CowWait(c) PROVE QueueInv'
    <3>1. PICK i \in DOMAIN inflight_reqs : qemu_co_queue_wait(inflight_reqs[i], c)
      BY Zenon, <2>2 DEF CowWait
    <3>2. /\ inflight_reqs[i] \in Co /\ Listed(inflight_reqs[i])
          /\ pc[c] = "overlap" /\ UNCHANGED <<pc, lockVars, inflight_reqs>>
      <4>1. inflight_reqs \in Seq(Co)
        BY Zenon DEF CopyTypes
      <4>2. inflight_reqs[i] \in Co /\ Listed(inflight_reqs[i])
        BY <4>1 DEF Listed, InList
      <4>3. pc[c] = "overlap" /\ UNCHANGED <<pc, lockVars, inflight_reqs>>
        BY Zenon, <2>2 DEF CowWait, At, backupVars, cowVars
      <4> QED
        BY <4>2, <4>3
    <3> DEFINE r == inflight_reqs[i]
    <3> HIDE DEF r
    <3>3. /\ Queued' /\ Pending' /\ Grows /\ \A q \in Queues : q # r => Stay(q)
      BY Zenon, <3>1, <3>2, <1>Effects, WaitsAre DEF QueueInv, r
    <3>4. ASSUME NEW q \in LockQueues PROVE Waiters(q)' /\ Served(q)'
      <4>1. Busy(q)' <=> Busy(q)
        BY Zenon, <3>2 DEF Busy, lockVars
      <4>2. q \in Queues /\ q # r /\ pc[c] \notin WaitsAt(q)
        BY <3>2, WaitsAre DEF WaitPlaces, r
      <4>3. Minds(q, c) /\ OnlyMoves(c)
        BY Zenon, <3>2, <3>3, <4>1, <4>2 DEF Minds, OnlyMoves
      <4> QED
        BY <3>3, <4>3, <1>MindsKeeps DEF QueueInv
    <3>5. Inflight'
      <4>1. Listed(r) /\ \A d \in Co : Listed(d)' <=> Listed(d)
        BY Zenon, <3>2 DEF Listed, r
      <4>2. \A d \in Co : d # r => entries'[d] = entries[d]
        BY Zenon, <3>3, WaitsAre DEF Stay
      <4> QED
        BY Zenon, <4>1, <4>2 DEF QueueInv, Inflight
    <3> QED
      BY <3>3, <3>4, <3>5 DEF QueueInv
  <2>3. ASSUME CowBegin(c) PROVE QueueInv'
    <3>1. /\ UNCHANGED <<coVars, lockVars>> /\ pc[c] = "overlap" /\ Moves(c, "loop")
          /\ inflight_reqs' = <<c>> \o inflight_reqs
      BY Zenon, <2>3 DEF CowBegin, At, Goto, Moves
    <3>2. Queued' /\ Pending' /\ Grows /\ \A q \in Queues : Stay(q)
      BY <3>1, <1>Effects DEF QueueInv, Queues
    <3>3. ASSUME NEW q \in LockQueues PROVE Waiters(q)' /\ Served(q)'
      <4>1. Busy(q)' <=> Busy(q)
        BY Zenon, <3>1 DEF Busy, lockVars
      <4>2. Minds(q, c) /\ OnlyMoves(c)
        BY <3>1, <3>2, <4>1, WaitsAre, <1>MovesOnly DEF Minds, WaitPlaces
      <4> QED
        BY <3>2, <4>2, <1>MindsKeeps DEF QueueInv
    <3>4. \A d \in Co : Listed(d) => Listed(d)'
      BY Zenon, <2>3 DEF ListSteps
    <3>5. Inflight'
      BY Zenon, <3>2, <3>4, WaitsAre DEF QueueInv, Inflight, Stay
    <3> QED
      BY <3>2, <3>3, <3>5 DEF QueueInv
  <2>4. ASSUME CowLoop(c) PROVE QueueInv'
    BY <2>4, <1>QuietQueue, Runs, Zenon
    DEF CowLoop, At, WaitPlaces, Reasons, backupVars, cowVars
  <2>5. ASSUME ReadLock(c) PROVE QueueInv'
    BY <2>0, <2>5, <1>MutexLockQueue DEF ReadLock, At, backupVars, cowVars
  <2>6. ASSUME Read(c) PROVE QueueInv'
    BY <2>6, <1>QuietQueue, Runs, Zenon
    DEF Read, At, WaitPlaces, Reasons, backupVars, cowVars
  <2>7. ASSUME ReadDone(c) PROVE QueueInv'
    BY <2>7, <1>MutexUnlockQueue, Runs, Zenon DEF ReadDone, At, WaitPlaces
  <2>8. ASSUME WriteTarget(c) PROVE QueueInv'
    BY <2>8, <1>QuietQueue, Runs, Zenon
    DEF WriteTarget, At, WaitPlaces, Reasons, backupVars, cowVars
  <2>9. ASSUME TargetDone(c) PROVE QueueInv'
    BY <2>9, <1>QuietQueue, Runs, Zenon
    DEF TargetDone, At, WaitPlaces, Reasons, backupVars, cowVars
  <2>10. ASSUME CowEnd(c) PROVE QueueInv'
    <3>1. /\ qemu_co_queue_restart_all(c, c) /\ UNCHANGED lockVars
          /\ pc[c] = "out" /\ Moves(c, "unlock")
      BY <2>10, Zenon DEF CowEnd, At, Goto, Moves
    <3>3. /\ Queued' /\ Pending' /\ Grows /\ AllGo(c)
          /\ \A q \in Queues : q # c => Stay(q)
      BY <3>1, <1>Effects, WaitsAre DEF QueueInv
    <3>4. ASSUME NEW q \in LockQueues PROVE Waiters(q)' /\ Served(q)'
      <4>1. Busy(q)' <=> Busy(q)
        BY <3>1 DEF Busy, lockVars
      <4>2. q \in Queues /\ q # c /\ pc[c] \notin WaitsAt(q) /\ OnlyMoves(c)
        BY <3>1, WaitsAre, <1>MovesOnly DEF WaitPlaces
      <4>3. Minds(q, c)
        BY Zenon, <3>3, <4>1, <4>2 DEF Minds
      <4> QED
        BY Zenon, <3>3, <4>2, <4>3, <1>MindsKeeps DEF QueueInv
    <3>5. \A d \in Co : d # c /\ Listed(d) => Listed(d)'
      BY <2>10 DEF ListSteps
    <3>6. Inflight'
      BY Zenon, <3>3, <3>5, WaitsAre DEF QueueInv, Inflight, Stay, AllGo
    <3> QED
      BY <3>3, <3>4, <3>6 DEF QueueInv
  <2>11. ASSUME CowUnlock(c) PROVE QueueInv'
    BY <2>0, <2>11, <1>RwUnlockQueue, Runs, Zenon
    DEF CowUnlock, At, WaitPlaces, backupVars, cowVars
  <2> QED
    BY Zenon, <2>1, <2>2, <2>3, <2>4, <2>5, <2>6, <2>7, <2>8, <2>9, <2>10, <2>11 DEF backup_do_cow
<1>WriteQueue.
  ASSUME Placed, LockTypeOK, QueueInv, NEW c \in Co, running = c,
         WriteLock(c) \/ Write(c) \/ WriteDone(c)
  PROVE  QueueInv'
  <2> USE <1>WriteQueue
  <2>1. ASSUME WriteLock(c) PROVE QueueInv'
    BY <2>1, WaitsAre, <1>MutexLockQueue DEF WriteLock, At, backupVars, cowVars
  <2>2. ASSUME Write(c) PROVE QueueInv'
    BY <2>2, <1>QuietQueue, Runs, Zenon
    DEF Write, At, WaitPlaces, Reasons, backupVars, cowVars
  <2>3. ASSUME WriteDone(c) PROVE QueueInv'
    BY <2>3, <1>MutexUnlockQueue, Runs, Zenon DEF WriteDone, At, WaitPlaces, cowVars
  <2> QED
    BY Zenon, <2>1, <2>2, <2>3
<1>JobQueue.
  ASSUME Placed, LockTypeOK, QueueInv, NEW c \in Co, c = Job, running = c, backup_run
  PROVE  QueueInv'
  <2> USE <1>JobQueue
  <2>0. "flush" \in RwLocks /\ "wrlock" \in WaitsAt("flush") /\ "is_allocated" \in WaitsAt("mutex")
    BY WaitsAre DEF RwLocks
  <2>1. ASSUME JobFor PROVE QueueInv'
    BY <2>1, <1>QuietQueue, Runs, Zenon
    DEF JobFor, At, WaitPlaces, Reasons, backupVars, cowVars, scanVars
  <2>2. ASSUME JobSlept PROVE QueueInv'
    BY <2>2, <1>QuietQueue, Runs, Zenon
    DEF JobSlept, CallDoCow, At, WaitPlaces, Reasons, backupVars, cowVars, scanVars
  <2>3. ASSUME JobAllocLock PROVE QueueInv'
    BY <2>0, <2>3, <1>MutexLockQueue DEF JobAllocLock, At, backupVars, cowVars
  <2>4. ASSUME JobAlloc PROVE QueueInv'
    BY <2>4, <1>QuietQueue, Runs, Zenon
    DEF JobAlloc, At, WaitPlaces, Reasons, backupVars, cowVars
  <2>5. ASSUME JobAllocated PROVE QueueInv'
    BY <2>5, <1>MutexUnlockQueue, Runs, Zenon
    DEF JobAllocated, Unallocated, CallDoCow, At, WaitPlaces, cowVars
  <2>6. ASSUME JobCowed PROVE QueueInv'
    BY <2>6, <1>QuietQueue, Runs, Zenon
    DEF JobCowed, At, WaitPlaces, Reasons, backupVars, cowVars, scanVars
  <2>7. ASSUME JobRemove PROVE QueueInv'
    BY <2>7, <1>QuietQueue, Runs, Zenon
    DEF JobRemove, At, WaitPlaces, Reasons, backupVars, cowVars, scanVars
  <2>8. ASSUME JobWrLock PROVE QueueInv'
    BY <2>0, <2>8, <1>RwLockQueue DEF JobWrLock, At, backupVars, cowVars
  <2>9. ASSUME JobFlushed PROVE QueueInv'
    BY <2>0, <2>9, <1>RwUnlockQueue, Runs, Zenon DEF JobFlushed, At, WaitPlaces, cowVars
  <2>10. ASSUME bdrv_drain_all PROVE QueueInv'
    BY <2>10, <1>QuietQueue, Runs, Zenon
    DEF bdrv_drain_all, At, WaitPlaces, Reasons, backupVars, cowVars
  <2>11. ASSUME JobFlush PROVE QueueInv'
    BY <2>11, <1>QuietQueue, Runs, Zenon
    DEF JobFlush, At, WaitPlaces, Reasons, backupVars, cowVars
  <2>12. ASSUME JobCompleted PROVE QueueInv'
    BY <2>12, <1>QuietQueue, Runs, Zenon DEF JobCompleted, At, WaitPlaces, cowVars
  <2> QED
    BY Zenon, <2>1, <2>2, <2>3, <2>4, <2>5, <2>6, <2>7, <2>8, <2>9, <2>10, <2>11, <2>12
    DEF backup_run
<1>PathQueue.
  ASSUME Placed, LockTypeOK, QueueInv, NEW c \in Co, running = c, PathStep(c),
         UNCHANGED backupVars
  PROVE  QueueInv'
  <2> USE <1>PathQueue
  <2>0. "rename" \in RwLocks /\ {"path_rdlock", "path_wrlock", "nested"} \subseteq WaitsAt("rename")
        /\ UNCHANGED inflight_reqs
    BY WaitsAre DEF RwLocks, backupVars, cowVars
  <2>1. ASSUME v9fs_path_read_lock(c) PROVE QueueInv'
    BY Zenon, <2>0, <2>1, <1>RwLockQueue DEF v9fs_path_read_lock, At
  <2>2. ASSUME v9fs_path_write_lock(c) PROVE QueueInv'
    BY <2>0, <2>2, <1>RwLockQueue DEF v9fs_path_write_lock, At
  <2>3. ASSUME v9fs_co_run_in_worker(c) PROVE QueueInv'
    BY <2>0, <2>3, <1>QuietQueue, Runs, Zenon DEF v9fs_co_run_in_worker, At, WaitPlaces, Reasons
  <2>4. ASSUME RenameFails(c) PROVE QueueInv'
    BY <2>0, <2>4, <1>QuietQueue, Runs, Zenon DEF RenameFails, At, WaitPlaces
  <2>5. ASSUME v9fs_reopen_fid(c) \/ put_fid(c) PROVE QueueInv'
    BY <2>0, <2>5, <1>QuietQueue, Runs, Zenon DEF v9fs_reopen_fid, put_fid, At, WaitPlaces
  <2>6. ASSUME NestedReadLock(c) PROVE QueueInv'
    BY Zenon, <2>0, <2>6, <1>RwLockQueue DEF NestedReadLock, At
  <2>7. ASSUME v9fs_path_unlock(c) PROVE QueueInv'
    BY <2>0, <2>7, <1>RwUnlockQueue, Runs, Zenon DEF v9fs_path_unlock, At, WaitPlaces
  <2> QED
    BY Zenon, <2>1, <2>2, <2>3, <2>4, <2>5, <2>6, <2>7 DEF PathStep

\* The main loop enters a coroutine, which may be a new one.
<1>EnterQueue.
  ASSUME Placed, QueueInv, MainIdle, NEW c \in Co, waits[c] # "queue",
         qemu_coroutine_enter(c), pc' = pc \/ \E p : Moves(c, p),
         UNCHANGED <<restarting, wakeup, entries, lockVars, inflight_reqs>>
  PROVE  QueueInv'
  <2> USE <1>EnterQueue
  <2>1. Queued' /\ Pending'
    BY <1>EnterKeeps DEF QueueInv
  <2>2. OnlyMoves(c) /\ running \notin Co
    BY <1>MovesOnly, CoAssumption DEF MainIdle
  <2>3. ASSUME NEW q \in LockQueues PROVE Waiters(q)' /\ Served(q)'
    <3>0. Waiters(q) /\ Served(q) /\ q \in Queues /\ Queued
      BY WaitsAre DEF QueueInv
    <3>1. Waiters(q)'
      BY Zenon, <2>2, <3>0, <1>Members DEF Waiters, OnlyMoves
    <3>2. Busy(q)' <=> Busy(q)
      BY DEF Busy, lockVars
    <3>3. Looks(q) => Looks(q)'
      BY Zenon, <2>2, <3>0, <1>Members DEF Looks, OnlyMoves
    <3> QED
      BY Zenon, <3>0, <3>1, <3>2, <3>3 DEF Served
  <2>4. Inflight'
    BY Zenon DEF QueueInv, Inflight, Listed, InList
  <2> QED
    BY Zenon, <2>1, <2>3, <2>4 DEF QueueInv

\* A loop over the wake-ups enters the next one.
<1>RestartQueue.
  ASSUME QueueInv, qemu_co_queue_run_restart, UNCHANGED <<pc, lockVars, inflight_reqs>>
  PROVE  QueueInv'
  <2> USE <1>RestartQueue
  <2>1. PICK c \in Co, x \in Co :
          /\ Queued' /\ Pending' /\ UNCHANGED entries /\ running' = x
          /\ wakeup[c] # <<>> /\ x = Head(wakeup[c]) /\ wakeup'[c] = Tail(wakeup[c])
          /\ \A d \in Co : d # c => wakeup'[d] = wakeup[d]
    BY Zenon, RestartKeeps DEF QueueInv
  <2>2. /\ InSeq(wakeup[c]) = InSeq(Tail(wakeup[c])) \cup {x}
        /\ InSeq(wakeup[c])' = InSeq(Tail(wakeup[c]))
    <3>1. wakeup[c] \in Seq(Co)
      BY Zenon DEF QueueInv, Queued, CoTypeOK
    <3>2. InSeq(wakeup[c]) = InSeq(Tail(wakeup[c])) \cup {Head(wakeup[c])}
      BY Zenon, <2>1, <3>1, <1>InSeqs
    <3>3. InSeq(wakeup[c])' = InSeq(Tail(wakeup[c]))
      BY Zenon, <2>1 DEF InSeq
    <3> QED
      BY Zenon, <2>1, <3>2, <3>3
  <2>3. \A d \in Co : d # c => InSeq(wakeup[d])' = InSeq(wakeup[d])
    BY Zenon, <2>1 DEF InSeq
  <2>4. ASSUME NEW q \in LockQueues PROVE Waiters(q)' /\ Served(q)'
    <3>1. Waiters(q)'
      BY Zenon, <2>1 DEF QueueInv, Waiters, InSeq
    <3>2. Busy(q)' <=> Busy(q)
      BY DEF Busy, lockVars
    <3>3. Looks(q) => Looks(q)'
      <4> SUFFICES ASSUME Looks(q) PROVE Looks(q)'
        BY Zenon
      <4>1. PICK w \in Co : pc[w] \in WaitsAt(q)
                            /\ (running = w \/ \E d \in Co : w \in InSeq(wakeup[d]))
        BY DEF Looks
      <4>2. running \notin Co
        BY Zenon, CoAssumption DEF qemu_co_queue_run_restart
      <4>3. PICK d \in Co : w \in InSeq(wakeup[d])
        BY <4>1, <4>2
      <4>4. w = x \/ w \in InSeq(wakeup[d])'
        BY Zenon, <2>2, <2>3, <4>3
      <4> QED
        BY Zenon, <2>1, <4>1, <4>4 DEF Looks
    <3> QED
      BY Zenon, <2>1, <3>1, <3>2, <3>3 DEF QueueInv, Served
  <2>5. Inflight'
    BY <2>1 DEF QueueInv, Inflight, Listed, InList
  <2> QED
    BY Zenon, <2>1, <2>4, <2>5 DEF QueueInv
<1>SameQueue.
  ASSUME QueueInv, UNCHANGED <<coVars, pc, lockVars, inflight_reqs>>
  PROVE  QueueInv'
  <2> USE <1>SameQueue
  <2>1. Queued' /\ Pending'
    BY Zenon DEF coVars, QueueInv, Queued, Pending, Lists, ListsOf, Linked, InSeq, CoTypeOK
  <2>2. \A q \in LockQueues : Waiters(q)' /\ Served(q)'
    <3>1. UNCHANGED <<entries, wakeup, running, pc, locked, writer, reader>>
      BY Zenon DEF coVars, lockVars
    <3>2. ASSUME NEW q \in LockQueues
          PROVE  (Busy(q)' <=> Busy(q)) /\ (Looks(q)' <=> Looks(q))
                 /\ (Waiters(q)' <=> Waiters(q)) /\ entries'[q] = entries[q]
      <4>1. Busy(q)' <=> Busy(q)
        BY Zenon, <3>1 DEF Busy
      <4>2. Looks(q)' <=> Looks(q)
        BY Zenon, <3>1 DEF Looks, InSeq
      <4>3. Waiters(q)' <=> Waiters(q)
        BY <3>1 DEF Waiters, InSeq
      <4> QED
        BY <3>1, <4>1, <4>2, <4>3
    <3> QED
      BY Zenon, <3>2 DEF QueueInv, Served
  <2>3. Inflight'
    BY DEF coVars, QueueInv, Inflight, Listed, InList
  <2> QED
    BY <2>1, <2>2, <2>3 DEF QueueInv
<1>MainQueue.
  ASSUME Placed, QueueInv, SleepInv
  PROVE  /\ \A c \in Co : running = c /\ Complete(c) => QueueInv'
         /\ \A c \in Co : io_done(c) => QueueInv'
         /\ \A c \in Guests : bdrv_co_do_writev(c) => QueueInv'
         /\ \A c \in Co : submit_pdu(c) /\ UNCHANGED backupVars => QueueInv'
         /\ JobMain \/ DrainReturns => QueueInv'
         /\ qemu_co_queue_run_restart /\ UNCHANGED <<pc, lockVars, backupVars>> => QueueInv'
  <2> USE <1>MainQueue
  <2>1. ASSUME NEW c \in Co, running = c, Complete(c) PROVE QueueInv'
    <3>1. /\ pc[c] = "complete" /\ Moves(c, "dead") /\ qemu_coroutine_yield(c, "dead")
          /\ UNCHANGED <<lockVars, inflight_reqs>>
      BY <2>1, Zenon DEF Complete, At, Goto, Moves, qemu_coroutine_yield
    <3> QED
      BY <2>1, <3>1, <1>QuietQueue DEF WaitPlaces, Reasons
  <2>2. ASSUME NEW c \in Co, io_done(c) PROVE QueueInv'
    BY <2>2, <1>EnterQueue DEF io_done, backupVars, cowVars
  <2>3. ASSUME NEW c \in Guests, bdrv_co_do_writev(c) PROVE QueueInv'
    <3>1. c \in Co /\ \E p : Moves(c, p)
      BY Zenon, <2>3 DEF Guests, bdrv_co_do_writev, Goto, Moves
    <3>2. MainIdle /\ waits[c] = "start" /\ qemu_coroutine_enter(c)
          /\ UNCHANGED <<restarting, wakeup, entries, lockVars, inflight_reqs>>
      BY <2>3, Zenon DEF bdrv_co_do_writev, CallDoCow
    <3> QED
      BY <3>1, <3>2, <1>EnterQueue
  <2>4. ASSUME NEW c \in Co, submit_pdu(c), UNCHANGED backupVars PROVE QueueInv'
    <3>1. \E p : Moves(c, p)
      BY Zenon, <2>4 DEF submit_pdu, Goto, Moves
    <3> QED
      BY <2>4, <3>1, <1>EnterQueue DEF submit_pdu, backupVars, cowVars
  <2>5. ASSUME JobMain PROVE QueueInv'
    <3>0. Job \in Co
      BY BackupAssumption
    <3>1. CASE backup_start
      BY Zenon, <3>0, <3>1, <1>EnterQueue DEF backup_start, Goto, Moves, cowVars, scanVars
    <3>2. CASE co_sleep_cb
      BY <3>0, <3>2, <1>EnterQueue DEF co_sleep_cb, Enters, cowVars
    <3>3. ASSUME Command, UNCHANGED coVars PROVE QueueInv'
      BY Zenon, <3>3, <1>SameQueue DEF Command, cowVars, scanVars
    <3>4. ASSUME Command, ~busy, Enters(Job, {"timer", "resume"}) PROVE QueueInv'
      <4>1. waits[Job] # "queue"
        BY <3>4 DEF Command, SleepInv, scanVars
      <4> QED
        BY Zenon, <3>0, <3>4, <4>1, <1>EnterQueue DEF Command, Enters, cowVars, scanVars
    <3> QED
      BY <2>5, <3>1, <3>2, <3>3, <3>4
      DEF JobMain, block_job_pause, block_job_resume, block_job_cancel, ResumeJob
  <2>6. ASSUME qemu_co_queue_run_restart, UNCHANGED <<pc, lockVars, backupVars>>
        PROVE  QueueInv'
    BY <2>6, <1>RestartQueue DEF backupVars, cowVars
  <2>7. ASSUME DrainReturns PROVE QueueInv'
    BY Zenon, <2>7, <1>EnterQueue, BackupAssumption DEF DrainReturns, CanReturn, Enters, cowVars
  <2> QED
    BY Zenon, <2>1, <2>2, <2>3, <2>4, <2>5, <2>6, <2>7
<1> QED
  <2> SUFFICES ASSUME LockInv, CopyInv, ListSteps, SleepInv, QueueInv, [Next]_vars
      PROVE  QueueInv'
    OBVIOUS
  <2>0. Placed /\ LockTypeOK /\ CopyTypes /\ Job \in Co
    BY Zenon, BackupAssumption DEF LockInv, LockFields, CopyInv
  <2>1. CASE Run
    BY <2>0, <2>1, <1>CowQueue, <1>WriteQueue, <1>JobQueue, <1>PathQueue, <1>MainQueue
    DEF Run, BackupStep
  <2>2. CASE Events
    BY <2>0, <2>2, <1>MainQueue DEF Events
  <2>3. CASE UNCHANGED vars
    BY <2>3, <1>SameQueue DEF vars, backupVars, cowVars
  <2> QED
    BY <2>1, <2>2, <2>3 DEF Next

LEMMA QueueInit == Init => QueueInv
<1> SUFFICES ASSUME Init PROVE QueueInv
  OBVIOUS
<1>1. /\ running = "leader" /\ restarting = <<>>
      /\ wakeup = [c \in Co |-> <<>>] /\ entries = [q \in Queues |-> <<>>]
      /\ waits = [c \in Co |-> "start"]
  BY DEF Init, CoInit
<1>2. CoTypeOK
  <2>1. <<>> \in Seq(Co) /\ "start" \in Reasons
    BY DEF Reasons
  <2> QED
    BY Zenon, <1>1, <2>1 DEF CoTypeOK
<1>3. \A n \in Names : Lists[n] = <<>>
  <2>1. \A q \in Queues : Lists[InEntries(q)] = <<>>
    BY Zenon, <1>1, <1>2, ListsAre DEF Lists, CoTypeOK
  <2>2. \A c \in Co : Lists[InWakeup(c)] = <<>>
    BY Zenon, <1>1, <1>2, ListsAre DEF Lists, CoTypeOK
  <2> QED
    BY <2>1, <2>2, NamesAre
<1>4. Once(Names, Lists) /\ \A y : ~Has(Names, Lists, y)
  BY <1>3 DEF Once, Has
<1>5. Queued
  BY <1>1, <1>2, <1>4, CoAssumption DEF Queued, Linked
<1>6. Pending
  BY <1>1 DEF Pending
<1>7. \A q \in Queues : entries[q] = <<>>
  BY Zenon, <1>1
<1>8. \A q \in LockQueues : Waiters(q) /\ Served(q)
  BY <1>7, WaitsAre DEF Waiters, Served, InSeq
<1>9. Inflight
  BY Zenon, <1>7, WaitsAre DEF Inflight
<1> QED
  BY <1>5, <1>6, <1>8, <1>9 DEF QueueInv

=============================================================================
