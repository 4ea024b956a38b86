---------------------------- MODULE CoStepProofs ----------------------------
(***************************************************************************)
(* What every step of the coroutines does to the locks, and to the copy a   *)
(* backup makes, for every number of coroutines, clusters, errors, commands *)
(* and requests.                                                            *)
(*                                                                          *)
(* The argument about the locks never looks at the queues: whoever is       *)
(* entered, and however often, looks at the lock again before it goes on,   *)
(* so the fields of the locks alone count the holders (LockFields).  The    *)
(* one about the copy rests on what the flush lock ensures (FlushInv),      *)
(* which BackupProofs proves to hold.                                       *)
(***************************************************************************)
EXTENDS CoInvariants, FiniteSetTheorems, TLAPS

----------------------------------------------------------------------------
(* The places of a call and of the job.                                     *)

LEMMA CallsAre ==
  /\ Calls = {"rdlock", "overlap", "loop", "read_lock", "read", "read_io",
              "write_target", "target_io", "out", "unlock", "for", "slept",
              "is_allocated", "alloc", "alloc_io", "past_end", "cowed", "remove",
              "wrlock", "wrunlock", "close", "drained", "flushed", "closed", "abort"}
  /\ CowPlaces = {"rdlock", "overlap", "loop", "read_lock", "read", "read_io",
                  "write_target", "target_io", "out", "unlock"}
  /\ JobPlaces = {"for", "slept", "is_allocated", "alloc", "alloc_io", "past_end",
                  "cowed", "remove", "wrlock", "wrunlock", "close", "drained",
                  "flushed", "closed", "abort"}
  BY DEF Calls, CowPlaces, JobPlaces, ClosePlaces

----------------------------------------------------------------------------
(* Ranges of clusters.                                                      *)

\* Two ranges that follow each other are one.
LEMMA Continued ==
  ASSUME NEW a \in Nat, NEW b \in Nat, NEW k \in Nat, NEW S, a <= b, b <= k,
         a .. b - 1 \subseteq S, b .. k - 1 \subseteq S
  PROVE  a <= k /\ a .. k - 1 \subseteq S
  OBVIOUS

\* Ranges that do not overlap have no cluster in common.
LEMMA Apart ==
  ASSUME NEW a \in Nat, NEW b \in Nat, NEW s \in Nat, NEW t \in Nat,
         NEW k \in Nat, NEW m \in Nat, a <= k, k < b, s <= m, m < t,
         ~(b > s /\ a < t)
  PROVE  m # k
  OBVIOUS

----------------------------------------------------------------------------
(* QLIST_INSERT_HEAD and QLIST_REMOVE of inflight_reqs.                     *)

LEMMA ConcatAt ==
  ASSUME NEW S, NEW a \in Seq(S), NEW b \in Seq(S), NEW n \in 1 .. Len(b)
  PROVE  (a \o b)[Len(a) + n] = b[n]
  OBVIOUS

LEMMA Pushed ==
  ASSUME NEW S, NEW s \in Seq(S), NEW x \in S
  PROVE  /\ <<x>> \o s \in Seq(S)
         /\ InList(<<x>> \o s, x)
         /\ \A y : InList(s, y) => InList(<<x>> \o s, y)
<1> DEFINE t == <<x>> \o s
<1>1. t \in Seq(S) /\ Len(t) = Len(s) + 1
  OBVIOUS
<1>2. t[1] = x
  OBVIOUS
<1>3. \A i \in 1 .. Len(s) : t[i + 1] = s[i]
  OBVIOUS
<1>4. ASSUME NEW i \in DOMAIN s PROVE i + 1 \in DOMAIN t /\ t[i + 1] = s[i]
  BY <1>1, <1>3
<1>5. 1 \in DOMAIN t
  BY <1>1
<1> HIDE DEF t
<1>6. InList(t, x)
  BY <1>2, <1>5 DEF InList
<1>7. \A y : InList(s, y) => InList(t, y)
  BY <1>4 DEF InList
<1> QED
  BY <1>1, <1>6, <1>7 DEF t

LEMMA Dropped ==
  ASSUME NEW S, NEW s \in Seq(S), NEW i \in DOMAIN s
  PROVE  LET t == SubSeq(s, 1, i - 1) \o SubSeq(s, i + 1, Len(s))
         IN  t \in Seq(S) /\ \A y : InList(s, y) /\ y # s[i] => InList(t, y)
<1> DEFINE a == SubSeq(s, 1, i - 1)
           b == SubSeq(s, i + 1, Len(s))
           t == a \o b
<1>0. i \in 1 .. Len(s) /\ Len(s) \in Nat
  OBVIOUS
<1>1. a \in Seq(S) /\ Len(a) = i - 1 /\ \A j \in 1 .. i - 1 : a[j] = s[j]
  BY <1>0
<1>2. b \in Seq(S) /\ Len(b) = Len(s) - i /\ \A j \in 1 .. Len(s) - i : b[j] = s[i + j]
  BY <1>0
<1> HIDE DEF a, b
<1>3. t \in Seq(S) /\ Len(t) = Len(s) - 1
  BY <1>0, <1>1, <1>2
<1>4. \A j \in 1 .. i - 1 : t[j] = s[j]
  BY <1>0, <1>1, <1>2
<1>5. ASSUME NEW j \in i + 1 .. Len(s) PROVE t[j - 1] = s[j]
  <2>1. j - i \in 1 .. Len(s) - i /\ i + (j - i) = j
    BY <1>0
  <2>2. b[j - i] = s[j]
    BY <1>2, <2>1
  <2>3. t[Len(a) + (j - i)] = b[j - i]
    <3>1. a \in Seq(S) /\ b \in Seq(S)
      BY <1>1, <1>2, Zenon
    <3>2. j - i \in 1 .. Len(b)
      BY <1>2, <2>1, Zenon
    <3> QED
      BY <3>1, <3>2, ConcatAt, Zenon
  <2>4. Len(a) + (j - i) = j - 1
    BY <1>0, <1>1
  <2> QED
    BY <2>2, <2>3, <2>4, Zenon
<1> HIDE DEF t
<1>6. ASSUME NEW j \in DOMAIN s, s[j] # s[i] PROVE InList(t, s[j])
  <2>1. CASE j < i
    <3>1. j \in DOMAIN t /\ t[j] = s[j]
      BY <1>0, <1>3, <1>4, <2>1
    <3> QED
      BY <3>1 DEF InList
  <2>2. CASE j > i
    <3>1. j - 1 \in DOMAIN t /\ t[j - 1] = s[j]
      BY <1>0, <1>3, <1>5, <2>2
    <3> QED
      BY <3>1 DEF InList
  <2> QED
    BY <1>0, <1>6, <2>1, <2>2
<1> QED
  BY <1>3, <1>6, Zenon DEF InList, t, a, b

----------------------------------------------------------------------------
(* How a step of one coroutine preserves it.                                *)

\* Nothing changes for any coroutine but c.
Others(c) ==
  \A d \in Co \ {c} :
    /\ pc'[d] = pc[d] /\ start'[d] = start[d] /\ end'[d] = end[d]
    /\ cluster'[d] = cluster[d] /\ ret'[d] = ret[d] /\ buf'[d] = buf[d]
    /\ Listed(d) => Listed(d)'
SameRange(c) == start'[c] = start[c] /\ end'[c] = end[c]

\* Where a coroutine may go when it changes nothing of the copy.
Follows(c, p) ==
  /\ p \in Copying => pc[c] \in Copying
  /\ p \in CowPlaces => pc[c] \in CowPlaces
  /\ p \in AtCluster => pc[c] \in AtCluster
  /\ p \in WithData => pc[c] \in WithData
  /\ p \in Ended => pc[c] \in Ended
  /\ p \in GuestPlaces =>
       pc[c] \in GuestPlaces \/ (pc[c] \in Ended /\ ret[c] = "ok")
JobFollows(p) ==
  /\ p \in Calls \ Gone => pc[Job] \in Calls \ Gone
  /\ p = "cowed" => pc[Job] \in Ended
  /\ p \in Allocating => sync_mode # "full"
  /\ p \in Looping /\ sync_mode = "full" => pc[Job] \in Looping
  /\ p \in Removed => pc[Job] \in Removed
  /\ p \in ClosePlaces => pc[Job] \in ClosePlaces
  /\ p = "remove" => \/ cancelled \/ ret[Job] # "ok" \/ sync_mode # "full"
                     \/ pc[Job] \in Looping /\ next = NClusters

copyVars == <<src, target, copied, buf, cowVars, sync_mode, job, next, early, asof>>

LEMMA SetsAre ==
  /\ Copying = {"loop", "read_lock", "read", "read_io", "write_target",
                "target_io", "out"}
  /\ AtCluster = {"read_lock", "read", "read_io", "write_target", "target_io"}
  /\ WithData = {"write_target", "target_io"} /\ Ended = {"out", "unlock"}
  /\ Looping = {"for", "slept", "cowed"} \cup CowPlaces
  /\ Allocating = {"is_allocated", "alloc", "alloc_io", "past_end"}
  /\ Removed = {"wrlock", "wrunlock"}
  /\ ClosePlaces = {"close", "drained", "flushed", "closed", "abort"}
  /\ Gone = {"wrlock", "wrunlock", "close", "drained", "flushed", "closed", "abort"}
  /\ GuestPlaces = {"write_lock", "write", "write_io"}
  BY DEF Copying, AtCluster, WithData, Ended, Looping, Allocating, Removed, Gone,
         ClosePlaces, GuestPlaces

LEMMA CopyNext == Somewhere /\ FlushInv /\ CopyInv /\ [Next]_vars => CopyInv'
<1>CallStep.
  ASSUME CopyTypes, Calling, NEW c \in Co, Others(c), copied \subseteq copied',
         \A d \in Co \ {c} : pc[d] \in AtCluster => cluster[d] \notin copied',
         \A d \in Co \ {c} :
           before_write' /\ pc[d] \in GuestPlaces /\ d \notin early' =>
             before_write /\ d \notin early,
         pc'[c] \in Copying =>
           \/ pc[c] \in Copying /\ SameRange(c)
           \/ SameRange(c) /\ \A d \in Co \ {c} : pc[d] \in Copying => ~Overlaps(c, d),
         CallOf(c)'
  PROVE  Calling'
  <2> USE <1>CallStep
  <2>1. ASSUME NEW d \in Co \ {c} PROVE CallOf(d)'
    BY Zenon DEF Others, Calling, CallOf, Asked
  <2>2. \A d, e \in Co : Overlaps(d, e) => Overlaps(e, d)
    BY DEF CopyTypes, Overlaps
  <2>3. ASSUME NEW d \in Co \ {c}, pc'[c] \in Copying, pc'[d] \in Copying
        PROVE  ~Overlaps(c, d)' /\ ~Overlaps(d, c)'
    <3>1. ~Overlaps(c, d)
      BY <2>3 DEF Others, Calling, OneCopier
    <3>2. ~Overlaps(d, c)
      BY <2>2, <3>1
    <3> QED
      BY Zenon, <2>3, <3>1, <3>2 DEF Others, SameRange, Overlaps
  <2>4. ASSUME NEW d \in Co \ {c}, NEW e \in Co \ {c}, d # e,
               pc'[d] \in Copying, pc'[e] \in Copying
        PROVE  ~Overlaps(d, e)'
    BY Zenon, <2>4 DEF Others, Calling, OneCopier, Overlaps
  <2>5. OneCopier'
    BY Zenon, <2>3, <2>4 DEF OneCopier
  <2> QED
    BY <2>1, <2>5 DEF Calling

\* A step that is not the job's, or leaves it where it is.
<1>JobStays.
  ASSUME JobLoop, pc'[Job] = pc[Job], start'[Job] = start[Job], end'[Job] = end[Job],
         ret'[Job] = ret[Job], UNCHANGED <<next, sync_mode, before_write>>,
         copied \subseteq copied', cancelled => cancelled'
  PROVE  JobLoop'
  BY <1>JobStays DEF JobLoop, Clusters
<1>DataStays.
  ASSUME CopyData, UNCHANGED <<src, target, copied, asof>>,
         before_write' => before_write, FullCopy' => FullCopy,
         \A d \in Co : pc'[d] \in WithData =>
           pc[d] \in WithData /\ buf'[d] = buf[d] /\ cluster'[d] = cluster[d]
  PROVE  CopyData'
  BY Zenon, <1>DataStays DEF CopyData, Kept, Buffered, Clusters
<1>QuietCopy.
  ASSUME Somewhere, CopyInv, NEW c \in Co, UNCHANGED copyVars,
         UNCHANGED before_write, cancelled => cancelled',
         \/ pc' = pc
         \/ \E p : Goto(c, p) /\ Follows(c, p) /\ (c = Job => JobFollows(p))
  PROVE  CopyInv'
  <2> USE <1>QuietCopy
  <2> USE DEF CopyInv
  <2>1. CopyTypes'
    BY DEF CopyTypes, copyVars, cowVars, Clusters
  <2>2. CASE pc' = pc
    <3>1. Calling'
      BY <2>2, ZenonT(40) DEF Calling, CallOf, OneCopier, Overlaps, Asked, Listed, copyVars, cowVars
    <3>2. JobLoop'
      BY <2>2, <1>JobStays DEF copyVars, cowVars
    <3>3. CopyData'
      BY Zenon, <2>2, <1>DataStays DEF copyVars, cowVars, FullCopy
    <3> QED
      BY <2>1, <3>1, <3>2, <3>3
  <2>3. ASSUME NEW p, Goto(c, p), Follows(c, p), c = Job => JobFollows(p)
        PROVE  CopyInv'
    <3>1. \A d \in Co : pc'[d] = IF d = c THEN p ELSE pc[d]
      BY <2>3 DEF Goto, Somewhere
    <3>2. Others(c)
      BY <3>1, ZenonT(40) DEF Others, copyVars, cowVars, Listed
    <3>3. CallOf(c)'
      BY Zenon, <2>3, <3>1 DEF Follows, Calling, CallOf, Asked, Listed, copyVars, cowVars
    <3>4. Calling'
      BY Zenon, <2>3, <3>1, <3>2, <3>3, <1>CallStep
      DEF Follows, SameRange, copyVars, cowVars, Calling, CallOf
    <3>5. JobLoop'
      <4>1. CASE c # Job
        BY <3>1, <4>1, <1>JobStays, BackupAssumption DEF copyVars, cowVars
      <4>2. CASE c = Job
        <5>1. pc'[Job] = p /\ JobFollows(p) /\ Follows(Job, p)
          BY <2>3, <3>1, <4>2
        <5>2. p = "cowed" /\ ret[Job] = "ok" => next \in copied
          <6> SUFFICES ASSUME p = "cowed", ret[Job] = "ok" PROVE next \in copied
            OBVIOUS
          <6>1. pc[Job] \in Ended /\ pc[Job] \in CowPlaces
            BY <5>1 DEF JobFollows, Ended, CowPlaces
          <6>2. next \in Asked(Job)
            BY <6>1 DEF JobLoop, Asked, CopyTypes
          <6> QED
            BY Zenon, <4>2, <6>1, <6>2 DEF Calling, CallOf
        <5>3. sync_mode = "full" /\ p = "remove" /\ ret[Job] = "ok" /\ ~cancelled =>
                Clusters \subseteq copied
          BY <5>1 DEF JobFollows, JobLoop, Clusters
        <5>4. p \in CowPlaces => pc[Job] \in CowPlaces
          BY <5>1 DEF Follows
        <5> QED
          BY Zenon, <5>1, <5>2, <5>3, <5>4 DEF JobLoop, JobFollows, copyVars, cowVars, Clusters
      <4> QED
        BY <4>1, <4>2
    <3>6. CopyData'
      <4>1. FullCopy' => FullCopy
        BY <2>3, <3>1, BackupAssumption DEF FullCopy, Gone, JobFollows, copyVars, cowVars
      <4> QED
        BY Zenon, <2>3, <3>1, <4>1, <1>DataStays DEF Follows, copyVars, cowVars
    <3> QED
      BY <2>1, <3>4, <3>5, <3>6
  <2> QED
    BY <2>2, <2>3

\* A coroutine that asks for a lock gets on or stays where it is.
<1>Going.
  ASSUME NEW c \in Co, NEW p
  PROVE  /\ qemu_co_mutex_lock(c, p) => pc' = pc \/ Goto(c, p)
         /\ \A l : qemu_co_rwlock_rdlock(l, c, p) => pc' = pc \/ Goto(c, p)
         /\ \A l : qemu_co_rwlock_wrlock(l, c, p) => pc' = pc \/ Goto(c, p)
  BY Zenon, <1>Going DEF qemu_co_mutex_lock, qemu_co_rwlock_rdlock, qemu_co_rwlock_wrlock

\* The moves that change nothing of the copy.
<1>FollowsAre.
  ASSUME NEW c \in Co
  PROVE  /\ pc[c] = "rdlock" => Follows(c, "overlap")
         /\ pc[c] = "read_lock" => Follows(c, "read")
         /\ pc[c] = "read" => Follows(c, "read_io")
         /\ pc[c] = "write_target" => Follows(c, "target_io")
         /\ pc[c] = "unlock" /\ ret[c] = "ok" => Follows(c, "write_lock")
         /\ pc[c] = "write_lock" => Follows(c, "write")
         /\ pc[c] = "write" => Follows(c, "write_io")
         /\ \A p \in JobPlaces \cup PathPlaces \cup {"complete"} : Follows(c, p)
  BY <1>FollowsAre, SetsAre, CallsAre DEF Follows, PathPlaces, LockPlaces
<1>JobFollowsAre.
  /\ \A p \in CowPlaces : pc[Job] \in CowPlaces => JobFollows(p)
  /\ \A p \in GuestPlaces \cup PathPlaces \cup {"complete"} : JobFollows(p)
  /\ pc[Job] = "unlock" => JobFollows("cowed")
  /\ pc[Job] = "for" => JobFollows("slept")
  /\ pc[Job] = "slept" => JobFollows("for")
  /\ pc[Job] \in {"slept"} \cup Allocating /\ sync_mode # "full" =>
       \A p \in Allocating : JobFollows(p)
  /\ pc[Job] \in ClosePlaces => \A p \in ClosePlaces : JobFollows(p)
  /\ pc[Job] = "wrlock" => JobFollows("wrunlock")
  /\ pc[Job] = "cowed" => JobFollows("for")
  /\ pc[Job] \in {"for", "slept", "cowed"} /\
       (cancelled \/ ret[Job] # "ok" \/ sync_mode # "full" \/ next = NClusters) =>
       JobFollows("remove")
  BY Zenon, SetsAre, CallsAre DEF JobFollows, PathPlaces, LockPlaces
<1>QuietCow.
  ASSUME Somewhere, CopyInv, NEW c \in Co, running = c,
         CowRdLock(c) \/ CowWait(c) \/ ReadLock(c) \/ Read(c) \/ WriteTarget(c)
         \/ CowUnlock(c)
  PROVE  CopyInv'
  <2> USE <1>QuietCow
  <2>1. CASE CowRdLock(c)
    BY <2>1, <1>QuietCopy, <1>Going, <1>FollowsAre, <1>JobFollowsAre, CallsAre, Zenon
    DEF CowRdLock, At, backupVars, dataVars, jobVars, histVars, copyVars, scanVars
  <2>2. CASE CowWait(c)
    BY <2>2, <1>QuietCopy, <1>Going, <1>FollowsAre, <1>JobFollowsAre, CallsAre, Zenon
    DEF CowWait, At, backupVars, dataVars, jobVars, histVars, copyVars, scanVars
  <2>3. CASE ReadLock(c)
    BY <2>3, <1>QuietCopy, <1>Going, <1>FollowsAre, <1>JobFollowsAre, CallsAre, Zenon
    DEF ReadLock, At, backupVars, dataVars, jobVars, histVars, copyVars, scanVars
  <2>4. CASE Read(c)
    BY <2>4, <1>QuietCopy, <1>Going, <1>FollowsAre, <1>JobFollowsAre, CallsAre, Zenon
    DEF Read, At, backupVars, dataVars, jobVars, histVars, copyVars, scanVars
  <2>5. CASE WriteTarget(c)
    BY <2>5, <1>QuietCopy, <1>Going, <1>FollowsAre, <1>JobFollowsAre, CallsAre, Zenon
    DEF WriteTarget, At, backupVars, dataVars, jobVars, histVars, copyVars, scanVars
  <2>6. CASE CowUnlock(c)
    BY <2>6, <1>QuietCopy, <1>Going, <1>FollowsAre, <1>JobFollowsAre, CallsAre, Zenon
    DEF CowUnlock, At, backupVars, dataVars, jobVars, histVars, copyVars, GuestPlaces, scanVars
  <2> QED
    BY <2>1, <2>2, <2>3, <2>4, <2>5, <2>6
<1>QuietWrite.
  ASSUME Somewhere, CopyInv, NEW c \in Co, running = c, WriteLock(c) \/ Write(c)
  PROVE  CopyInv'
  <2> USE <1>QuietWrite
  <2>1. CASE WriteLock(c)
    BY <2>1, <1>QuietCopy, <1>Going, <1>FollowsAre, <1>JobFollowsAre, CallsAre, Zenon
    DEF WriteLock, At, backupVars, dataVars, jobVars, histVars, copyVars, GuestPlaces, scanVars
  <2>2. CASE Write(c)
    BY <2>2, <1>QuietCopy, <1>Going, <1>FollowsAre, <1>JobFollowsAre, CallsAre, Zenon
    DEF Write, At, backupVars, dataVars, jobVars, histVars, copyVars, GuestPlaces, scanVars
  <2> QED
    BY <2>1, <2>2
<1>QuietPath.
  ASSUME Somewhere, CopyInv, NEW c \in Co, running = c, PathStep(c), UNCHANGED backupVars
  PROVE  CopyInv'
  <2> USE <1>QuietPath
  <2>1. CASE v9fs_path_read_lock(c)
    BY <2>1, <1>QuietCopy, <1>Going, <1>FollowsAre, <1>JobFollowsAre, CallsAre, Zenon
    DEF v9fs_path_read_lock, At, backupVars, dataVars, jobVars, histVars, copyVars, PathPlaces, LockPlaces, scanVars
  <2>2. CASE v9fs_path_write_lock(c)
    BY <2>2, <1>QuietCopy, <1>Going, <1>FollowsAre, <1>JobFollowsAre, CallsAre, Zenon
    DEF v9fs_path_write_lock, At, backupVars, dataVars, jobVars, histVars, copyVars, PathPlaces, LockPlaces, scanVars
  <2>3. CASE v9fs_co_run_in_worker(c)
    BY <2>3, <1>QuietCopy, <1>Going, <1>FollowsAre, <1>JobFollowsAre, CallsAre, ZenonT(40)
    DEF v9fs_co_run_in_worker, At, backupVars, dataVars, jobVars, histVars, copyVars, PathPlaces, LockPlaces, scanVars
  <2>4. CASE RenameFails(c)
    BY Zenon, <2>4, <1>QuietCopy, <1>Going, <1>FollowsAre, <1>JobFollowsAre, CallsAre
    DEF RenameFails, At, backupVars, dataVars, jobVars, histVars, copyVars, PathPlaces, LockPlaces, scanVars
  <2>5. CASE v9fs_reopen_fid(c) \/ put_fid(c)
    BY Zenon, <2>5, <1>QuietCopy, <1>Going, <1>FollowsAre, <1>JobFollowsAre, CallsAre
    DEF v9fs_reopen_fid, put_fid, At, backupVars, dataVars, jobVars, histVars, copyVars, PathPlaces, LockPlaces, scanVars
  <2>6. CASE NestedReadLock(c)
    BY Zenon, <2>6, <1>QuietCopy, <1>Going, <1>FollowsAre, <1>JobFollowsAre, CallsAre
    DEF NestedReadLock, At, backupVars, dataVars, jobVars, histVars, copyVars, PathPlaces, LockPlaces, scanVars
  <2>7. CASE v9fs_path_unlock(c)
    BY Zenon, <2>7, <1>QuietCopy, <1>Going, <1>FollowsAre, <1>JobFollowsAre, CallsAre
    DEF v9fs_path_unlock, At, backupVars, dataVars, jobVars, histVars, copyVars, PathPlaces, LockPlaces, scanVars
  <2> QED
    BY Zenon, <2>1, <2>2, <2>3, <2>4, <2>5, <2>6, <2>7 DEF PathStep
<1>QuietJob.
  ASSUME Somewhere, CopyInv, NEW c \in Co, running = c, c = Job,
         JobFor \/ JobAllocLock \/ JobAlloc \/ JobWrLock \/ bdrv_drain_all \/ JobFlush
  PROVE  CopyInv'
  <2> USE <1>QuietJob
  <2>1. CASE JobFor
    BY <2>1, <1>QuietCopy, <1>Going, <1>FollowsAre, <1>JobFollowsAre, CallsAre, Zenon
    DEF JobFor, At, dataVars, histVars, copyVars, scanVars
  <2>2. CASE JobAllocLock
    BY <2>2, <1>QuietCopy, <1>Going, <1>FollowsAre, <1>JobFollowsAre, CallsAre, Zenon
    DEF JobAllocLock, At, backupVars, dataVars, jobVars, histVars, copyVars, CopyInv, JobLoop, Allocating, scanVars
  <2>3. CASE JobAlloc
    BY <2>3, <1>QuietCopy, <1>Going, <1>FollowsAre, <1>JobFollowsAre, CallsAre, Zenon
    DEF JobAlloc, At, backupVars, dataVars, jobVars, histVars, copyVars, CopyInv, JobLoop, Allocating, scanVars
  <2>4. CASE JobWrLock
    BY <2>4, <1>QuietCopy, <1>Going, <1>FollowsAre, <1>JobFollowsAre, CallsAre, Zenon
    DEF JobWrLock, At, backupVars, dataVars, jobVars, histVars, copyVars, scanVars
  <2>5. CASE bdrv_drain_all \/ JobFlush
    <3>1. PICK p \in ClosePlaces : Goto(Job, p)
      BY <2>5, Zenon DEF bdrv_drain_all, JobFlush, ClosePlaces
    <3>2. pc[Job] \in ClosePlaces
      BY <2>5, Zenon DEF bdrv_drain_all, JobFlush, At, ClosePlaces
    <3>3. Follows(Job, p) /\ JobFollows(p)
      BY <3>1, <3>2, <1>FollowsAre, <1>JobFollowsAre, Zenon DEF JobPlaces
    <3>4. UNCHANGED backupVars
      BY <2>5, Zenon DEF bdrv_drain_all, JobFlush
    <3> QED
      BY <3>1, <3>3, <3>4, <1>QuietCopy, Zenon
      DEF backupVars, dataVars, jobVars, histVars, copyVars, scanVars
  <2> QED
    BY Zenon, <2>1, <2>2, <2>3, <2>4, <2>5

(* The steps that change the copy.                                          *)
\* What every such step starts from.
<1>MovedTo.
  ASSUME Somewhere, NEW c \in Co, NEW p, Goto(c, p)
  PROVE  \A d \in Co : pc'[d] = IF d = c THEN p ELSE pc[d]
  BY <1>MovedTo DEF Goto, Somewhere
<1>BeginCopy.
  ASSUME Somewhere, CopyInv, NEW c \in Co, CowBegin(c)
  PROVE  CopyInv'
  <2> USE <1>BeginCopy
  <2> USE DEF CopyInv
  <2>1. pc[c] = "overlap" /\ \A d \in Co : pc'[d] = IF d = c THEN "loop" ELSE pc[d]
    BY Zenon, <1>MovedTo DEF CowBegin, At
  <2>2. /\ UNCHANGED <<src, target, copied, buf, start, end, cluster, ret, sync_mode,
                       job, next, early, asof, before_write, cancelled>>
        /\ inflight_reqs' = <<c>> \o inflight_reqs
        /\ \A i \in DOMAIN inflight_reqs : ~Overlaps(c, inflight_reqs[i])
    BY DEF CowBegin, dataVars, jobVars, histVars, scanVars
  <2>3. inflight_reqs \in Seq(Co)
    BY DEF CopyTypes
  <2>4. /\ inflight_reqs' \in Seq(Co) /\ Listed(c)'
        /\ \A d \in Co : Listed(d) => Listed(d)'
    BY <2>2, <2>3, Pushed DEF Listed
  <2>5. CopyTypes'
    BY Zenon, <2>2, <2>4 DEF CopyTypes, Clusters
  <2>6. Others(c)
    BY <2>1, <2>2, <2>4, ZenonT(40) DEF Others
  <2>7. \A d \in Co \ {c} : pc[d] \in Copying => ~Overlaps(c, d)
    <3> SUFFICES ASSUME NEW d \in Co \ {c}, pc[d] \in Copying PROVE ~Overlaps(c, d)
      OBVIOUS
    <3>1. PICK i \in DOMAIN inflight_reqs : inflight_reqs[i] = d
      BY Zenon DEF Calling, CallOf, Listed, InList
    <3> QED
      BY Zenon, <2>2, <3>1
  <2>8. CallOf(c)'
    BY <2>1, <2>2, <2>4, SetsAre, CallsAre, Zenon DEF Calling, CallOf
  <2>9. Calling'
    BY <2>2, <2>6, <2>7, <2>8, <1>CallStep, Zenon DEF SameRange, Calling, CallOf
  <2>10. JobLoop'
    BY Zenon, <2>1, <2>2, BackupAssumption, SetsAre, CallsAre DEF JobLoop, Clusters
  <2>11. CopyData'
    BY Zenon, <2>1, <2>2, BackupAssumption, <1>DataStays, SetsAre DEF FullCopy
  <2> QED
    BY Zenon, <2>5, <2>9, <2>10, <2>11
<1>LoopCopy.
  ASSUME Somewhere, CopyInv, NEW c \in Co, CowLoop(c)
  PROVE  CopyInv'
  <2> USE <1>LoopCopy
  <2> USE DEF CopyInv
  <2>1. PICK k \in cluster[c] .. end[c], p \in {"out", "read_lock"} :
          /\ cluster[c] .. k - 1 \subseteq copied
          /\ p = "out" => k = end[c]
          /\ p = "read_lock" => k < end[c] /\ k \notin copied
          /\ Goto(c, p)
          /\ cluster' = [cluster EXCEPT ![c] = k]
    BY Zenon DEF CowLoop
  <2>2. pc[c] = "loop" /\ \A d \in Co : pc'[d] = IF d = c THEN p ELSE pc[d]
    BY <2>1, <1>MovedTo, Zenon DEF CowLoop, At
  <2>3. UNCHANGED <<src, target, copied, buf, inflight_reqs, start, end, ret, sync_mode,
                    job, next, early, asof, before_write, cancelled>>
    BY DEF CowLoop, dataVars, jobVars, histVars, scanVars
  <2>0. cluster[c] \in Nat /\ end[c] \in Nat /\ start[c] \in Nat
    BY Zenon DEF CopyTypes
  <2>4. /\ k \in Nat /\ cluster[c] \in Nat /\ end[c] \in Nat /\ start[c] \in Nat
        /\ cluster[c] <= k
    BY <2>0
  <2>5. CopyTypes'
    BY <2>1, <2>3, <2>4 DEF CopyTypes, Clusters
  <2>6. Others(c)
    BY Zenon, <2>1, <2>2, <2>3 DEF Others, CopyTypes, Listed
  <2>7. start[c] <= k /\ start[c] .. k - 1 \subseteq copied
    <3>1. "loop" \in CowPlaces
      BY CallsAre
    <3>2. start[c] <= cluster[c] /\ start[c] .. cluster[c] - 1 \subseteq copied
      BY Zenon, <2>2, <3>1 DEF Calling, CallOf
    <3> QED
      BY Zenon, <2>1, <2>4, <3>2, Continued
  <2>8. CallOf(c)'
    <3>1. cluster'[c] = k /\ Listed(c)'
      BY <2>1, <2>2, <2>3, SetsAre, Zenon DEF CopyTypes, Calling, CallOf, Listed
    <3>2. pc'[c] \in Ended => Asked(c)' \subseteq copied'
      <4>1. pc'[c] \in Ended => p = "out"
        BY <2>2, SetsAre
      <4>2. p = "out" => k = end[c]
        BY <2>1
      <4>3. start[c] .. k - 1 \subseteq copied
        BY <2>7
      <4> QED
        BY <2>3, <4>1, <4>2, <4>3, Zenon DEF Asked
    <3>3. start'[c] <= cluster'[c] /\ start'[c] .. cluster'[c] - 1 \subseteq copied'
      BY <2>3, <2>7, <3>1, Zenon
    <3>4. pc'[c] \in AtCluster => cluster'[c] < end'[c] /\ cluster'[c] \notin copied'
      <4>1. pc'[c] \in AtCluster => p = "read_lock"
        BY Zenon, <2>2, SetsAre
      <4>2. p = "read_lock" => k < end[c] /\ k \notin copied
        BY <2>1, Zenon
      <4> QED
        BY <2>3, <3>1, <4>1, <4>2, ZenonT(40)
    <3>5. pc'[c] \notin GuestPlaces
      BY Zenon, <2>2, SetsAre
    <3> QED
      BY <3>1, <3>2, <3>3, <3>4, <3>5, Zenon DEF CallOf
  <2>9. Calling'
    BY <2>2, <2>3, <2>6, <2>8, <1>CallStep, SetsAre, Zenon DEF SameRange, Calling, CallOf
  <2>10. JobLoop'
    BY Zenon, <2>2, <2>3, BackupAssumption, SetsAre, CallsAre DEF JobLoop, Clusters
  <2>11. CopyData'
    <3>1. \A d \in Co : pc'[d] \in WithData =>
            pc[d] \in WithData /\ buf'[d] = buf[d] /\ cluster'[d] = cluster[d]
      BY Zenon, <2>2, <2>3, <2>6, SetsAre DEF Others
    <3> QED
      BY Zenon, <2>2, <2>3, <3>1, BackupAssumption, <1>DataStays, SetsAre DEF FullCopy
  <2> QED
    BY <2>5, <2>9, <2>10, <2>11
<1>ReadCopy.
  ASSUME Somewhere, FlushInv, CopyInv, NEW c \in Co, ReadDone(c)
  PROVE  CopyInv'
  <2> USE <1>ReadCopy
  <2> USE DEF CopyInv
  <2>1. PICK p \in {"out", "write_target"} :
          /\ Goto(c, p)
          /\ p = "write_target" =>
               buf' = [buf EXCEPT ![c] = src[cluster[c]]] /\ ret' = ret
          /\ p = "out" => buf' = buf /\ ret' = [ret EXCEPT ![c] = "read"]
    BY Zenon DEF ReadDone
  <2>2. pc[c] = "read_io" /\ \A d \in Co : pc'[d] = IF d = c THEN p ELSE pc[d]
    BY <2>1, <1>MovedTo DEF ReadDone, At
  <2>3. UNCHANGED <<src, target, copied, inflight_reqs, start, end, cluster, sync_mode,
                    job, next, early, asof, before_write, cancelled>>
    BY Zenon DEF ReadDone, jobVars, scanVars
  <2>4. CopyTypes'
    BY <2>1, <2>3 DEF CopyTypes, Clusters
  <2>5. Others(c)
    BY <2>1, <2>2, <2>3, Zenon DEF Others, CopyTypes, Listed
  <2>6. p = "out" => ret'[c] # "ok"
    BY <2>1 DEF CopyTypes
  <2>7. CallOf(c)'
    BY <2>2, <2>3, <2>6, SetsAre, CallsAre, Zenon DEF Calling, CallOf, Listed
  <2>8. Calling'
    BY <2>2, <2>3, <2>5, <2>7, <1>CallStep, SetsAre, Zenon DEF SameRange, Calling, CallOf
  <2>9. JobLoop'
    <3>1. CASE c = Job
      BY Zenon, <2>2, <2>3, <3>1, BackupAssumption, SetsAre, CallsAre DEF JobLoop, Clusters
    <3>2. CASE c # Job
      BY <2>2, <2>3, <2>5, <3>2, BackupAssumption, <1>JobStays, Zenon DEF Others
    <3> QED
      BY Zenon, <3>1, <3>2
  <2>10. ASSUME before_write, NEW d \in Co PROVE Buffered(d)'
    <3>1. CASE d = c
      <4>1. cluster[c] \notin copied
        BY <2>2, SetsAre, Zenon DEF Calling, CallOf
      <4>2. cluster[c] \in Clusters => src[cluster[c]] \in asof[cluster[c]]
        BY <2>10, <4>1, Zenon DEF CopyData, Kept
      <4>3. p = "write_target" => buf'[c] = src[cluster[c]]
        BY <2>1 DEF CopyTypes
      <4> QED
        BY <2>2, <2>3, <3>1, <4>2, <4>3, SetsAre, Zenon DEF Buffered, Clusters
    <3>2. CASE d # c
      BY Zenon, <2>3, <2>5, <2>10, <3>2 DEF Others, CopyData, Buffered, Clusters
    <3> QED
      BY <3>1, <3>2
  <2>11. FullCopy' => FullCopy
    <3>1. job = "active"
      BY <2>2, CallsAre DEF FlushInv, JobState
    <3> QED
      BY <2>2, <2>3, <2>5, <3>1, BackupAssumption, SetsAre, Zenon DEF FullCopy, Others
  <2>12. CopyData'
    BY <2>3, <2>10, <2>11, Zenon DEF CopyData, Kept, Clusters
  <2> QED
    BY Zenon, <2>4, <2>8, <2>9, <2>12
<1>TargetCopy.
  ASSUME Somewhere, FlushInv, CopyInv, NEW c \in Co, TargetDone(c)
  PROVE  CopyInv'
  <2> USE <1>TargetCopy
  <2> USE DEF CopyInv
  <2> DEFINE k0 == cluster[c]
  <2>1. PICK p \in {"out", "loop"} :
          /\ Goto(c, p)
          /\ p = "loop" => /\ copied' = copied \cup {k0} /\ ret' = ret
                           /\ target' = [target EXCEPT ![k0] = buf[c]]
                           /\ cluster' = [cluster EXCEPT ![c] = @ + 1]
          /\ p = "out" => /\ copied' = copied /\ cluster' = cluster
                          /\ target' \in {target, [target EXCEPT ![k0] = buf[c]]}
                          /\ ret' = [ret EXCEPT ![c] = "write"]
    BY Zenon DEF TargetDone
  <2>2. pc[c] = "target_io" /\ \A d \in Co : pc'[d] = IF d = c THEN p ELSE pc[d]
    BY Zenon, <2>1, <1>MovedTo DEF TargetDone, At
  <2>3. UNCHANGED <<src, buf, inflight_reqs, start, end, sync_mode, job, next, early,
                    asof, before_write, cancelled>>
    BY Zenon DEF TargetDone, jobVars, scanVars
  <2>4. CopyTypes'
    <3>1. cluster' \in [Co -> Nat]
      <4>1. cluster \in [Co -> Nat] /\ cluster[c] + 1 \in Nat
        BY DEF CopyTypes
      <4>2. cluster' = cluster \/ cluster' = [cluster EXCEPT ![c] = cluster[c] + 1]
        BY Zenon, <2>1
      <4> QED
        BY <4>1, <4>2
    <3>2. DOMAIN ret' = Co /\ DOMAIN target' = Clusters
      BY <2>1 DEF CopyTypes
    <3> QED
      BY Zenon, <2>3, <3>1, <3>2 DEF CopyTypes, Clusters
  <2>5. Others(c)
    BY Zenon, <2>1, <2>2, <2>3 DEF Others, CopyTypes, Listed
  <2>6. /\ start[c] <= k0 /\ k0 < end[c] /\ k0 \notin copied
        /\ start[c] .. k0 - 1 \subseteq copied /\ Listed(c)
    BY <2>2, SetsAre, CallsAre, ZenonT(40) DEF Calling, CallOf
  <2>7. copied \subseteq copied' /\ copied' \subseteq copied \cup {k0}
    BY Zenon, <2>1
  <2>8. ASSUME NEW d \in Co \ {c}, pc[d] \in AtCluster PROVE cluster[d] \notin copied'
    <3>1. /\ start[d] <= cluster[d] /\ cluster[d] < end[d] /\ cluster[d] \notin copied
          /\ pc[d] \in Copying /\ pc[c] \in Copying
      BY Zenon, <2>2, <2>8, SetsAre, CallsAre DEF Calling, CallOf
    <3>2. ~Overlaps(c, d)
      BY <3>1 DEF Calling, OneCopier
    <3>3. cluster[d] # k0
      <4>1. /\ start[c] \in Nat /\ end[c] \in Nat /\ start[d] \in Nat /\ end[d] \in Nat
            /\ cluster[d] \in Nat /\ k0 \in Nat
        BY DEF CopyTypes
      <4>2. ~(end[c] > start[d] /\ start[c] < end[d])
        BY Zenon, <3>2 DEF Overlaps
      <4> QED
        BY Zenon, <2>6, <3>1, <4>1, <4>2, Apart
    <3> QED
      BY Zenon, <2>7, <3>1, <3>3
  <2>9. CallOf(c)'
    <3>1. p = "out" => ret'[c] # "ok"
      BY <2>1 DEF CopyTypes
    <3>2. /\ p = "loop" => cluster'[c] = k0 + 1
          /\ p = "out" => cluster'[c] = k0
      BY Zenon, <2>1 DEF CopyTypes
    <3>3. start'[c] <= cluster'[c] /\ start'[c] .. cluster'[c] - 1 \subseteq copied'
      BY <2>1, <2>3, <2>6, <3>2 DEF CopyTypes
    <3> QED
      BY <2>2, <2>3, <2>6, <3>1, <3>3, SetsAre, CallsAre, Zenon DEF CallOf, Listed
  <2>10. Calling'
    BY <2>2, <2>3, <2>5, <2>7, <2>8, <2>9, <1>CallStep, SetsAre, Zenon DEF SameRange
  <2>11. JobLoop'
    <3>1. CASE c = Job
      <4>1. pc'[Job] \in {"out", "loop"}
        BY <2>2, <3>1
      <4> QED
        BY <2>2, <2>3, <2>7, <3>1, <4>1, SetsAre, CallsAre, Zenon DEF JobLoop
    <3>2. CASE c # Job
      BY Zenon, <2>2, <2>3, <2>5, <2>7, <3>2, BackupAssumption, <1>JobStays DEF Others
    <3> QED
      BY <3>1, <3>2
  <2>12. \A k \in Clusters : k # k0 => target'[k] = target[k]
    BY <2>1 DEF CopyTypes
  <2>13. ASSUME before_write PROVE Kept' /\ \A d \in Co : Buffered(d)'
    <3>1. ASSUME NEW k \in Clusters
          PROVE  (IF k \in copied' THEN target'[k] ELSE src'[k]) \in asof'[k]
      <4>1. CASE k # k0
        BY Zenon, <2>3, <2>7, <2>12, <2>13, <4>1 DEF CopyData, Kept
      <4>2. CASE k = k0 /\ p = "loop"
        <5>1. target'[k] = buf[c] /\ buf[c] \in asof[k] /\ k \in copied'
          BY Zenon, <2>1, <2>2, <2>13, <4>2, SetsAre DEF CopyData, Buffered, CopyTypes
        <5> QED
          BY <2>3, <5>1
      <4>3. CASE k = k0 /\ p = "out"
        BY <2>1, <2>3, <2>6, <2>13, <4>3, Zenon DEF CopyData, Kept
      <4> QED
        BY Zenon, <4>1, <4>2, <4>3
    <3>2. ASSUME NEW d \in Co PROVE Buffered(d)'
      <4>1. CASE d = c
        BY <2>2, <4>1, SetsAre DEF Buffered
      <4>2. CASE d # c
        BY Zenon, <2>3, <2>5, <2>13, <4>2 DEF Others, CopyData, Buffered, Clusters
      <4> QED
        BY Zenon, <4>1, <4>2
    <3> QED
      BY <3>1, <3>2, ZenonT(40) DEF Kept, Clusters
  <2>14. ASSUME FullCopy' PROVE \A k \in Clusters : target'[k] \in asof'[k]
    <3>1. job = "active"
      BY <2>2, CallsAre DEF FlushInv, JobState
    <3>2. c # Job /\ pc[Job] \in Removed /\ FullCopy
      <4>1. c # Job /\ pc[Job] \in Gone /\ FullCopy
        BY Zenon, <2>2, <2>3, <2>5, <2>14, <3>1, BackupAssumption, SetsAre DEF FullCopy, Others
      <4>2. pc[Job] \notin ClosePlaces
        BY Zenon, <2>2, CallsAre DEF FlushInv, JobState
      <4> QED
        BY Zenon, <4>1, <4>2 DEF Gone
    <3>3. Clusters \subseteq copied
      BY <3>2 DEF FullCopy, JobLoop
    <3> QED
      BY <2>3, <2>6, <2>12, <3>2, <3>3, Zenon DEF CopyData
  <2>15. CopyData'
    BY <2>3, <2>13, <2>14, Zenon DEF CopyData, Clusters
  <2> QED
    BY Zenon, <2>4, <2>10, <2>11, <2>15
<1>EndCopy.
  ASSUME Somewhere, CopyInv, NEW c \in Co, CowEnd(c)
  PROVE  CopyInv'
  <2> USE <1>EndCopy
  <2> USE DEF CopyInv
  <2>1. pc[c] = "out" /\ \A d \in Co : pc'[d] = IF d = c THEN "unlock" ELSE pc[d]
    BY <1>MovedTo, Zenon DEF CowEnd, At
  <2>2. /\ UNCHANGED <<src, target, copied, start, end, cluster, ret, sync_mode, job,
                       next, early, asof, before_write, cancelled>>
        /\ buf' = [buf EXCEPT ![c] = "blank"]
    BY DEF CowEnd, jobVars, histVars, scanVars
  <2>3. /\ inflight_reqs' \in Seq(Co)
        /\ \A d \in Co \ {c} : Listed(d) => Listed(d)'
    <3>1. PICK i \in DOMAIN inflight_reqs :
             /\ inflight_reqs[i] = c
             /\ inflight_reqs' = SubSeq(inflight_reqs, 1, i - 1)
                                   \o SubSeq(inflight_reqs, i + 1, Len(inflight_reqs))
      BY Zenon DEF CowEnd
    <3>2. inflight_reqs \in Seq(Co)
      BY DEF CopyTypes
    <3> QED
      BY <3>1, <3>2, Dropped DEF Listed
  <2>4. CopyTypes'
    BY <2>2, <2>3, Zenon DEF CopyTypes, Clusters
  <2>5. Others(c)
    BY <2>1, <2>2, <2>3, Zenon DEF Others, CopyTypes
  <2>6. CallOf(c)'
    BY <2>1, <2>2, SetsAre, CallsAre, Zenon DEF Calling, CallOf, Asked
  <2>7. Calling'
    BY <2>1, <2>2, <2>5, <2>6, <1>CallStep, SetsAre, Zenon DEF SameRange, Calling, CallOf
  <2>8. JobLoop'
    BY Zenon, <2>1, <2>2, BackupAssumption, SetsAre, CallsAre DEF JobLoop, Clusters
  <2>9. CopyData'
    <3>1. \A d \in Co : pc'[d] \in WithData =>
            pc[d] \in WithData /\ buf'[d] = buf[d] /\ cluster'[d] = cluster[d]
      BY <2>1, <2>2, <2>5, SetsAre, Zenon DEF Others
    <3> QED
      BY Zenon, <2>1, <2>2, <3>1, BackupAssumption, <1>DataStays, SetsAre DEF FullCopy
  <2> QED
    BY <2>4, <2>7, <2>8, <2>9
<1>WrittenCopy.
  ASSUME Somewhere, CopyInv, NEW c \in Co, WriteDone(c)
  PROVE  CopyInv'
  <2> USE <1>WrittenCopy
  <2> USE DEF CopyInv
  <2>1. PICK written \in SUBSET Asked(c) :
          /\ src' = [k \in Clusters |-> IF k \in written THEN c ELSE src[k]]
          /\ asof' = [k \in Clusters |-> IF k \in written /\ c \in early
                                         THEN asof[k] \cup {c} ELSE asof[k]]
    BY ZenonT(40) DEF WriteDone, Asked
  <2>2. pc[c] = "write_io" /\ \A d \in Co : pc'[d] = IF d = c THEN "complete" ELSE pc[d]
    BY Zenon, <1>MovedTo DEF WriteDone, At
  <2>3. UNCHANGED <<target, copied, buf, inflight_reqs, start, end, cluster, ret,
                    sync_mode, job, next, early, before_write, cancelled>>
    BY Zenon DEF WriteDone, cowVars, jobVars, scanVars
  <2>4. CopyTypes'
    BY <2>3, Zenon DEF CopyTypes, Clusters
  <2>5. Others(c)
    BY <2>2, <2>3, Zenon DEF Others, Listed
  <2>6. CallOf(c)'
    BY <2>2, SetsAre, CallsAre, Zenon DEF CallOf
  <2>7. Calling'
    BY <2>2, <2>3, <2>5, <2>6, <1>CallStep, SetsAre, Zenon DEF SameRange, Calling, CallOf
  <2>8. JobLoop'
    BY Zenon, <2>2, <2>3, BackupAssumption, SetsAre, CallsAre DEF JobLoop, Clusters
  <2>9. \A k \in Clusters : asof[k] \subseteq asof'[k]
    BY Zenon, <2>1
  <2>10. ASSUME before_write PROVE Kept' /\ \A d \in Co : Buffered(d)'
    <3>1. ASSUME NEW k \in Clusters
          PROVE  (IF k \in copied' THEN target'[k] ELSE src'[k]) \in asof'[k]
      <4>1. CASE k \in copied \/ k \notin written
        BY Zenon, <2>1, <2>3, <2>9, <2>10, <4>1 DEF CopyData, Kept
      <4>2. CASE k \notin copied /\ k \in written
        <5>1. c \in early
          BY Zenon, <2>1, <2>2, <2>10, <4>2, SetsAre DEF Calling, CallOf
        <5> QED
          BY Zenon, <2>1, <2>3, <4>2, <5>1
      <4> QED
        BY <4>1, <4>2
    <3>2. \A d \in Co : Buffered(d)'
      BY <2>2, <2>3, <2>9, <2>10, SetsAre, Zenon DEF CopyData, Buffered, Clusters
    <3> QED
      BY Zenon, <3>1, <3>2 DEF Kept, Clusters
  <2>11. FullCopy' => FullCopy
    BY Zenon, <2>2, <2>3, BackupAssumption, SetsAre DEF FullCopy
  <2>12. CopyData'
    BY <2>3, <2>9, <2>10, <2>11, Zenon DEF CopyData, Clusters
  <2> QED
    BY Zenon, <2>4, <2>7, <2>8, <2>12
<1>CompleteCopy.
  ASSUME Somewhere, CopyInv, NEW c \in Co, Complete(c)
  PROVE  CopyInv'
  <2> USE <1>CompleteCopy
  <2> USE DEF CopyInv
  <2>1. pc[c] = "complete" /\ \A d \in Co : pc'[d] = IF d = c THEN "dead" ELSE pc[d]
    BY Zenon, <1>MovedTo DEF Complete, At
  <2>2. /\ UNCHANGED <<src, target, copied, buf, inflight_reqs, sync_mode, job, next,
                       early, asof, before_write, cancelled>>
        /\ start' = [start EXCEPT ![c] = 0] /\ end' = [end EXCEPT ![c] = 0]
        /\ cluster' = [cluster EXCEPT ![c] = 0]
        /\ ret' = IF c = Job THEN ret ELSE [ret EXCEPT ![c] = "ok"]
    BY DEF Complete, dataVars, jobVars, histVars, scanVars
  <2>3. CopyTypes'
    BY <2>2 DEF CopyTypes, Clusters
  <2>4. Others(c)
    BY <2>1, <2>2, ZenonT(40) DEF Others, CopyTypes, Listed
  <2>5. CallOf(c)'
    BY Zenon, <2>1, SetsAre, CallsAre DEF CallOf
  <2>6. Calling'
    BY <2>1, <2>2, <2>4, <2>5, <1>CallStep, SetsAre, Zenon DEF Calling, CallOf
  <2>7. ret'[Job] = ret[Job]
    BY <2>2, BackupAssumption DEF CopyTypes
  <2>8. JobLoop'
    <3>1. CASE c = Job
      BY <2>1, <3>1, SetsAre, CallsAre, ZenonT(40) DEF JobLoop
    <3>2. CASE c # Job
      BY Zenon, <2>1, <2>2, <2>4, <3>2, BackupAssumption, <1>JobStays DEF Others
    <3> QED
      BY <3>1, <3>2
  <2>9. FullCopy' => FullCopy
    BY Zenon, <2>1, <2>2, <2>7, BackupAssumption, SetsAre DEF FullCopy
  <2>10. \A d \in Co : pc'[d] \in WithData =>
           pc[d] \in WithData /\ buf'[d] = buf[d] /\ cluster'[d] = cluster[d]
    BY Zenon, <2>1, <2>2, <2>4, SetsAre DEF Others
  <2>11. CopyData'
    BY Zenon, <2>2, <2>9, <2>10, <1>DataStays
  <2> QED
    BY <2>3, <2>6, <2>8, <2>11

\* A call of backup_do_cow, or the start of a write that needs none.
<1>CalledCopy.
  ASSUME Somewhere, CopyTypes, Calling, NEW c \in Co, NEW p \in {"rdlock", "write_lock"},
         Goto(c, p), p = "write_lock" => ~before_write,
         NEW first \in Nat, NEW last \in Nat, CallDoCow(c, first, last),
         UNCHANGED <<target, copied, buf, early, before_write>>, next' \in Nat
  PROVE  CopyTypes' /\ Calling' /\ Others(c)
  <2> USE <1>CalledCopy
  <2>1. \A d \in Co : pc'[d] = IF d = c THEN p ELSE pc[d]
    BY Zenon, <1>MovedTo
  <2>2. /\ start' = [start EXCEPT ![c] = first] /\ end' = [end EXCEPT ![c] = last]
        /\ cluster' = [cluster EXCEPT ![c] = first]
        /\ ret' = [ret EXCEPT ![c] = "ok"] /\ inflight_reqs' = inflight_reqs
    BY DEF CallDoCow
  <2>3. CopyTypes'
    BY Zenon, <2>2 DEF CopyTypes, Clusters
  <2>4. Others(c)
    BY <2>1, <2>2, Zenon DEF Others, CopyTypes, Listed
  <2>5. CallOf(c)'
    <3>1. start'[c] = first /\ cluster'[c] = first
      BY <2>2 DEF CopyTypes
    <3>2. start'[c] <= cluster'[c] /\ start'[c] .. cluster'[c] - 1 \subseteq copied'
      <4>1. first <= first /\ first .. first - 1 = {}
        OBVIOUS
      <4> QED
        BY Zenon, <3>1, <4>1
    <3>3. /\ pc'[c] \notin Copying /\ pc'[c] \notin AtCluster /\ pc'[c] \notin Ended
          /\ pc'[c] \in GuestPlaces => ~before_write'
      BY Zenon, <2>1, SetsAre
    <3> QED
      BY <3>2, <3>3, ZenonT(40) DEF CallOf
  <2>6. Calling'
    BY <2>1, <2>4, <2>5, <1>CallStep, SetsAre, Zenon DEF Calling, CallOf
  <2> QED
    BY <2>3, <2>4, <2>6
<1>WritevCopy.
  ASSUME Somewhere, CopyInv, NEW c \in Guests, bdrv_co_do_writev(c)
  PROVE  CopyInv'
  <2> USE <1>WritevCopy
  <2> USE DEF CopyInv
  <2>1. c \in Co /\ c # Job
    BY DEF Guests
  <2>2. PICK first \in Clusters, last \in 1 .. NClusters : CallDoCow(c, first, last)
    BY DEF bdrv_co_do_writev
  <2>3. first \in Nat /\ last \in Nat
    BY BackupAssumption DEF Clusters
  <2>4. PICK p \in {"rdlock", "write_lock"} :
           Goto(c, p) /\ (p = "write_lock" => ~before_write)
    BY Zenon DEF bdrv_co_do_writev
  <2>5. UNCHANGED <<src, target, copied, buf, sync_mode, job, next, early, asof,
                    before_write, cancelled>>
    BY DEF bdrv_co_do_writev, dataVars, jobVars, histVars, scanVars
  <2>6. CopyTypes' /\ Calling' /\ Others(c)
    BY <2>1, <2>2, <2>3, <2>4, <2>5, <1>CalledCopy, Zenon DEF CopyTypes
  <2>7. JobLoop'
    BY <2>1, <2>5, <2>6, BackupAssumption, <1>JobStays, Zenon DEF Others
  <2>8. FullCopy' => FullCopy
    BY <2>1, <2>5, <2>6, BackupAssumption, Zenon DEF FullCopy, Others
  <2>9. \A d \in Co : pc'[d] = IF d = c THEN p ELSE pc[d]
    BY <2>1, <2>4, <1>MovedTo
  <2>10. \A d \in Co : pc'[d] \in WithData =>
           pc[d] \in WithData /\ buf'[d] = buf[d] /\ cluster'[d] = cluster[d]
    BY <2>5, <2>6, <2>9, SetsAre, Zenon DEF Others
  <2>11. CopyData'
    BY <2>5, <2>8, <2>10, <1>DataStays, ZenonT(40)
  <2> QED
    BY Zenon, <2>6, <2>7, <2>11
<1>StartCopy.
  ASSUME Somewhere, FlushInv, CopyInv, backup_start
  PROVE  CopyInv'
  <2> USE <1>StartCopy
  <2> USE DEF CopyInv
  <2>1. /\ job = "none" /\ waits[Job] = "start"
        /\ \A d \in Co : pc'[d] = IF d = Job THEN "for" ELSE pc[d]
    BY Zenon, <1>MovedTo, BackupAssumption DEF backup_start, scanVars
  <2>2. /\ UNCHANGED <<src, target, buf, inflight_reqs, start, end, cluster, ret,
                       sync_mode, cancelled>>
        /\ job' = "active" /\ before_write' = TRUE /\ copied' = {} /\ next' = 0
        /\ early' = {c \in Guests : waits[c] \notin {"start", "dead"}}
        /\ asof' = [k \in Clusters |-> {src[k]}]
    BY DEF backup_start, cowVars, scanVars
  <2>3. \A d \in Co : pc'[d] \notin CowPlaces
    BY Zenon, <2>1, CallsAre DEF FlushInv, JobState
  <2>4. CopyTypes'
    BY Zenon, <2>2 DEF CopyTypes, Clusters
  <2>5. ASSUME NEW d \in Co PROVE pc'[d] \in GuestPlaces => d \in early'
    <3>1. pc'[d] \in GuestPlaces => d # Job /\ waits[d] \notin {"start", "dead"}
      BY <2>1, SetsAre DEF FlushInv, Prompt
    <3> QED
      BY Zenon, <2>2, <3>1 DEF Guests
  <2>6. Calling'
    <3>1. Copying \subseteq CowPlaces /\ AtCluster \subseteq CowPlaces /\ Ended \subseteq CowPlaces
      BY SetsAre, CallsAre
    <3> QED
      BY <2>3, <2>5, <3>1, Zenon DEF Calling, OneCopier, CallOf
  <2>7. JobLoop'
    <3>1. pc'[Job] = "for"
      BY <2>1, BackupAssumption
    <3>2. 0 .. next' - 1 = {}
      BY <2>2
    <3> QED
      BY <2>2, <3>1, <3>2, SetsAre, CallsAre, Zenon DEF JobLoop
  <2>8. CopyData'
    <3>1. Kept'
      BY Zenon, <2>2 DEF Kept, Clusters
    <3>2. \A d \in Co : Buffered(d)'
      BY Zenon, <2>3, SetsAre, CallsAre DEF Buffered
    <3>3. ~FullCopy'
      BY Zenon, <2>1, <2>2, BackupAssumption, SetsAre DEF FullCopy
    <3> QED
      BY <3>1, <3>2, <3>3, ZenonT(40) DEF CopyData
  <2> QED
    BY Zenon, <2>4, <2>6, <2>7, <2>8

\* The job calls backup_do_cow for the cluster at next.
<1>JobCalls.
  ASSUME Somewhere, FlushInv, CopyInv, Goto(Job, "rdlock"), CallDoCow(Job, next, next + 1),
         pc[Job] \in {"slept", "alloc_io"},
         UNCHANGED <<src, target, copied, buf, sync_mode, job, next, early, asof,
                     before_write, cancelled>>
  PROVE  CopyInv'
  <2> USE <1>JobCalls
  <2> USE BackupAssumption DEF CopyInv
  <2>1. next \in Nat /\ next + 1 \in Nat
    BY DEF CopyTypes
  <2>2. CopyTypes' /\ Calling' /\ Others(Job)
    BY Zenon, <2>1, <1>CalledCopy
  <2>3. \A d \in Co : pc'[d] = IF d = Job THEN "rdlock" ELSE pc[d]
    BY Zenon, <1>MovedTo
  <2>4. start'[Job] = next /\ end'[Job] = next + 1
    BY DEF CallDoCow, CopyTypes
  <2>5. JobLoop'
    BY <2>3, <2>4, SetsAre, CallsAre, Zenon DEF JobLoop
  <2>6. ~FullCopy'
    BY <2>3, SetsAre, CallsAre DEF FullCopy, FlushInv, JobState
  <2>7. \A d \in Co : pc'[d] \in WithData =>
          pc[d] \in WithData /\ buf'[d] = buf[d] /\ cluster'[d] = cluster[d]
    BY <2>2, <2>3, SetsAre, Zenon DEF Others
  <2>8. CopyData'
    BY <2>6, <2>7, <1>DataStays, Zenon
  <2> QED
    BY Zenon, <2>2, <2>5, <2>8

\* The job goes on to the next cluster.
<1>JobAdvances.
  ASSUME Somewhere, CopyInv, Goto(Job, "for"), next' = next + 1,
         pc[Job] \in {"cowed", "alloc_io"}, pc[Job] = "cowed" => ret[Job] = "ok",
         UNCHANGED <<src, target, copied, buf, cowVars, sync_mode, job, early, asof,
                     before_write, cancelled>>
  PROVE  CopyInv'
  <2> USE <1>JobAdvances
  <2> USE BackupAssumption DEF CopyInv
  <2>1. \A d \in Co : pc'[d] = IF d = Job THEN "for" ELSE pc[d]
    BY Zenon, <1>MovedTo
  <2>2. CopyTypes'
    BY DEF CopyTypes, cowVars, Clusters
  <2>3. Others(Job)
    BY Zenon, <2>1 DEF Others, cowVars, Listed
  <2>4. CallOf(Job)'
    BY Zenon, <2>1, SetsAre, CallsAre DEF CallOf
  <2>5. Calling'
    BY <2>1, <2>3, <2>4, <1>CallStep, SetsAre, Zenon DEF Calling, CallOf
  <2>6. JobLoop'
    <3>1. sync_mode = "full" => 0 .. next' - 1 \subseteq copied
      <4> SUFFICES ASSUME sync_mode = "full" PROVE 0 .. next' - 1 \subseteq copied
        BY Zenon
      <4>1. pc[Job] = "cowed"
        BY Zenon, SetsAre DEF JobLoop
      <4>2. next \in copied /\ 0 .. next - 1 \subseteq copied
        BY Zenon, <4>1, SetsAre DEF JobLoop
      <4>3. next' = next + 1 /\ next \in Nat
        BY Zenon, <2>1 DEF CopyTypes
      <4>4. 0 .. next' - 1 \subseteq (0 .. next - 1) \cup {next}
        BY <4>3
      <4> QED
        BY Zenon, <4>2, <4>4
    <3> QED
      BY Zenon, <2>1, <3>1, SetsAre, CallsAre DEF JobLoop
  <2>7. FullCopy' => FullCopy
    BY Zenon, <2>1, SetsAre DEF FullCopy, cowVars
  <2>8. CopyData'
    BY <2>1, <2>7, SetsAre, <1>DataStays DEF cowVars
  <2> QED
    BY Zenon, <2>2, <2>5, <2>6, <2>8
<1>RemoveCopy.
  ASSUME Somewhere, FlushInv, CopyInv, JobRemove
  PROVE  CopyInv'
  <2> USE <1>RemoveCopy
  <2> USE BackupAssumption DEF CopyInv
  <2>1. pc[Job] = "remove" /\ \A d \in Co : pc'[d] = IF d = Job THEN "wrlock" ELSE pc[d]
    BY Zenon, <1>MovedTo DEF JobRemove, At, scanVars
  <2>2. /\ UNCHANGED <<src, target, copied, buf, cowVars, sync_mode, job, next, early,
                       asof, cancelled>>
        /\ before_write' = FALSE
    BY DEF JobRemove, dataVars, histVars, scanVars
  <2>3. CopyTypes'
    BY <2>2 DEF CopyTypes, cowVars, Clusters
  <2>4. Others(Job)
    BY Zenon, <2>1, <2>2 DEF Others, cowVars, Listed
  <2>5. CallOf(Job)'
    BY <2>1, SetsAre, CallsAre DEF CallOf
  <2>6. Calling'
    BY <2>1, <2>2, <2>4, <2>5, <1>CallStep, SetsAre, Zenon DEF Calling, CallOf
  <2>7. JobLoop'
    BY Zenon, <2>1, <2>2, SetsAre, CallsAre DEF JobLoop, cowVars, Clusters
  <2>8. ASSUME FullCopy' PROVE \A k \in Clusters : target'[k] \in asof'[k]
    <3>1. Clusters \subseteq copied
      BY Zenon, <2>1, <2>2, <2>8 DEF FullCopy, JobLoop, cowVars
    <3>2. Kept
      BY <2>1, SetsAre, CallsAre, Zenon DEF JobLoop, CopyData
    <3> QED
      BY <2>2, <3>1, <3>2, ZenonT(40) DEF Kept
  <2>9. CopyData'
    BY <2>2, <2>8, Zenon DEF CopyData, Clusters
  <2> QED
    BY Zenon, <2>3, <2>6, <2>7, <2>9
<1>ClosedCopy.
  ASSUME Somewhere, FlushInv, CopyInv, JobFlushed \/ JobCompleted
  PROVE  CopyInv'
  <2> USE <1>ClosedCopy
  <2> USE BackupAssumption DEF CopyInv
  <2>1. /\ pc[Job] \in {"wrunlock", "closed"}
        /\ \A d \in Co : pc'[d] = IF d = Job THEN pc'[Job] ELSE pc[d]
        /\ pc'[Job] \in {"close", "complete"}
    BY Zenon, <1>MovedTo DEF JobFlushed, JobCompleted, At
  <2>2. UNCHANGED <<src, target, buf, cowVars, sync_mode, before_write, next, early,
                    asof, cancelled>>
    BY DEF JobFlushed, JobCompleted, dataVars, jobVars, histVars, scanVars
  <2>3. ~before_write /\ \A d \in Co : pc'[d] \notin CowPlaces
    <3>1. pc[Job] \in {"wrunlock"} \cup ClosePlaces
      BY Zenon, <2>1, SetsAre
    <3> QED
      BY Zenon, <2>1, <3>1, CallsAre DEF FlushInv, JobState
  <2>4. CopyTypes'
    BY <2>2 DEF CopyTypes, cowVars, Clusters
  <2>5. Calling'
    <3>1. Copying \subseteq CowPlaces /\ AtCluster \subseteq CowPlaces /\ Ended \subseteq CowPlaces
      BY SetsAre, CallsAre
    <3> QED
      BY <2>2, <2>3, <3>1, Zenon DEF Calling, OneCopier, CallOf
  <2>6. JobLoop'
    BY Zenon, <2>1, SetsAre, CallsAre DEF JobLoop
  <2>7. FullCopy' => FullCopy
    BY Zenon, <2>1, <2>2, SetsAre DEF FullCopy, cowVars
  <2>8. CopyData'
    BY <2>2, <2>3, <2>7 DEF CopyData, Clusters
  <2> QED
    BY Zenon, <2>4, <2>5, <2>6, <2>8
<1>JobCopy.
  ASSUME Somewhere, FlushInv, CopyInv, running = Job, backup_run
  PROVE  CopyInv'
  <2> USE <1>JobCopy
  <2> USE BackupAssumption
  <2>1. CASE \/ JobFor \/ JobAllocLock \/ JobAlloc \/ JobWrLock
             \/ bdrv_drain_all \/ JobFlush
    BY Zenon, <2>1, <1>QuietJob
  <2>2. CASE JobSlept
    <3>1. /\ pc[Job] = "slept"
          /\ UNCHANGED <<src, target, copied, buf, sync_mode, job, next, early, asof,
                         before_write, cancelled>>
      BY <2>2 DEF JobSlept, At, dataVars, histVars, scanVars
    <3>2. CASE Goto(Job, "rdlock") /\ CallDoCow(Job, next, next + 1)
      BY Zenon, <3>1, <3>2, <1>JobCalls
    <3>3. ASSUME NEW p \in {"remove", "for", "is_allocated"}, Goto(Job, p),
                 p = "remove" => cancelled, p = "is_allocated" => sync_mode = "top",
                 UNCHANGED cowVars
          PROVE  CopyInv'
      <4>1. Goto(Job, p) /\ Follows(Job, p) /\ JobFollows(p)
        BY Zenon, <3>1, <3>3, <1>Going, <1>FollowsAre, <1>JobFollowsAre, CallsAre, SetsAre
      <4> QED
        BY <3>1, <3>3, <4>1, <1>QuietCopy DEF copyVars
    <3> QED
      BY Zenon, <2>2, <3>2, <3>3 DEF JobSlept, scanVars
  <2>3. CASE JobAllocated
    <3>1. /\ pc[Job] = "alloc_io"
          /\ UNCHANGED <<src, target, copied, buf, sync_mode, job, early, asof,
                         before_write, cancelled>>
      BY <2>3 DEF JobAllocated, At, dataVars, histVars
    <3>2. ASSUME NEW p \in {"is_allocated", "past_end"}, Goto(Job, p),
                 UNCHANGED <<cowVars, next>>
          PROVE  CopyInv'
      <4>1. sync_mode # "full" /\ p \in Allocating
        BY Zenon, <3>1, <3>2, SetsAre DEF CopyInv, JobLoop
      <4>2. Follows(Job, p) /\ JobFollows(p)
        BY Zenon, <3>1, <3>2, <4>1, <1>FollowsAre, <1>JobFollowsAre, SetsAre, CallsAre
      <4> QED
        BY Zenon, <3>1, <3>2, <4>2, <1>QuietCopy DEF copyVars
    <3> QED
      BY Zenon, <2>3, <3>1, <3>2, <1>JobCalls, <1>JobAdvances DEF JobAllocated, Unallocated
  <2>4. CASE JobCowed
    <3>1. /\ pc[Job] = "cowed"
          /\ UNCHANGED <<src, target, copied, buf, cowVars, sync_mode, job, early, asof,
                         before_write, cancelled>>
      BY Zenon, <2>4 DEF JobCowed, At, dataVars, histVars, scanVars
    <3>2. CASE ret[Job] = "ok"
      BY Zenon, <2>4, <3>1, <3>2, <1>JobAdvances DEF JobCowed, scanVars
    <3>3. CASE ret[Job] # "ok"
      <4>1. PICK p \in {"remove", "for"} : Goto(Job, p) /\ next' = next
        BY <2>4, <3>3, ZenonT(40) DEF JobCowed, scanVars
      <4>2. Goto(Job, p) /\ Follows(Job, p) /\ JobFollows(p)
        BY Zenon, <3>1, <3>3, <4>1, <1>Going, <1>FollowsAre, <1>JobFollowsAre, CallsAre
      <4> QED
        BY <3>1, <4>1, <4>2, <1>QuietCopy DEF copyVars
    <3> QED
      BY Zenon, <3>2, <3>3
  <2>5. CASE JobRemove \/ JobFlushed \/ JobCompleted
    BY <2>5, <1>RemoveCopy, <1>ClosedCopy, Zenon
  <2> QED
    BY Zenon, <2>1, <2>2, <2>3, <2>4, <2>5 DEF backup_run

(* All steps, and the theorems.                                             *)
<1>MainCopy.
  ASSUME Somewhere, FlushInv, CopyInv
  PROVE  /\ \A c \in Co : io_done(c) => CopyInv'
         /\ \A c \in Co : submit_pdu(c) /\ UNCHANGED backupVars => CopyInv'
         /\ JobMain \/ DrainReturns => CopyInv'
         /\ UNCHANGED <<pc, backupVars>> => CopyInv'
  <2> USE <1>MainCopy
  <2> USE BackupAssumption
  <2>1. ASSUME UNCHANGED <<pc, backupVars>> PROVE CopyInv'
    BY <2>1, <1>QuietCopy DEF backupVars, dataVars, jobVars, histVars, copyVars, scanVars
  <2>2. ASSUME NEW c \in Co, io_done(c) PROVE CopyInv'
    BY Zenon, <2>1, <2>2 DEF io_done
  <2>3. ASSUME NEW c \in Co, submit_pdu(c), UNCHANGED backupVars PROVE CopyInv'
    <3>1. PICK p \in LockPlaces : Goto(c, p)
      BY <2>3 DEF submit_pdu
    <3>2. Goto(c, p) /\ Follows(c, p) /\ (c = Job => JobFollows(p))
      BY Zenon, <3>1, <1>Going, <1>FollowsAre, <1>JobFollowsAre DEF PathPlaces
    <3> QED
      BY Zenon, <2>3, <3>2, <1>QuietCopy DEF backupVars, dataVars, jobVars, histVars, copyVars, scanVars
  <2>4. ASSUME JobMain PROVE CopyInv'
    <3>1. CASE backup_start
      BY Zenon, <3>1, <1>StartCopy
    <3>2. CASE co_sleep_cb
      BY Zenon, <3>2, <1>QuietCopy DEF co_sleep_cb, dataVars, jobVars, copyVars, scanVars
    <3>3. ASSUME Command, cancelled => cancelled' PROVE CopyInv'
      BY Zenon, <3>3, <1>QuietCopy DEF Command, dataVars, copyVars, scanVars
    <3> QED
      BY <2>4, <3>1, <3>2, <3>3
      DEF JobMain, block_job_pause, block_job_resume, block_job_cancel
  <2>5. ASSUME DrainReturns PROVE CopyInv'
    BY Zenon, <2>5, <1>QuietCopy DEF DrainReturns, dataVars, jobVars, copyVars, scanVars
  <2> QED
    BY Zenon, <2>1, <2>2, <2>3, <2>4, <2>5
<1>CowCopy.
  ASSUME Somewhere, FlushInv, CopyInv, NEW c \in Co, running = c, backup_do_cow(c)
  PROVE  CopyInv'
  BY Zenon, <1>CowCopy, <1>QuietCow, <1>BeginCopy, <1>LoopCopy, <1>ReadCopy, <1>TargetCopy, <1>EndCopy DEF backup_do_cow
<1> QED
  <2> SUFFICES ASSUME Somewhere, FlushInv, CopyInv, [Next]_vars PROVE CopyInv'
    OBVIOUS
  <2>1. CASE Run
    BY Zenon, <2>1, <1>CowCopy, <1>QuietWrite, <1>WrittenCopy, <1>JobCopy, <1>QuietPath, <1>CompleteCopy, <1>MainCopy
    DEF Run, BackupStep
  <2>2. CASE Events
    BY <2>2, <1>WritevCopy, <1>MainCopy DEF Events
  <2>3. CASE UNCHANGED vars
    BY <2>3, <1>MainCopy DEF vars
  <2> QED
    BY <2>1, <2>2, <2>3 DEF Next

LEMMA CopyInit == Init => CopyInv
<1> SUFFICES ASSUME Init PROVE CopyInv
  OBVIOUS
<1>1. /\ pc = [c \in Co |-> "start"] /\ job = "none" /\ before_write = FALSE
      /\ inflight_reqs = <<>> /\ next = 0
      /\ start = [c \in Co |-> 0] /\ end = [c \in Co |-> 0]
      /\ cluster = [c \in Co |-> 0]
      /\ buf = [c \in Co |-> "blank"] /\ ret = [c \in Co |-> "ok"]
      /\ DOMAIN target = Clusters
  BY DEF Init, BackupInit
<1>2. CopyTypes
  BY <1>1 DEF CopyTypes
<1>3. Calling
  BY Zenon, <1>1, SetsAre, CallsAre DEF Calling, CallOf, OneCopier
<1>4. JobLoop /\ CopyData
  BY Zenon, <1>1, BackupAssumption, SetsAre, CallsAre DEF JobLoop, CopyData, FullCopy
<1> QED
  BY <1>2, <1>3, <1>4 DEF CopyInv
----------------------------------------------------------------------------
(* What a place means for the locks.                                        *)

LEMMA PlacesAre ==
  Places = {"start", "complete", "dead", "rdlock", "overlap", "loop", "read_lock",
            "read", "read_io", "write_target", "target_io", "out", "unlock",
            "for", "slept", "is_allocated", "alloc", "alloc_io", "past_end",
            "cowed", "remove", "wrlock", "wrunlock", "close", "drained",
            "flushed", "closed", "abort", "write_lock", "write", "write_io",
            "path_rdlock", "path_wrlock", "shared", "shared_work", "alone",
            "nested", "alone_work"}
  BY DEF Places, CowPlaces, JobPlaces, ClosePlaces, GuestPlaces, PathPlaces, LockPlaces

LEMMA HeldTable ==
  /\ \A p \in {"start", "complete", "dead", "rdlock", "for", "slept",
               "is_allocated", "past_end", "cowed", "remove", "wrlock", "close",
               "drained", "flushed", "closed", "abort", "write_lock",
               "path_rdlock", "path_wrlock"} : HeldAt[p] = {}
  /\ \A p \in {"write", "write_io", "alloc", "alloc_io"} : HeldAt[p] = {Mutex}
  /\ \A p \in {"overlap", "loop", "read_lock", "write_target", "target_io",
               "out", "unlock"} : HeldAt[p] = {Shared("flush")}
  /\ \A p \in {"read", "read_io"} : HeldAt[p] = {Mutex, Shared("flush")}
  /\ HeldAt["wrunlock"] = {Alone("flush")}
  /\ \A p \in {"shared", "shared_work"} : HeldAt[p] = {Shared("rename")}
  /\ \A p \in {"alone", "nested", "alone_work"} : HeldAt[p] = {Alone("rename")}
<1> DEFINE M == Mutex  FS == Shared("flush")  FA == Alone("flush")
           RS == Shared("rename")  RA == Alone("rename")
<1>1. Holds = {M, FS, FA, RS, RA}
  BY DEF Holds, RwLocks, Mutex, Shared, Alone
<1>2. /\ M # FS /\ M # FA /\ M # RS /\ M # RA /\ FS # FA /\ FS # RS /\ FS # RA
      /\ FA # RS /\ FA # RA /\ RS # RA
  BY DEF Mutex, Shared, Alone
<1>3. /\ Holding(M) = {"read", "read_io", "write", "write_io", "alloc", "alloc_io"}
      /\ Holding(FS) = {"overlap", "loop", "read_lock", "read", "read_io",
                        "write_target", "target_io", "out", "unlock"}
      /\ Holding(FA) = {"wrunlock"}
      /\ Holding(RS) = {"shared", "shared_work"}
      /\ Holding(RA) = {"alone", "nested", "alone_work"}
  BY DEF Holding, CowPlaces, Mutex, Shared, Alone
<1>4. \A p \in Places : HeldAt[p] = {h \in {M, FS, FA, RS, RA} : p \in Holding(h)}
  BY Zenon, <1>1 DEF HeldAt
<1> HIDE DEF M, FS, FA, RS, RA
<1>5. \A p \in Places :
        /\ M \in HeldAt[p] <=> p \in Holding(M)
        /\ FS \in HeldAt[p] <=> p \in Holding(FS)
        /\ FA \in HeldAt[p] <=> p \in Holding(FA)
        /\ RS \in HeldAt[p] <=> p \in Holding(RS)
        /\ RA \in HeldAt[p] <=> p \in Holding(RA)
        /\ HeldAt[p] \subseteq {M, FS, FA, RS, RA}
  BY Zenon, <1>4
<1>6. ASSUME NEW p \in {"start", "complete", "dead", "rdlock", "for", "slept",
               "is_allocated", "past_end", "cowed", "remove", "wrlock", "close",
               "drained", "flushed", "closed", "abort", "write_lock",
               "path_rdlock", "path_wrlock"} PROVE HeldAt[p] = {}
  <2>1. /\ p \in Places /\ p \notin Holding(M) /\ p \notin Holding(FS) /\ p \notin Holding(FA)
        /\ p \notin Holding(RS) /\ p \notin Holding(RA)
    BY <1>3, <1>6, PlacesAre, Zenon
  <2> QED
    BY <1>5, <2>1, Zenon
<1>7. ASSUME NEW p \in {"write", "write_io", "alloc", "alloc_io"} PROVE HeldAt[p] = {M}
  <2>1. /\ p \in Places /\ p \in Holding(M) /\ p \notin Holding(FS) /\ p \notin Holding(FA)
        /\ p \notin Holding(RS) /\ p \notin Holding(RA)
    BY <1>3, <1>7, PlacesAre, Zenon
  <2> QED
    BY <1>5, <2>1, Zenon
<1>8. ASSUME NEW p \in {"overlap", "loop", "read_lock", "write_target", "target_io",
               "out", "unlock"} PROVE HeldAt[p] = {FS}
  <2>1. /\ p \in Places /\ p \notin Holding(M) /\ p \in Holding(FS) /\ p \notin Holding(FA)
        /\ p \notin Holding(RS) /\ p \notin Holding(RA)
    BY <1>3, <1>8, PlacesAre, Zenon
  <2> QED
    BY <1>5, <2>1, Zenon
<1>9. ASSUME NEW p \in {"read", "read_io"} PROVE HeldAt[p] = {M, FS}
  <2>1. /\ p \in Places /\ p \in Holding(M) /\ p \in Holding(FS) /\ p \notin Holding(FA)
        /\ p \notin Holding(RS) /\ p \notin Holding(RA)
    BY <1>3, <1>9, PlacesAre, Zenon
  <2> QED
    BY <1>5, <2>1, Zenon
<1>10. ASSUME NEW p \in {"wrunlock"} PROVE HeldAt[p] = {FA}
  <2>1. /\ p \in Places /\ p \notin Holding(M) /\ p \notin Holding(FS) /\ p \in Holding(FA)
        /\ p \notin Holding(RS) /\ p \notin Holding(RA)
    BY <1>3, <1>10, PlacesAre, Zenon
  <2> QED
    BY <1>5, <2>1, Zenon
<1>11. ASSUME NEW p \in {"shared", "shared_work"} PROVE HeldAt[p] = {RS}
  <2>1. /\ p \in Places /\ p \notin Holding(M) /\ p \notin Holding(FS) /\ p \notin Holding(FA)
        /\ p \in Holding(RS) /\ p \notin Holding(RA)
    BY <1>3, <1>11, PlacesAre, Zenon
  <2> QED
    BY <1>5, <2>1, Zenon
<1>12. ASSUME NEW p \in {"alone", "nested", "alone_work"} PROVE HeldAt[p] = {RA}
  <2>1. /\ p \in Places /\ p \notin Holding(M) /\ p \notin Holding(FS) /\ p \notin Holding(FA)
        /\ p \notin Holding(RS) /\ p \in Holding(RA)
    BY <1>3, <1>12, PlacesAre, Zenon
  <2> QED
    BY <1>5, <2>1, Zenon
<1> QED
  BY <1>6, <1>7, <1>8, <1>9, <1>10, <1>11, <1>12, Zenon DEF M, FS, FA, RS, RA
----------------------------------------------------------------------------
(* A step leaves the locks alone, or one coroutine takes or leaves one.     *)

Stays == UNCHANGED <<held, lockVars>>
Takes(c, h) ==
  /\ h \notin held[c] /\ held' = [held EXCEPT ![c] = @ \cup {h}]
  /\ \/ /\ h = Mutex /\ ~locked
        /\ locked' = TRUE /\ UNCHANGED <<writer, reader>>
     \/ \E l \in RwLocks :
          /\ h = Shared(l) /\ ~writer[l]
          /\ reader' = [reader EXCEPT ![l] = @ + 1] /\ UNCHANGED <<locked, writer>>
     \/ \E l \in RwLocks :
          /\ h = Alone(l) /\ ~writer[l] /\ ~(reader[l] > 0)
          /\ writer' = [writer EXCEPT ![l] = TRUE] /\ UNCHANGED <<locked, reader>>
Leaves(c, h) ==
  /\ h \in held[c] /\ held' = [held EXCEPT ![c] = @ \ {h}]
  /\ \/ h = Mutex /\ locked' = FALSE /\ UNCHANGED <<writer, reader>>
     \/ \E l \in RwLocks :
          /\ h = Shared(l)
          /\ reader' = [reader EXCEPT ![l] = @ - 1] /\ UNCHANGED <<locked, writer>>
     \/ \E l \in RwLocks :
          /\ h = Alone(l)
          /\ writer' = [writer EXCEPT ![l] = FALSE] /\ UNCHANGED <<locked, reader>>
LockStep == Stays \/ \E c \in Co, h \in Holds : Takes(c, h) \/ Leaves(c, h)

LEMMA HoldsAre ==
  /\ Mutex \in Holds
  /\ \A l \in RwLocks : Shared(l) \in Holds /\ Alone(l) \in Holds
  BY DEF Holds, Mutex, Shared, Alone

LEMMA PlaceHeld == \A c \in Co : held[c] = HeldAt[pc[c]]
  BY DEF held

LEMMA HoldersFinite ==
  \A h : /\ IsFiniteSet(Holders(h)) /\ Cardinality(Holders(h)) \in Nat
         /\ Cardinality(Holders(h)) = 0 <=> Holders(h) = {}
<1> SUFFICES ASSUME NEW h
             PROVE  /\ IsFiniteSet(Holders(h)) /\ Cardinality(Holders(h)) \in Nat
                    /\ Cardinality(Holders(h)) = 0 <=> Holders(h) = {}
  BY Zenon
<1>1. Holders(h) \subseteq Co
  BY DEF Holders
<1>2. IsFiniteSet(Holders(h))
  BY <1>1, CoAssumption, FS_Subset
<1> QED
  BY Zenon, <1>2, FS_CardinalityType, FS_EmptySet

LEMMA LocksInit == Init => LockInv /\ Locks!Init
<1> SUFFICES ASSUME Init PROVE LockInv /\ Locks!Init
  OBVIOUS
<1>1. Placed
  BY Zenon, PlacesAre DEF Init, CoInit, Placed, Reasons
<1>2. \A c \in Co : held[c] = {}
  BY PlaceHeld, HeldTable DEF Init
<1>3. \A h : Holders(h) = {}
  BY <1>2 DEF Holders
<1>4. LockFields
  BY <1>3, FS_EmptySet, Zenon DEF Init, LockInit, LockFields, LockTypeOK
<1>5. NoConflict
  BY Zenon, <1>2 DEF NoConflict
<1>6. Locks!Init
  BY <1>2 DEF Locks!Init, held
<1> QED
  BY <1>1, <1>4, <1>5, <1>6 DEF LockInv

LEMMA LocksNext ==
  LockInv /\ [Next]_vars => LockInv' /\ [Locks!Next]_held

\* A coroutine that goes elsewhere changes only what it holds itself.
<1>MoveHeld.
  ASSUME Placed, NEW c \in Co, NEW p, pc' = [pc EXCEPT ![c] = p]
  PROVE  held' = [held EXCEPT ![c] = HeldAt[p]]
  BY Zenon, <1>MoveHeld DEF Placed, held
<1>Quiet.
               pc' = pc /\ UNCHANGED lockVars => LockStep
  BY Zenon DEF LockStep, Stays, held
<1>QuietMove.
  ASSUME Placed, NEW c \in Co, NEW p, Moves(c, p), HeldAt[p] = HeldAt[pc[c]],
         UNCHANGED lockVars
  PROVE  LockStep
  <2> USE <1>QuietMove
  <2>1. held' = [held EXCEPT ![c] = held[c]]
    BY <1>MoveHeld, PlaceHeld, ZenonT(40) DEF Moves
  <2>2. held' = held
    BY <2>1, Zenon DEF held
  <2> QED
    BY <2>2 DEF LockStep, Stays
<1>MutexLock.
  ASSUME Placed, LockFields, NEW c \in Co, NEW p, qemu_co_mutex_lock(c, p),
         HeldAt[p] = HeldAt[pc[c]] \cup {Mutex}
  PROVE  LockStep
  <2> USE <1>MutexLock
  <2>1. CASE locked
    BY <2>1, <1>Quiet DEF qemu_co_mutex_lock
  <2>2. CASE ~locked
    <3>0. held' = [held EXCEPT ![c] = HeldAt[p]]
      BY <2>2, <1>MoveHeld, Zenon DEF qemu_co_mutex_lock, Goto
    <3>1. held' = [held EXCEPT ![c] = held[c] \cup {Mutex}]
      BY <3>0, PlaceHeld, Zenon
    <3>2. Mutex \notin held[c]
      BY <2>2 DEF LockFields, Holders
    <3> QED
      BY <2>2, <3>1, <3>2, HoldsAre, Zenon DEF qemu_co_mutex_lock, LockStep, Takes
  <2> QED
    BY Zenon, <2>1, <2>2
<1>MutexUnlock.
  ASSUME Placed, NEW c \in Co, NEW p, qemu_co_mutex_unlock(c), Moves(c, p),
         Mutex \in HeldAt[pc[c]], HeldAt[p] = HeldAt[pc[c]] \ {Mutex}
  PROVE  LockStep
  <2> USE <1>MutexUnlock
  <2>0. held' = [held EXCEPT ![c] = HeldAt[p]]
    BY <1>MoveHeld, Zenon DEF Moves
  <2>1. held' = [held EXCEPT ![c] = held[c] \ {Mutex}]
    BY <2>0, PlaceHeld, Zenon
  <2> QED
    BY <2>1, PlaceHeld, HoldsAre, Zenon DEF qemu_co_mutex_unlock, LockStep, Leaves
<1>ReadLocked.
  ASSUME Placed, LockFields, NEW c \in Co, NEW p, NEW l \in RwLocks,
         qemu_co_rwlock_rdlock(l, c, p), HeldAt[pc[c]] = {},
         HeldAt[p] = {Shared(l)}
  PROVE  LockStep
  <2> USE <1>ReadLocked
  <2>1. CASE writer[l]
    BY <2>1, <1>Quiet DEF qemu_co_rwlock_rdlock
  <2>2. CASE ~writer[l]
    <3>0. held' = [held EXCEPT ![c] = HeldAt[p]]
      BY <2>2, <1>MoveHeld, Zenon DEF qemu_co_rwlock_rdlock, Goto
    <3>1. held' = [held EXCEPT ![c] = held[c] \cup {Shared(l)}]
      <4>1. HeldAt[p] = held[c] \cup {Shared(l)}
        BY PlaceHeld, Zenon
      <4> QED
        BY <3>0, <4>1, Zenon
    <3> QED
      BY <2>2, <3>1, PlaceHeld, HoldsAre, Zenon DEF qemu_co_rwlock_rdlock, LockStep, Takes
  <2> QED
    BY Zenon, <2>1, <2>2
<1>WriteLocked.
  ASSUME Placed, LockFields, NEW c \in Co, NEW p, NEW l \in RwLocks,
         qemu_co_rwlock_wrlock(l, c, p), HeldAt[pc[c]] = {},
         HeldAt[p] = {Alone(l)}
  PROVE  LockStep
  <2> USE <1>WriteLocked
  <2>1. CASE writer[l] \/ reader[l] > 0
    BY Zenon, <2>1, <1>Quiet DEF qemu_co_rwlock_wrlock
  <2>2. CASE ~(writer[l] \/ reader[l] > 0)
    <3>0. held' = [held EXCEPT ![c] = HeldAt[p]]
      BY <2>2, <1>MoveHeld, Zenon DEF qemu_co_rwlock_wrlock, Goto
    <3>1. held' = [held EXCEPT ![c] = held[c] \cup {Alone(l)}]
      <4>1. HeldAt[p] = held[c] \cup {Alone(l)}
        BY PlaceHeld, Zenon
      <4> QED
        BY <3>0, <4>1, Zenon
    <3> QED
      BY <2>2, <3>1, PlaceHeld, HoldsAre, Zenon DEF qemu_co_rwlock_wrlock, LockStep, Takes
  <2> QED
    BY Zenon, <2>1, <2>2

\* The unlock cannot tell a reader from a writer but by the field: a reader
\* that leaves finds no writer.
<1>Unlocked.
  ASSUME Placed, LockFields, NoConflict, NEW c \in Co, NEW p, NEW l \in RwLocks,
         qemu_co_rwlock_unlock(l, c), Moves(c, p), HeldAt[p] = {},
         HeldAt[pc[c]] = {Shared(l)} \/ HeldAt[pc[c]] = {Alone(l)}
  PROVE  LockStep
  <2> USE <1>Unlocked
  <2>0. held' = [held EXCEPT ![c] = {}]
    BY <1>MoveHeld, Zenon DEF Moves
  <2>1. CASE HeldAt[pc[c]] = {Alone(l)}
    <3>1. writer[l]
      BY <2>1, PlaceHeld DEF LockFields, Holders
    <3>2. held' = [held EXCEPT ![c] = held[c] \ {Alone(l)}]
      BY <2>0, <2>1, PlaceHeld, Zenon
    <3> QED
      BY <2>1, <3>1, <3>2, PlaceHeld, HoldsAre, Zenon
      DEF qemu_co_rwlock_unlock, LockStep, Leaves
  <2>2. CASE HeldAt[pc[c]] = {Shared(l)}
    <3>1. ~writer[l]
      <4> SUFFICES ASSUME NEW d \in Co, Alone(l) \in held[d] PROVE FALSE
        BY Zenon DEF LockFields, Holders
      <4>1. Locks!Conflict(Shared(l), Alone(l)) /\ Shared(l) # Alone(l)
        BY DEF Locks!Conflict, Shared, Alone
      <4> QED
        BY Zenon, <2>2, <4>1, PlaceHeld DEF NoConflict
    <3>2. held' = [held EXCEPT ![c] = held[c] \ {Shared(l)}]
      BY <2>0, <2>2, PlaceHeld, Zenon
    <3> QED
      BY <2>2, <3>1, <3>2, PlaceHeld, HoldsAre, Zenon
      DEF qemu_co_rwlock_unlock, LockStep, Leaves
  <2> QED
    BY <2>1, <2>2

(* Such a step keeps the fields and the exclusion.                          *)
<1>Conflicts.
  ASSUME NEW h \in Holds, NEW i \in Holds, Locks!Conflict(h, i)
  PROVE  \/ h = Mutex /\ i = Mutex
         \/ \E l \in RwLocks : /\ {h, i} \subseteq {Shared(l), Alone(l)}
                               /\ Alone(l) \in {h, i}
  BY <1>Conflicts DEF Locks!Conflict, Holds, Mutex, Shared, Alone, RwLocks
<1>DistinctLocks.
  /\ \A l \in RwLocks : Mutex # Shared(l) /\ Mutex # Alone(l)
  /\ \A l, m \in RwLocks : /\ Shared(l) # Alone(m)
                           /\ Shared(l) = Shared(m) => l = m
                           /\ Alone(l) = Alone(m) => l = m
  BY DEF Mutex, Shared, Alone, RwLocks
<1>HeldType.
                  Placed => held \in [Co -> SUBSET Holds]
  BY Zenon DEF Placed, held, HeldAt

\* Nobody gets a lock that another one holds in a way that excludes it.
<1>TakesAlone.
  ASSUME Placed, LockFields, NEW c \in Co, NEW h \in Holds, Takes(c, h),
         NEW d \in Co, NEW i \in held[d]
  PROVE  ~Locks!Conflict(h, i)
  <2> USE <1>TakesAlone
  <2> SUFFICES ASSUME Locks!Conflict(h, i) PROVE FALSE
    OBVIOUS
  <2>0. i \in Holds
    BY Zenon, <1>HeldType
  <2>1. CASE h = Mutex /\ i = Mutex
    BY Zenon, <2>1, <1>DistinctLocks DEF Takes, LockFields, Holders
  <2>2. ASSUME NEW l \in RwLocks, {h, i} \subseteq {Shared(l), Alone(l)},
               Alone(l) \in {h, i}
        PROVE  FALSE
    <3>1. ~writer[l] /\ (h = Alone(l) => ~(reader[l] > 0))
      BY Zenon, <2>2, <1>DistinctLocks DEF Takes
    <3>2. Holders(Alone(l)) = {}
      BY Zenon, <3>1 DEF LockFields
    <3>3. h = Alone(l) => Holders(Shared(l)) = {}
      <4>1. reader[l] = Cardinality(Holders(Shared(l)))
        BY Zenon DEF LockFields
      <4>2. /\ Cardinality(Holders(Shared(l))) \in Nat
            /\ Cardinality(Holders(Shared(l))) = 0 => Holders(Shared(l)) = {}
        BY HoldersFinite, Zenon
      <4>3. \A n \in Nat : n > 0 \/ n = 0
        OBVIOUS
      <4> QED
        BY <3>1, <4>1, <4>2, <4>3, Zenon
    <3> QED
      BY Zenon, <2>2, <3>2, <3>3 DEF Holders
  <2> QED
    BY Zenon, <2>0, <2>1, <2>2, <1>Conflicts
<1>HoldersStep.
  ASSUME Placed, NEW c \in Co, NEW h
  PROVE  /\ Takes(c, h) => /\ c \notin Holders(h)
                           /\ Holders(h)' = Holders(h) \cup {c}
                           /\ \A i \in Holds \ {h} : Holders(i)' = Holders(i)
         /\ Leaves(c, h) => /\ c \in Holders(h)
                            /\ Holders(h)' = Holders(h) \ {c}
                            /\ \A i \in Holds \ {h} : Holders(i)' = Holders(i)
  <2> USE <1>HoldersStep
  <2>1. held \in [Co -> SUBSET Holds]
    BY Zenon, <1>HeldType
  <2>2. ASSUME Takes(c, h)
        PROVE  /\ c \notin Holders(h) /\ Holders(h)' = Holders(h) \cup {c}
               /\ \A i \in Holds \ {h} : Holders(i)' = Holders(i)
    <3>1. \A d \in Co : held'[d] = IF d = c THEN held[d] \cup {h} ELSE held[d]
      BY Zenon, <2>1, <2>2 DEF Takes
    <3> QED
      BY <2>2, <3>1 DEF Takes, Holders
  <2>3. ASSUME Leaves(c, h)
        PROVE  /\ c \in Holders(h) /\ Holders(h)' = Holders(h) \ {c}
               /\ \A i \in Holds \ {h} : Holders(i)' = Holders(i)
    <3>1. \A d \in Co : held'[d] = IF d = c THEN held[d] \ {h} ELSE held[d]
      BY <2>1, <2>3 DEF Leaves
    <3> QED
      BY <2>3, <3>1 DEF Leaves, Holders
  <2> QED
    BY <2>2, <2>3
<1>FieldsKept.
  ASSUME Placed, LockFields, NoConflict, LockStep
  PROVE  LockFields'
  <2> USE <1>FieldsKept
  <2>1. CASE Stays
    BY Zenon, <2>1 DEF Stays, LockFields, LockTypeOK, lockVars, Holders
  <2>2. ASSUME NEW c \in Co, NEW h \in Holds, Takes(c, h)
        PROVE  LockFields'
    <3>0. /\ c \notin Holders(h) /\ Holders(h)' = Holders(h) \cup {c}
          /\ \A i \in Holds \ {h} : Holders(i)' = Holders(i)
      BY <2>2, <1>HoldersStep
    <3>1. Cardinality(Holders(h)') = Cardinality(Holders(h)) + 1
      BY <3>0, HoldersFinite, FS_AddElement, Zenon
    <3>2. LockTypeOK'
      <4>1. CASE h = Mutex
        BY <2>2, <4>1, <1>DistinctLocks, Zenon DEF Takes, LockFields, LockTypeOK
      <4>2. ASSUME NEW l \in RwLocks, h = Shared(l) PROVE LockTypeOK'
        BY <2>2, <4>2, <1>DistinctLocks DEF Takes, LockFields, LockTypeOK
      <4>3. ASSUME NEW l \in RwLocks, h = Alone(l) PROVE LockTypeOK'
        BY <2>2, <4>3, <1>DistinctLocks, Zenon DEF Takes, LockFields, LockTypeOK
      <4> QED
        BY <2>2, <4>1, <4>2, <4>3 DEF Takes
    <3>3. (locked <=> Holders(Mutex) # {})'
      <4>1. CASE h = Mutex
        <5>1. locked' = TRUE
          BY <2>2, <4>1, <1>DistinctLocks, Zenon DEF Takes
        <5> QED
          BY <3>0, <4>1, <5>1, Zenon
      <4>2. CASE h # Mutex
        <5>1. locked' = locked /\ Holders(Mutex)' = Holders(Mutex)
          BY <2>2, <3>0, <4>2, HoldsAre, Zenon DEF Takes
        <5> QED
          BY <5>1, Zenon DEF LockFields
      <4> QED
        BY <4>1, <4>2, Zenon
    <3>4. ASSUME NEW l \in RwLocks PROVE (writer[l] <=> Holders(Alone(l)) # {})'
      <4>1. CASE h = Alone(l)
        <5>1. writer'[l] = TRUE
          BY <2>2, <4>1, <1>DistinctLocks, Zenon DEF Takes, LockFields, LockTypeOK
        <5> QED
          BY <3>0, <4>1, <5>1, Zenon
      <4>2. CASE h # Alone(l)
        <5>1. writer'[l] = writer[l] /\ Holders(Alone(l))' = Holders(Alone(l))
          BY <2>2, <3>0, <4>2, HoldsAre, <1>DistinctLocks, Zenon
          DEF Takes, LockFields, LockTypeOK
        <5> QED
          BY <5>1, Zenon DEF LockFields
      <4> QED
        BY <4>1, <4>2, Zenon
    <3>5. \A l \in RwLocks : (reader[l] = Cardinality(Holders(Shared(l))))'
      <4> SUFFICES ASSUME NEW l \in RwLocks
                   PROVE  reader'[l] = Cardinality(Holders(Shared(l))')
        BY Zenon
      <4>1. reader'[l] = IF h = Shared(l) THEN reader[l] + 1 ELSE reader[l]
        BY Zenon, <2>2, <1>DistinctLocks DEF Takes, LockFields, LockTypeOK
      <4>2. reader[l] = Cardinality(Holders(Shared(l)))
        BY Zenon DEF LockFields
      <4>3. CASE h = Shared(l)
        BY Zenon, <3>1, <4>1, <4>2, <4>3
      <4>4. CASE h # Shared(l)
        <5>1. Holders(Shared(l))' = Holders(Shared(l))
          BY Zenon, <3>0, <4>4, HoldsAre
        <5> QED
          BY Zenon, <4>1, <4>2, <4>4, <5>1
      <4> QED
        BY <4>3, <4>4
    <3> QED
      BY Zenon, <3>2, <3>3, <3>4, <3>5 DEF LockFields
  <2>3. ASSUME NEW c \in Co, NEW h \in Holds, Leaves(c, h)
        PROVE  LockFields'
    <3>0. /\ c \in Holders(h) /\ Holders(h)' = Holders(h) \ {c}
          /\ \A i \in Holds \ {h} : Holders(i)' = Holders(i)
      BY Zenon, <2>3, <1>HoldersStep
    <3>1. /\ Cardinality(Holders(h)') = Cardinality(Holders(h)) - 1
          /\ Cardinality(Holders(h)') \in Nat
      BY Zenon, <3>0, HoldersFinite, FS_RemoveElement, FS_CardinalityType
    <3>2. LockTypeOK'
      <4>1. CASE h = Mutex
        BY <2>3, <4>1, <1>DistinctLocks, Zenon DEF Leaves, LockFields, LockTypeOK
      <4>2. ASSUME NEW l \in RwLocks, h = Shared(l) PROVE LockTypeOK'
        <5>1. reader[l] - 1 \in Nat
          BY Zenon, <3>1, <4>2 DEF LockFields
        <5>2. reader' = [reader EXCEPT ![l] = reader[l] - 1] /\ UNCHANGED <<locked, writer>>
          BY <2>3, <4>2, <1>DistinctLocks, Zenon DEF Leaves
        <5> QED
          BY <5>1, <5>2, Zenon DEF LockFields, LockTypeOK
      <4>3. ASSUME NEW l \in RwLocks, h = Alone(l) PROVE LockTypeOK'
        BY <2>3, <4>3, <1>DistinctLocks, Zenon DEF Leaves, LockFields, LockTypeOK
      <4> QED
        BY <2>3, <4>1, <4>2, <4>3 DEF Leaves
    <3>3. h[2] = "alone" => Holders(h)' = {}
      <4> SUFFICES ASSUME h[2] = "alone", NEW d \in Co, d # c, h \in held[d]
                   PROVE  FALSE
        BY Zenon, <3>0 DEF Holders
      <4>1. Locks!Conflict(h, h)
        BY DEF Locks!Conflict
      <4> QED
        BY <3>0, <4>1, Zenon DEF NoConflict, Holders
    <3>4. (locked <=> Holders(Mutex) # {})'
      <4>1. CASE h = Mutex
        <5>1. locked' = FALSE
          BY <2>3, <4>1, <1>DistinctLocks, Zenon DEF Leaves
        <5>2. Mutex[2] = "alone"
          BY DEF Mutex
        <5> QED
          BY <3>3, <4>1, <5>1, <5>2, Zenon
      <4>2. CASE h # Mutex
        <5>1. locked' = locked /\ Holders(Mutex)' = Holders(Mutex)
          BY <2>3, <3>0, <4>2, HoldsAre, Zenon DEF Leaves
        <5> QED
          BY <5>1, Zenon DEF LockFields
      <4> QED
        BY <4>1, <4>2, Zenon
    <3>5. ASSUME NEW l \in RwLocks PROVE (writer[l] <=> Holders(Alone(l)) # {})'
      <4>1. CASE h = Alone(l)
        <5>1. writer'[l] = FALSE
          BY <2>3, <4>1, <1>DistinctLocks, Zenon DEF Leaves, LockFields, LockTypeOK
        <5>2. Alone(l)[2] = "alone"
          BY DEF Alone
        <5> QED
          BY <3>3, <4>1, <5>1, <5>2, Zenon
      <4>2. CASE h # Alone(l)
        <5>1. writer'[l] = writer[l] /\ Holders(Alone(l))' = Holders(Alone(l))
          BY <2>3, <3>0, <4>2, HoldsAre, <1>DistinctLocks, Zenon
          DEF Leaves, LockFields, LockTypeOK
        <5> QED
          BY <5>1, Zenon DEF LockFields
      <4> QED
        BY <4>1, <4>2, Zenon
    <3>6. \A l \in RwLocks : (reader[l] = Cardinality(Holders(Shared(l))))'
      <4> SUFFICES ASSUME NEW l \in RwLocks
                   PROVE  reader'[l] = Cardinality(Holders(Shared(l))')
        OBVIOUS
      <4>1. reader'[l] = IF h = Shared(l) THEN reader[l] - 1 ELSE reader[l]
        BY Zenon, <2>3, <1>DistinctLocks DEF Leaves, LockFields, LockTypeOK
      <4>2. reader[l] = Cardinality(Holders(Shared(l)))
        BY DEF LockFields
      <4>3. CASE h = Shared(l)
        BY Zenon, <3>1, <4>1, <4>2, <4>3
      <4>4. CASE h # Shared(l)
        <5>1. Holders(Shared(l))' = Holders(Shared(l))
          BY <3>0, <4>4, HoldsAre
        <5> QED
          BY Zenon, <4>1, <4>2, <4>4, <5>1
      <4> QED
        BY <4>3, <4>4
    <3> QED
      BY Zenon, <3>2, <3>4, <3>5, <3>6 DEF LockFields
  <2> QED
    BY Zenon, <2>1, <2>2, <2>3 DEF LockStep
<1>ExclusionKept.
  ASSUME Placed, LockFields, NoConflict, LockStep
  PROVE  NoConflict' /\ [Locks!Next]_held
  <2> USE <1>ExclusionKept
  <2>0. held \in [Co -> SUBSET Holds]
    BY Zenon, <1>HeldType
  <2>1. CASE Stays
    BY <2>1 DEF Stays, NoConflict
  <2>2. ASSUME NEW c \in Co, NEW h \in Holds, Takes(c, h)
        PROVE  NoConflict' /\ [Locks!Next]_held
    <3>1. \A d \in Co : \A i \in held[d] : ~Locks!Conflict(h, i)
      BY Zenon, <2>2, <1>TakesAlone
    <3>2. \A d \in Co : held'[d] = IF d = c THEN held[d] \cup {h} ELSE held[d]
      BY Zenon, <2>0, <2>2 DEF Takes
    <3>3. NoConflict'
      <4> SUFFICES ASSUME NEW d \in Co, NEW e \in Co, NEW i \in held'[d],
                          NEW j \in held'[e], Locks!Conflict(i, j)
                   PROVE  d = e /\ i = j
        BY Zenon DEF NoConflict, Locks!Conflict
      <4>1. CASE i \in held[d] /\ j \in held[e]
        BY <4>1 DEF NoConflict
      <4>2. CASE i \notin held[d] /\ j \in held[e]
        BY <3>1, <3>2, <4>2, Zenon
      <4>3. CASE i \in held[d] /\ j \notin held[e]
        <5>1. j = h
          BY <3>2, <4>3, Zenon
        <5>2. Locks!Conflict(h, i)
          BY Zenon, <5>1 DEF Locks!Conflict
        <5> QED
          BY <3>1, <4>3, <5>2
      <4>4. CASE i \notin held[d] /\ j \notin held[e]
        <5>1. d = c /\ i = h
          BY <3>2, <4>4, Zenon
        <5>2. e = c /\ j = h
          BY <3>2, <4>4, Zenon
        <5> QED
          BY <5>1, <5>2
      <4> QED
        BY Zenon, <4>1, <4>2, <4>3, <4>4
    <3>4. Locks!Next
      BY <2>2, <3>1, ZenonT(40) DEF Locks!Next, Locks!Acquire, Takes
    <3> QED
      BY Zenon, <3>3, <3>4
  <2>3. ASSUME NEW c \in Co, NEW h \in Holds, Leaves(c, h)
        PROVE  NoConflict' /\ [Locks!Next]_held
    <3>1. \A d \in Co : held'[d] \subseteq held[d]
      BY Zenon, <2>0, <2>3 DEF Leaves
    <3>2. NoConflict'
      BY <3>1 DEF NoConflict
    <3>3. Locks!Next
      BY <2>3, Zenon DEF Locks!Next, Locks!Release, Leaves
    <3> QED
      BY <3>2, <3>3
  <2> QED
    BY <2>1, <2>2, <2>3 DEF LockStep

(* Every action is such a step.                                             *)
<1>Stepped.
  ASSUME Placed, NEW c \in Co, NEW x,
         pc' = pc \/ \E p \in Places : Moves(c, p),
         waits' = waits \/ \E r \in Reasons \ {"start"} : Waits(x, r),
         pc' = pc \/ pc[c] # "start" \/ waits'[c] # "start"
  PROVE  Placed'
  <2> USE <1>Stepped
  <2>1. pc' \in [Co -> Places] /\ waits' \in [Co -> Reasons]
    BY DEF Placed, Moves, Waits
  <2>2. \A d \in Co : waits'[d] = "start" => waits[d] = "start"
    BY Zenon DEF Placed, Waits
  <2>3. \A d \in Co : pc'[d] = pc[d] \/ (d = c /\ pc' # pc)
    BY Zenon DEF Placed, Moves
  <2>4. ASSUME NEW d \in Co, waits'[d] = "start" PROVE pc'[d] = "start"
    <3>1. pc[d] = "start"
      BY <2>2, <2>4 DEF Placed
    <3> QED
      BY Zenon, <2>3, <2>4, <3>1
  <2> QED
    BY Zenon, <2>1, <2>4 DEF Placed

\* The operations of a coroutine on locks and queues change what it waits for
\* only when they make it wait.
<1>Waiting.
  ASSUME NEW c \in Co
  PROVE  /\ \A p : qemu_co_mutex_lock(c, p) =>
                     \/ pc' = pc /\ Waits(c, "queue")
                     \/ Moves(c, p) /\ waits' = waits
         /\ \A p, l : qemu_co_rwlock_rdlock(l, c, p) \/ qemu_co_rwlock_wrlock(l, c, p) =>
                        \/ pc' = pc /\ Waits(c, "queue")
                        \/ Moves(c, p) /\ waits' = waits
         /\ qemu_co_mutex_unlock(c) => waits' = waits
         /\ \A l : qemu_co_rwlock_unlock(l, c) => waits' = waits
         /\ \A l : qemu_co_queue_wait(l, c) => Waits(c, "queue")
         /\ \A l : qemu_co_queue_restart_all(l, c) => waits' = waits
         /\ \A r : qemu_coroutine_yield(c, r) => Waits(c, r)
         /\ \A p : Goto(c, p) <=> Moves(c, p)
  BY Zenon, <1>Waiting DEF qemu_co_mutex_lock, qemu_co_mutex_unlock, qemu_co_rwlock_rdlock,
     qemu_co_rwlock_wrlock, qemu_co_rwlock_unlock, qemu_co_queue_wait,
     qemu_co_queue_next, qemu_co_queue_restart_all, qemu_coroutine_yield,
     SwitchBack, Goto, Moves, Waits, coVars
<1>CowLocks.
  ASSUME Placed, LockFields, NoConflict, NEW c \in Co, backup_do_cow(c)
  PROVE  LockStep /\ Placed'
  <2> USE <1>CowLocks
  <2>1. ASSUME CowRdLock(c) PROVE LockStep /\ Placed'
    <3>1. LockStep
      BY <2>1, <1>ReadLocked, HeldTable, <1>Waiting, Zenon DEF CowRdLock, At, RwLocks, coVars
    <3>2. Placed'
      BY <2>1, <1>Stepped, <1>Waiting, PlacesAre, Zenon DEF CowRdLock, At, Reasons, coVars
    <3> QED
      BY <3>1, <3>2
  <2>2. ASSUME CowWait(c) PROVE LockStep /\ Placed'
    <3>1. LockStep
      BY <2>2, <1>Quiet, <1>QuietMove, HeldTable, <1>Waiting, Zenon DEF CowWait, At, RwLocks, coVars
    <3>2. Placed'
      BY <2>2, <1>Stepped, <1>Waiting, PlacesAre, Zenon DEF CowWait, At, Reasons, coVars
    <3> QED
      BY <3>1, <3>2
  <2>3. ASSUME CowBegin(c) PROVE LockStep /\ Placed'
    <3>1. LockStep
      BY <2>3, <1>Quiet, <1>QuietMove, HeldTable, <1>Waiting, Zenon DEF CowBegin, At, RwLocks, coVars
    <3>2. Placed'
      BY <2>3, <1>Stepped, <1>Waiting, PlacesAre, Zenon DEF CowBegin, At, Reasons, coVars
    <3> QED
      BY <3>1, <3>2
  <2>4. ASSUME CowLoop(c) PROVE LockStep /\ Placed'
    <3>1. LockStep
      BY <2>4, <1>Quiet, <1>QuietMove, HeldTable, <1>Waiting, Zenon DEF CowLoop, At, RwLocks, coVars
    <3>2. Placed'
      BY <2>4, <1>Stepped, <1>Waiting, PlacesAre, Zenon DEF CowLoop, At, Reasons, coVars
    <3> QED
      BY <3>1, <3>2
  <2>5. ASSUME ReadLock(c) PROVE LockStep /\ Placed'
    <3>1. LockStep
      BY <2>5, <1>MutexLock, HeldTable, <1>Waiting, Zenon DEF ReadLock, At, RwLocks, coVars
    <3>2. Placed'
      BY <2>5, <1>Stepped, <1>Waiting, PlacesAre, Zenon DEF ReadLock, At, Reasons, coVars
    <3> QED
      BY <3>1, <3>2
  <2>6. ASSUME Read(c) PROVE LockStep /\ Placed'
    <3>1. LockStep
      BY <2>6, <1>Quiet, <1>QuietMove, HeldTable, <1>Waiting, Zenon DEF Read, At, RwLocks, coVars
    <3>2. Placed'
      BY <2>6, <1>Stepped, <1>Waiting, PlacesAre, Zenon DEF Read, At, Reasons, coVars
    <3> QED
      BY <3>1, <3>2
  <2>7. ASSUME ReadDone(c) PROVE LockStep /\ Placed'
    <3>1. LockStep
      <4>1. /\ HeldAt["read_io"] = {Mutex, Shared("flush")}
            /\ HeldAt["write_target"] = {Shared("flush")}
            /\ HeldAt["out"] = {Shared("flush")}
        BY HeldTable
      <4>2. Shared("flush") # Mutex
        BY <1>DistinctLocks DEF RwLocks
      <4>3. {Mutex, Shared("flush")} \ {Mutex} = {Shared("flush")}
        BY <4>2
      <4> QED
        BY <2>7, <4>1, <4>3, <1>MutexUnlock, <1>Waiting, ZenonT(40) DEF ReadDone, At
    <3>2. Placed'
      BY <2>7, <1>Stepped, <1>Waiting, PlacesAre, Zenon DEF ReadDone, At, Reasons, coVars
    <3> QED
      BY <3>1, <3>2
  <2>8. ASSUME WriteTarget(c) PROVE LockStep /\ Placed'
    <3>1. LockStep
      BY <2>8, <1>Quiet, <1>QuietMove, HeldTable, <1>Waiting, Zenon DEF WriteTarget, At, RwLocks, coVars
    <3>2. Placed'
      BY <2>8, <1>Stepped, <1>Waiting, PlacesAre, Zenon DEF WriteTarget, At, Reasons, coVars
    <3> QED
      BY <3>1, <3>2
  <2>9. ASSUME TargetDone(c) PROVE LockStep /\ Placed'
    <3>1. LockStep
      BY <2>9, <1>Quiet, <1>QuietMove, HeldTable, <1>Waiting, Zenon DEF TargetDone, At, RwLocks, coVars
    <3>2. Placed'
      BY <2>9, <1>Stepped, <1>Waiting, PlacesAre, Zenon DEF TargetDone, At, Reasons, coVars
    <3> QED
      BY <3>1, <3>2
  <2>10. ASSUME CowEnd(c) PROVE LockStep /\ Placed'
    <3>1. LockStep
      BY <2>10, <1>Quiet, <1>QuietMove, HeldTable, <1>Waiting, Zenon DEF CowEnd, At, RwLocks, coVars
    <3>2. Placed'
      BY <2>10, <1>Stepped, <1>Waiting, PlacesAre, Zenon DEF CowEnd, At, Reasons, coVars
    <3> QED
      BY <3>1, <3>2
  <2>11. ASSUME CowUnlock(c) PROVE LockStep /\ Placed'
    <3>1. LockStep
      BY <2>11, <1>Unlocked, HeldTable, <1>Waiting, Zenon DEF CowUnlock, At, RwLocks, coVars
    <3>2. Placed'
      BY <2>11, <1>Stepped, <1>Waiting, PlacesAre, Zenon DEF CowUnlock, At, Reasons, coVars
    <3> QED
      BY <3>1, <3>2
  <2> QED
    BY Zenon, <2>1, <2>2, <2>3, <2>4, <2>5, <2>6, <2>7, <2>8, <2>9, <2>10, <2>11 DEF backup_do_cow
<1>WriteLocks.
  ASSUME Placed, LockFields, NoConflict, NEW c \in Co, WriteLock(c) \/ Write(c) \/ WriteDone(c)
  PROVE  LockStep /\ Placed'
  <2> USE <1>WriteLocks
  <2>1. ASSUME WriteLock(c) PROVE LockStep /\ Placed'
    <3>1. LockStep
      BY <2>1, <1>MutexLock, HeldTable, <1>Waiting, Zenon DEF WriteLock, At, RwLocks, coVars
    <3>2. Placed'
      BY <2>1, <1>Stepped, <1>Waiting, PlacesAre, Zenon DEF WriteLock, At, Reasons, coVars
    <3> QED
      BY <3>1, <3>2
  <2>2. ASSUME Write(c) PROVE LockStep /\ Placed'
    <3>1. LockStep
      BY <2>2, <1>Quiet, <1>QuietMove, HeldTable, <1>Waiting, Zenon DEF Write, At, RwLocks, coVars
    <3>2. Placed'
      BY <2>2, <1>Stepped, <1>Waiting, PlacesAre, Zenon DEF Write, At, Reasons, coVars
    <3> QED
      BY <3>1, <3>2
  <2>3. ASSUME WriteDone(c) PROVE LockStep /\ Placed'
    <3>1. LockStep
      BY <2>3, <1>MutexUnlock, HeldTable, <1>Waiting, Zenon DEF WriteDone, At, RwLocks, coVars
    <3>2. Placed'
      BY <2>3, <1>Stepped, <1>Waiting, PlacesAre, Zenon DEF WriteDone, At, Reasons, coVars
    <3> QED
      BY <3>1, <3>2
  <2> QED
    BY Zenon, <2>1, <2>2, <2>3
<1>JobLocks.
  ASSUME Placed, LockFields, NoConflict, NEW c \in Co, c = Job, backup_run
  PROVE  LockStep /\ Placed'
  <2> USE <1>JobLocks
  <2>1. ASSUME JobFor PROVE LockStep /\ Placed'
    <3>1. LockStep
      BY <2>1, <1>Quiet, <1>QuietMove, HeldTable, <1>Waiting, Zenon DEF JobFor, At, RwLocks, coVars, scanVars
    <3>2. Placed'
      BY <2>1, <1>Stepped, <1>Waiting, PlacesAre, Zenon DEF JobFor, At, Reasons, coVars, scanVars
    <3> QED
      BY <3>1, <3>2
  <2>2. ASSUME JobSlept PROVE LockStep /\ Placed'
    <3>1. LockStep
      BY <2>2, <1>Quiet, <1>QuietMove, HeldTable, <1>Waiting, Zenon DEF JobSlept, At, RwLocks, coVars, scanVars
    <3>2. Placed'
      BY <2>2, <1>Stepped, <1>Waiting, PlacesAre, Zenon DEF JobSlept, At, Reasons, coVars, scanVars
    <3> QED
      BY <3>1, <3>2
  <2>3. ASSUME JobAllocLock PROVE LockStep /\ Placed'
    <3>1. LockStep
      BY <2>3, <1>MutexLock, HeldTable, <1>Waiting, Zenon DEF JobAllocLock, At, RwLocks, coVars
    <3>2. Placed'
      BY <2>3, <1>Stepped, <1>Waiting, PlacesAre, Zenon DEF JobAllocLock, At, Reasons, coVars
    <3> QED
      BY <3>1, <3>2
  <2>4. ASSUME JobAlloc PROVE LockStep /\ Placed'
    <3>1. LockStep
      BY <2>4, <1>Quiet, <1>QuietMove, HeldTable, <1>Waiting, Zenon DEF JobAlloc, At, RwLocks, coVars
    <3>2. Placed'
      BY <2>4, <1>Stepped, <1>Waiting, PlacesAre, Zenon DEF JobAlloc, At, Reasons, coVars
    <3> QED
      BY <3>1, <3>2
  <2>5. ASSUME JobAllocated PROVE LockStep /\ Placed'
    <3>1. LockStep
      BY <2>5, <1>MutexUnlock, HeldTable, <1>Waiting, Zenon DEF JobAllocated, Unallocated, At, RwLocks, coVars
    <3>2. Placed'
      BY <2>5, <1>Stepped, <1>Waiting, PlacesAre, Zenon DEF JobAllocated, Unallocated, At, Reasons, coVars
    <3> QED
      BY <3>1, <3>2
  <2>6. ASSUME JobCowed PROVE LockStep /\ Placed'
    <3>1. LockStep
      BY <2>6, <1>Quiet, <1>QuietMove, HeldTable, <1>Waiting, Zenon DEF JobCowed, At, RwLocks, coVars, scanVars
    <3>2. Placed'
      BY <2>6, <1>Stepped, <1>Waiting, PlacesAre, Zenon DEF JobCowed, At, Reasons, coVars, scanVars
    <3> QED
      BY <3>1, <3>2
  <2>7. ASSUME JobRemove PROVE LockStep /\ Placed'
    <3>1. LockStep
      BY <2>7, <1>Quiet, <1>QuietMove, HeldTable, <1>Waiting, Zenon DEF JobRemove, At, RwLocks, coVars, scanVars
    <3>2. Placed'
      BY <2>7, <1>Stepped, <1>Waiting, PlacesAre, Zenon DEF JobRemove, At, Reasons, coVars, scanVars
    <3> QED
      BY <3>1, <3>2
  <2>8. ASSUME JobWrLock PROVE LockStep /\ Placed'
    <3>1. LockStep
      BY <2>8, <1>WriteLocked, HeldTable, <1>Waiting, Zenon DEF JobWrLock, At, RwLocks, coVars
    <3>2. Placed'
      BY <2>8, <1>Stepped, <1>Waiting, PlacesAre, Zenon DEF JobWrLock, At, Reasons, coVars
    <3> QED
      BY <3>1, <3>2
  <2>9. ASSUME JobFlushed PROVE LockStep /\ Placed'
    <3>1. LockStep
      BY <2>9, <1>Unlocked, HeldTable, <1>Waiting, Zenon DEF JobFlushed, At, RwLocks, coVars
    <3>2. Placed'
      BY <2>9, <1>Stepped, <1>Waiting, PlacesAre, Zenon DEF JobFlushed, At, Reasons, coVars
    <3> QED
      BY <3>1, <3>2
  <2>10. ASSUME bdrv_drain_all PROVE LockStep /\ Placed'
    <3>1. LockStep
      BY <2>10, <1>Quiet, <1>QuietMove, HeldTable, <1>Waiting, Zenon DEF bdrv_drain_all, At, RwLocks, coVars
    <3>2. Placed'
      BY <2>10, <1>Stepped, <1>Waiting, PlacesAre, Zenon DEF bdrv_drain_all, At, Reasons, coVars
    <3> QED
      BY <3>1, <3>2
  <2>11. ASSUME JobFlush PROVE LockStep /\ Placed'
    <3>1. LockStep
      BY <2>11, <1>Quiet, <1>QuietMove, HeldTable, <1>Waiting, Zenon DEF JobFlush, At, RwLocks, coVars
    <3>2. Placed'
      BY <2>11, <1>Stepped, <1>Waiting, PlacesAre, Zenon DEF JobFlush, At, Reasons, coVars
    <3> QED
      BY <3>1, <3>2
  <2>12. ASSUME JobCompleted PROVE LockStep /\ Placed'
    <3>1. LockStep
      BY <2>12, <1>Quiet, <1>QuietMove, HeldTable, <1>Waiting, Zenon DEF JobCompleted, At, RwLocks, coVars
    <3>2. Placed'
      BY <2>12, <1>Stepped, <1>Waiting, PlacesAre, Zenon DEF JobCompleted, At, Reasons, coVars
    <3> QED
      BY <3>1, <3>2
  <2> QED
    BY Zenon, <2>1, <2>2, <2>3, <2>4, <2>5, <2>6, <2>7, <2>8, <2>9, <2>10, <2>11, <2>12
    DEF backup_run
<1>PathLocks.
  ASSUME Placed, LockFields, NoConflict, NEW c \in Co, PathStep(c)
  PROVE  LockStep /\ Placed'
  <2> USE <1>PathLocks
  <2>1. ASSUME v9fs_path_read_lock(c) PROVE LockStep /\ Placed'
    <3>1. LockStep
      BY <2>1, <1>ReadLocked, HeldTable, <1>Waiting, Zenon DEF v9fs_path_read_lock, At, RwLocks, coVars
    <3>2. Placed'
      BY <2>1, <1>Stepped, <1>Waiting, PlacesAre, Zenon DEF v9fs_path_read_lock, At, Reasons, coVars
    <3> QED
      BY <3>1, <3>2
  <2>2. ASSUME v9fs_path_write_lock(c) PROVE LockStep /\ Placed'
    <3>1. LockStep
      BY <2>2, <1>WriteLocked, HeldTable, <1>Waiting, Zenon DEF v9fs_path_write_lock, At, RwLocks, coVars
    <3>2. Placed'
      BY <2>2, <1>Stepped, <1>Waiting, PlacesAre, Zenon DEF v9fs_path_write_lock, At, Reasons, coVars
    <3> QED
      BY <3>1, <3>2
  <2>3. ASSUME v9fs_co_run_in_worker(c) PROVE LockStep /\ Placed'
    <3>1. LockStep
      BY <2>3, <1>Quiet, <1>QuietMove, HeldTable, <1>Waiting, Zenon DEF v9fs_co_run_in_worker, At, RwLocks, coVars
    <3>2. Placed'
      BY <2>3, <1>Stepped, <1>Waiting, PlacesAre, Zenon DEF v9fs_co_run_in_worker, At, Reasons, coVars
    <3> QED
      BY <3>1, <3>2
  <2>4. ASSUME RenameFails(c) PROVE LockStep /\ Placed'
    <3>1. LockStep
      BY <2>4, <1>Quiet, <1>QuietMove, HeldTable, <1>Waiting, Zenon DEF RenameFails, At, RwLocks, coVars
    <3>2. Placed'
      BY <2>4, <1>Stepped, <1>Waiting, PlacesAre, Zenon DEF RenameFails, At, Reasons, coVars
    <3> QED
      BY <3>1, <3>2
  <2>5. ASSUME v9fs_reopen_fid(c) \/ put_fid(c) PROVE LockStep /\ Placed'
    <3>1. LockStep
      BY <2>5, <1>QuietMove, HeldTable, <1>Waiting, Zenon DEF v9fs_reopen_fid, put_fid, At
    <3>2. Placed'
      BY <2>5, <1>Stepped, <1>Waiting, PlacesAre, Zenon
      DEF v9fs_reopen_fid, put_fid, At, Reasons, coVars
    <3> QED
      BY <3>1, <3>2
  <2>6. ASSUME NestedReadLock(c) PROVE LockStep /\ Placed'
    <3>1. LockStep
      <4>1. pc[c] = "nested" /\ HeldAt["nested"] = {Alone("rename")}
        BY Zenon, <2>6, HeldTable DEF NestedReadLock, At
      <4>2. writer["rename"]
        BY Zenon, <4>1, PlaceHeld DEF LockFields, Holders, RwLocks
      <4> QED
        BY Zenon, <2>6, <4>2, <1>Quiet DEF NestedReadLock, qemu_co_rwlock_rdlock
    <3>2. Placed'
      BY <2>6, <1>Stepped, <1>Waiting, PlacesAre, Zenon DEF NestedReadLock, At, Reasons, coVars
    <3> QED
      BY <3>1, <3>2
  <2>7. ASSUME v9fs_path_unlock(c) PROVE LockStep /\ Placed'
    <3>1. LockStep
      BY <2>7, <1>Unlocked, HeldTable, <1>Waiting, Zenon DEF v9fs_path_unlock, LockPlaces, At, RwLocks, coVars
    <3>2. Placed'
      BY <2>7, <1>Stepped, <1>Waiting, PlacesAre, Zenon DEF v9fs_path_unlock, LockPlaces, At, Reasons, coVars
    <3> QED
      BY <3>1, <3>2
  <2> QED
    BY Zenon, <2>1, <2>2, <2>3, <2>4, <2>5, <2>6, <2>7 DEF PathStep
<1>MainLocks.
  ASSUME Placed, LockFields, NoConflict, NEW c \in Co
  PROVE  /\ Complete(c) \/ io_done(c) => LockStep /\ Placed'
         /\ bdrv_co_do_writev(c) \/ submit_pdu(c) => LockStep /\ Placed'
         /\ JobMain \/ DrainReturns => LockStep /\ Placed'
         /\ (qemu_co_queue_run_restart /\ UNCHANGED <<pc, lockVars>>)
              => LockStep /\ Placed'
  <2> USE <1>MainLocks
  <2>1. ASSUME Complete(c) PROVE LockStep /\ Placed'
    <3>1. Moves(c, "dead") /\ pc[c] = "complete" /\ Waits(c, "dead")
      BY <2>1, <1>Waiting, Zenon DEF Complete, At, SwitchBack, Waits
    <3>2. LockStep
      BY <2>1, <3>1, <1>QuietMove, HeldTable, Zenon DEF Complete
    <3>3. Placed'
      BY Zenon, <3>1, <1>Stepped, PlacesAre DEF Reasons
    <3> QED
      BY <3>2, <3>3
  <2>2. ASSUME NEW x, qemu_coroutine_enter(x), UNCHANGED <<pc, lockVars>>
        PROVE  LockStep /\ Placed'
    <3>1. Waits(x, "none")
      BY Zenon, <2>2 DEF qemu_coroutine_enter, Waits
    <3>2. Placed'
      BY Zenon, <2>2, <3>1, <1>Stepped DEF Reasons
    <3> QED
      BY <2>2, <3>2, <1>Quiet
  <2>3. ASSUME NEW d \in Co, waits[d] = "start", qemu_coroutine_enter(d),
               NEW p \in {"rdlock", "write_lock", "for"} \cup LockPlaces, Moves(d, p),
               UNCHANGED lockVars
        PROVE  LockStep /\ Placed'
    <3>1. Waits(d, "none") /\ waits'[d] = "none"
      BY Zenon, <2>3 DEF qemu_coroutine_enter, Waits, Placed
    <3>2. Placed'
      BY Zenon, <2>3, <3>1, <1>Stepped, PlacesAre DEF Reasons, LockPlaces
    <3>3. pc[d] = "start"
      BY <2>3 DEF Placed
    <3>4. LockStep
      BY <2>3, <3>3, <1>QuietMove, HeldTable, Zenon DEF LockPlaces
    <3> QED
      BY Zenon, <3>2, <3>4
  <2>4. ASSUME io_done(c) PROVE LockStep /\ Placed'
    BY Zenon, <2>4, <2>2 DEF io_done
  <2>5. ASSUME bdrv_co_do_writev(c) PROVE LockStep /\ Placed'
    BY <2>5, <2>3, <1>Waiting DEF bdrv_co_do_writev
  <2>6. ASSUME submit_pdu(c) PROVE LockStep /\ Placed'
    BY <2>6, <2>3, <1>Waiting, Zenon DEF submit_pdu
  <2>7. ASSUME JobMain PROVE LockStep /\ Placed'
    <3>0. \A r : Goto(Job, r) <=> Moves(Job, r)
      BY Zenon DEF Goto, Moves
    <3>1. CASE backup_start
      BY Zenon, <3>0, <3>1, <2>3, BackupAssumption DEF backup_start, scanVars
    <3>2. CASE co_sleep_cb
      BY Zenon, <3>2, <2>2 DEF co_sleep_cb, Enters
    <3>3. ASSUME Command, UNCHANGED coVars PROVE LockStep /\ Placed'
      BY Zenon, <3>3, <1>Quiet, <1>Stepped DEF Command, coVars, scanVars
    <3>4. ASSUME Command, Enters(Job, {"timer", "resume"}) PROVE LockStep /\ Placed'
      BY Zenon, <3>4, <2>2 DEF Command, Enters, scanVars
    <3> QED
      BY Zenon, <2>7, <3>1, <3>2, <3>3, <3>4
      DEF JobMain, block_job_pause, block_job_resume, block_job_cancel, ResumeJob
  <2>8. ASSUME qemu_co_queue_run_restart, UNCHANGED <<pc, lockVars>>
        PROVE  LockStep /\ Placed'
    BY <2>8, <2>2 DEF qemu_co_queue_run_restart
  <2>9. ASSUME DrainReturns PROVE LockStep /\ Placed'
    BY Zenon, <2>9, <2>2 DEF DrainReturns, Enters
  <2> QED
    BY Zenon, <2>1, <2>4, <2>5, <2>6, <2>7, <2>8, <2>9
<1>NextLocks.
  ASSUME Placed, LockFields, NoConflict, [Next]_vars
  PROVE  LockStep /\ Placed'
  <2> USE <1>NextLocks
  <2>1. ASSUME Run PROVE LockStep /\ Placed'
    BY Zenon, <2>1, <1>CowLocks, <1>WriteLocks, <1>JobLocks, <1>PathLocks, <1>MainLocks, BackupAssumption
    DEF Run, BackupStep
  <2>2. ASSUME Events PROVE LockStep /\ Placed'
    BY Zenon, <2>2, <1>MainLocks, BackupAssumption DEF Events, Guests
  <2>3. CASE UNCHANGED vars
    BY <2>3, <1>Quiet DEF vars, coVars, lockVars, Placed
  <2> QED
    BY Zenon, <2>1, <2>2, <2>3 DEF Next
<1> QED
  BY <1>NextLocks, <1>FieldsKept, <1>ExclusionKept DEF LockInv

LEMMA LocksInvariant == Spec => []LockInv
<1> USE LocksInit, LocksNext
<1> HIDE DEF LockInv
<1> QED
  BY PTL DEF Spec

\* The locks of qemu-coroutine-lock.c implement their specification, for every
\* number of coroutines: none gets past qemu_co_mutex_lock, rdlock or wrlock
\* while another one holds the lock in a way that excludes it.
THEOREM LocksRefine == Spec => LocksExclude
<1> HIDE DEF LockInv
<1> QED
  BY LocksInit, LocksNext, LocksInvariant, PTL DEF Spec, LocksExclude, Locks!Spec

=============================================================================
