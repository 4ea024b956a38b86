---------------------------- MODULE BackupProofs ----------------------------
(***************************************************************************)
(* The invariants of CoInvariants hold, and what follows from them: the     *)
(* theorems about the locks, the copy, the queues and the job, for every    *)
(* number of coroutines, clusters, errors, commands and requests.           *)
(***************************************************************************)
EXTENDS CoStepProofs, QueueProofs

----------------------------------------------------------------------------
(* The values stay in their bounds.                                         *)

DataTypes == /\ src \in [Clusters -> Content] /\ target \in [Clusters -> Content]
             /\ allocated \subseteq Clusters /\ copied \subseteq Clusters
             /\ buf \in [Co -> Content] /\ asof \in [Clusters -> SUBSET Content]
CallTypes == /\ inflight_reqs \in Seq(Co)
             /\ start \in [Co -> 0..NClusters] /\ end \in [Co -> 0..NClusters]
             /\ cluster \in [Co -> 0..NClusters]
             /\ ret \in [Co -> {"ok", "read", "write"}]
JobTypes == /\ sync_mode \in {"full", "top", "none"} /\ job \in {"none", "active", "done"}
            /\ next \in 0..NClusters /\ asked \in 0 .. SectorsPerCluster - 1
            /\ early \subseteq Guests
            /\ errors \in 0..MaxErrors /\ commands \in 0..MaxCommands
Flags == {before_write, busy, paused, cancelled, spurious} \subseteq BOOLEAN

\* Where the job is, its next cluster is one of the device.
InDevice == CowPlaces \cup Allocating \cup {"cowed"}
JobAt(p) == /\ p \notin GuestPlaces
            /\ p \in InDevice => next < NClusters
            /\ p = "slept" /\ sync_mode # "none" => next < NClusters
Sections == paths \in Scenes /\ sections \in 0 .. MaxSections

Bounded == DataTypes /\ CallTypes /\ JobTypes /\ Flags /\ Sections /\ JobAt(pc[Job])

LEMMA BoundIs == (BoundInv <=> Bounded) /\ (BoundInv' <=> Bounded')
  BY Zenon DEF Bounded, BoundInv, BackupTypeOK, DataTypes, CallTypes, JobTypes, Flags, Sections,
     JobAt, InDevice

\* The end of a cluster of the device is in the device.
LEMMA NextCluster ==
  \A i \in 0 .. NClusters : i < NClusters => i + 1 \in 0 .. NClusters
  BY BackupAssumption

\* A coroutine goes to a place; if it is the job, the place is one of its own.
Steps(c) == pc' = pc \/ \E p : Moves(c, p) /\ (c = Job => JobAt(p)')

LEMMA PlaceSets ==
  /\ InDevice = {"rdlock", "overlap", "loop", "read_lock", "read", "read_io",
                 "write_target", "target_io", "out", "unlock", "is_allocated",
                 "alloc", "alloc_io", "past_end", "cowed"}
  /\ GuestPlaces = {"write_lock", "write", "write_io"}
  BY DEF InDevice, CowPlaces, Allocating, GuestPlaces

LEMMA BoundNext ==
  LockInv /\ CopyInv /\ CopyInv' /\ BoundInv /\ [Next]_vars => BoundInv'
<1>JobAtKeeps.
  ASSUME Placed, JobAt(pc[Job]), NEW c \in Co, Steps(c), UNCHANGED sync_mode,
         next' = next \/ (c = Job /\ pc' # pc)
  PROVE  JobAt(pc[Job])'
  <2> USE <1>JobAtKeeps
  <2>1. Job \in Co /\ pc \in [Co -> Places]
    BY BackupAssumption DEF Placed
  <2>2. CASE pc' = pc
    BY <2>2 DEF JobAt
  <2>3. ASSUME NEW p, Moves(c, p), c = Job => JobAt(p)', pc' # pc PROVE JobAt(pc[Job])'
    <3>1. CASE c = Job
      <4>1. pc'[Job] = p
        BY <2>1, <2>3, <3>1 DEF Moves
      <4> QED
        BY <2>3, <3>1, <4>1 DEF JobAt
    <3>2. CASE c # Job
      <4>1. pc'[Job] = pc[Job] /\ next' = next
        BY <2>1, <2>3, <3>2 DEF Moves
      <4> QED
        BY <4>1 DEF JobAt
    <3> QED
      BY <3>1, <3>2
  <2> QED
    BY Zenon, <2>2, <2>3 DEF Steps

\* The job stays in its loop at the places where its next cluster is the same.
<1>StepsInDevice.
  ASSUME JobAt(pc[Job]), NEW c \in Co, UNCHANGED <<next, sync_mode>>,
         \E p : Moves(c, p) /\ (c = Job => \/ p \in InDevice /\ pc[c] \in InDevice
                                           \/ p \notin InDevice \cup GuestPlaces \cup {"slept"})
  PROVE  Steps(c)
  <2> USE <1>StepsInDevice
  <2>1. PICK p : Moves(c, p) /\ (c = Job => \/ p \in InDevice /\ pc[c] \in InDevice
                                            \/ p \notin InDevice \cup GuestPlaces \cup {"slept"})
    OBVIOUS
  <2>2. c = Job => JobAt(p)'
    BY <2>1, PlaceSets DEF JobAt
  <2> QED
    BY <2>1, <2>2 DEF Steps
<1>MutexSteps.
  ASSUME NEW c \in Co, NEW p, qemu_co_mutex_lock(c, p)
  PROVE  pc' = pc \/ Moves(c, p)
  BY <1>MutexSteps DEF qemu_co_mutex_lock, Goto, Moves
<1>RwSteps.
  ASSUME NEW c \in Co, NEW p, NEW l, \/ qemu_co_rwlock_rdlock(l, c, p)
                                     \/ qemu_co_rwlock_wrlock(l, c, p)
  PROVE  pc' = pc \/ Moves(c, p)
  BY <1>RwSteps DEF qemu_co_rwlock_rdlock, qemu_co_rwlock_wrlock, Goto, Moves

\* Steps that leave all but the places alone.
<1>QuietBound.
  ASSUME Placed, BoundInv, NEW c \in Co, Steps(c), UNCHANGED backupVars, Sections'
  PROVE  BoundInv'
  <2> USE <1>QuietBound
  <2>1. JobAt(pc[Job])'
    BY BoundIs, <1>JobAtKeeps DEF Bounded, backupVars, jobVars, scanVars
  <2>2. DataTypes' /\ CallTypes' /\ JobTypes' /\ Flags'
    BY Zenon, BoundIs DEF Bounded, backupVars, dataVars, cowVars, jobVars, histVars, DataTypes, CallTypes,
       JobTypes, Flags, scanVars
  <2> QED
    BY Zenon, <2>1, <2>2, BoundIs DEF Bounded

\* Steps that change some of the values, each of them to one of its own.
<1>BoundParts.
  ASSUME Placed, BoundInv, NEW c \in Co, Steps(c), UNCHANGED sync_mode,
         next' = next \/ (c = Job /\ pc' # pc),
         DataTypes', CallTypes', JobTypes', Flags', Sections'
  PROVE  BoundInv'
  <2> USE <1>BoundParts
  <2>1. JobAt(pc[Job])'
    BY Zenon, BoundIs, <1>JobAtKeeps DEF Bounded
  <2> QED
    BY Zenon, <2>1, BoundIs DEF Bounded
<1>BoundSame.
  ASSUME BoundInv
  PROVE  /\ UNCHANGED <<dataVars, asof>> => DataTypes'
         /\ UNCHANGED cowVars => CallTypes'
         /\ UNCHANGED <<sync_mode, asked, job, next, early, errors, commands>> => JobTypes'
         /\ UNCHANGED <<before_write, busy, paused, cancelled, spurious>> => Flags'
         /\ UNCHANGED pathVars => Sections'
         /\ (Fails \/ Works) /\ UNCHANGED <<sync_mode, asked, job, next, early, commands>> => JobTypes'
  <2> USE <1>BoundSame
  <2>0. Bounded
    BY BoundIs
  <2>1. UNCHANGED <<dataVars, asof>> => DataTypes'
    BY <2>0 DEF Bounded, DataTypes, dataVars
  <2>2. UNCHANGED cowVars => CallTypes'
    BY <2>0 DEF Bounded, CallTypes, cowVars
  <2>3. UNCHANGED <<sync_mode, asked, job, next, early, errors, commands>> => JobTypes'
    BY <2>0 DEF Bounded, JobTypes
  <2>4. UNCHANGED <<before_write, busy, paused, cancelled, spurious>> => Flags'
    BY <2>0 DEF Bounded, Flags
  <2>5. UNCHANGED pathVars => Sections'
    BY <2>0 DEF Bounded, Sections, pathVars
  <2>6. (Fails \/ Works) /\ UNCHANGED <<sync_mode, asked, job, next, early, commands>> => JobTypes'
    BY <2>0, BackupAssumption DEF Bounded, JobTypes, Fails, Works
  <2> QED
    BY Zenon, <2>1, <2>2, <2>3, <2>4, <2>5, <2>6

\* The job goes on in its loop, or leaves it.
<1>InsideSteps.
  ASSUME BoundInv, NEW c \in Co, UNCHANGED <<next, sync_mode>>, pc[c] \in InDevice,
         NEW p, c = Job => p \in InDevice, pc' = pc \/ Moves(c, p)
  PROVE  Steps(c)
  <2> USE <1>InsideSteps
  <2>1. CASE pc' = pc
    BY <2>1 DEF Steps
  <2>2. CASE Moves(c, p)
    BY <2>2, BoundIs, <1>StepsInDevice DEF Bounded
  <2> QED
    BY Zenon, <2>1, <2>2
<1>OutsideSteps.
  ASSUME NEW c \in Co, NEW p, c = Job => p \notin InDevice \cup GuestPlaces \cup {"slept"},
         pc' = pc \/ Moves(c, p)
  PROVE  Steps(c)
  <2> USE <1>OutsideSteps
  <2>1. c = Job => JobAt(p)'
    BY DEF JobAt, InDevice
  <2> QED
    BY <2>1 DEF Steps
<1>BeginBound.
  ASSUME Placed, BoundInv, NEW c \in Co, CowBegin(c), CopyInv', UNCHANGED pathVars
  PROVE  BoundInv'
  <2> USE <1>BeginBound
  <2>1. /\ pc[c] = "overlap" /\ Moves(c, "loop")
        /\ UNCHANGED <<dataVars, start, end, cluster, ret, jobVars, histVars>>
    BY DEF CowBegin, At, Goto, Moves
  <2>2. CallTypes'
    <3>1. inflight_reqs' \in Seq(Co)
      BY Zenon DEF CopyInv, CopyTypes
    <3> QED
      BY Zenon, <2>1, <3>1, BoundIs DEF Bounded, CallTypes
  <2>3. DataTypes' /\ JobTypes' /\ Flags' /\ Sections'
    BY Zenon, <2>1, <1>BoundSame DEF jobVars, histVars, scanVars
  <2>4. Steps(c)
    BY <2>1, <1>InsideSteps, PlaceSets DEF jobVars, scanVars
  <2> QED
    BY Zenon, <2>1, <2>2, <2>3, <2>4, <1>BoundParts DEF jobVars, scanVars
<1>LoopBound.
  ASSUME Placed, BoundInv, NEW c \in Co, CowLoop(c), UNCHANGED pathVars
  PROVE  BoundInv'
  <2> USE <1>LoopBound
  <2>1. PICK k \in cluster[c] .. end[c] : cluster' = [cluster EXCEPT ![c] = k]
    BY Zenon DEF CowLoop
  <2>2. /\ pc[c] = "loop" /\ (Moves(c, "out") \/ Moves(c, "read_lock"))
        /\ UNCHANGED <<dataVars, inflight_reqs, start, end, ret, jobVars, histVars>>
    BY Zenon DEF CowLoop, At, Goto, Moves
  <2>3. CallTypes'
    <3>1. CallTypes /\ NClusters \in Nat
      BY Zenon, BoundIs, BackupAssumption DEF Bounded
    <3>2. k \in 0 .. NClusters
      BY <2>1, <3>1 DEF CallTypes
    <3> QED
      BY Zenon, <2>1, <2>2, <3>1, <3>2 DEF CallTypes
  <2>4. DataTypes' /\ JobTypes' /\ Flags' /\ Sections'
    BY Zenon, <2>2, <1>BoundSame DEF jobVars, histVars, scanVars
  <2>5. Steps(c)
    BY Zenon, <2>2, <1>InsideSteps, PlaceSets DEF jobVars, scanVars
  <2> QED
    BY Zenon, <2>2, <2>3, <2>4, <2>5, <1>BoundParts DEF jobVars, scanVars
<1>ReadBound.
  ASSUME Placed, BoundInv, CopyInv, NEW c \in Co, ReadDone(c), UNCHANGED pathVars
  PROVE  BoundInv'
  <2> USE <1>ReadBound
  <2>1. /\ pc[c] = "read_io" /\ (Moves(c, "out") \/ Moves(c, "write_target"))
        /\ Fails \/ Works
        /\ buf' = buf \/ buf' = [buf EXCEPT ![c] = src[cluster[c]]]
        /\ ret' = ret \/ ret' = [ret EXCEPT ![c] = "read"]
        /\ UNCHANGED <<src, target, allocated, copied, inflight_reqs, start, end,
                       cluster, jobVars, spurious, early, asof, commands>>
    BY Zenon DEF ReadDone, At, Goto, Moves
  <2>2. DataTypes /\ CallTypes
    BY Zenon, BoundIs DEF Bounded
  <2>3. cluster[c] \in Clusters
    <3>1. "read_io" \in AtCluster
      BY DEF AtCluster
    <3>2. cluster[c] < end[c]
      BY Zenon, <2>1, <3>1 DEF CopyInv, Calling, CallOf
    <3>3. cluster[c] \in 0 .. NClusters /\ end[c] \in 0 .. NClusters
      BY <2>2 DEF CallTypes
    <3> QED
      BY <3>2, <3>3, BackupAssumption DEF Clusters
  <2>4. DataTypes'
    BY <2>1, <2>2, <2>3, Zenon DEF DataTypes
  <2>5. CallTypes'
    BY Zenon, <2>1, <2>2 DEF CallTypes
  <2>6. JobTypes' /\ Flags' /\ Sections'
    BY Zenon, <2>1, <1>BoundSame DEF jobVars, scanVars
  <2>7. Steps(c)
    BY Zenon, <2>1, <1>InsideSteps, PlaceSets DEF jobVars, scanVars
  <2> QED
    BY Zenon, <2>1, <2>4, <2>5, <2>6, <2>7, <1>BoundParts DEF jobVars, scanVars
<1>TargetBound.
  ASSUME Placed, BoundInv, CopyInv, NEW c \in Co, TargetDone(c), UNCHANGED pathVars
  PROVE  BoundInv'
  <2> USE <1>TargetBound
  <2>1. /\ pc[c] = "target_io" /\ (Moves(c, "out") \/ Moves(c, "loop"))
        /\ Fails \/ Works
        /\ target' = target \/ target' = [target EXCEPT ![cluster[c]] = buf[c]]
        /\ copied' = copied \/ copied' = copied \cup {cluster[c]}
        /\ cluster' = cluster \/ cluster' = [cluster EXCEPT ![c] = cluster[c] + 1]
        /\ ret' = ret \/ ret' = [ret EXCEPT ![c] = "write"]
        /\ UNCHANGED <<src, allocated, buf, inflight_reqs, start, end, jobVars,
                       spurious, early, asof, commands>>
    <3>1. At(c, "target_io") /\ pc[c] = "target_io"
      BY Zenon DEF TargetDone, At
    <3>2. UNCHANGED <<src, allocated, buf, inflight_reqs, start, end, jobVars,
                      spurious, early, asof, commands>>
      BY Zenon DEF TargetDone
    <3>3. CASE /\ Works /\ Goto(c, "loop")
               /\ target' = [target EXCEPT ![cluster[c]] = buf[c]]
               /\ copied' = copied \cup {cluster[c]}
               /\ cluster' = [cluster EXCEPT ![c] = @ + 1] /\ UNCHANGED ret
      BY ZenonT(40), <3>1, <3>2, <3>3 DEF Goto, Moves
    <3>4. CASE /\ Fails /\ Goto(c, "out")
               /\ target' \in {target, [target EXCEPT ![cluster[c]] = buf[c]]}
               /\ ret' = [ret EXCEPT ![c] = "write"] /\ UNCHANGED <<copied, cluster>>
      BY Zenon, <3>1, <3>2, <3>4 DEF Goto, Moves
    <3> QED
      BY <3>3, <3>4, Zenon DEF TargetDone
  <2>2. DataTypes /\ CallTypes
    BY Zenon, BoundIs DEF Bounded
  <2>3. cluster[c] \in Clusters /\ cluster[c] + 1 \in 0 .. NClusters
    <3>1. "target_io" \in AtCluster
      BY DEF AtCluster
    <3>2. cluster[c] < end[c]
      BY ZenonT(40), <2>1, <3>1 DEF CopyInv, Calling, CallOf
    <3>3. cluster[c] \in 0 .. NClusters /\ end[c] \in 0 .. NClusters
      BY <2>2 DEF CallTypes
    <3> QED
      BY <3>2, <3>3, BackupAssumption DEF Clusters
  <2>4. DataTypes'
    <3>1. target' \in [Clusters -> Content]
      BY Zenon, <2>1, <2>2, <2>3 DEF DataTypes
    <3>2. copied' \subseteq Clusters
      BY <2>1, <2>2, <2>3 DEF DataTypes
    <3> QED
      BY Zenon, <2>1, <2>2, <3>1, <3>2 DEF DataTypes
  <2>5. CallTypes'
    <3>1. cluster' \in [Co -> 0 .. NClusters]
      BY Zenon, <2>1, <2>2, <2>3 DEF CallTypes
    <3> QED
      BY Zenon, <2>1, <2>2, <3>1 DEF CallTypes
  <2>6. JobTypes' /\ Flags' /\ Sections'
    BY Zenon, <2>1, <1>BoundSame DEF jobVars, scanVars
  <2>7. Steps(c)
    BY ZenonT(40), <2>1, <1>InsideSteps, PlaceSets DEF jobVars, scanVars
  <2> QED
    BY Zenon, <2>1, <2>4, <2>5, <2>6, <2>7, <1>BoundParts DEF jobVars, scanVars
<1>EndBound.
  ASSUME Placed, BoundInv, NEW c \in Co, CowEnd(c), CopyInv', UNCHANGED pathVars
  PROVE  BoundInv'
  <2> USE <1>EndBound
  <2>1. /\ pc[c] = "out" /\ Moves(c, "unlock") /\ buf' = [buf EXCEPT ![c] = "blank"]
        /\ UNCHANGED <<src, target, allocated, copied, start, end, cluster, ret,
                       jobVars, histVars>>
    BY Zenon DEF CowEnd, At, Goto, Moves
  <2>2. CallTypes'
    <3>1. inflight_reqs' \in Seq(Co)
      BY DEF CopyInv, CopyTypes
    <3> QED
      BY ZenonT(40), <2>1, <3>1, BoundIs DEF Bounded, CallTypes
  <2>3. DataTypes'
    BY ZenonT(40), <2>1, BoundIs DEF Bounded, DataTypes, histVars, Content
  <2>4. JobTypes' /\ Flags' /\ Sections'
    BY <2>1, <1>BoundSame DEF jobVars, histVars, scanVars
  <2>5. Steps(c)
    BY <2>1, <1>InsideSteps, PlaceSets DEF jobVars, scanVars
  <2> QED
    BY Zenon, <2>1, <2>2, <2>3, <2>4, <2>5, <1>BoundParts DEF jobVars, scanVars

\* The steps of a call, each of which leaves the 9p device alone.
<1>CowBound.
  ASSUME Placed, BoundInv, CopyInv, CopyInv', NEW c \in Co, backup_do_cow(c),
         UNCHANGED pathVars
  PROVE  BoundInv'
  <2> USE <1>CowBound
  <2>0. Sections'
    BY <1>BoundSame
  <2>q. ASSUME UNCHANGED backupVars, pc[c] \in InDevice, NEW p, c = Job => p \in InDevice,
               pc' = pc \/ Moves(c, p)
        PROVE  BoundInv'
    <3>1. Steps(c)
      BY <2>q, <1>InsideSteps DEF backupVars, jobVars, scanVars
    <3> QED
      BY <2>0, <2>q, <3>1, <1>QuietBound
  <2>1. ASSUME CowRdLock(c) PROVE BoundInv'
    BY <2>1, <2>q, <1>RwSteps, PlaceSets DEF CowRdLock, At
  <2>2. ASSUME CowWait(c) PROVE BoundInv'
    BY Zenon, <2>2, <2>q, PlaceSets DEF CowWait, At
  <2>3. ASSUME ReadLock(c) PROVE BoundInv'
    BY Zenon, <2>3, <2>q, <1>MutexSteps, PlaceSets DEF ReadLock, At
  <2>4. ASSUME Read(c) PROVE BoundInv'
    BY Zenon, <2>4, <2>q, PlaceSets DEF Read, At, Goto, Moves
  <2>5. ASSUME WriteTarget(c) PROVE BoundInv'
    BY Zenon, <2>5, <2>q, PlaceSets DEF WriteTarget, At, Goto, Moves
  <2>6. ASSUME CowUnlock(c) PROVE BoundInv'
    <3>1. /\ UNCHANGED backupVars /\ pc[c] = "unlock"
          /\ \E p : (c = Job => p = "cowed") /\ Moves(c, p)
      BY <2>6, Zenon DEF CowUnlock, At, Goto, Moves
    <3> QED
      BY <2>q, <3>1, PlaceSets
  <2> QED
    BY Zenon, <2>1, <2>2, <2>3, <2>4, <2>5, <2>6, <1>BeginBound, <1>LoopBound, <1>ReadBound, <1>TargetBound, <1>EndBound
    DEF backup_do_cow

\* The job writes nothing to the device.
<1>WriteBound.
  ASSUME Placed, BoundInv, NEW c \in Co, WriteLock(c) \/ Write(c) \/ WriteDone(c),
         UNCHANGED pathVars
  PROVE  BoundInv'
  <2> USE <1>WriteBound
  <2>0. c \in Guests
    <3>1. pc[c] \in GuestPlaces
      BY PlaceSets, ZenonT(40) DEF WriteLock, Write, WriteDone, At
    <3> QED
      BY Zenon, <3>1, BoundIs DEF Bounded, JobAt, Guests
  <2>q. ASSUME UNCHANGED backupVars, NEW p, pc' = pc \/ Moves(c, p) PROVE BoundInv'
    <3>1. Steps(c)
      BY Zenon, <2>0, <2>q, <1>OutsideSteps DEF Guests
    <3> QED
      BY Zenon, <2>q, <3>1, <1>QuietBound, <1>BoundSame
  <2>1. CASE WriteLock(c)
    BY Zenon, <2>1, <2>q, <1>MutexSteps DEF WriteLock
  <2>2. CASE Write(c)
    BY Zenon, <2>2, <2>q DEF Write, Goto, Moves
  <2>3. CASE WriteDone(c)
    <3>1. PICK written \in SUBSET (start[c] .. end[c] - 1) :
            /\ Works \/ Fails
            /\ src' = [k \in Clusters |-> IF k \in written THEN c ELSE src[k]]
            /\ allocated' = allocated \cup written
            /\ asof' = [k \in Clusters |->
                          IF k \in written /\ c \in early
                          THEN asof[k] \cup {c} ELSE asof[k]]
      BY <2>3, Zenon DEF WriteDone
    <3>2. /\ Moves(c, "complete")
          /\ UNCHANGED <<target, copied, buf, cowVars, jobVars, spurious, early, commands>>
      BY <2>3, Zenon DEF WriteDone, Goto, Moves
    <3>3. DataTypes /\ CallTypes
      BY Zenon, BoundIs DEF Bounded
    <3>4. written \subseteq Clusters
      <4>1. start[c] \in 0 .. NClusters /\ end[c] \in 0 .. NClusters
        BY Zenon, <3>3 DEF CallTypes
      <4>2. start[c] .. end[c] - 1 \subseteq Clusters
        BY <4>1, BackupAssumption DEF Clusters
      <4> QED
        BY ZenonT(40), <3>1, <4>2
    <3>5. src' \in [Clusters -> Content] /\ asof' \in [Clusters -> SUBSET Content]
          /\ allocated' \subseteq Clusters
      BY Zenon, <2>0, <3>1, <3>3, <3>4 DEF DataTypes, Content
    <3>6. DataTypes'
      BY Zenon, <3>2, <3>3, <3>5 DEF DataTypes
    <3>7. CallTypes' /\ JobTypes' /\ Flags' /\ Sections'
      BY Zenon, <3>1, <3>2, <1>BoundSame DEF jobVars, scanVars
    <3>8. Steps(c)
      BY ZenonT(40), <2>0, <3>2, <1>OutsideSteps DEF Guests
    <3> QED
      BY Zenon, <3>2, <3>6, <3>7, <3>8, <1>BoundParts DEF jobVars, scanVars
  <2> QED
    BY <2>1, <2>2, <2>3

\* backup_do_cow is called for clusters of the device.
<1>CallBound.
  ASSUME BoundInv, NEW c \in Co, NEW i \in 0 .. NClusters, NEW j \in 0 .. NClusters,
         CallDoCow(c, i, j)
  PROVE  CallTypes'
  <2> USE <1>CallBound
  <2>1. CallTypes
    BY Zenon, BoundIs DEF Bounded
  <2> QED
    BY Zenon, <2>1 DEF CallDoCow, CallTypes
<1>CompleteBound.
  ASSUME Placed, BoundInv, NEW c \in Co, Complete(c), UNCHANGED pathVars
  PROVE  BoundInv'
  <2> USE <1>CompleteBound
  <2>1. /\ Moves(c, "dead")
        /\ start' = [start EXCEPT ![c] = 0] /\ end' = [end EXCEPT ![c] = 0]
        /\ cluster' = [cluster EXCEPT ![c] = 0]
        /\ ret' = ret \/ ret' = [ret EXCEPT ![c] = "ok"]
        /\ UNCHANGED <<dataVars, inflight_reqs, jobVars, histVars>>
    BY Zenon DEF Complete, Goto, Moves
  <2>2. CallTypes'
    <3>1. CallTypes /\ 0 \in 0 .. NClusters
      BY BoundIs, BackupAssumption DEF Bounded
    <3> QED
      BY Zenon, <2>1, <3>1 DEF CallTypes
  <2>3. DataTypes' /\ JobTypes' /\ Flags' /\ Sections'
    BY Zenon, <2>1, <1>BoundSame DEF jobVars, histVars, scanVars
  <2>4. Steps(c)
    BY Zenon, <2>1, <1>OutsideSteps, PlaceSets
  <2> QED
    BY Zenon, <2>1, <2>2, <2>3, <2>4, <1>BoundParts DEF jobVars, scanVars
<1>WritevBound.
  ASSUME Placed, BoundInv, NEW c \in Guests, bdrv_co_do_writev(c), UNCHANGED pathVars
  PROVE  BoundInv'
  <2> USE <1>WritevBound
  <2>1. PICK first \in Clusters, last \in 1 .. NClusters : CallDoCow(c, first, last)
    BY DEF bdrv_co_do_writev
  <2>2. (\E p : Moves(c, p)) /\ UNCHANGED <<dataVars, jobVars, histVars>>
    BY Zenon DEF bdrv_co_do_writev, Goto, Moves
  <2>3. CallTypes'
    <3>1. first \in 0 .. NClusters /\ last \in 0 .. NClusters /\ c \in Co
      BY BackupAssumption DEF Clusters, Guests
    <3> QED
      BY Zenon, <2>1, <3>1, <1>CallBound
  <2>4. DataTypes' /\ JobTypes' /\ Flags' /\ Sections'
    BY <2>2, <1>BoundSame DEF jobVars, histVars, scanVars
  <2>5. c \in Co /\ Steps(c)
    BY <2>2, <1>OutsideSteps DEF Guests
  <2> QED
    BY Zenon, <2>2, <2>3, <2>4, <2>5, <1>BoundParts DEF jobVars, scanVars
<1>StartBound.
  ASSUME Placed, BoundInv, backup_start, UNCHANGED pathVars
  PROVE  BoundInv'
  <2> USE <1>StartBound
  <2>0. Job \in Co /\ NClusters \in Nat \ {0}
    BY BackupAssumption
  <2>1. /\ Moves(Job, "for") /\ job' = "active" /\ busy' = TRUE /\ before_write' = TRUE
        /\ copied' = {} /\ next' = 0 /\ early' \subseteq Guests
        /\ asof' = [k \in Clusters |-> {src[k]}]
        /\ UNCHANGED <<src, target, allocated, buf, cowVars, sync_mode, asked, paused, cancelled,
                       spurious, errors, commands>>
    BY DEF backup_start, Goto, Moves, scanVars
  <2>2. DataTypes'
    BY Zenon, <2>1, BoundIs DEF Bounded, DataTypes
  <2>3. JobTypes' /\ Flags'
    <3>1. JobTypes /\ Flags
      BY ZenonT(40), BoundIs DEF Bounded
    <3>2. next' \in 0 .. NClusters
      BY <2>0, <2>1
    <3>3. JobTypes'
      BY Zenon, <2>1, <3>1, <3>2 DEF JobTypes
    <3>4. Flags'
      BY ZenonT(40), <2>1, <3>1 DEF Flags
    <3> QED
      BY <3>3, <3>4
  <2>4. CallTypes' /\ Sections'
    BY Zenon, <2>1, <1>BoundSame
  <2>5. JobAt(pc[Job])'
    BY Zenon, <2>0, <2>1, PlaceSets DEF Placed, Moves, JobAt
  <2> QED
    BY Zenon, <2>2, <2>3, <2>4, <2>5, BoundIs DEF Bounded
<1>JobForBound.
  ASSUME Placed, BoundInv, JobFor, UNCHANGED pathVars
  PROVE  BoundInv'
  <2> USE <1>JobForBound
  <2>0. Job \in Co /\ NClusters \in Nat
    BY BackupAssumption
  <2>1. UNCHANGED <<dataVars, cowVars, sync_mode, asked, job, before_write, next, paused,
                    cancelled, histVars>>
    BY DEF JobFor, scanVars
  <2>2. \/ Moves(Job, "remove") /\ UNCHANGED busy
        \/ Moves(Job, "slept") /\ busy' = FALSE /\ (sync_mode = "none" \/ next # NClusters)
    BY Zenon DEF JobFor, Goto, Moves, scanVars
  <2>3. Flags'
    BY ZenonT(40), <2>1, <2>2, BoundIs DEF Bounded, Flags, histVars
  <2>4. DataTypes' /\ CallTypes' /\ JobTypes' /\ Sections'
    BY <2>1, <1>BoundSame DEF histVars
  <2>5. Steps(Job)
    <3>1. next < NClusters \/ next = NClusters
      <4>1. next \in 0 .. NClusters
        BY Zenon, BoundIs DEF Bounded, JobTypes
      <4> QED
        BY <2>0, <4>1
    <3>2. JobAt("remove")' /\ (sync_mode = "none" \/ next # NClusters => JobAt("slept")')
      BY Zenon, <2>1, <3>1, PlaceSets DEF JobAt
    <3> QED
      BY <2>2, <3>2 DEF Steps
  <2> QED
    BY Zenon, <2>0, <2>1, <2>3, <2>4, <2>5, <1>BoundParts

\* The job calls backup_do_cow, or goes on without it.
<1>JobSleptBound.
  ASSUME Placed, BoundInv, JobSlept, UNCHANGED pathVars
  PROVE  BoundInv'
  <2> USE <1>JobSleptBound
  <2>0. Job \in Co /\ NClusters \in Nat
    BY BackupAssumption
  <2>1. /\ pc[Job] = "slept" /\ busy' = TRUE
        /\ UNCHANGED <<dataVars, sync_mode, asked, job, before_write, next, paused, cancelled,
                       histVars>>
    BY Zenon DEF JobSlept, At, scanVars
  <2>2. \/ (Moves(Job, "remove") \/ Moves(Job, "for")) /\ UNCHANGED cowVars
        \/ sync_mode = "top" /\ Moves(Job, "is_allocated") /\ UNCHANGED cowVars
        \/ sync_mode = "full" /\ Moves(Job, "rdlock") /\ CallDoCow(Job, next, next + 1)
    BY Zenon DEF JobSlept, Goto, Moves, scanVars
  <2>3. sync_mode # "none" => next < NClusters
    BY Zenon, <2>1, BoundIs DEF Bounded, JobAt
  <2>4. Flags'
    BY ZenonT(40), <2>1, BoundIs DEF Bounded, Flags, histVars
  <2>5. DataTypes' /\ JobTypes' /\ Sections'
    BY <2>1, <1>BoundSame DEF histVars
  <2>6. CallTypes'
    <3>1. CASE UNCHANGED cowVars
      BY <3>1, <1>BoundSame
    <3>2. CASE sync_mode = "full" /\ CallDoCow(Job, next, next + 1)
      <4>1. next \in 0 .. NClusters /\ next + 1 \in 0 .. NClusters
        <5>1. next \in 0 .. NClusters
          BY Zenon, BoundIs DEF Bounded, JobTypes
        <5>2. next < NClusters
          BY Zenon, <2>3, <3>2
        <5> QED
          BY Zenon, <5>1, <5>2, NextCluster
      <4> QED
        BY Zenon, <2>0, <3>2, <4>1, <1>CallBound
    <3> QED
      BY Zenon, <2>2, <3>1, <3>2
  <2>7. Steps(Job)
    <3>1. /\ JobAt("remove")' /\ JobAt("for")'
          /\ sync_mode # "none" => JobAt("is_allocated")' /\ JobAt("rdlock")'
      BY Zenon, <2>1, <2>3, PlaceSets DEF JobAt
    <3> QED
      BY Zenon, <2>2, <3>1 DEF Steps
  <2> QED
    BY Zenon, <2>0, <2>1, <2>4, <2>5, <2>6, <2>7, <1>BoundParts
<1>JobAllocatedBound.
  ASSUME Placed, BoundInv, JobAllocated, UNCHANGED pathVars
  PROVE  BoundInv'
  <2> USE <1>JobAllocatedBound
  <2>0. Job \in Co /\ NClusters \in Nat /\ pc \in [Co -> Places]
    BY BackupAssumption DEF Placed
  <2>1. /\ pc[Job] = "alloc_io"
        /\ UNCHANGED <<dataVars, sync_mode, job, before_write, busy, paused, cancelled,
                       histVars>>
    BY Zenon DEF JobAllocated, At
  <2>2. \/ Moves(Job, "rdlock") /\ CallDoCow(Job, next, next + 1) /\ UNCHANGED next
        \/ Moves(Job, "for") /\ next' = next + 1 /\ UNCHANGED cowVars
        \/ /\ Moves(Job, "is_allocated") \/ Moves(Job, "past_end")
           /\ UNCHANGED next /\ UNCHANGED cowVars
    BY Zenon DEF JobAllocated, Unallocated, Goto, Moves
  <2>n. asked' \in 0 .. SectorsPerCluster - 1
    <3>1. asked \in 0 .. SectorsPerCluster - 1
      BY Zenon, BoundIs DEF Bounded, JobTypes
    <3>2. \/ asked' = 0
          \/ \E n \in 1 .. SectorsPerCluster :
               asked + n < SectorsPerCluster /\ asked' = asked + n
      BY Zenon DEF JobAllocated, Unallocated
    <3> QED
      BY <3>1, <3>2, BackupAssumption
  <2>3. next < NClusters /\ next \in 0 .. NClusters /\ next + 1 \in 0 .. NClusters
    <3>1. "alloc_io" \in InDevice
      BY PlaceSets
    <3>2. next < NClusters /\ next \in 0 .. NClusters
      BY Zenon, <2>1, <3>1, BoundIs DEF Bounded, JobAt, JobTypes
    <3> QED
      BY <2>0, <3>2
  <2>4. JobTypes'
    BY ZenonT(40), <2>1, <2>2, <2>3, <2>n, BoundIs DEF Bounded, JobTypes, histVars
  <2>5. DataTypes' /\ Flags' /\ Sections'
    BY Zenon, <2>1, <1>BoundSame DEF histVars
  <2>6. CallTypes'
    BY Zenon, <2>0, <2>2, <2>3, <1>CallBound, <1>BoundSame
  <2>7. Steps(Job) /\ pc' # pc
    <3>1. /\ JobAt("for")'
          /\ UNCHANGED next => /\ JobAt("rdlock")' /\ JobAt("is_allocated")'
                               /\ JobAt("past_end")'
      BY Zenon, <2>3, PlaceSets DEF JobAt
    <3>2. pc'[Job] # "alloc_io"
      BY Zenon, <2>0, <2>2 DEF Moves
    <3> QED
      BY Zenon, <2>1, <2>2, <3>1, <3>2 DEF Steps
  <2> QED
    BY Zenon, <2>0, <2>1, <2>4, <2>5, <2>6, <2>7, <1>BoundParts
<1>JobCowedBound.
  ASSUME Placed, BoundInv, JobCowed, UNCHANGED pathVars
  PROVE  BoundInv'
  <2> USE <1>JobCowedBound
  <2>0. Job \in Co /\ NClusters \in Nat /\ pc \in [Co -> Places]
    BY BackupAssumption DEF Placed
  <2>1. /\ pc[Job] = "cowed"
        /\ UNCHANGED <<dataVars, cowVars, sync_mode, asked, job, before_write, busy, cancelled,
                       histVars>>
    BY Zenon DEF JobCowed, At, scanVars
  <2>2. /\ Moves(Job, "for") \/ Moves(Job, "remove")
        /\ next' = next \/ next' = next + 1
        /\ paused' \in {TRUE, paused}
    BY Zenon DEF JobCowed, Goto, Moves, scanVars
  <2>3. next < NClusters /\ next \in 0 .. NClusters /\ next + 1 \in 0 .. NClusters
    <3>1. "cowed" \in InDevice
      BY PlaceSets
    <3>2. next < NClusters /\ next \in 0 .. NClusters
      BY Zenon, <2>1, <3>1, BoundIs DEF Bounded, JobAt, JobTypes
    <3> QED
      BY <2>0, <3>2
  <2>4. JobTypes'
    BY Zenon, <2>1, <2>2, <2>3, BoundIs DEF Bounded, JobTypes, histVars
  <2>5. Flags'
    BY ZenonT(40), <2>1, <2>2, BoundIs DEF Bounded, Flags, histVars
  <2>6. DataTypes' /\ CallTypes' /\ Sections'
    BY Zenon, <2>1, <1>BoundSame DEF histVars
  <2>7. Steps(Job) /\ pc' # pc
    <3>1. JobAt("for")' /\ JobAt("remove")'
      BY PlaceSets DEF JobAt
    <3>2. pc'[Job] # "cowed"
      BY Zenon, <2>0, <2>2 DEF Moves
    <3> QED
      BY Zenon, <2>1, <2>2, <3>1, <3>2 DEF Steps
  <2> QED
    BY Zenon, <2>0, <2>1, <2>4, <2>5, <2>6, <2>7, <1>BoundParts
<1>JobBound.
  ASSUME Placed, BoundInv, backup_run, UNCHANGED pathVars
  PROVE  BoundInv'
  <2> USE <1>JobBound
  <2>0. Job \in Co /\ Sections'
    BY Zenon, BackupAssumption, <1>BoundSame
  <2>1. ASSUME JobAllocLock PROVE BoundInv'
    <3>1. pc[Job] = "is_allocated" /\ (pc' = pc \/ Moves(Job, "alloc")) /\ UNCHANGED backupVars
      BY Zenon, <2>0, <2>1, <1>MutexSteps DEF JobAllocLock, At
    <3>2. Steps(Job)
      BY Zenon, <2>0, <3>1, <1>InsideSteps, PlaceSets DEF backupVars, jobVars, scanVars
    <3> QED
      BY Zenon, <2>0, <3>1, <3>2, <1>QuietBound
  <2>2. ASSUME JobAlloc PROVE BoundInv'
    <3>1. pc[Job] = "alloc" /\ Moves(Job, "alloc_io") /\ UNCHANGED backupVars
      BY Zenon, <2>2 DEF JobAlloc, At, Goto, Moves
    <3>2. Steps(Job)
      BY Zenon, <2>0, <3>1, <1>InsideSteps, PlaceSets DEF backupVars, jobVars, scanVars
    <3> QED
      BY Zenon, <2>0, <3>1, <3>2, <1>QuietBound
  <2>3. ASSUME JobWrLock PROVE BoundInv'
    <3>1. (pc' = pc \/ Moves(Job, "wrunlock")) /\ UNCHANGED backupVars
      BY Zenon, <2>0, <2>3, <1>RwSteps DEF JobWrLock
    <3>2. Steps(Job)
      BY Zenon, <2>0, <3>1, <1>OutsideSteps, PlaceSets
    <3> QED
      BY Zenon, <2>0, <3>1, <3>2, <1>QuietBound
  <2>4. ASSUME JobRemove PROVE BoundInv'
    <3>1. /\ Moves(Job, "wrlock") /\ before_write' = FALSE
          /\ UNCHANGED <<dataVars, cowVars, sync_mode, asked, job, next, busy, paused, cancelled,
                         histVars>>
      BY <2>4 DEF JobRemove, Goto, Moves, scanVars
    <3>2. Flags'
      BY Zenon, <3>1, BoundIs DEF Bounded, Flags, histVars
    <3>3. DataTypes' /\ CallTypes' /\ JobTypes'
      BY Zenon, <3>1, <1>BoundSame DEF histVars
    <3>4. Steps(Job)
      BY Zenon, <2>0, <3>1, <1>OutsideSteps, PlaceSets
    <3> QED
      BY Zenon, <2>0, <3>1, <3>2, <3>3, <3>4, <1>BoundParts
  <2>5. ASSUME JobFlushed \/ JobCompleted PROVE BoundInv'
    <3>1. /\ \E p \in {"close", "complete"} : Moves(Job, p)
          /\ job' \in {job, "done"} /\ copied' \in {copied, {}}
          /\ UNCHANGED <<src, target, allocated, buf, cowVars, sync_mode, asked, before_write,
                         next, busy, paused, cancelled, histVars>>
      BY <2>5, Zenon DEF JobFlushed, JobCompleted, Goto, Moves, dataVars, jobVars, scanVars
    <3>2. DataTypes'
      BY Zenon, <3>1, BoundIs DEF Bounded, DataTypes, histVars
    <3>3. JobTypes'
      BY Zenon, <3>1, BoundIs DEF Bounded, JobTypes, histVars
    <3>4. CallTypes' /\ Flags'
      BY Zenon, <3>1, <1>BoundSame DEF histVars
    <3>5. Steps(Job)
      BY Zenon, <2>0, <3>1, <1>OutsideSteps, PlaceSets
    <3> QED
      BY Zenon, <2>0, <3>1, <3>2, <3>3, <3>4, <3>5, <1>BoundParts
  <2>6. ASSUME bdrv_drain_all \/ JobFlush PROVE BoundInv'
    <3>1. /\ \E p \in {"drained", "flushed", "closed", "abort"} : Moves(Job, p)
          /\ UNCHANGED backupVars
      BY <2>6, Zenon DEF bdrv_drain_all, JobFlush, Goto, Moves
    <3>2. Steps(Job)
      BY Zenon, <2>0, <3>1, <1>OutsideSteps, PlaceSets
    <3> QED
      BY Zenon, <2>0, <3>1, <3>2, <1>QuietBound
  <2> QED
    BY Zenon, <2>1, <2>2, <2>3, <2>4, <2>5, <2>6, <1>JobForBound, <1>JobSleptBound, <1>JobAllocatedBound, <1>JobCowedBound
    DEF backup_run
<1>PathBound.
  ASSUME Placed, BoundInv, NEW c \in Co, PathStep(c) \/ submit_pdu(c), UNCHANGED backupVars
  PROVE  BoundInv'
  <2> USE <1>PathBound
  <2>q. ASSUME Sections', NEW p \in PathPlaces \cup {"complete"}, pc' = pc \/ Moves(c, p)
        PROVE  BoundInv'
    <3>1. p \notin InDevice \cup GuestPlaces \cup {"slept"}
      BY PlaceSets DEF PathPlaces, LockPlaces
    <3>2. Steps(c)
      BY Zenon, <2>q, <3>1, <1>OutsideSteps
    <3> QED
      BY Zenon, <2>q, <3>2, <1>QuietBound
  <2>p. /\ {"shared", "alone", "shared_work", "alone_work", "nested"} \subseteq PathPlaces
        /\ LockPlaces \subseteq PathPlaces /\ (UNCHANGED pathVars => Sections')
    BY <1>BoundSame DEF PathPlaces
  <2>s. sections < MaxSections /\ sections' = sections + 1 /\ UNCHANGED paths => Sections'
    <3>1. Sections
      BY Zenon, BoundIs DEF Bounded
    <3> QED
      BY <3>1, PathAssumption DEF Sections
  <2>1. ASSUME v9fs_path_read_lock(c) PROVE BoundInv'
    BY Zenon, <2>1, <2>p, <2>q, <1>RwSteps DEF v9fs_path_read_lock
  <2>2. ASSUME v9fs_path_write_lock(c) PROVE BoundInv'
    BY Zenon, <2>2, <2>p, <2>q, <1>RwSteps DEF v9fs_path_write_lock
  <2>3. ASSUME v9fs_co_run_in_worker(c) PROVE BoundInv'
    BY Zenon, <2>3, <2>p, <2>q DEF v9fs_co_run_in_worker, Goto, Moves
  <2>4. ASSUME RenameFails(c) PROVE BoundInv'
    BY ZenonT(40), <2>4, <2>p, <2>q DEF RenameFails, Goto, Moves
  <2>5. ASSUME v9fs_reopen_fid(c) \/ put_fid(c) PROVE BoundInv'
    BY Zenon, <2>5, <2>p, <2>q DEF v9fs_reopen_fid, put_fid, Goto, Moves
  <2>6. ASSUME NestedReadLock(c) PROVE BoundInv'
    BY Zenon, <2>6, <2>p, <2>q, <1>RwSteps DEF NestedReadLock
  <2>7. ASSUME v9fs_path_unlock(c) PROVE BoundInv'
    <3>1. Sections' /\ \E p \in LockPlaces \cup {"complete"} : Moves(c, p)
      BY <2>7, <2>p, <2>s, Zenon DEF v9fs_path_unlock, pathVars, Goto, Moves
    <3> QED
      BY <2>p, <2>q, <3>1
  <2>8. ASSUME submit_pdu(c) PROVE BoundInv'
    <3>1. Sections' /\ \E p \in LockPlaces : Moves(c, p)
      BY Zenon, <2>8, <2>s DEF submit_pdu, Goto, Moves
    <3> QED
      BY <2>p, <2>q, <3>1
  <2> QED
    BY Zenon, <2>1, <2>2, <2>3, <2>4, <2>5, <2>6, <2>7, <2>8 DEF PathStep
<1>MainBound.
  ASSUME Placed, BoundInv, NEW c \in Co
  PROVE  /\ io_done(c) => BoundInv'
         /\ qemu_co_queue_run_restart /\ UNCHANGED <<pc, backupVars, pathVars>> => BoundInv'
         /\ (JobMain \/ DrainReturns) /\ UNCHANGED pathVars => BoundInv'
  <2> USE <1>MainBound
  <2>1. ASSUME UNCHANGED <<pc, backupVars, pathVars>> PROVE BoundInv'
    <3>1. Steps(c) /\ Sections'
      BY Zenon, <2>1, <1>BoundSame DEF Steps
    <3> QED
      BY Zenon, <2>1, <3>1, <1>QuietBound
  <2>2. ASSUME UNCHANGED <<pc, dataVars, cowVars, sync_mode, asked, job, before_write, next, busy,
                           early, asof, errors, pathVars>>,
               paused' \in {TRUE, FALSE, paused}, cancelled' \in {TRUE, cancelled},
               spurious' = spurious \/ spurious' \in BOOLEAN,
               commands' = commands \/ (commands < MaxCommands /\ commands' = commands + 1)
        PROVE  BoundInv'
    <3>1. Flags'
      BY Zenon, <2>2, BoundIs DEF Bounded, Flags
    <3>2. JobTypes'
      <4>1. JobTypes
        BY ZenonT(40), BoundIs DEF Bounded
      <4>2. commands' \in 0 .. MaxCommands
        BY <2>2, <4>1, BackupAssumption DEF JobTypes
      <4> QED
        BY Zenon, <2>2, <4>1, <4>2 DEF JobTypes
    <3>3. DataTypes' /\ CallTypes' /\ Sections' /\ Steps(c)
      BY <2>2, <1>BoundSame DEF Steps
    <3> QED
      BY Zenon, <2>2, <3>1, <3>2, <3>3, <1>BoundParts
  <2>3. io_done(c) => BoundInv'
    BY <2>1 DEF io_done
  <2>4. ASSUME JobMain \/ DrainReturns, UNCHANGED pathVars PROVE BoundInv'
    <3>0. \A S : Enters(Job, S) => spurious' \in BOOLEAN
      BY ZenonT(40) DEF Enters
    <3>1. ASSUME co_sleep_cb \/ DrainReturns PROVE BoundInv'
      <4>1. /\ UNCHANGED <<pc, dataVars, cowVars, jobVars, early, asof, errors, commands>>
            /\ spurious' \in BOOLEAN
        BY Zenon, <3>0, <3>1 DEF co_sleep_cb, DrainReturns
      <4> QED
        BY Zenon, <2>2, <2>4, <4>1 DEF jobVars, scanVars
    <3>2. ASSUME Command, paused' \in {TRUE, FALSE}, cancelled' \in {TRUE, cancelled},
                 spurious' = spurious \/ spurious' \in BOOLEAN
          PROVE  BoundInv'
      BY Zenon, <2>2, <2>4, <3>2 DEF Command, scanVars
    <3>3. block_job_pause => BoundInv'
      BY <3>2 DEF block_job_pause
    <3>4. ResumeJob => paused' \in {TRUE, FALSE} /\ (spurious' = spurious \/ spurious' \in BOOLEAN)
      BY <3>0, Zenon DEF ResumeJob
    <3>5. block_job_resume \/ block_job_cancel => BoundInv'
      BY Zenon, <3>2, <3>4 DEF block_job_resume, block_job_cancel
    <3> QED
      BY Zenon, <2>4, <3>1, <3>3, <3>5, <1>StartBound DEF JobMain
  <2> QED
    BY Zenon, <2>1, <2>3, <2>4
<1> QED
  <2> SUFFICES ASSUME LockInv, CopyInv, CopyInv', BoundInv, [Next]_vars PROVE BoundInv'
    OBVIOUS
  <2>0. Placed /\ Job \in Co
    BY BackupAssumption DEF LockInv
  <2>1. CASE Run
    BY Zenon, <2>0, <2>1, <1>CowBound, <1>WriteBound, <1>JobBound, <1>PathBound, <1>CompleteBound, <1>MainBound
    DEF Run, BackupStep
  <2>2. CASE Events
    BY Zenon, <2>0, <2>2, <1>MainBound, <1>PathBound, <1>WritevBound DEF Events
  <2>3. CASE UNCHANGED vars
    <3>1. UNCHANGED <<pc, backupVars, pathVars>>
      BY <2>3 DEF vars
    <3>2. Steps(Job) /\ Sections'
      BY <3>1, <1>BoundSame DEF Steps
    <3> QED
      BY Zenon, <2>0, <3>1, <3>2, <1>QuietBound
  <2> QED
    BY <2>1, <2>2, <2>3 DEF Next

LEMMA BoundInit == Init => BoundInv
<1> SUFFICES ASSUME Init PROVE BoundInv
  OBVIOUS
<1>1. BackupInit /\ pc = [c \in Co |-> "start"] /\ sections = 0 /\ paths \in Scenes
  BY DEF Init
<1>2. DataTypes
  <2>1. allocated \subseteq Clusters
    BY Zenon, <1>1, BackupAssumption DEF BackupInit, Clusters
  <2>2. src \in [Clusters -> Content] /\ target \in [Clusters -> Content]
    BY Zenon, <1>1 DEF BackupInit, Content
  <2>3. buf \in [Co -> Content] /\ asof \in [Clusters -> SUBSET Content] /\ copied = {}
    BY Zenon, <1>1 DEF BackupInit, Content
  <2> QED
    BY Zenon, <2>1, <2>2, <2>3 DEF DataTypes
<1>3. CallTypes
  BY <1>1, BackupAssumption DEF BackupInit, CallTypes
<1>4. JobTypes
  BY <1>1, BackupAssumption DEF BackupInit, JobTypes
<1>5. Flags
  BY Zenon, <1>1 DEF BackupInit, Flags
<1>6. Sections /\ JobAt(pc[Job])
  BY <1>1, BackupAssumption, PathAssumption, PlaceSets DEF Sections, JobAt
<1> QED
  BY Zenon, <1>2, <1>3, <1>4, <1>5, <1>6, BoundIs DEF Bounded

LEMMA SleepNext ==
  LockInv /\ FlushInv /\ QueueInv /\ SleepInv /\ [Next]_vars => SleepInv'

(* A job that is not busy sleeps.                                           *)
\* A coroutine that is not the sleeping job goes on, yields or waits.
<1>SleepRuns.
  ASSUME Placed, SleepInv, NEW c \in Co, pc[c] # "slept" \/ c # Job,
         pc' = pc \/ \E p : Moves(c, p), GoesOn \/ \E r : Halts(c, r),
         UNCHANGED <<job, busy, spurious>>
  PROVE  SleepInv'
  <2> USE <1>SleepRuns
  <2>1. Job \in Co /\ pc \in [Co -> Places] /\ waits \in [Co -> Reasons]
    BY Zenon, BackupAssumption DEF Placed
  <2>2. CASE c = Job
    BY Zenon, <2>2 DEF SleepInv
  <2>3. CASE c # Job
    <3>1. pc'[Job] = pc[Job]
      BY Zenon, <2>1, <2>3 DEF Moves
    <3>2. waits'[Job] = waits[Job]
      BY Zenon, <2>1, <2>3 DEF GoesOn, Halts, Waits
    <3> QED
      BY Zenon, <3>1, <3>2 DEF SleepInv
  <2> QED
    BY Zenon, <2>2, <2>3

\* Whoever is entered waits for nothing.
<1>SleepEnters.
  ASSUME Placed, SleepInv, NEW c \in Co, qemu_coroutine_enter(c),
         pc' = pc \/ (c # Job /\ \E p : Moves(c, p)),
         UNCHANGED <<job, busy>>, ~spurious'
  PROVE  SleepInv'
  <2> USE <1>SleepEnters
  <2>1. Job \in Co /\ pc \in [Co -> Places] /\ waits \in [Co -> Reasons]
    BY Zenon, BackupAssumption DEF Placed
  <2>2. pc'[Job] = pc[Job]
    BY <2>1 DEF Moves
  <2>3. waits'[Job] \in {waits[Job], "none"}
    BY <2>1 DEF qemu_coroutine_enter
  <2> QED
    BY Zenon, <2>2, <2>3 DEF SleepInv
<1>CowSleep.
  ASSUME Placed, SleepInv, NEW c \in Co, backup_do_cow(c)
  PROVE  SleepInv'
  <2> USE <1>CowSleep
  <2> USE <1>SleepRuns, Runs DEF At
  <2>1. ASSUME CowRdLock(c) PROVE SleepInv'
    BY <2>1 DEF CowRdLock, backupVars, jobVars, histVars, scanVars
  <2>2. ASSUME CowWait(c) PROVE SleepInv'
    BY Zenon, <2>2 DEF CowWait, backupVars, jobVars, histVars, scanVars
  <2>3. ASSUME CowBegin(c) PROVE SleepInv'
    BY Zenon, <2>3 DEF CowBegin, jobVars, histVars, scanVars
  <2>4. ASSUME CowLoop(c) PROVE SleepInv'
    BY Zenon, <2>4 DEF CowLoop, jobVars, histVars, scanVars
  <2>5. ASSUME ReadLock(c) PROVE SleepInv'
    BY Zenon, <2>5 DEF ReadLock, backupVars, jobVars, histVars, scanVars
  <2>6. ASSUME Read(c) PROVE SleepInv'
    BY Zenon, <2>6 DEF Read, backupVars, jobVars, histVars, scanVars
  <2>7. ASSUME ReadDone(c) PROVE SleepInv'
    BY Zenon, <2>7 DEF ReadDone, jobVars, scanVars
  <2>8. ASSUME WriteTarget(c) PROVE SleepInv'
    BY Zenon, <2>8 DEF WriteTarget, backupVars, jobVars, histVars, scanVars
  <2>9. ASSUME TargetDone(c) PROVE SleepInv'
    BY Zenon, <2>9 DEF TargetDone, jobVars, scanVars
  <2>10. ASSUME CowEnd(c) PROVE SleepInv'
    BY <2>10, Zenon DEF CowEnd, jobVars, histVars, scanVars
  <2>11. ASSUME CowUnlock(c) PROVE SleepInv'
    BY Zenon, <2>11 DEF CowUnlock, backupVars, jobVars, histVars, scanVars
  <2> QED
    BY ZenonT(40), <2>1, <2>2, <2>3, <2>4, <2>5, <2>6, <2>7, <2>8, <2>9, <2>10, <2>11 DEF backup_do_cow
<1>WriteSleep.
  ASSUME Placed, SleepInv, NEW c \in Co, WriteLock(c) \/ Write(c) \/ WriteDone(c)
  PROVE  SleepInv'
  <2> USE <1>WriteSleep
  <2> USE <1>SleepRuns, Runs DEF At
  <2>1. ASSUME WriteLock(c) PROVE SleepInv'
    BY Zenon, <2>1 DEF WriteLock, backupVars, jobVars, histVars, scanVars
  <2>2. ASSUME Write(c) PROVE SleepInv'
    BY Zenon, <2>2 DEF Write, backupVars, jobVars, histVars, scanVars
  <2>3. ASSUME WriteDone(c) PROVE SleepInv'
    BY <2>3, Zenon DEF WriteDone, jobVars, scanVars
  <2> QED
    BY Zenon, <2>1, <2>2, <2>3
<1>JobSleep.
  ASSUME Placed, SleepInv, backup_run
  PROVE  SleepInv'
  <2> USE <1>JobSleep
  <2>0. Job \in Co /\ pc \in [Co -> Places] /\ waits \in [Co -> Reasons]
    BY BackupAssumption DEF Placed
  <2>1. ASSUME JobFor PROVE SleepInv'
    <3>1. CASE UNCHANGED <<coVars, busy>>
      BY Zenon, <2>0, <2>1, <3>1, <1>SleepRuns, Runs DEF JobFor, At, histVars, scanVars
    <3>2. CASE /\ Goto(Job, "slept")
               /\ qemu_coroutine_yield(Job, IF sync_mode = "none" \/ paused
                                            THEN "resume" ELSE "timer")
      <4>1. pc'[Job] = "slept" /\ waits'[Job] \in {"timer", "resume"}
        BY Zenon, <2>0, <3>2 DEF Goto, qemu_coroutine_yield, SwitchBack
      <4> QED
        BY Zenon, <2>1, <4>1 DEF JobFor, SleepInv, histVars, scanVars
    <3> QED
      BY <2>1, <3>1, <3>2, Zenon DEF JobFor, scanVars
  <2>2. ASSUME JobSlept PROVE SleepInv'
    BY Zenon, <2>2 DEF JobSlept, SleepInv, histVars, scanVars
  <2>3. ASSUME JobAllocLock PROVE SleepInv'
    BY Zenon, <2>0, <2>3, <1>SleepRuns, Runs DEF JobAllocLock, At, backupVars, jobVars, histVars, scanVars
  <2>4. ASSUME JobAlloc PROVE SleepInv'
    BY Zenon, <2>0, <2>4, <1>SleepRuns, Runs DEF JobAlloc, At, backupVars, jobVars, histVars, scanVars
  <2>5. ASSUME JobAllocated PROVE SleepInv'
    BY Zenon, <2>0, <2>5, <1>SleepRuns, Runs DEF JobAllocated, Unallocated, At, histVars
  <2>6. ASSUME JobCowed PROVE SleepInv'
    BY <2>0, <2>6, <1>SleepRuns, Runs, Zenon DEF JobCowed, At, histVars, scanVars
  <2>7. ASSUME JobRemove PROVE SleepInv'
    BY Zenon, <2>0, <2>7, <1>SleepRuns, Runs DEF JobRemove, At, histVars, scanVars
  <2>8. ASSUME JobWrLock PROVE SleepInv'
    BY Zenon, <2>0, <2>8, <1>SleepRuns, Runs DEF JobWrLock, At, backupVars, jobVars, histVars, scanVars
  <2>9. ASSUME JobFlushed PROVE SleepInv'
    BY Zenon, <2>0, <2>9, <1>SleepRuns, Runs DEF JobFlushed, At, jobVars, histVars, scanVars
  <2>10. ASSUME bdrv_drain_all PROVE SleepInv'
    BY Zenon, <2>0, <2>10, <1>SleepRuns, Runs DEF bdrv_drain_all, At, backupVars, jobVars, histVars
  <2>11. ASSUME JobFlush PROVE SleepInv'
    BY Zenon, <2>0, <2>11, <1>SleepRuns, Runs DEF JobFlush, At, backupVars, jobVars, histVars
  <2>12. ASSUME JobCompleted PROVE SleepInv'
    BY Zenon, <2>12 DEF JobCompleted, SleepInv, histVars
  <2> QED
    BY Zenon, <2>1, <2>2, <2>3, <2>4, <2>5, <2>6, <2>7, <2>8, <2>9, <2>10, <2>11, <2>12
    DEF backup_run
<1>PathSleep.
  ASSUME Placed, SleepInv, NEW c \in Co, PathStep(c), UNCHANGED backupVars
  PROVE  SleepInv'
  <2> USE <1>PathSleep
  <2>0. UNCHANGED <<job, busy, spurious>>
    BY DEF backupVars, jobVars, histVars, scanVars
  <2> USE <2>0, <1>SleepRuns, Runs DEF At
  <2>1. ASSUME v9fs_path_read_lock(c) PROVE SleepInv'
    BY Zenon, <2>1 DEF v9fs_path_read_lock
  <2>2. ASSUME v9fs_path_write_lock(c) PROVE SleepInv'
    BY ZenonT(40), <2>2 DEF v9fs_path_write_lock
  <2>3. ASSUME v9fs_co_run_in_worker(c) PROVE SleepInv'
    BY <2>3 DEF v9fs_co_run_in_worker
  <2>4. ASSUME RenameFails(c) PROVE SleepInv'
    BY Zenon, <2>4 DEF RenameFails
  <2>5. ASSUME v9fs_reopen_fid(c) \/ put_fid(c) PROVE SleepInv'
    BY Zenon, <2>5 DEF v9fs_reopen_fid, put_fid
  <2>6. ASSUME NestedReadLock(c) PROVE SleepInv'
    BY Zenon, <2>6 DEF NestedReadLock
  <2>7. ASSUME v9fs_path_unlock(c) PROVE SleepInv'
    BY <2>7, Zenon DEF v9fs_path_unlock
  <2> QED
    BY Zenon, <2>1, <2>2, <2>3, <2>4, <2>5, <2>6, <2>7 DEF PathStep

\* A command enters the job only while it sleeps: if it is not busy, it does,
\* and it does not run, for the main loop does.
<1>MainSleep.
  ASSUME Placed, Queued, SleepInv
  PROVE  /\ \A c \in Co : Complete(c) => SleepInv'
         /\ \A c \in Co : io_done(c) => SleepInv'
         /\ \A c \in Guests : bdrv_co_do_writev(c) => SleepInv'
         /\ \A c \in Co : FlushInv /\ submit_pdu(c) /\ UNCHANGED backupVars => SleepInv'
         /\ JobMain \/ DrainReturns => SleepInv'
         /\ QueueInv /\ qemu_co_queue_run_restart /\ UNCHANGED <<pc, backupVars>> => SleepInv'
  <2> USE <1>MainSleep
  <2>0. Job \in Co /\ ~spurious
    BY BackupAssumption DEF SleepInv
  <2>1. ASSUME NEW c \in Co, Complete(c) PROVE SleepInv'
    <3>1. /\ pc[c] = "complete" /\ Moves(c, "dead") /\ Halts(c, "dead")
          /\ UNCHANGED <<job, busy, spurious>>
      BY <2>1, Runs, Zenon DEF Complete, At, SwitchBack, Halts, Waits, jobVars, histVars, scanVars
    <3> QED
      BY <3>1, <1>SleepRuns
  <2>2. ASSUME NEW c \in Co, io_done(c) PROVE SleepInv'
    BY Zenon, <2>0, <2>2, <1>SleepEnters DEF io_done, backupVars, jobVars, histVars, scanVars
  <2>3. ASSUME NEW c \in Guests, bdrv_co_do_writev(c) PROVE SleepInv'
    <3>1. c \in Co /\ c # Job /\ \E p : Moves(c, p)
      BY Zenon, <2>3 DEF Guests, bdrv_co_do_writev, Goto, Moves
    <3>2. qemu_coroutine_enter(c) /\ UNCHANGED <<job, busy, spurious>>
      BY <2>3 DEF bdrv_co_do_writev, jobVars, histVars, scanVars
    <3> QED
      BY <2>0, <3>1, <3>2, <1>SleepEnters
  <2>4. ASSUME FlushInv, NEW c \in Co, submit_pdu(c), UNCHANGED backupVars PROVE SleepInv'
    <3>1. /\ waits[c] = "start" /\ qemu_coroutine_enter(c) /\ \E p : Moves(c, p)
          /\ UNCHANGED <<job, busy, spurious>>
      BY Zenon, <2>4 DEF submit_pdu, Goto, Moves, backupVars, jobVars, histVars, scanVars
    <3>2. CASE c = Job
      <4>1. pc[Job] # "slept"
        BY Zenon, <2>4, <3>1, <3>2 DEF FlushInv, Prompt
      <4> QED
        BY Zenon, <3>1, <4>1 DEF SleepInv
    <3>3. CASE c # Job
      BY Zenon, <2>0, <3>1, <3>3, <1>SleepEnters
    <3> QED
      BY <3>2, <3>3
  <2>5. ASSUME JobMain \/ DrainReturns PROVE SleepInv'
    <3>1. CASE backup_start
      BY Zenon, <3>1 DEF backup_start, SleepInv, scanVars
    <3>2. CASE co_sleep_cb \/ DrainReturns
      BY Zenon, <2>0, <3>2, <1>SleepEnters
      DEF co_sleep_cb, DrainReturns, CanReturn, Enters, jobVars, scanVars
    <3>3. ASSUME Command, UNCHANGED <<coVars, spurious>> PROVE SleepInv'
      BY Zenon, <3>3 DEF Command, coVars, SleepInv, scanVars
    <3>4. ASSUME Command, ~busy, Enters(Job, {"timer", "resume"}) PROVE SleepInv'
      <4>1. waits[Job] # "none"
        BY Zenon, <2>0, <3>4, CoAssumption DEF Command, MainIdle, Queued, scanVars
      <4>2. waits[Job] \in {"timer", "resume"}
        BY <3>4, <4>1 DEF Command, SleepInv, scanVars
      <4>3. ~spurious'
        BY Zenon, <2>0, <3>4, <4>2 DEF Enters
      <4> QED
        BY Zenon, <2>0, <3>4, <4>3, <1>SleepEnters DEF Command, Enters, scanVars
    <3> QED
      BY Zenon, <2>5, <3>1, <3>2, <3>3, <3>4
      DEF JobMain, block_job_pause, block_job_resume, block_job_cancel, ResumeJob
  <2>6. ASSUME QueueInv, qemu_co_queue_run_restart, UNCHANGED <<pc, backupVars>>
        PROVE  SleepInv'
    <3>1. \E x \in Co : qemu_coroutine_enter(x)
      <4>1. PICK c \in Co, x \in Co : wakeup[c] # <<>> /\ x = Head(wakeup[c])
                                      /\ waits' = [waits EXCEPT ![x] = "none"]
                                      /\ running' = x
        BY Zenon, <2>6, RestartKeeps DEF QueueInv
      <4> QED
        BY Zenon, <4>1 DEF qemu_coroutine_enter
    <3> QED
      BY Zenon, <2>0, <2>6, <3>1, <1>SleepEnters DEF backupVars, jobVars, histVars, scanVars
  <2> QED
    BY Zenon, <2>1, <2>2, <2>3, <2>4, <2>5, <2>6
<1> QED
  <2> SUFFICES ASSUME LockInv, FlushInv, QueueInv, SleepInv, [Next]_vars PROVE SleepInv'
    OBVIOUS
  <2>0. Placed /\ Queued
    BY Zenon DEF LockInv, QueueInv
  <2>1. CASE Run
    BY Zenon, <2>0, <2>1, <1>CowSleep, <1>WriteSleep, <1>JobSleep, <1>PathSleep, <1>MainSleep DEF Run, BackupStep
  <2>2. CASE Events
    BY Zenon, <2>0, <2>2, <1>MainSleep DEF Events
  <2>3. CASE UNCHANGED vars
    BY Zenon, <2>3 DEF vars, coVars, backupVars, jobVars, histVars, SleepInv, scanVars
  <2> QED
    BY Zenon, <2>1, <2>2, <2>3 DEF Next

LEMMA SleepInit == Init => SleepInv
  BY DEF Init, BackupInit, SleepInv

----------------------------------------------------------------------------
(* The theorems about the queues.                                           *)

LEMMA Membership ==
  ASSUME Queued
  PROVE  /\ \A q \in Queues : \A x :
              x \in InSeq(entries[q]) <=>
                \E i \in 1 .. Len(Lists[InEntries(q)]) : Lists[InEntries(q)][i] = x
         /\ \A d \in Co : \A x :
              x \in InSeq(wakeup[d]) <=>
                \E i \in 1 .. Len(Lists[InWakeup(d)]) : Lists[InWakeup(d)][i] = x
<1>1. entries \in [Queues -> Seq(Co)] /\ wakeup \in [Co -> Seq(Co)]
  BY DEF Queued, CoTypeOK
<1>2. /\ \A q \in Queues : Lists[InEntries(q)] = entries[q]
      /\ \A d \in Co : Lists[InWakeup(d)] = wakeup[d]
  BY <1>1, ListsAre DEF Lists
<1>3. ASSUME NEW s \in Seq(Co), NEW x
      PROVE  x \in InSeq(s) <=> \E i \in 1 .. Len(s) : s[i] = x
  <2>1. DOMAIN s = 1 .. Len(s)
    OBVIOUS
  <2> QED
    BY Zenon, <2>1 DEF InSeq
<1>4. \A q \in Queues : entries[q] \in Seq(Co)
  BY <1>1
<1>5. \A d \in Co : wakeup[d] \in Seq(Co)
  BY <1>1
<1> QED
  BY ZenonT(40), <1>2, <1>3, <1>4, <1>5

\* Two lists that have a coroutine in common are the same one.
LEMMA OneList ==
  ASSUME Queued, NEW c
  PROVE  /\ \A q, r \in Queues :
              c \in InSeq(entries[q]) /\ c \in InSeq(entries[r]) => q = r
         /\ \A d, e \in Co :
              c \in InSeq(wakeup[d]) /\ c \in InSeq(wakeup[e]) => d = e
         /\ \A q \in Queues, d \in Co :
              ~(c \in InSeq(entries[q]) /\ c \in InSeq(wakeup[d]))
<1> DEFINE In(n) == \E i \in 1 .. Len(Lists[n]) : Lists[n][i] = c
<1>1. \A m, n \in Names : In(m) /\ In(n) => m = n
  BY DEF Queued, Once
<1>2. /\ \A q \in Queues : c \in InSeq(entries[q]) <=> In(InEntries(q))
      /\ \A d \in Co : c \in InSeq(wakeup[d]) <=> In(InWakeup(d))
  BY Zenon, Membership
<1> HIDE DEF In
<1> QED
  BY ZenonT(40), <1>1, <1>2, NamesAre

\* All of LinkedOnce but for the counting.
LinkedLists ==
  /\ TypeOK
  /\ \A c \in Co : waits[c] = "queue" <=> \/ \E q \in Queues : c \in InSeq(entries[q])
                                         \/ \E d \in Co : c \in InSeq(wakeup[d])
  /\ \A l \in Links : \A i, j \in DOMAIN l : l[i] = l[j] => i = j

LEMMA LinkedAre == LockInv /\ QueueInv /\ BoundInv => LinkedLists
<1> SUFFICES ASSUME LockInv, QueueInv, BoundInv PROVE LinkedLists
  OBVIOUS
<1>0. Queued
  BY DEF QueueInv
<1>1. TypeOK
  BY Zenon DEF LockInv, LockFields, Placed, QueueInv, Queued, BoundInv, TypeOK
<1>2. ASSUME NEW c \in Co
      PROVE  waits[c] = "queue" <=> \/ \E q \in Queues : c \in InSeq(entries[q])
                                    \/ \E d \in Co : c \in InSeq(wakeup[d])
  <2> DEFINE In(n) == \E i \in 1 .. Len(Lists[n]) : Lists[n][i] = c
  <2>1. waits[c] = "queue" <=> \E n \in Names : In(n)
    BY Zenon, <1>0 DEF Queued, Linked, Has
  <2>2. /\ \A q \in Queues : c \in InSeq(entries[q]) <=> In(InEntries(q))
        /\ \A d \in Co : c \in InSeq(wakeup[d]) <=> In(InWakeup(d))
    BY Zenon, <1>0, Membership
  <2> HIDE DEF In
  <2>3. (\E n \in Names : In(n)) <=> \/ \E q \in Queues : In(InEntries(q))
                                     \/ \E d \in Co : In(InWakeup(d))
    <3>1. ASSUME NEW n \in Names, In(n)
          PROVE  (\E q \in Queues : In(InEntries(q))) \/ \E d \in Co : In(InWakeup(d))
      <4>1. (\E q \in Queues : n = InEntries(q)) \/ \E d \in Co : n = InWakeup(d)
        BY Zenon, NamesAre
      <4> QED
        BY Zenon, <3>1, <4>1
    <3>2. /\ \A q \in Queues : InEntries(q) \in Names
          /\ \A d \in Co : InWakeup(d) \in Names
      BY NamesAre
    <3> QED
      BY <3>1, <3>2
  <2> QED
    BY ZenonT(40), <2>1, <2>2, <2>3
<1>3. ASSUME NEW l \in Links, NEW i \in DOMAIN l, NEW j \in DOMAIN l, l[i] = l[j]
      PROVE  i = j
  <2>0. /\ entries \in [Queues -> Seq(Co)] /\ wakeup \in [Co -> Seq(Co)]
        /\ \A q \in Queues : Lists[InEntries(q)] = entries[q]
        /\ \A d \in Co : Lists[InWakeup(d)] = wakeup[d]
    BY ZenonT(40), <1>0, ListsAre DEF Lists, Queued, CoTypeOK
  <2>1. PICK n \in Names : l = Lists[n] /\ l \in Seq(Co)
    <3>1. ASSUME NEW q \in Queues, l = entries[q]
          PROVE  \E n \in Names : l = Lists[n] /\ l \in Seq(Co)
      <4>1. InEntries(q) \in Names /\ l = Lists[InEntries(q)] /\ l \in Seq(Co)
        BY Zenon, <2>0, <3>1, NamesAre
      <4> QED
        BY Zenon, <4>1
    <3>2. ASSUME NEW d \in Co, l = wakeup[d]
          PROVE  \E n \in Names : l = Lists[n] /\ l \in Seq(Co)
      <4>1. InWakeup(d) \in Names /\ l = Lists[InWakeup(d)] /\ l \in Seq(Co)
        BY Zenon, <2>0, <3>2, NamesAre
      <4> QED
        BY Zenon, <4>1
    <3> QED
      BY Zenon, <3>1, <3>2 DEF Links
  <2>2. DOMAIN l = 1 .. Len(l)
    BY <2>1
  <2>3. i \in 1 .. Len(Lists[n]) /\ j \in 1 .. Len(Lists[n]) /\ Lists[n][i] = Lists[n][j]
    BY Zenon, <1>3, <2>1, <2>2
  <2>4. Once(Names, Lists)
    BY <1>0 DEF Queued
  <2> QED
    BY Zenon, <2>3, <2>4 DEF Once
<1> QED
  BY Zenon, <1>1, <1>2, <1>3 DEF LinkedLists

\* Somebody who looks at the lock next is running or some loop gets to them.
LEMMA LooksAwake ==
  ASSUME Queued, Pending, NEW w \in Co, NEW places, pc[w] \in places,
         running = w \/ \E d \in Co : w \in InSeq(wakeup[d])
  PROVE  Awake(places)
<1>1. CASE running = w
  BY <1>1 DEF Awake
<1>2. ASSUME NEW d \in Co, w \in InSeq(wakeup[d]) PROVE Awake(places)
  <2>1. wakeup[d] # <<>>
    BY ZenonT(40), <1>2, InEmpty
  <2>2. d \in {running} \cup InSeq(restarting)
    BY Zenon, <2>1 DEF Pending
  <2> QED
    BY Zenon, <1>2, <2>2 DEF Awake
<1> QED
  BY ZenonT(40), <1>1, <1>2

LEMMA WakeupsAre == LockInv /\ QueueInv => WakeupsKept
<1> SUFFICES ASSUME LockInv, QueueInv PROVE WakeupsKept
  OBVIOUS
<1>0. /\ Queued /\ Pending /\ Inflight
      /\ \A q \in LockQueues : Served(q)
      /\ "mutex" \in LockQueues /\ "flush" \in LockQueues /\ "rename" \in LockQueues
  BY Zenon DEF QueueInv, LockQueues, RwLocks
<1>1. entries["mutex"] # <<>> => locked \/ Awake({"read_lock", "write_lock", "is_allocated"})
  <2>1. Looks("mutex") => Awake({"read_lock", "write_lock", "is_allocated"})
    BY <1>0, LooksAwake DEF Looks, WaitsAt
  <2> QED
    BY <1>0, <2>1 DEF Served, Busy
<1>2. entries["flush"] # <<>> =>
        writer["flush"] \/ reader["flush"] > 0 \/ Awake({"rdlock", "wrlock"})
  <2>1. Looks("flush") => Awake({"rdlock", "wrlock"})
    BY <1>0, LooksAwake DEF Looks, WaitsAt
  <2> QED
    BY <1>0, <2>1 DEF Served, Busy
<1>3. entries["rename"] # <<>> =>
        writer["rename"] \/ reader["rename"] > 0 \/ Awake(LockPlaces)
  <2>1. ASSUME Looks("rename") PROVE writer["rename"] \/ Awake(LockPlaces)
    <3>1. PICK w \in Co : /\ pc[w] \in LockPlaces \cup {"nested"}
                          /\ running = w \/ \E d \in Co : w \in InSeq(wakeup[d])
      BY <2>1 DEF Looks, WaitsAt
    <3>2. CASE pc[w] \in LockPlaces
      BY Zenon, <1>0, <3>1, <3>2, LooksAwake
    <3>3. CASE pc[w] = "nested"
      <4>1. Alone("rename") \in HeldAt[pc[w]]
        <5>1. "nested" \in Places /\ Alone("rename") \in Holds
          BY DEF Places, PathPlaces, Holds, RwLocks, Alone
        <5>2. "nested" \in Holding(Alone("rename"))
          BY DEF Holding, Alone
        <5> QED
          BY <3>3, <5>1, <5>2 DEF HeldAt
      <4>2. w \in Holders(Alone("rename"))
        BY <4>1 DEF Holders, held
      <4> QED
        BY <4>2 DEF LockInv, LockFields, RwLocks
    <3> QED
      BY <3>1, <3>2, <3>3
  <2> QED
    BY ZenonT(40), <1>0, <2>1 DEF Served, Busy
<1>4. \A c \in Co : entries[c] # <<>> => c \in InSeq(inflight_reqs)
  BY <1>0 DEF Inflight, Listed, InList, InSeq
<1> QED
  BY <1>1, <1>2, <1>3, <1>4 DEF WakeupsKept

LEMMA FlushNext == LockInv /\ FlushInv /\ [Next]_vars => FlushInv'

(* What the flush lock ensures.                                            *)
\* A coroutine goes on, or yields, at a place that is not one of the prompt
\* ones, and is in a call or in the job only if it was before.
<1>CoMoves.
  ASSUME LockInv, FlushInv, NEW c \in Co, running = c,
         pc[c] \notin {"start", "dead", "wrunlock"},
         NEW p \in Places \ {"wrunlock"}, Moves(c, p),
         GoesOn \/ (p # "rdlock" /\ \E r \in Reasons \ {"start", "dead"} : Halts(c, r)),
         p \in Calls => pc[c] \in CowPlaces \/ (c = Job /\ pc[c] \in JobPlaces),
         p \in JobPlaces => c = Job, p = "wrlock" => ~before_write',
         p \in ClosePlaces => pc[c] \in ClosePlaces,
         UNCHANGED job, before_write' = before_write \/ ~before_write'
  PROVE  FlushInv'
  <2> USE <1>CoMoves
  <2>1. pc \in [Co -> Places] /\ waits \in [Co -> Reasons] /\ Job \in Co
    BY BackupAssumption DEF LockInv, Placed
  <2>2. \A d \in Co : pc'[d] = IF d = c THEN p ELSE pc[d]
    BY Zenon, <2>1 DEF Moves
  <2>3. Prompt'
    <3>1. \A d \in Co \ {c} : pc[d] \notin {"rdlock", "wrunlock"}
      BY Zenon DEF FlushInv, Prompt
    <3>2. pc'[c] = "rdlock" => running' = c
      BY <2>2 DEF GoesOn
    <3>3. \A d \in Co : waits'[d] \in {"start", "dead"} => waits'[d] = waits[d]
      BY Zenon, <2>1 DEF GoesOn, Halts, Waits
    <3>4. waits[c] \notin {"start", "dead"}
      BY Zenon DEF FlushInv, Prompt
    <3>5. waits'[c] \notin {"start", "dead"}
      BY Zenon, <3>3, <3>4
    <3> QED
      BY Zenon, <2>2, <3>1, <3>2, <3>3, <3>5 DEF FlushInv, Prompt
  <2>4. pc[Job] # "wrunlock" /\ pc'[Job] # "wrunlock"
    BY Zenon, <2>1, <2>2 DEF FlushInv, Prompt
  <2>5. p \in Calls => job = "active"
    BY Zenon, <2>1 DEF FlushInv, JobState
  <2>6. JobState'
    <3>1. before_write' => job' = "active" /\ pc'[Job] \notin {"wrlock", "wrunlock"} \cup ClosePlaces
      BY Zenon, <2>1, <2>2, <2>4 DEF FlushInv, JobState
    <3>2. pc'[Job] \in JobPlaces => job' = "active"
      BY Zenon, <2>1, <2>2, <2>5 DEF FlushInv, JobState, Calls
    <3>3. \A d \in Co : pc'[d] \in CowPlaces => job' = "active"
      BY Zenon, <2>1, <2>2, <2>5 DEF FlushInv, JobState, Calls
    <3>4. ASSUME pc'[Job] \in ClosePlaces, NEW d \in Co PROVE pc'[d] \notin CowPlaces
      <4>1. pc[Job] \in ClosePlaces
        BY Zenon, <2>1, <2>2, <3>4
      <4>2. c = Job => p \notin CowPlaces
        BY Zenon, <2>1, <2>2, <3>4, CallsAre DEF ClosePlaces
      <4> QED
        BY Zenon, <2>2, <4>1, <4>2 DEF FlushInv, JobState, Calls
    <3> QED
      BY Zenon, <2>4, <3>1, <3>2, <3>3, <3>4 DEF JobState
  <2> QED
    BY Zenon, <2>3, <2>6 DEF FlushInv
<1>CoWaits.
  ASSUME LockInv, FlushInv, NEW c \in Co, running = c,
         pc[c] \notin {"rdlock", "wrunlock"}, pc' = pc, Halts(c, "queue"),
         UNCHANGED <<job, before_write>>
  PROVE  FlushInv'
  <2> USE <1>CoWaits
  <2>1. \A d \in Co : pc[d] \notin {"rdlock", "wrunlock"}
    BY DEF FlushInv, Prompt
  <2>2. \A d \in Co : waits'[d] \in {"start", "dead"} => waits'[d] = waits[d]
    BY Zenon DEF Halts, Waits, LockInv, Placed
  <2>3. Prompt'
    BY Zenon, <2>1, <2>2 DEF FlushInv, Prompt
  <2> QED
    BY Zenon, <2>3 DEF FlushInv, JobState

\* The leader enters a coroutine.
<1>CoEntered.
  ASSUME LockInv, FlushInv, running = "leader", NEW x, qemu_coroutine_enter(x),
         pc' = pc, UNCHANGED <<job, before_write>>
  PROVE  FlushInv'
  <2> USE <1>CoEntered
  <2>1. \A d \in Co : pc[d] \notin {"rdlock", "wrunlock"}
    BY CoAssumption DEF FlushInv, Prompt
  <2>2. \A d \in Co : waits'[d] \in {"start", "dead"} => waits'[d] = waits[d]
    BY DEF qemu_coroutine_enter, LockInv, Placed
  <2>3. Prompt'
    BY <2>1, <2>2 DEF FlushInv, Prompt
  <2> QED
    BY <2>3 DEF FlushInv, JobState
<1>CoStarted.
  ASSUME LockInv, FlushInv, running = "leader", NEW c \in Co, waits[c] = "start",
         NEW p \in Places \ ({"wrlock", "wrunlock"} \cup ClosePlaces),
         qemu_coroutine_enter(c), Moves(c, p),
         p \in Calls => job' = "active" /\ before_write', p \in JobPlaces => c = Job,
         \/ UNCHANGED <<job, before_write>>
         \/ job' = "active" /\ before_write' = TRUE /\ c = Job
  PROVE  FlushInv'
  <2> USE <1>CoStarted
  <2>1. pc \in [Co -> Places] /\ waits \in [Co -> Reasons] /\ Job \in Co
    BY BackupAssumption DEF LockInv, Placed
  <2>2. \A d \in Co : pc'[d] = IF d = c THEN p ELSE pc[d]
    BY <2>1 DEF Moves
  <2>3. \A d \in Co : pc[d] \notin {"rdlock", "wrunlock"}
    BY CoAssumption DEF FlushInv, Prompt
  <2>4. /\ running' = c /\ waits'[c] \notin {"start", "dead"}
        /\ \A d \in Co : waits'[d] \in {"start", "dead"} => waits'[d] = waits[d]
    BY Zenon, <2>1 DEF qemu_coroutine_enter
  <2>5. Prompt'
    BY Zenon, <2>2, <2>3, <2>4 DEF FlushInv, Prompt
  <2>6. JobState'
    <3>1. /\ before_write' => job' = "active" /\ pc'[Job] \notin {"wrlock", "wrunlock"} \cup ClosePlaces
          /\ pc'[Job] \in JobPlaces => job' = "active"
      BY Zenon, <2>1, <2>2 DEF FlushInv, JobState, Calls
    <3>2. \A d \in Co : pc'[d] \in CowPlaces => job' = "active"
      BY Zenon, <2>2 DEF FlushInv, JobState, Calls
    <3>3. ASSUME pc'[Job] \in {"wrunlock"} \cup ClosePlaces, NEW d \in Co PROVE pc'[d] \notin CowPlaces
      <4>1. c # Job /\ pc[Job] \in ClosePlaces
        BY Zenon, <2>1, <2>2, <2>3, <3>3
      <4>2. p \notin CowPlaces
        BY Zenon, <3>1, <3>3 DEF Calls
      <4> QED
        BY Zenon, <2>2, <4>1, <4>2 DEF FlushInv, JobState
    <3> QED
      BY Zenon, <3>1, <3>2, <3>3 DEF JobState
  <2> QED
    BY Zenon, <2>5, <2>6 DEF FlushInv

\* Only the job, when it has just got the lock, is its writer; a reader of it
\* is in a call.
<1>OnlyWriter.
  ASSUME Placed, NEW c \in Co
  PROVE  /\ Alone("flush") \in held[c] => pc[c] = "wrunlock"
         /\ pc[c] \in CowPlaces \ {"rdlock"} => Shared("flush") \in held[c]
  <2> USE <1>OnlyWriter
  <2>1. held[c] = HeldAt[pc[c]] /\ pc[c] \in Places
    BY PlaceHeld DEF Placed
  <2>2. /\ Alone("flush") # Mutex /\ Alone("flush") # Shared("flush")
        /\ Alone("flush") # Shared("rename") /\ Alone("flush") # Alone("rename")
    BY Zenon DEF Mutex, Alone, Shared
  <2>3. Alone("flush") \in HeldAt[pc[c]] => pc[c] = "wrunlock"
    BY <2>1, <2>2, HeldTable, PlacesAre
  <2>4. pc[c] \in CowPlaces \ {"rdlock"} => Shared("flush") \in HeldAt[pc[c]]
    BY Zenon, HeldTable, CallsAre
  <2> QED
    BY Zenon, <2>1, <2>3, <2>4
<1>CowFlush.
  ASSUME LockInv, FlushInv, NEW c \in Co, running = c, backup_do_cow(c)
  PROVE  FlushInv'
  <2> USE <1>CowFlush
  <2>1. ASSUME CowRdLock(c) PROVE FlushInv'
    <3>1. pc[c] = "rdlock"
      BY Zenon, <2>1 DEF CowRdLock, At
    <3>2. ~writer["flush"]
      <4> SUFFICES ASSUME writer["flush"] PROVE FALSE
        BY Zenon
      <4>1. PICK d \in Co : Alone("flush") \in held[d]
        BY DEF LockInv, LockFields, Holders, RwLocks
      <4>2. pc[d] = "wrunlock"
        BY Zenon, <4>1, <1>OnlyWriter DEF LockInv
      <4> QED
        BY <3>1, <4>2 DEF FlushInv, Prompt
    <3>3. Moves(c, "overlap") /\ GoesOn
      BY Zenon, <2>1, <3>2, Runs DEF CowRdLock
    <3> QED
      BY Zenon, <2>1, <3>1, <3>3, <1>CoMoves, CallsAre, PlacesAre DEF CowRdLock, backupVars, jobVars, scanVars, ClosePlaces
  <2>2. ASSUME CowWait(c) PROVE FlushInv'
    BY Zenon, <2>2, <1>CoWaits, <1>CoMoves, Runs, CallsAre, PlacesAre DEF CowWait, backupVars, jobVars, At, scanVars, ClosePlaces
  <2>3. ASSUME CowBegin(c) PROVE FlushInv'
    BY Zenon, <2>3, <1>CoMoves, Runs, CallsAre, PlacesAre DEF CowBegin, jobVars, At, scanVars, ClosePlaces
  <2>4. ASSUME CowLoop(c) PROVE FlushInv'
    BY Zenon, <2>4, <1>CoMoves, Runs, CallsAre, PlacesAre DEF CowLoop, jobVars, At, scanVars, ClosePlaces
  <2>5. ASSUME ReadLock(c) PROVE FlushInv'
    BY Zenon, <2>5, <1>CoWaits, <1>CoMoves, Runs, CallsAre, PlacesAre DEF ReadLock, backupVars, jobVars, At, scanVars, ClosePlaces
  <2>6. ASSUME Read(c) PROVE FlushInv'
    BY Zenon, <2>6, <1>CoMoves, Runs, CallsAre, PlacesAre DEF Read, backupVars, jobVars, Reasons, At, scanVars, ClosePlaces
  <2>7. ASSUME ReadDone(c) PROVE FlushInv'
    BY Zenon, <2>7, <1>CoMoves, Runs, CallsAre, PlacesAre DEF ReadDone, jobVars, At, scanVars, ClosePlaces
  <2>8. ASSUME WriteTarget(c) PROVE FlushInv'
    BY Zenon, <2>8, <1>CoMoves, Runs, CallsAre, PlacesAre DEF WriteTarget, backupVars, jobVars, Reasons, At, scanVars, ClosePlaces
  <2>9. ASSUME TargetDone(c) PROVE FlushInv'
    BY Zenon, <2>9, <1>CoMoves, Runs, CallsAre, PlacesAre DEF TargetDone, jobVars, At, scanVars, ClosePlaces
  <2>10. ASSUME CowEnd(c) PROVE FlushInv'
    BY <2>10, <1>CoMoves, Runs, CallsAre, PlacesAre, Zenon DEF CowEnd, jobVars, At, scanVars, ClosePlaces
  <2>11. ASSUME CowUnlock(c) PROVE FlushInv'
    BY Zenon, <2>11, <1>CoMoves, Runs, CallsAre, PlacesAre DEF CowUnlock, backupVars, jobVars, At, scanVars, ClosePlaces
  <2> QED
    BY Zenon, <2>1, <2>2, <2>3, <2>4, <2>5, <2>6, <2>7, <2>8, <2>9, <2>10, <2>11 DEF backup_do_cow
<1>WriteFlush.
  ASSUME LockInv, FlushInv, NEW c \in Co, running = c, WriteLock(c) \/ Write(c) \/ WriteDone(c)
  PROVE  FlushInv'
  <2> USE <1>WriteFlush
  <2>1. ASSUME WriteLock(c) PROVE FlushInv'
    BY Zenon, <2>1, <1>CoWaits, <1>CoMoves, Runs, CallsAre, PlacesAre DEF WriteLock, backupVars, jobVars, At, scanVars, ClosePlaces
  <2>2. ASSUME Write(c) PROVE FlushInv'
    BY Zenon, <2>2, <1>CoMoves, Runs, CallsAre, PlacesAre DEF Write, backupVars, jobVars, Reasons, At, scanVars, ClosePlaces
  <2>3. ASSUME WriteDone(c) PROVE FlushInv'
    BY <2>3, <1>CoMoves, Runs, CallsAre, PlacesAre, Zenon DEF WriteDone, jobVars, At, scanVars, ClosePlaces
  <2> QED
    BY Zenon, <2>1, <2>2, <2>3
<1>JobFlush.
  ASSUME LockInv, FlushInv, NEW c \in Co, running = c, c = Job, backup_run
  PROVE  FlushInv'
  <2> USE <1>JobFlush
  <2>1. ASSUME JobFor PROVE FlushInv'
    BY Zenon, <2>1, <1>CoMoves, Runs, CallsAre, PlacesAre DEF JobFor, Reasons, At, scanVars, ClosePlaces
  <2>2. ASSUME JobSlept PROVE FlushInv'
    BY Zenon, <2>2, <1>CoMoves, Runs, CallsAre, PlacesAre DEF JobSlept, At, scanVars, ClosePlaces
  <2>3. ASSUME JobAllocLock PROVE FlushInv'
    BY Zenon, <2>3, <1>CoWaits, <1>CoMoves, Runs, CallsAre, PlacesAre DEF JobAllocLock, backupVars, jobVars, At, scanVars, ClosePlaces
  <2>4. ASSUME JobAlloc PROVE FlushInv'
    BY Zenon, <2>4, <1>CoMoves, Runs, CallsAre, PlacesAre DEF JobAlloc, backupVars, jobVars, Reasons, At, scanVars, ClosePlaces
  <2>5. ASSUME JobAllocated PROVE FlushInv'
    BY <2>5, <1>CoMoves, Runs, CallsAre, PlacesAre DEF JobAllocated, Unallocated, At, ClosePlaces
  <2>6. ASSUME JobCowed PROVE FlushInv'
    BY <2>6, <1>CoMoves, Runs, CallsAre, PlacesAre, Zenon DEF JobCowed, At, scanVars, ClosePlaces
  <2>7. ASSUME JobRemove PROVE FlushInv'
    BY Zenon, <2>7, <1>CoMoves, Runs, CallsAre, PlacesAre DEF JobRemove, At, scanVars, ClosePlaces
  <2>8. ASSUME JobWrLock PROVE FlushInv'
    <3>1. CASE pc' = pc /\ Halts(Job, "queue")
      BY <2>8, <3>1, <1>CoWaits DEF JobWrLock, At, backupVars, jobVars, scanVars
    <3>2. CASE Moves(Job, "wrunlock") /\ GoesOn /\ ~(reader["flush"] > 0)
      <4>1. Holders(Shared("flush")) = {}
        BY <3>2, HoldersFinite DEF LockInv, LockFields, RwLocks
      <4>2. pc[Job] = "wrlock" /\ running = Job
        BY Zenon, <2>8 DEF JobWrLock, At
      <4>3. \A d \in Co : pc[d] \notin CowPlaces
        BY Zenon, <4>1, <4>2, <1>OnlyWriter, CallsAre DEF LockInv, Holders, FlushInv, Prompt
      <4>4. \A d \in Co : pc'[d] = IF d = Job THEN "wrunlock" ELSE pc[d]
        BY Zenon, <3>2 DEF Moves, LockInv, Placed
      <4>5. Prompt'
        BY Zenon, <3>2, <4>2, <4>4 DEF GoesOn, FlushInv, Prompt
      <4>6. JobState'
        BY Zenon, <2>8, <4>2, <4>3, <4>4, CallsAre
        DEF FlushInv, JobState, JobWrLock, backupVars, jobVars, scanVars
      <4> QED
        BY Zenon, <4>5, <4>6 DEF FlushInv
    <3> QED
      BY Zenon, <2>8, <3>1, <3>2, Runs DEF JobWrLock
  <2>9. ASSUME JobFlushed \/ JobCompleted PROVE FlushInv'
    <3>1. PICK p \in {"close", "complete"} :
            /\ pc[Job] \in {"wrunlock"} \cup ClosePlaces /\ running = Job
            /\ Moves(Job, p) /\ GoesOn /\ UNCHANGED before_write
            /\ IF p = "close" THEN UNCHANGED job ELSE job' = "done"
      BY Zenon, <2>9, Runs DEF JobFlushed, JobCompleted, At, ClosePlaces, jobVars
    <3>2. \A d \in Co : pc'[d] = IF d = Job THEN p ELSE pc[d]
      BY Zenon, <3>1 DEF Moves, LockInv, Placed
    <3>3. Prompt'
      BY <3>1, <3>2, Zenon DEF GoesOn, FlushInv, Prompt, ClosePlaces
    <3>4. ~before_write /\ job = "active" /\ \A d \in Co : pc[d] \notin CowPlaces
      BY <3>1, CallsAre, Zenon DEF FlushInv, JobState, ClosePlaces
    <3>5. p \notin CowPlaces /\ (p \in JobPlaces => job' = "active")
      BY <3>1, <3>4, CallsAre, Zenon
    <3>6. JobState'
      BY <3>1, <3>2, <3>4, <3>5, Zenon DEF JobState
    <3> QED
      BY <3>3, <3>6 DEF FlushInv
  <2>10. ASSUME bdrv_drain_all PROVE FlushInv'
    BY Zenon, <2>10, <1>CoMoves, Runs, CallsAre, PlacesAre DEF bdrv_drain_all, backupVars, jobVars, Reasons, At, ClosePlaces
  <2>11. ASSUME JobFlush PROVE FlushInv'
    BY Zenon, <2>11, <1>CoMoves, Runs, CallsAre, PlacesAre DEF JobFlush, backupVars, jobVars, Reasons, At, ClosePlaces
  <2> QED
    BY Zenon, <2>1, <2>2, <2>3, <2>4, <2>5, <2>6, <2>7, <2>8, <2>9, <2>10, <2>11 DEF backup_run
<1>PathFlush.
  ASSUME LockInv, FlushInv, NEW c \in Co, running = c, PathStep(c), UNCHANGED backupVars
  PROVE  FlushInv'
  <2> USE <1>PathFlush
  <2>1. ASSUME v9fs_path_read_lock(c) PROVE FlushInv'
    BY Zenon, <2>1, <1>CoWaits, <1>CoMoves, Runs, CallsAre, PlacesAre DEF v9fs_path_read_lock, backupVars, jobVars, At, scanVars, ClosePlaces
  <2>2. ASSUME v9fs_path_write_lock(c) PROVE FlushInv'
    BY Zenon, <2>2, <1>CoWaits, <1>CoMoves, Runs, CallsAre, PlacesAre DEF v9fs_path_write_lock, backupVars, jobVars, At, scanVars, ClosePlaces
  <2>3. ASSUME v9fs_co_run_in_worker(c) PROVE FlushInv'
    BY Zenon, <2>3, <1>CoMoves, Runs, CallsAre, PlacesAre DEF v9fs_co_run_in_worker, backupVars, jobVars, Reasons, At, scanVars, ClosePlaces
  <2>4. ASSUME RenameFails(c) PROVE FlushInv'
    BY Zenon, <2>4, <1>CoMoves, Runs, CallsAre, PlacesAre DEF RenameFails, backupVars, jobVars, At, scanVars, ClosePlaces
  <2>5. ASSUME v9fs_reopen_fid(c) \/ put_fid(c) PROVE FlushInv'
    BY Zenon, <2>5, <1>CoMoves, Runs, CallsAre, PlacesAre DEF v9fs_reopen_fid, put_fid, backupVars, jobVars, At, ClosePlaces
  <2>6. ASSUME NestedReadLock(c) PROVE FlushInv'
    BY Zenon, <2>6, <1>CoWaits, <1>CoMoves, Runs, CallsAre, PlacesAre DEF NestedReadLock, backupVars, jobVars, At, ClosePlaces
  <2>7. ASSUME v9fs_path_unlock(c) PROVE FlushInv'
    BY Zenon, <2>7, <1>CoMoves, Runs, CallsAre, PlacesAre DEF v9fs_path_unlock, backupVars, jobVars, LockPlaces, At, ClosePlaces
  <2> QED
    BY Zenon, <2>1, <2>2, <2>3, <2>4, <2>5, <2>6, <2>7 DEF PathStep
<1>MainFlush.
  ASSUME LockInv, FlushInv
  PROVE  /\ \A c \in Co : Complete(c) => FlushInv'
         /\ \A c \in Co : io_done(c) => FlushInv'
         /\ \A c \in Guests : bdrv_co_do_writev(c) => FlushInv'
         /\ \A c \in Co : submit_pdu(c) /\ UNCHANGED backupVars => FlushInv'
         /\ JobMain \/ DrainReturns => FlushInv'
         /\ qemu_co_queue_run_restart /\ UNCHANGED <<pc, backupVars>> => FlushInv'
  <2> USE <1>MainFlush
  <2>1. ASSUME NEW c \in Co, Complete(c) PROVE FlushInv'
    <3>1. /\ pc[c] = "complete" /\ running = c /\ Moves(c, "dead") /\ Halts(c, "dead")
          /\ UNCHANGED <<job, before_write>>
      BY <2>1, Runs, Zenon DEF Complete, At, SwitchBack, Halts, Waits, jobVars, scanVars
    <3>2. \A d \in Co : pc'[d] = IF d = c THEN "dead" ELSE pc[d]
      BY <3>1 DEF Moves, LockInv, Placed
    <3>3. \A d \in Co : waits'[d] = IF d = c THEN "dead" ELSE waits[d]
      BY Zenon, <3>1 DEF Halts, Waits, LockInv, Placed
    <3>4. \A d \in Co : pc[d] \notin {"rdlock", "wrunlock"}
      BY Zenon, <3>1 DEF FlushInv, Prompt
    <3>5. Prompt'
      BY Zenon, <3>2, <3>3, <3>4 DEF FlushInv, Prompt
    <3>6. JobState'
      BY Zenon, <3>1, <3>2, CallsAre, BackupAssumption DEF FlushInv, JobState, ClosePlaces
    <3> QED
      BY <3>5, <3>6 DEF FlushInv
  <2>2. ASSUME NEW c \in Co, io_done(c) PROVE FlushInv'
    BY Zenon, <2>2, <1>CoEntered DEF io_done, MainIdle, backupVars, jobVars, scanVars
  <2>3. ASSUME NEW c \in Guests, bdrv_co_do_writev(c) PROVE FlushInv'
    <3>1. c \in Co /\ c # Job
      BY DEF Guests
    <3>2. PICK p \in {"rdlock", "write_lock"} :
             Moves(c, p) /\ (p = "rdlock" => job = "active" /\ before_write)
      BY <2>3, Zenon DEF bdrv_co_do_writev, Goto, Moves, FlushInv, JobState
    <3>3. /\ running = "leader" /\ waits[c] = "start" /\ qemu_coroutine_enter(c)
          /\ UNCHANGED <<job, before_write>>
      BY Zenon, <2>3 DEF bdrv_co_do_writev, MainIdle, jobVars, scanVars
    <3> QED
      BY Zenon, <3>1, <3>2, <3>3, <1>CoStarted, CallsAre, PlacesAre DEF ClosePlaces
  <2>4. ASSUME NEW c \in Co, submit_pdu(c), UNCHANGED backupVars PROVE FlushInv'
    BY Zenon, <2>4, <1>CoStarted, Runs, CallsAre, PlacesAre
    DEF submit_pdu, MainIdle, LockPlaces, ClosePlaces, backupVars, jobVars
  <2>5. ASSUME JobMain \/ DrainReturns PROVE FlushInv'
    <3>1. CASE backup_start
      BY Zenon, <3>1, BackupAssumption, <1>CoStarted, Runs, CallsAre, PlacesAre
      DEF backup_start, MainIdle, ClosePlaces
    <3>2. CASE co_sleep_cb \/ DrainReturns
      BY Zenon, <3>2, <1>CoEntered DEF co_sleep_cb, DrainReturns, Enters, MainIdle, jobVars, scanVars
    <3>3. ASSUME Command, UNCHANGED coVars PROVE FlushInv'
      BY Zenon, <3>3 DEF Command, coVars, FlushInv, Prompt, JobState, scanVars
    <3>4. ASSUME Command, Enters(Job, {"timer", "resume"}) PROVE FlushInv'
      BY Zenon, <3>4, <1>CoEntered DEF Command, Enters, MainIdle, scanVars
    <3> QED
      BY Zenon, <2>5, <3>1, <3>2, <3>3, <3>4
      DEF JobMain, block_job_pause, block_job_resume, block_job_cancel, ResumeJob
  <2>6. ASSUME qemu_co_queue_run_restart, UNCHANGED <<pc, backupVars>>
        PROVE  FlushInv'
    BY Zenon, <2>6, <1>CoEntered DEF qemu_co_queue_run_restart, backupVars, jobVars, scanVars
  <2> QED
    BY Zenon, <2>1, <2>2, <2>3, <2>4, <2>5, <2>6
<1> QED
  <2> SUFFICES ASSUME LockInv, FlushInv, [Next]_vars PROVE FlushInv'
    BY Zenon
  <2>1. CASE Run
    BY Zenon, <2>1, <1>CowFlush, <1>WriteFlush, <1>JobFlush, <1>PathFlush, <1>MainFlush
    DEF Run, BackupStep
  <2>2. CASE Events
    BY Zenon, <2>2, <1>MainFlush DEF Events
  <2>3. CASE UNCHANGED vars
    BY Zenon, <2>3 DEF vars, coVars, backupVars, jobVars, FlushInv, Prompt, JobState, scanVars
  <2> QED
    BY <2>1, <2>2, <2>3 DEF Next

LEMMA FlushInit == Init => FlushInv
  BY CallsAre, BackupAssumption
  DEF Init, CoInit, BackupInit, FlushInv, Prompt, JobState

LEMMA FlushInvariant == Spec => [](LockInv /\ FlushInv)
<1> USE LocksInvariant, FlushInit, FlushNext
<1> HIDE DEF LockInv, FlushInv
<1> QED
  BY PTL DEF Spec

\* When backup_run frees the job, its bitmap and its target, no backup_do_cow
\* is under way or about to take flush_rwlock (block/backup.c:332-338), for
\* every number of requests: taking the write lock once is enough.
THEOREM Flushed == Spec => []FlushedBeforeFree
<1>1. FlushInv => FlushedBeforeFree
  BY DEF FlushInv, JobState, FlushedBeforeFree
<1> HIDE DEF LockInv, FlushInv, FlushedBeforeFree
<1> QED
  BY <1>1, FlushInvariant, PTL

LEMMA CopyInvariant == Spec => []CopyInv
<1>1. LockInv => Somewhere
  BY DEF LockInv, Placed, Somewhere
<1> USE <1>1, FlushInvariant, CopyInit, CopyNext
<1> HIDE DEF LockInv, FlushInv, CopyInv, Somewhere
<1> QED
  BY PTL DEF Spec

\* wait_for_overlapping_requests and cow_request_begin keep two calls of
\* backup_do_cow from copying the same cluster at a time, however many wait
\* (block/backup.c:51-85).
THEOREM OneCall == Spec => []OneCopier
<1>1. CopyInv => OneCopier
  BY Zenon DEF CopyInv, Calling
<1> HIDE DEF CopyInv, OneCopier
<1> QED
  BY <1>1, CopyInvariant, PTL

\* backup_do_cow in the notifier and backup_run's loop make a copy as of the
\* start of the job (block/backup.c:87-176, 262-338): while the notifier is
\* there, what counts as copied is from the start and what does not is
\* untouched; and a full backup without error leaves nothing else.
THEOREM CopyAsOfStart == Spec => []PointInTime
<1>1. CopyInv => PointInTime
  BY Zenon DEF CopyInv, CopyData, Kept, FullCopy, PointInTime
<1> HIDE DEF CopyInv, PointInTime
<1> QED
  BY <1>1, CopyInvariant, PTL

----------------------------------------------------------------------------
(* The queues.                                                              *)

LEMMA ListsKept == CopyInv => ListSteps
<1> SUFFICES ASSUME CopyInv, NEW c \in Co
    PROVE  /\ CowBegin(c) => \A d \in Co : Listed(d) => Listed(d)'
           /\ CowEnd(c) => \A d \in Co : d # c /\ Listed(d) => Listed(d)'
  BY Zenon DEF ListSteps
<1>0. inflight_reqs \in Seq(Co)
  BY DEF CopyInv, CopyTypes
<1>1. ASSUME CowBegin(c), NEW d \in Co, Listed(d) PROVE Listed(d)'
  <2>1. inflight_reqs' = <<c>> \o inflight_reqs
    BY Zenon, <1>1 DEF CowBegin
  <2> QED
    BY Zenon, <1>0, <1>1, <2>1, Pushed DEF Listed
<1>2. ASSUME CowEnd(c), NEW d \in Co, d # c, Listed(d) PROVE Listed(d)'
  <2>1. PICK i \in DOMAIN inflight_reqs :
          /\ inflight_reqs[i] = c
          /\ inflight_reqs' = SubSeq(inflight_reqs, 1, i - 1)
                                \o SubSeq(inflight_reqs, i + 1, Len(inflight_reqs))
    BY <1>2, Zenon DEF CowEnd
  <2> QED
    BY Zenon, <1>0, <1>2, <2>1, Dropped DEF Listed
<1> QED
  BY Zenon, <1>1, <1>2

LEMMA QueueInvariant == Spec => [](LockInv /\ QueueInv /\ SleepInv /\ BoundInv)
<1> USE FlushInvariant, CopyInvariant, ListsKept, QueueInit, QueueNext, SleepInit, SleepNext,
        BoundInit, BoundNext
<1> HIDE DEF LockInv, FlushInv, CopyInv, ListSteps, QueueInv, SleepInv, BoundInv
<1> QED
  BY PTL DEF Spec

LEMMA AtMostOne ==
  ASSUME NEW S, \A x, y \in S : x = y
  PROVE  Cardinality(S) \in {0, 1} /\ (Cardinality(S) = 1 => S # {})
<1>1. CASE S = {}
  BY <1>1, FS_EmptySet
<1>2. ASSUME NEW x \in S PROVE Cardinality(S) = 1
  <2>1. S = {x}
    BY Zenon, <1>2
  <2> QED
    BY <2>1, FS_Singleton
<1> QED
  BY Zenon, <1>1, <1>2

LEMMA LinkedIs == LockInv /\ QueueInv /\ BoundInv => LinkedOnce
<1> SUFFICES ASSUME LockInv, QueueInv, BoundInv PROVE LinkedOnce
  OBVIOUS
<1>0. Queued /\ LinkedLists
  BY Zenon, LinkedAre DEF QueueInv
<1>1. ASSUME NEW c \in Co
      PROVE  Cardinality({q \in Queues : c \in InSeq(entries[q])})
               + Cardinality({d \in Co : c \in InSeq(wakeup[d])}) <= 1
  <2> DEFINE A == {q \in Queues : c \in InSeq(entries[q])}
             B == {d \in Co : c \in InSeq(wakeup[d])}
  <2>1. /\ \A x, y \in A : x = y
        /\ \A x, y \in B : x = y
        /\ A = {} \/ B = {}
    BY Zenon, <1>0, OneList
  <2> HIDE DEF A, B
  <2>2. /\ Cardinality(A) \in {0, 1} /\ (Cardinality(A) = 1 => A # {})
        /\ Cardinality(B) \in {0, 1} /\ (Cardinality(B) = 1 => B # {})
    BY Zenon, <2>1, AtMostOne
  <2>3. Cardinality(A) + Cardinality(B) <= 1
    BY <2>1, <2>2
  <2> QED
    BY Zenon, <2>3 DEF A, B
<1> QED
  BY Zenon, <1>0, <1>1 DEF LinkedLists, LinkedOnce

\* co_queue_next is used for the queues and for co_queue_wakeup alike
\* (qemu-coroutine-lock.c:33-85): a coroutine is in one of those lists, once,
\* exactly while it waits in a queue, for every number of them.
THEOREM OneLink == Spec => []LinkedOnce
<1> HIDE DEF LockInv, QueueInv, SleepInv, BoundInv, LinkedOnce
<1> QED
  BY LinkedIs, QueueInvariant, PTL

\* qemu_co_queue_next and restart_all lose no wake-up although the coroutine
\* is entered later (qemu-coroutine-lock.c:61-85, 130-178): when the lock is
\* free and somebody waits, one of those who wait is about to look again.
THEOREM NoLostWakeup == Spec => []WakeupsKept
<1> HIDE DEF LockInv, QueueInv, SleepInv, BoundInv, WakeupsKept
<1> QED
  BY WakeupsAre, QueueInvariant, PTL

\* block_job_resume and block_job_cancel enter the job's coroutine whenever it
\* is not busy (blockjob.c:108-133): it is in co_sleep_ns then, never in a
\* queue and never waiting for I/O.
THEOREM EnteredAsleep == Spec => []NotSpurious
<1>1. SleepInv => NotSpurious
  BY DEF SleepInv, NotSpurious
<1> HIDE DEF LockInv, QueueInv, SleepInv, BoundInv, NotSpurious
<1> QED
  BY <1>1, QueueInvariant, PTL

=============================================================================
