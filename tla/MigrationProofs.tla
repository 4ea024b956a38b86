-------------------------- MODULE MigrationProofs --------------------------
(***************************************************************************)
(* Proofs about Migration, for every layout of RAM blocks, every set of     *)
(* contents, every size of the iovec and every number of commands and       *)
(* stores.                                                                  *)
(*                                                                          *)
(* The invariant of the control (Control) says, for each place of the       *)
(* thread, which states, run states and flags go with it.  The invariant of *)
(* the memory (Memory) adds to NothingForgotten that the page being put is  *)
(* the only one out of the bitmap, and that the search leaves the bitmap    *)
(* empty when it ends the last stage (lemma SearchEmpties).  The invariant   *)
(* of the counter (BitsCounted) adds to DirtyPagesCounted what the bulk     *)
(* stage relies on: that every page from the cursor on is still in the      *)
(* bitmap, so that taking it without a look at its bit clears a set bit.    *)
(***************************************************************************)
EXTENDS Migration, FiniteSetTheorems, TLAPS

Body == {"pending", "iterate", "put", "more", "stop", "fail", "sync",
         "final", "final_put", "eof", "done", "check"}
Early == {"setup", "begin", "loop", "pending", "iterate", "put", "more", "stop"}
Locked == {"sync", "final", "final_put", "eof"}
Over == {"error", "completed", "cancelled"}

PlaceAndState ==
  /\ pc \in ThreadPc
  /\ pc \in {"setup", "begin"} => state \in {"setup", "cancelled"}
  /\ pc \in Body \cup {"loop"} => state \in {"active", "cancelled"}
  /\ pc = "end" \/ cleanup_bh = "scheduled" => state \in Over
  /\ pc # "none" => file /\ cleanup_bh = "idle"
  /\ cleanup_bh \in {"null", "idle", "scheduled"}
  /\ cleanup_bh = "idle" => pc # "none"
  /\ cleanup_bh = "scheduled" => pc = "none" /\ file
  /\ connecting => pc = "none" /\ cleanup_bh = "null" /\ ~eof
PlaceAndGuest ==
  /\ pc \in Early => ~old_vm_running
  /\ pc \in Locked \cup {"fail", "done"} => runstate = "finish_migrate"
  /\ pc = "check" /\ old_vm_running => file_error /\ runstate = "finish_migrate"
  /\ pc = "end" /\ (old_vm_running \/ state = "completed" \/ eof)
       => runstate = "finish_migrate"
  /\ pc \in Locked => bql = "thread"
PlaceAndEnd ==
  /\ eof => pc \in {"done", "end", "none"}
  /\ eof /\ pc = "done" => ~file_error
  /\ eof /\ pc \in {"end", "none"} => state \in {"completed", "cancelled"}
  /\ pc = "done" => ~logging
  /\ state = "completed" /\ (pc = "end" \/ cleanup_bh = "scheduled") => ~logging
Control ==
  /\ broken \in {"no", "abort", "reused"}
  /\ broken = "no" => PlaceAndState /\ PlaceAndGuest /\ PlaceAndEnd
  /\ GuestFate /\ CleanupSound /\ OneSideRuns

LEMMA ControlInit == Init => Control
  BY DEF Init, Control, PlaceAndState, PlaceAndGuest, PlaceAndEnd, GuestFate,
     CleanupSound, OneSideRuns, ThreadPc,
     Body, Early, Locked, Over

USE DEF Control, PlaceAndState, PlaceAndGuest, PlaceAndEnd, GuestFate,
        CleanupSound, OneSideRuns,
        ThreadPc, Body, Early, Locked, Over

LEMMA ControlMain ==
  ASSUME Control,
         \/ qmp_migrate \/ tcp_wait_for_connect \/ CancelRead \/ CancelSwap
         \/ migrate_fd_cleanup \/ Write \/ process_incoming_migration_co
  PROVE  Control'
  <1>1. CASE qmp_migrate
    BY <1>1 DEF qmp_migrate, Main, InUse, bitmapVars
  <1>2. CASE tcp_wait_for_connect
    BY <1>2 DEF tcp_wait_for_connect, Main, bitmapVars
  <1>3. CASE CancelRead
    BY <1>3 DEF CancelRead, Main, ramVars
  <1>4. CASE CancelSwap
    BY <1>4 DEF CancelSwap, migrate_set_state, ramVars
  <1>5. CASE migrate_fd_cleanup
    BY <1>5 DEF migrate_fd_cleanup, Main, migration_end, bitmapVars
  <1>6. CASE Write
    BY <1>6 DEF Write, Main, notdirty_mem_write, fileVars
  <1>7. CASE process_incoming_migration_co
    BY <1>7 DEF process_incoming_migration_co, ramVars
  <1> QED BY <1>1, <1>2, <1>3, <1>4, <1>5, <1>6, <1>7

LEMMA ControlThread ==
  ASSUME Control, migration_thread
  PROVE  Control'
  <1> USE DEF At, Goto, Keep, Rest, migrate_set_state, ramVars, bitmapVars, fileVars
  <1>1. CASE Setup BY <1>1 DEF Setup, ram_save_setup
  <1>2. CASE Begin BY <1>2 DEF Begin
  <1>3. CASE LoopEnds \/ LoopLimited \/ LoopGoes
    BY <1>3 DEF LoopEnds, LoopLimited, LoopGoes
  <1>4. CASE Pending BY <1>4 DEF Pending, migration_bitmap_sync
  <1>5. CASE Iterate BY <1>5 DEF Iterate, ram_save_block, SaveFrom
  <1>6. CASE IteratePut \/ IterateEnds
    BY <1>6 DEF IteratePut, IterateEnds, PutCurrent
  <1>7. CASE Stop BY <1>7 DEF Stop, runstate_set, runstate_valid
  <1>8. CASE Fail BY <1>8 DEF Fail
  <1>9. CASE CompleteSync BY <1>9 DEF CompleteSync, migration_bitmap_sync
  <1>10. CASE CompletePage BY <1>10 DEF CompletePage, ram_save_block, SaveFrom
  <1>11. CASE CompletePut BY <1>11 DEF CompletePut, PutCurrent
  <1>12. CASE CompleteEnd BY <1>12 DEF CompleteEnd, migration_end, FlushOf
  <1>13. CASE Done BY <1>13 DEF Done
  <1>14. CASE CheckFails \/ CheckAgain \/ CheckDelay
    BY <1>14 DEF CheckFails, CheckAgain, CheckDelay, qemu_fflush, FlushOf
  <1>15. CASE End BY <1>15 DEF End, runstate_set, runstate_valid, vm_start
  <1> QED BY <1>1, <1>2, <1>3, <1>4, <1>5, <1>6, <1>7, <1>8, <1>9, <1>10,
             <1>11, <1>12, <1>13, <1>14, <1>15 DEF migration_thread, Complete

----------------------------------------------------------------------------
(* The memory.                                                              *)

\* The fields of a probe.
LEMMA ProbeFields ==
  ASSUME NBlocks \in Nat, NEW n \in Nat, last_seen_block \in 0..NBlocks
  PROVE  LET k == (IF last_seen_block = 0 THEN 1 ELSE last_seen_block) + n - 1
         IN /\ k <= NBlocks => Probe(n).block = k /\ ~Probe(n).round
            /\ k > NBlocks => Probe(n).block = k - NBlocks /\ Probe(n).round
            /\ n = 1 => Probe(n).start = last_offset
            /\ n # 1 => Probe(n).start = 0
  <1> DEFINE k == (IF last_seen_block = 0 THEN 1 ELSE last_seen_block) + n - 1
  <1>1. k \in Nat
    OBVIOUS
  <1>2. Probe(n) = [block |-> IF k <= NBlocks THEN k ELSE k - NBlocks,
                    start |-> IF n = 1 THEN last_offset ELSE 0,
                    round |-> k > NBlocks]
    BY DEF Probe
  <1> HIDE DEF k
  <1>3. Probe(n).block = IF k <= NBlocks THEN k ELSE k - NBlocks
    BY <1>2
  <1>4. Probe(n).start = IF n = 1 THEN last_offset ELSE 0
    BY <1>2
  <1>5. CASE k <= NBlocks
    <2>1. (k > NBlocks) = FALSE
      BY <1>1, <1>5
    <2>2. Probe(n).round = FALSE
      <3> DEFINE B == IF k <= NBlocks THEN k ELSE k - NBlocks
                 S == IF n = 1 THEN last_offset ELSE 0
      <3>1. Probe(n) = [block |-> B, start |-> S, round |-> k > NBlocks]
        BY <1>2
      <3> HIDE DEF B, S
      <3>2. Probe(n) = [block |-> B, start |-> S, round |-> FALSE]
        BY <2>1, <3>1, Zenon
      <3> QED BY <3>2
    <2> QED BY <1>1, <1>3, <1>4, <1>5, <2>2 DEF k
  <1>6. CASE k > NBlocks
    <2>1. (k > NBlocks) = TRUE
      BY <1>6
    <2>2. Probe(n).round = TRUE
      <3> DEFINE B == IF k <= NBlocks THEN k ELSE k - NBlocks
                 S == IF n = 1 THEN last_offset ELSE 0
      <3>1. Probe(n) = [block |-> B, start |-> S, round |-> k > NBlocks]
        BY <1>2
      <3> HIDE DEF B, S
      <3>2. Probe(n) = [block |-> B, start |-> S, round |-> TRUE]
        BY <2>1, <3>1, Zenon
      <3> QED BY <3>2
    <2> QED BY <1>1, <1>3, <1>4, <1>6, <2>2 DEF k
  <1> QED BY <1>1, <1>5, <1>6

\* When the search ends the round it has seen every block: the bitmap holds
\* at most the one page whose bit it resets now.
LEMMA SearchEmpties ==
  ASSUME migration_bitmap \subseteq Page,
         last_seen_block \in 0..NBlocks, last_offset \in Nat,
         NEW n \in 1 .. NBlocks + 1, NEW o \in Offsets(Probe(n)),
         Ends(n, o), RoundDone(Probe(n), o),
         NEW b \in 1..NBlocks, NEW q \in 0 .. BlockLen[b] - 1,
         <<b, q>> \in migration_bitmap
  PROVE  FoundPage(Probe(n), o) /\ <<b, q>> = <<Probe(n).block, o>>
  <1>1. /\ NBlocks \in Nat \ {0}
        /\ \A k \in 1..NBlocks : BlockLen[k] \in Nat \ {0}
    BY RamAssumption DEF NBlocks
  <1>2. n = NBlocks + 1 /\ last_seen_block \in 1..NBlocks
    <2>1. CASE last_seen_block = 0
      BY <1>1, <2>1, ProbeFields DEF RoundDone
    <2>2. CASE last_seen_block # 0
      <3>1. last_seen_block + n - 1 > NBlocks
            /\ last_seen_block + n - 1 - NBlocks = last_seen_block
        BY <1>1, <2>2, ProbeFields DEF RoundDone
      <3> QED BY <1>1, <2>2, <3>1
    <2> QED BY <2>1, <2>2
  <1>3. Probe(n).block = last_seen_block /\ Probe(n).start = 0 /\ Probe(n).round
    BY <1>1, <1>2, ProbeFields
  <1>4. o \in 0 .. BlockLen[last_seen_block] /\ o >= last_offset
    BY <1>3 DEF RoundDone, Offsets
  <1>5. \A m \in 1..NBlocks : Passes(m)
    BY <1>1, <1>2 DEF Ends
  <1>6. b = last_seen_block
    <2> SUFFICES ASSUME b # last_seen_block PROVE FALSE
      OBVIOUS
    <2> DEFINE m == IF b > last_seen_block THEN b - last_seen_block + 1
                    ELSE b - last_seen_block + NBlocks + 1
    <2>1. m \in 2..NBlocks
      BY <1>1, <1>2
    <2>2. Probe(m).block = b /\ Probe(m).start = 0
      BY <1>1, <1>2, <2>1, ProbeFields
    <2>3. Passes(m)
      BY <1>1, <1>5, <2>1
    <2> HIDE DEF m
    <2> QED BY <1>1, <2>2, <2>3 DEF Passes, FindDirty, FoundPage, Offsets
  <1>7. q >= last_offset
    <2> SUFFICES ASSUME q < last_offset PROVE FALSE
      BY <1>1
    <2>1. FindDirty(Probe(n), o)
      BY DEF Ends
    <2> QED BY <1>1, <1>2, <1>3, <1>4, <1>6, <2>1 DEF FindDirty, Offsets
  <1>8. q = last_offset
    <2>1. /\ Probe(1).block = last_seen_block /\ Probe(1).start = last_offset
          /\ ~Probe(1).round
      BY <1>1, <1>2, ProbeFields
    <2>2. PICK p \in Offsets(Probe(1)) : FindDirty(Probe(1), p) /\ ~FoundPage(Probe(1), p)
      BY <1>1, <1>5 DEF Passes
    <2>3. p = BlockLen[last_seen_block]
      BY <1>1, <1>2, <2>1, <2>2 DEF FoundPage, Offsets
    <2>4. q \in Offsets(Probe(1)) /\ q # p
      BY <1>1, <1>2, <1>6, <2>1, <2>3 DEF Offsets
    <2> QED BY <1>1, <1>2, <1>6, <1>7, <2>1, <2>2, <2>3, <2>4 DEF FindDirty
  <1>9. o <= q
    BY <1>1, <1>2, <1>3, <1>4, <1>6 DEF Ends, FindDirty, Offsets
  <1> QED BY <1>1, <1>2, <1>3, <1>4, <1>6, <1>8, <1>9 DEF FoundPage

MemoryTypes ==
  /\ src \in [Page -> Content] /\ dest \in [Page -> Content]
  /\ iov \in [Page -> {"none", "zero", "page"}]
  /\ migration_bitmap \subseteq Page /\ dirty_log \subseteq Page
  /\ last_seen_block \in 0..NBlocks /\ last_offset \in Nat
Stages ==
  /\ pc \in {"put", "final_put"} => cur \in Page
  /\ pc \notin {"put", "final_put"} => cur = NoPage
  /\ pc \in {"final", "final_put", "eof"} => dirty_log = {}
  /\ pc = "eof" => migration_bitmap = {}
Memory ==
  /\ MemoryTypes
  /\ broken = "no" => Stages
  /\ eof => iov = NoIov
  /\ NothingForgotten /\ DestMatches

LEMMA PageFacts ==
  /\ NoPage \notin Page
  /\ NBlocks \in Nat \ {0}
  /\ \A b \in 1..NBlocks : BlockLen[b] \in Nat \ {0}
  /\ \A p \in Page : \E b \in 1..NBlocks : \E o \in 0 .. BlockLen[b] - 1 : p = <<b, o>>
  /\ \A b \in 1..NBlocks, o \in Nat : o < BlockLen[b] => <<b, o>> \in Page
  <1>1. /\ NBlocks \in Nat \ {0}
        /\ \A b \in 1..NBlocks : BlockLen[b] \in Nat \ {0}
    BY RamAssumption DEF NBlocks
  <1>2. \A p \in Page : \E b \in 1..NBlocks : \E o \in 0 .. BlockLen[b] - 1 : p = <<b, o>>
    BY <1>1 DEF Page
  <1>3. \A b \in 1..NBlocks, o \in Nat : o < BlockLen[b] => <<b, o>> \in Page
    BY <1>1 DEF Page
  <1>4. NoPage \notin Page
    BY <1>1, <1>2 DEF NoPage
  <1> QED BY <1>1, <1>2, <1>3, <1>4

\* What the flush of entries v makes of the destination.
LEMMA DeliveredFacts ==
  ASSUME MemoryTypes, NEW v \in [Page -> {"none", "zero", "page"}]
  PROVE  /\ Delivered(v) \in [Page -> Content]
         /\ \A p \in Page : Delivered(v)[p] = CASE v[p] = "zero" -> Zero
                                               [] v[p] = "page" -> src[p]
                                               [] OTHER -> dest[p]
  BY RamAssumption DEF Delivered, MemoryTypes

\* The search: what ram_save_block does to the bitmap and to cur.
LEMMA SearchStep ==
  ASSUME MemoryTypes, ram_save_block
  PROVE  /\ MemoryTypes'
         /\ UNCHANGED <<src, dest, dirty_log, iov, iovcnt, file_error>>
         /\ cur' \in Page \cup {NoPage}
         /\ cur' = NoPage => migration_bitmap' = {}
         /\ \A p \in Page : p \in migration_bitmap \cup skipped =>
               p \in migration_bitmap' \cup skipped' \cup {cur'}
  <1>0. PICK n \in 1 .. NBlocks + 1 :
          \E o \in Offsets(Probe(n)) : Ends(n, o) /\ SaveFrom(Probe(n), o)
    BY DEF ram_save_block
  <1>1. PICK o \in Offsets(Probe(n)) : Ends(n, o) /\ SaveFrom(Probe(n), o)
    BY <1>0
  <1>2. Probe(n).block \in 1..NBlocks
    BY PageFacts, ProbeFields DEF MemoryTypes
  <1>3. o \in Nat
    BY <1>2, PageFacts DEF Offsets
  <1>4. MemoryTypes' /\ UNCHANGED <<src, dest, dirty_log, iov, iovcnt, file_error>>
    BY <1>1, <1>2, <1>3 DEF SaveFrom, MemoryTypes, fileVars
  <1>5. CASE RoundDone(Probe(n), o)
    <2>1. cur' = NoPage
      BY <1>1, <1>5 DEF SaveFrom
    <2>2. ASSUME NEW p \in migration_bitmap
          PROVE  FoundPage(Probe(n), o) /\ p = <<Probe(n).block, o>>
      <3>1. PICK b \in 1..NBlocks : \E q \in 0 .. BlockLen[b] - 1 : p = <<b, q>>
        BY PageFacts DEF MemoryTypes
      <3> QED BY <1>1, <1>5, <3>1, SearchEmpties DEF MemoryTypes
    <2>3. migration_bitmap' = {}
      BY <1>1, <2>2 DEF SaveFrom
    <2>4. \A p \in migration_bitmap : p \in skipped'
      BY <1>1, <1>5, <2>2 DEF SaveFrom
    <2>5. skipped \subseteq skipped'
      BY <1>1 DEF SaveFrom
    <2> QED BY <1>4, <2>1, <2>3, <2>4, <2>5
  <1>6. CASE ~RoundDone(Probe(n), o)
    <2>1. FoundPage(Probe(n), o)
      BY <1>1, <1>6 DEF Ends
    <2>2. cur' = <<Probe(n).block, o>> /\ cur' \in Page
      BY <1>1, <1>2, <1>3, <1>6, <2>1, PageFacts DEF SaveFrom, FoundPage
    <2>3. migration_bitmap' = migration_bitmap \ {cur'} /\ skipped' = skipped
      BY <1>1, <1>6, <2>1, <2>2 DEF SaveFrom
    <2> QED BY <1>4, <2>2, <2>3, PageFacts
  <1> QED BY <1>5, <1>6

\* Putting the page that was found.
LEMMA PutStep ==
  ASSUME MemoryTypes, PutCurrent, cur \in Page
  PROVE  /\ MemoryTypes'
         /\ UNCHANGED <<src, dirty_log, migration_bitmap>>
         /\ cur' = NoPage /\ skipped' = skipped \ {cur}
         /\ ~file_error' =>
              /\ ~file_error
              /\ Delivered(iov)'[cur] = src[cur]
              /\ \A p \in Page \ {cur} : Delivered(iov)'[p] = Delivered(iov)[p]
  <1> DEFINE v == [iov EXCEPT ![cur] = IF src[cur] = Zero THEN "zero" ELSE "page"]
  <1>1. v \in [Page -> {"none", "zero", "page"}]
    BY DEF MemoryTypes
  <1>2. /\ Delivered(v) \in [Page -> Content]
        /\ Delivered(v)[cur] = src[cur]
        /\ \A p \in Page \ {cur} : Delivered(v)[p] = Delivered(iov)[p]
    <2>1. /\ v[cur] = IF src[cur] = Zero THEN "zero" ELSE "page"
          /\ \A p \in Page \ {cur} : v[p] = iov[p]
      BY DEF MemoryTypes
    <2>2. iov \in [Page -> {"none", "zero", "page"}]
      BY DEF MemoryTypes
    <2> HIDE DEF v
    <2>3. Delivered(v) \in [Page -> Content] /\ Delivered(v)[cur] = src[cur]
      BY <1>1, <2>1, DeliveredFacts
    <2>4. ASSUME NEW p \in Page \ {cur}
          PROVE  Delivered(v)[p] = Delivered(iov)[p]
      BY <2>1 DEF Delivered
    <2> QED BY <2>3, <2>4
  <1>3. /\ UNCHANGED <<src, dirty_log, migration_bitmap, last_seen_block, last_offset>>
        /\ cur' = NoPage /\ skipped' = skipped \ {cur}
    BY DEF PutCurrent, bitmapVars, cursorVars
  <1>4. CASE file_error
    BY <1>3, <1>4 DEF PutCurrent, PutPage, fileVars, MemoryTypes
  <1>5. CASE ~file_error /\ iov' = v /\ UNCHANGED <<dest, file_error>>
    <2>1. MemoryTypes'
      BY <1>1, <1>3, <1>5 DEF MemoryTypes
    <2>2. Delivered(iov)' = Delivered(v)
      BY <1>3, <1>5 DEF Delivered
    <2> QED BY <1>2, <1>3, <1>5, <2>1, <2>2
  <1>6. CASE ~file_error /\ FlushOf(v, iovcnt + 1)
    <2>1. MemoryTypes'
      BY <1>2, <1>3, <1>6 DEF MemoryTypes, FlushOf, NoIov
    <2>2. CASE dest' = Delivered(v)
      <3>1. \A p \in Page : Delivered(iov)'[p] = dest'[p]
        BY <1>6 DEF Delivered, FlushOf, NoIov
      <3> QED BY <1>2, <1>3, <1>6, <2>1, <2>2, <3>1
    <2>3. CASE file_error'
      BY <1>3, <2>1, <2>3
    <2> QED BY <1>6, <2>2, <2>3 DEF FlushOf
  <1> QED BY <1>4, <1>5, <1>6 DEF PutCurrent, PutPage

\* A flush of the file as it is.
LEMMA FlushStep ==
  ASSUME MemoryTypes, NEW n, FlushOf(iov, n), UNCHANGED src
  PROVE  /\ dest' \in [Page -> Content] /\ iov' = NoIov
         /\ iov' \in [Page -> {"none", "zero", "page"}]
         /\ iov = NoIov => dest' = dest
         /\ ~file_error' =>
              /\ ~file_error
              /\ dest' = Delivered(iov)
              /\ \A p \in Page : Delivered(iov)'[p] = Delivered(iov)[p]
  <1>1. Delivered(iov) \in [Page -> Content]
    BY DeliveredFacts DEF MemoryTypes
  <1>2. ASSUME iov = NoIov
        PROVE  Delivered(iov) = dest
    BY <1>2 DEF Delivered, NoIov, MemoryTypes
  <1>3. \A p \in Page : Delivered(iov)'[p] = dest'[p]
    BY DEF Delivered, FlushOf, NoIov
  <1> QED BY <1>1, <1>2, <1>3 DEF FlushOf, NoIov, MemoryTypes

LEMMA MemoryInit == Init => Memory
  BY PageFacts, RamAssumption
     DEF Init, Memory, MemoryTypes, Stages, NothingForgotten, Sending,
         DestMatches, NoIov

LEMMA MemoryMain ==
  ASSUME Control, Memory,
         \/ qmp_migrate \/ tcp_wait_for_connect \/ CancelRead \/ CancelSwap
         \/ migrate_fd_cleanup \/ Write \/ process_incoming_migration_co
  PROVE  Memory'
  <1> USE DEF Memory, Stages, NothingForgotten, Sending, DestMatches
  <1>1. CASE qmp_migrate
    BY <1>1, RamAssumption
       DEF qmp_migrate, Main, InUse, bitmapVars, cursorVars, MemoryTypes
  <1>2. CASE tcp_wait_for_connect
    BY <1>2 DEF tcp_wait_for_connect, Main, bitmapVars, cursorVars, NoIov,
                MemoryTypes
  <1>3. CASE CancelRead \/ CancelSwap \/ process_incoming_migration_co
    BY <1>3 DEF CancelRead, CancelSwap, process_incoming_migration_co, Main,
                ramVars, MemoryTypes, Delivered
  <1>4. CASE migrate_fd_cleanup
    <2>1. /\ dest' \in [Page -> Content]
          /\ iov' \in [Page -> {"none", "zero", "page"}]
          /\ iov = NoIov => iov' = NoIov /\ dest' = dest
      BY <1>4, FlushStep
         DEF migrate_fd_cleanup, qemu_fflush, fileVars, MemoryTypes
    <2> QED BY <1>4, <2>1 DEF migrate_fd_cleanup, Main, migration_end,
                              bitmapVars, cursorVars, MemoryTypes
  <1>5. CASE Write
    <2>1. PICK p \in Page, c \in Content : notdirty_mem_write(p, c)
      BY <1>5 DEF Write
    <2>2. MemoryTypes'
      BY <2>1 DEF notdirty_mem_write, cursorVars, fileVars, MemoryTypes
    <2>3. \A q \in Page \ {p} : /\ src'[q] = src[q]
                               /\ Delivered(iov)'[q] = Delivered(iov)[q]
      BY <2>1 DEF notdirty_mem_write, fileVars, MemoryTypes, Delivered
    <2>4. NothingForgotten'
      BY <1>5, <2>1, <2>3 DEF Write, notdirty_mem_write, fileVars
    <2> QED BY <1>5, <2>1, <2>2, <2>4
            DEF Write, Main, notdirty_mem_write, fileVars
  <1> QED BY <1>1, <1>2, <1>3, <1>4, <1>5

LEMMA MemoryThread ==
  ASSUME Control, Memory, migration_thread
  PROVE  Memory'
  <1> USE DEF Memory, Stages, NothingForgotten, Sending, DestMatches,
              At, Goto, Keep, Rest
  <1>1. CASE Setup
    <2>1. MemoryTypes'
      BY <1>1, PageFacts DEF Setup, ram_save_setup, fileVars, MemoryTypes
    <2>2. Stages'
      BY <1>1 DEF Setup, ram_save_setup, fileVars
    <2>3. NothingForgotten'
      BY <1>1 DEF Setup, ram_save_setup, fileVars
    <2>4. DestMatches' /\ (eof => iov = NoIov)'
      BY <1>1 DEF Setup, ram_save_setup, fileVars
    <2> QED BY <2>1, <2>2, <2>3, <2>4
  <1>2. CASE Begin \/ LoopEnds \/ LoopLimited \/ LoopGoes \/ IterateEnds \/ Fail
             \/ Done \/ CheckFails \/ CheckAgain
    BY <1>2 DEF Begin, LoopEnds, LoopLimited, LoopGoes, IterateEnds, Fail,
                Done, CheckFails, CheckAgain, ramVars, MemoryTypes, Delivered
  <1>3. CASE Pending \/ CompleteSync
    BY <1>3 DEF Pending, CompleteSync, migration_bitmap_sync, bitmapVars,
                cursorVars, fileVars, MemoryTypes, Delivered
  <1>4. CASE Iterate \/ CompletePage
    <2>1. Delivered(iov)' = Delivered(iov)
      BY <1>4, SearchStep DEF Iterate, CompletePage, Delivered
    <2>2. Stages' /\ MemoryTypes'
      BY <1>4, SearchStep, PageFacts DEF Iterate, CompletePage
    <2>3. NothingForgotten'
      BY <1>4, <2>1, SearchStep, PageFacts DEF Iterate, CompletePage
    <2> QED BY <1>4, <2>2, <2>3 DEF Iterate, CompletePage
  <1>5. CASE IteratePut \/ CompletePut
    <2>1. MemoryTypes' /\ Stages'
      BY <1>5, PutStep DEF IteratePut, CompletePut
    <2>2. NothingForgotten'
      BY <1>5, PutStep DEF IteratePut, CompletePut
    <2> QED BY <1>5, <2>1, <2>2 DEF IteratePut, CompletePut
  <1>6. CASE Stop
    BY <1>6 DEF Stop, runstate_set, ramVars, MemoryTypes, Delivered
  <1>7. CASE CompleteEnd
    <2>1. /\ dest' \in [Page -> Content] /\ iov' = NoIov
          /\ iov' \in [Page -> {"none", "zero", "page"}]
          /\ ~file_error' =>
               /\ ~file_error
               /\ dest' = Delivered(iov)
               /\ \A p \in Page : Delivered(iov)'[p] = Delivered(iov)[p]
      BY <1>7, FlushStep DEF CompleteEnd
    <2>2. ~file_error => \A p \in Page \ skipped : Delivered(iov)[p] = src[p]
      BY <1>7, PageFacts DEF CompleteEnd
    <2>3. MemoryTypes' /\ Stages'
      BY <1>7, <2>1 DEF CompleteEnd, migration_end, cursorVars, MemoryTypes
    <2> QED BY <1>7, <2>1, <2>2, <2>3 DEF CompleteEnd, migration_end
  <1>8. CASE CheckDelay
    <2>1. /\ dest' \in [Page -> Content]
          /\ iov' \in [Page -> {"none", "zero", "page"}]
          /\ ~file_error' =>
               /\ ~file_error
               /\ \A p \in Page : Delivered(iov)'[p] = Delivered(iov)[p]
      BY <1>8, FlushStep DEF CheckDelay, qemu_fflush
    <2>2. MemoryTypes' /\ Stages' /\ ~eof'
      BY <1>8, <2>1 DEF CheckDelay, bitmapVars, cursorVars, MemoryTypes
    <2> QED BY <1>8, <2>1, <2>2 DEF CheckDelay, bitmapVars
  <1>9. CASE End
    <2>1. MemoryTypes' /\ Delivered(iov)' = Delivered(iov)
      BY <1>9 DEF End, ramVars, MemoryTypes, Delivered
    <2>2. runstate' # "running" => runstate # "running"
      BY <1>9 DEF End, runstate_set, runstate_valid, vm_start
    <2> QED BY <1>9, <2>1, <2>2 DEF End, runstate_set, vm_start, ramVars
  <1> QED BY <1>1, <1>2, <1>3, <1>4, <1>5, <1>6, <1>7, <1>8, <1>9
          DEF migration_thread, Complete

----------------------------------------------------------------------------
(* The counter beside the bitmap.                                           *)

HIDE DEF Control, PlaceAndState, PlaceAndGuest, PlaceAndEnd, GuestFate,
         CleanupSound, OneSideRuns,
         ThreadPc, Body, Early, Locked, Over

\* While the bulk stage lasts no page ahead of the search has been taken out
\* of the bitmap: so the page it takes unseen is one the counter counts.
AllAhead ==
  \A p \in Page : \/ p[1] > last_seen_block
                  \/ p[1] = last_seen_block /\ p[2] > last_offset
                  => p \in migration_bitmap
BitsCounted ==
  /\ DirtyPagesCounted
  /\ logging /\ ram_bulk_stage => AllAhead

LEMMA PagesFinite == IsFiniteSet(Page)
  <1> DEFINE Of(b) == {b} \X (0 .. BlockLen[b] - 1)
             S == {Of(b) : b \in 1..NBlocks}
             f == [b \in 1..NBlocks |-> Of(b)]
  <1>1. IsFiniteSet(1..NBlocks)
    BY PageFacts, FS_Interval
  <1>2. ASSUME NEW b \in 1..NBlocks PROVE IsFiniteSet(Of(b))
    <2>1. IsFiniteSet({b})
      BY FS_Singleton, Zenon
    <2>2. BlockLen[b] - 1 \in Int
      BY PageFacts
    <2>3. IsFiniteSet(0 .. BlockLen[b] - 1)
      BY <2>2, FS_Interval
    <2> QED BY <2>1, <2>3, FS_Product
  <1>3. Page = UNION S
    BY DEF Page
  <1> HIDE DEF Of
  <1>4. f \in Surjection(1..NBlocks, S)
    BY DEF Surjection
  <1>5. IsFiniteSet(S)
    BY <1>1, <1>4, FS_Surjection
  <1>6. \A T \in S : IsFiniteSet(T)
    BY <1>2
  <1> QED BY <1>3, <1>5, <1>6, FS_UNION

\* What is added to a bitmap and to its counter.
LEMMA BitsAdded ==
  ASSUME NEW S \in SUBSET Page, NEW T \in SUBSET Page
  PROVE  /\ Cardinality(S) \in Nat
         /\ Cardinality(S \cup T) = Cardinality(S) + Cardinality(T \ S)
  <1>1. IsFiniteSet(S) /\ IsFiniteSet(T \ S) /\ (T \ S) \in SUBSET Page
    BY PagesFinite, FS_Subset
  <1>2. S \cup T = S \cup (T \ S) /\ S \cap (T \ S) = {}
    OBVIOUS
  <1>3. Cardinality(S \cup (T \ S)) = Cardinality(S) + Cardinality(T \ S) - Cardinality({})
    BY <1>1, <1>2, FS_Union
  <1>4. Cardinality(S) \in Nat /\ Cardinality(T \ S) \in Nat /\ Cardinality({}) = 0
    BY <1>1, FS_CardinalityType, FS_EmptySet
  <1>5. Cardinality(S \cup T) = Cardinality(S \cup (T \ S))
    BY <1>2, Zenon
  <1> QED BY <1>3, <1>4, <1>5

\* A page the search finds is in the bitmap, and none ahead of it is taken.
LEMMA SearchFinds ==
  ASSUME MemoryTypes, ram_bulk_stage => AllAhead,
         NEW n \in 1 .. NBlocks + 1, NEW o \in Offsets(Probe(n)), Ends(n, o)
  PROVE  /\ FoundPage(Probe(n), o) => <<Probe(n).block, o>> \in migration_bitmap
         /\ ram_bulk_stage /\ ~Probe(n).round =>
              /\ Probe(n).block >= last_seen_block
              /\ Probe(n).block = last_seen_block => o >= last_offset
  <1> DEFINE b == Probe(n).block
  <1>1. b \in 1..NBlocks /\ BlockLen[b] \in Nat \ {0}
    BY PageFacts, ProbeFields DEF MemoryTypes
  <1>2. /\ ~Probe(n).round => b >= last_seen_block
        /\ ~Probe(n).round /\ b = last_seen_block => Probe(n).start = last_offset
        /\ ~Probe(n).round /\ Probe(n).start > 0 => n = 1 /\ Probe(n).start = last_offset
    BY PageFacts, ProbeFields DEF MemoryTypes
  <1>3. FindDirty(Probe(n), o) /\ o \in 0 .. BlockLen[b] /\ last_offset \in Nat
        /\ last_seen_block \in Nat
    BY PageFacts DEF Ends, Offsets, MemoryTypes
  <1> HIDE DEF b
  <1>4. CASE ram_bulk_stage /\ ~Probe(n).round /\ Probe(n).start > 0
    <2>1. o = last_offset + 1
      BY <1>2, <1>3, <1>4 DEF FindDirty
    <2>2. FoundPage(Probe(n), o) => <<b, o>> \in Page
      BY <1>1, <1>3, PageFacts DEF FoundPage, b
    <2>3. FoundPage(Probe(n), o) => <<b, o>> \in migration_bitmap
      <3>1. <<b, o>>[1] = b /\ <<b, o>>[2] = o
        OBVIOUS
      <3>2. b > last_seen_block \/ (b = last_seen_block /\ o > last_offset)
        BY <1>1, <1>2, <1>3, <1>4, <2>1
      <3> QED BY <1>4, <2>2, <3>1, <3>2, Zenon DEF AllAhead
    <2> QED BY <1>2, <1>3, <1>4, <2>1, <2>3 DEF b
  <1>5. CASE ~(ram_bulk_stage /\ ~Probe(n).round /\ Probe(n).start > 0)
    <2>1. \/ o >= Probe(n).start /\ <<b, o>> \in migration_bitmap
          \/ o = BlockLen[b]
      BY <1>3, <1>5 DEF FindDirty, b
    <2>2. FoundPage(Probe(n), o) => <<b, o>> \in migration_bitmap
      BY <1>1, <2>1 DEF FoundPage, b
    <2>3. ASSUME ram_bulk_stage, ~Probe(n).round, b = last_seen_block
          PROVE  o >= last_offset
      <3>1. last_offset = 0
        BY <1>2, <1>3, <1>5, <2>3
      <3> QED BY <1>3, <1>1, <3>1
    <2> QED BY <1>2, <2>2, <2>3 DEF b
  <1> QED BY <1>4, <1>5

LEMMA BitsSearch ==
  ASSUME MemoryTypes, BitsCounted, ram_save_block
  PROVE  BitsCounted'
  <1>0. PICK n \in 1 .. NBlocks + 1 :
          \E o \in Offsets(Probe(n)) : Ends(n, o) /\ SaveFrom(Probe(n), o)
    BY DEF ram_save_block
  <1>1. PICK o \in Offsets(Probe(n)) : Ends(n, o) /\ SaveFrom(Probe(n), o)
    BY <1>0
  <1> DEFINE b == Probe(n).block
             page == <<b, o>>
             found == IF FoundPage(Probe(n), o) THEN {page} ELSE {}
  <1>2. /\ migration_bitmap' = migration_bitmap \ found
        /\ migration_dirty_pages' = migration_dirty_pages - Cardinality(found)
        /\ last_seen_block' = b /\ last_offset' = o /\ logging' = logging
        /\ ram_bulk_stage' = (ram_bulk_stage /\ ~Probe(n).round)
    BY <1>1 DEF SaveFrom
  <1>3. b \in Nat /\ o \in Nat
    BY PageFacts, ProbeFields DEF MemoryTypes, Offsets
  <1> SUFFICES ASSUME logging PROVE BitsCounted'
    BY <1>2 DEF BitsCounted, DirtyPagesCounted
  <1>4. /\ FoundPage(Probe(n), o) => page \in migration_bitmap
        /\ ram_bulk_stage /\ ~Probe(n).round =>
             b >= last_seen_block /\ (b = last_seen_block => o >= last_offset)
    BY <1>1, SearchFinds DEF BitsCounted
  <1> HIDE DEF b
  <1>5. found \subseteq migration_bitmap /\ IsFiniteSet(migration_bitmap)
    BY <1>4, PagesFinite, FS_Subset DEF MemoryTypes
  <1>6. Cardinality(migration_bitmap \ found) = Cardinality(migration_bitmap) - Cardinality(found)
    <2>1. CASE found = {}
      <3>1. migration_bitmap \ {} = migration_bitmap /\ Cardinality({}) = 0
        BY FS_EmptySet
      <3>2. Cardinality(migration_bitmap) \in Nat
        BY <1>5, FS_CardinalityType
      <3>3. Cardinality(migration_bitmap \ {}) = Cardinality(migration_bitmap) - Cardinality({})
        BY <3>1, <3>2
      <3> QED BY <2>1, <3>3, Zenon
    <2>2. CASE found = {page} /\ page \in migration_bitmap
      BY <2>2, <1>5, FS_RemoveElement, FS_Singleton
    <2> QED BY <1>5, <2>1, <2>2
  <1>7. DirtyPagesCounted'
    BY <1>2, <1>6 DEF BitsCounted, DirtyPagesCounted
  <1>8. ASSUME ram_bulk_stage' PROVE AllAhead'
    <2>1. ram_bulk_stage /\ ~Probe(n).round /\ AllAhead
      BY <1>2, <1>8 DEF BitsCounted
    <2>2. ASSUME NEW p \in Page, p[1] > b \/ (p[1] = b /\ p[2] > o)
          PROVE  p \in migration_bitmap /\ p # page
      <3>1. p[1] \in Nat /\ p[2] \in Nat /\ last_offset \in Nat /\ last_seen_block \in Nat
        BY PageFacts DEF MemoryTypes
      <3>2. \/ p[1] > last_seen_block
            \/ p[1] = last_seen_block /\ p[2] > last_offset
        BY <1>3, <1>4, <2>1, <2>2, <3>1
      <3> QED BY <1>3, <2>1, <2>2, <3>1, <3>2 DEF AllAhead
    <2> QED BY <1>2, <2>2 DEF AllAhead
  <1> QED BY <1>7, <1>8 DEF BitsCounted

LEMMA BitsNext ==
  ASSUME MemoryTypes, BitsCounted, [Next]_vars
  PROVE  BitsCounted'
  <1> DEFINE Still == UNCHANGED <<migration_bitmap, migration_dirty_pages, logging>>
                      /\ UNCHANGED cursorVars
             Syncs == migration_bitmap_sync /\ UNCHANGED logging /\ UNCHANGED cursorVars
  <1>1. CASE Still
    BY <1>1 DEF cursorVars, AllAhead, BitsCounted, DirtyPagesCounted
  <1>2. CASE ~logging'
    BY <1>2 DEF BitsCounted, DirtyPagesCounted
  <1>3. CASE Syncs
    <2>1. AllAhead => AllAhead'
      BY <1>3 DEF migration_bitmap_sync, cursorVars, AllAhead
    <2>2. DirtyPagesCounted'
      BY <1>3, BitsAdded DEF migration_bitmap_sync, MemoryTypes, BitsCounted, DirtyPagesCounted
    <2> QED BY <1>3, <2>1, <2>2 DEF cursorVars, BitsCounted
  <1>4. CASE ram_save_block
    BY <1>4, BitsSearch
  <1>5. CASE ram_save_setup
    BY <1>5 DEF ram_save_setup, AllAhead, BitsCounted, DirtyPagesCounted
  <1> USE DEF bitmapVars, ramVars
  <1>6. CASE \/ qmp_migrate \/ tcp_wait_for_connect \/ CancelRead \/ CancelSwap
             \/ migrate_fd_cleanup \/ Write \/ process_incoming_migration_co
    <2>1. Still \/ ~logging'
      BY <1>6 DEF qmp_migrate, tcp_wait_for_connect, CancelRead, CancelSwap, cursorVars,
                  migrate_fd_cleanup, migration_end, Write, notdirty_mem_write,
                  process_incoming_migration_co
    <2> QED BY <1>1, <1>2, <2>1
  <1>7. CASE Setup \/ Iterate \/ CompletePage \/ CompleteEnd
    BY <1>2, <1>4, <1>5, <1>7 DEF Setup, Iterate, CompletePage, CompleteEnd, migration_end
  <1>8. CASE Pending \/ CompleteSync
    <2>1. Still \/ Syncs
      BY <1>8 DEF Pending, CompleteSync
    <2> QED BY <1>1, <1>3, <2>1
  <1>9. CASE \/ Begin \/ LoopEnds \/ LoopLimited \/ LoopGoes \/ IterateEnds \/ IteratePut
             \/ Stop \/ Fail \/ CompletePut \/ Done \/ CheckFails \/ CheckAgain
             \/ CheckDelay \/ End
    <2>1. Still
      BY <1>9 DEF Begin, LoopEnds, LoopLimited, LoopGoes, IterateEnds, IteratePut, Stop, Fail,
                  CompletePut, PutCurrent, Done, CheckFails, CheckAgain, CheckDelay, End,
                  cursorVars
    <2> QED BY <1>1, <2>1
  <1>10. CASE UNCHANGED vars
    BY <1>1, <1>10 DEF vars, cursorVars
  <1> QED BY <1>6, <1>7, <1>8, <1>9, <1>10 DEF Next, migration_thread, Complete

----------------------------------------------------------------------------
(* The theorems.                                                            *)

LEMMA Inductive == Spec => [](Control /\ Memory)
  <1>1. Init => Control /\ Memory
    BY ControlInit, MemoryInit
  <1>2. Control /\ Memory /\ [Next]_vars => Control' /\ Memory'
    <2> SUFFICES ASSUME Control, Memory, [Next]_vars
                 PROVE  Control' /\ Memory'
      OBVIOUS
    <2>1. CASE migration_thread
      BY <2>1, ControlThread, MemoryThread
    <2>2. CASE \/ qmp_migrate \/ tcp_wait_for_connect \/ CancelRead
               \/ CancelSwap \/ migrate_fd_cleanup \/ Write
               \/ process_incoming_migration_co
      BY <2>2, ControlMain, MemoryMain
    <2>3. CASE UNCHANGED vars
      <3>1. UNCHANGED <<ramVars, controlVars>>
        BY <2>3 DEF vars
      <3>2. Control'
        BY <3>1 DEF ramVars, controlVars, Control, PlaceAndState,
                    PlaceAndGuest, PlaceAndEnd, GuestFate, CleanupSound,
                    OneSideRuns
      <3>3. Memory'
        BY <3>1 DEF ramVars, controlVars, Memory, MemoryTypes, Stages,
                    NothingForgotten, Sending, DestMatches, Delivered
      <3> QED BY <3>2, <3>3
    <2> QED BY <2>1, <2>2, <2>3 DEF Next
  <1> QED BY <1>1, <1>2, PTL DEF Spec

\* Whatever the guest writes while migration_thread sends, every page is in
\* the dirty log, in the bitmap, in the thread's hand, already delivered, or
\* one ram_save_block skipped.
THEOREM NoPageForgotten == Spec => []NothingForgotten
  <1>1. Control /\ Memory => NothingForgotten
    BY DEF Memory
  <1> QED BY Inductive, <1>1, PTL

\* After qemu_savevm_state_complete the destination has the memory of the
\* stopped guest, up to the skipped pages.
THEOREM DestinationMatches == Spec => []DestMatches
  <1>1. Control /\ Memory => DestMatches
    BY DEF Memory
  <1> QED BY Inductive, <1>1, PTL

\* The guest runs on both sides only when a cancel came after the thread had
\* last looked at s->state.
THEOREM GuestRunsOnOneSide == Spec => []OneSideRuns
  <1>1. Control /\ Memory => OneSideRuns
    BY DEF Control
  <1> QED BY Inductive, <1>1, PTL

\* migration_dirty_pages is the number of bits of the bitmap, so the thread
\* stops the guest when as few pages are left as it means: though
\* migration_bitmap_find_and_reset_dirty takes pages unseen in the bulk stage.
THEOREM BitmapCounted == Spec => []DirtyPagesCounted
  <1>1. Init => BitsCounted
    BY DEF Init, BitsCounted, DirtyPagesCounted
  <1>2. Memory /\ BitsCounted /\ [Next]_vars => BitsCounted'
    BY BitsNext DEF Memory
  <1>3. BitsCounted => DirtyPagesCounted
    BY DEF BitsCounted
  <1> QED BY Inductive, <1>1, <1>2, <1>3, PTL DEF Spec

\* When migration_thread has ended, a completed migration has left the guest
\* in postmigrate and a failed or cancelled one has restarted the guest it
\* stopped; runstate_set aborts only for a guest that was not running.
THEOREM GuestIsLeftRight == Spec => []GuestFate
  <1>1. Control /\ Memory => GuestFate
    BY DEF Control
  <1> QED BY Inductive, <1>1, PTL

\* migrate_fd_cleanup runs for a thread that has ended, with its file and a
\* state it may assert, and when it has run the bitmap is freed.
THEOREM CleanupIsSound == Spec => []CleanupSound
  <1>1. Control /\ Memory => CleanupSound
    BY DEF Control
  <1> QED BY Inductive, <1>1, PTL
=============================================================================
