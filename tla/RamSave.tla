------------------------------ MODULE RamSave ------------------------------
(***************************************************************************)
(* The RAM part of live migration (arch_init.c) and the file it writes to   *)
(* (QEMUFile in savevm.c): the migration bitmap, the search for the next    *)
(* dirty page, and the iovec of pages that are read only when it is         *)
(* flushed.  The operators are the steps of the migration thread; module    *)
(* Migration says when they are taken.                                      *)
(*                                                                          *)
(* A page's data is abstracted to a member of Content.  The stream and the  *)
(* destination's ram_load are one function, the memory dest that results    *)
(* from what has been flushed.  XBZRLE, RDMA and the addition of RAM blocks *)
(* during a migration are left out.                                         *)
(***************************************************************************)
EXTENDS Integers, Sequences, FiniteSets

CONSTANTS
  BlockLen,   \* pages of each RAMBlock, in the order of ram_list.blocks
  Content,    \* the contents a page can have
  Zero,       \* the content is_zero_page recognises
  MaxIov      \* MAX_IOV_SIZE, in pages

ASSUME RamAssumption ==
  /\ BlockLen \in Seq(Nat \ {0})
  /\ Len(BlockLen) > 0
  /\ Zero \in Content
  /\ MaxIov \in Nat \ {0}

VARIABLES
  src,                    \* guest memory on the source
  dest,                   \* guest memory on the destination
  dirty_log,              \* pages with DIRTY_MEMORY_MIGRATION set
  migration_bitmap,       \* pages still to send ({} when it is freed)
  migration_dirty_pages,  \* the counter kept beside the bitmap
  logging,                \* migration_bitmap # NULL
  last_seen_block,        \* 0 is NULL
  last_offset,
  ram_bulk_stage,
  cur,                    \* page ram_save_block found and has not put yet
  iov,                    \* what f->iov holds for each page
  iovcnt,
  file_error,             \* f->last_error
  skipped                 \* history: pages whose bit was reset unsent

ramVars == <<src, dest, dirty_log, migration_bitmap, migration_dirty_pages,
             logging, last_seen_block, last_offset, ram_bulk_stage, cur, iov,
             iovcnt, file_error, skipped>>
bitmapVars == <<dirty_log, migration_bitmap, migration_dirty_pages, logging>>
cursorVars == <<last_seen_block, last_offset, ram_bulk_stage>>
fileVars == <<dest, iov, iovcnt, file_error>>

NBlocks == Len(BlockLen)
Page == UNION {{b} \X (0 .. BlockLen[b] - 1) : b \in 1..NBlocks}
NoPage == <<0, 0>>
NoIov == [p \in Page |-> "none"]

RamTypeOK ==
  /\ src \in [Page -> Content] /\ dest \in [Page -> Content]
  /\ dirty_log \subseteq Page /\ migration_bitmap \subseteq Page
  /\ migration_dirty_pages \in Int /\ logging \in BOOLEAN
  /\ last_seen_block \in 0..NBlocks /\ last_offset \in Nat
  /\ ram_bulk_stage \in BOOLEAN
  /\ cur \in Page \cup {NoPage}
  /\ iov \in [Page -> {"none", "zero", "page"}] /\ iovcnt \in 0..MaxIov
  /\ file_error \in BOOLEAN /\ skipped \subseteq Page

\* A store of the guest and its entry in the dirty log.  Both happen in the
\* vCPU thread under the iothread lock, and only code under that lock reads
\* the log.
notdirty_mem_write(p, c) ==
  /\ src' = [src EXCEPT ![p] = c]
  /\ dirty_log' = dirty_log \cup {p}
  /\ UNCHANGED <<migration_bitmap, migration_dirty_pages, logging, cur,
                 skipped>>
  /\ UNCHANGED cursorVars /\ UNCHANGED fileVars

----------------------------------------------------------------------------
(* The QEMUFile.                                                            *)

\* What the destination holds once the entries v of the iovec are written.
\* A page was queued by address and is read now; a zero page was queued as
\* one byte.
Delivered(v) ==
  [p \in Page |-> CASE v[p] = "zero" -> Zero
                    [] v[p] = "page" -> src[p]
                    [] OTHER -> dest[p]]

\* qemu_fflush with entries v, n of them: writev may fail.
FlushOf(v, n) ==
  /\ iov' = NoIov /\ iovcnt' = 0
  /\ \/ dest' = Delivered(v) /\ UNCHANGED file_error
     \/ n > 0 /\ file_error' = TRUE /\ UNCHANGED dest

qemu_fflush == FlushOf(iov, iovcnt)

\* save_block_hdr, then the byte of a zero page or qemu_put_buffer_async of a
\* normal one.  add_to_iovec flushes when the iovec is full; the headers may
\* fill f->buf, and so flush, at any page.  A file with an error drops the
\* page.
PutPage(p) ==
  LET item == IF src[p] = Zero THEN "zero" ELSE "page"
      v == [iov EXCEPT ![p] = item]
  IN IF file_error
     THEN UNCHANGED fileVars
     ELSE \/ /\ iovcnt + 1 < MaxIov
             /\ iov' = v /\ iovcnt' = iovcnt + 1
             /\ UNCHANGED <<dest, file_error>>
          \/ FlushOf(v, iovcnt + 1)

----------------------------------------------------------------------------
(* The bitmap.                                                              *)

\* Seeded fault: the log replaces what was still to be sent.
sync_replaces ==
  /\ migration_bitmap' = dirty_log
  /\ migration_dirty_pages' = Cardinality(dirty_log)
  /\ dirty_log' = {}

\* Seeded fault: a page that is in the bitmap already is counted again.
sync_counts_all ==
  /\ migration_bitmap' = migration_bitmap \cup dirty_log
  /\ migration_dirty_pages' = migration_dirty_pages + Cardinality(dirty_log)
  /\ dirty_log' = {}

migration_bitmap_sync ==
  /\ migration_bitmap' = migration_bitmap \cup dirty_log
  /\ migration_dirty_pages' =
       migration_dirty_pages + Cardinality(dirty_log \ migration_bitmap)
  /\ dirty_log' = {}

\* memory_global_dirty_log_start does not clear the log; the sync that
\* follows does, into a bitmap that is all ones already.
ram_save_setup ==
  /\ migration_bitmap' = Page
  /\ migration_dirty_pages' = Cardinality(Page)
  /\ dirty_log' = {}
  /\ logging' = TRUE
  /\ last_seen_block' = 0 /\ last_offset' = 0 /\ ram_bulk_stage' = TRUE
  /\ UNCHANGED <<src, cur, skipped>> /\ UNCHANGED fileVars

migration_end ==
  /\ migration_bitmap' = {}
  /\ logging' = FALSE
  /\ UNCHANGED <<dirty_log, migration_dirty_pages>>

\* The n-th block the loop of ram_save_block looks at.  It begins in the block
\* it saw last (the first one if there is none), and after the last block it
\* goes on with the first: that is complete_round.  It needs at most one more
\* probe than there are blocks.
Probe(n) ==
  LET k == (IF last_seen_block = 0 THEN 1 ELSE last_seen_block) + n - 1
  IN [block |-> IF k <= NBlocks THEN k ELSE k - NBlocks,
      start |-> IF n = 1 THEN last_offset ELSE 0,
      round |-> k > NBlocks]

Offsets(pr) == 0 .. BlockLen[pr.block]

\* migration_bitmap_find_and_reset_dirty returns offset o: the first dirty one
\* from the start, or the length of the block.  In the bulk stage, which ends
\* with complete_round, it takes the next page unseen.
FindDirty(pr, o) ==
  LET dirty == {q \in Offsets(pr) : q >= pr.start
                                     /\ <<pr.block, q>> \in migration_bitmap}
  IN IF ram_bulk_stage /\ ~pr.round /\ pr.start > 0
     THEN o = pr.start + 1
     ELSE \/ o \in dirty /\ \A q \in dirty : o <= q
          \/ dirty = {} /\ o = BlockLen[pr.block]

FoundPage(pr, o) == o < BlockLen[pr.block]
RoundDone(pr, o) == pr.round /\ pr.block = last_seen_block /\ o >= last_offset

\* The loop goes on after the n-th probe, or ends there with offset o.
Passes(n) ==
  \E o \in Offsets(Probe(n)) :
    /\ FindDirty(Probe(n), o)
    /\ ~FoundPage(Probe(n), o) /\ ~RoundDone(Probe(n), o)
Ends(n, o) ==
  /\ \A m \in 1 .. n - 1 : Passes(m)
  /\ FindDirty(Probe(n), o)
  /\ FoundPage(Probe(n), o) \/ RoundDone(Probe(n), o)

\* ram_save_block up to the page it puts; it returns 0 when cur' is NoPage.
\* The bit is reset by the search, before the test that ends the round.
SaveFrom(pr, o) ==
  LET page == <<pr.block, o>>
      found == IF FoundPage(pr, o) THEN {page} ELSE {}
  IN /\ migration_bitmap' = migration_bitmap \ found
     /\ migration_dirty_pages' = migration_dirty_pages - Cardinality(found)
     /\ last_seen_block' = pr.block
     /\ last_offset' = o
     /\ ram_bulk_stage' = (ram_bulk_stage /\ ~pr.round)
     /\ cur' = IF RoundDone(pr, o) THEN NoPage ELSE page
     /\ skipped' = skipped \cup (IF RoundDone(pr, o) THEN found ELSE {})
     /\ UNCHANGED <<src, dirty_log, logging>> /\ UNCHANGED fileVars
ram_save_block ==
  \E n \in 1 .. NBlocks + 1 :
    \E o \in Offsets(Probe(n)) : Ends(n, o) /\ SaveFrom(Probe(n), o)

\* The rest of ram_save_block: the page goes into the file.
PutCurrent ==
  /\ PutPage(cur)
  /\ cur' = NoPage
  /\ skipped' = skipped \ {cur}
  /\ UNCHANGED <<src>> /\ UNCHANGED bitmapVars /\ UNCHANGED cursorVars
=============================================================================
