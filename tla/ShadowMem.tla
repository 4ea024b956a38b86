----------------------------- MODULE ShadowMem -----------------------------
(***************************************************************************)
(* The shadow memory of target-i386/rev_sem/shadow_mem.c: a primary map of *)
(* pages, all of which share one distinguished secondary map until they    *)
(* are first written to.  set_mem_taint_bysize2 is taken one byte at a     *)
(* time, and may cross pages and wrap at the end of the address space.     *)
(***************************************************************************)
EXTENDS Integers

CONSTANTS
  PageNum,        \* PAGE_NUM, 2^16
  PageSize,       \* PAGE_SIZE, 2^16
  Maps,           \* secondary maps that malloc can return
  Distinguished,  \* distinguished_secondary_map
  Values,         \* shadow values the callers store
  Untainted,      \* UNTAINTED
  Lengths,        \* lengths of the ranges they store to
  NoJob

AddrSpace == PageNum * PageSize
Addr == 0 .. AddrSpace - 1
Page == 0 .. PageNum - 1
Offset == 0 .. PageSize - 1

ASSUME SizeAssumption == PageNum \in Nat \ {0} /\ PageSize \in Nat \ {0}
ASSUME MapAssumption == Distinguished \notin Maps
ASSUME ValueAssumption == Untainted \in Values /\ Lengths \subseteq Nat

Job == [a : Addr, v : Values, n : Lengths, i : Nat]

ASSUME NoJobAssumption == NoJob \notin Job

VARIABLES
  primary,   \* ii_primary_map: page -> secondary map
  byte,      \* the contents of every secondary map
  used,      \* the secondary maps malloc has returned; none is ever freed
  job,       \* the loop of set_mem_taint_bysize2 that is under way
  crashed,   \* malloc returned NULL and alloc_secondary_map wrote through it
  before     \* history: what every address read when the loop started

vars == <<primary, byte, used, job, crashed, before>>

AddrPlus(a, n) == (a + n) % AddrSpace

pageOf(a) == a \div PageSize     \* a >> 16
offOf(a) == a % PageSize         \* a & 0xFFFF

Fresh == [o \in Offset |-> Untainted]

get_mem_taint2(a) == byte[primary[pageOf(a)]][offOf(a)]

Contents == [a \in Addr |-> get_mem_taint2(a)]

\* set_mem_taint2 with ENSURE_MAPPABLE_BYTE_GRANUITY and alloc_secondary_map.
set_mem_taint2(a, v) ==
  \/ /\ primary[pageOf(a)] # Distinguished
     /\ byte' = [byte EXCEPT ![primary[pageOf(a)]][offOf(a)] = v]
     /\ UNCHANGED <<primary, used, crashed>>
  \/ /\ primary[pageOf(a)] = Distinguished
     /\ \E m \in Maps \ used :
          /\ primary' = [primary EXCEPT ![pageOf(a)] = m]
          /\ byte' = [byte EXCEPT ![m] = [Fresh EXCEPT ![offOf(a)] = v]]
          /\ used' = used \cup {m}
     /\ UNCHANGED crashed
  \/ /\ primary[pageOf(a)] = Distinguished
     /\ Maps \subseteq used
     /\ crashed' = TRUE
     /\ UNCHANGED <<primary, byte, used>>

\* set_mem_taint_bysize2 is called.
Start(a, v, n) ==
  /\ ~crashed /\ job = NoJob
  /\ job' = [a |-> a, v |-> v, n |-> n, i |-> 0]
  /\ before' = Contents
  /\ UNCHANGED <<primary, byte, used, crashed>>

\* Seeded fault: the address is cut to its page before the offset is added.
StepInPage ==
  /\ ~crashed /\ job # NoJob /\ job.i < job.n
  /\ set_mem_taint2(pageOf(job.a) * PageSize + offOf(job.a + job.i), job.v)
  /\ job' = IF crashed' THEN job ELSE [job EXCEPT !.i = @ + 1]
  /\ UNCHANGED before

\* One turn of its loop.
Step ==
  /\ ~crashed /\ job # NoJob /\ job.i < job.n
  /\ set_mem_taint2(AddrPlus(job.a, job.i), job.v)
  /\ job' = IF crashed' THEN job ELSE [job EXCEPT !.i = @ + 1]
  /\ UNCHANGED before

\* It returns.
Return ==
  /\ ~crashed /\ job # NoJob /\ job.i >= job.n
  /\ job' = NoJob
  /\ UNCHANGED <<primary, byte, used, crashed, before>>

\* Seeded fault: the loop over the primary map ends one page early.
taintInit2_short ==
  /\ ~crashed /\ job = NoJob
  /\ primary' = [p \in Page |-> IF p = PageNum - 1 THEN primary[p] ELSE Distinguished]
  /\ byte' = [byte EXCEPT ![Distinguished] = Fresh]
  /\ UNCHANGED <<used, job, crashed, before>>

\* taintInit2, at start-up and at every pemu command of the monitor: the pages
\* fall back to the distinguished map, the maps they had stay allocated.
taintInit2 ==
  /\ ~crashed /\ job = NoJob
  /\ primary' = [p \in Page |-> Distinguished]
  /\ byte' = [byte EXCEPT ![Distinguished] = Fresh]
  /\ UNCHANGED <<used, job, crashed, before>>

Init ==
  /\ primary = [p \in Page |-> Distinguished]
  /\ byte = [m \in Maps \cup {Distinguished} |-> Fresh]
  /\ used = {}
  /\ job = NoJob
  /\ crashed = FALSE
  /\ before = [a \in Addr |-> Untainted]

Next ==
  \/ \E a \in Addr, v \in Values, n \in Lengths : Start(a, v, n)
  \/ Step
  \/ Return
  \/ taintInit2

Spec == Init /\ [][Next]_vars

-----------------------------------------------------------------------------
TypeOK ==
  /\ primary \in [Page -> Maps \cup {Distinguished}]
  /\ byte \in [Maps \cup {Distinguished} -> [Offset -> Values]]
  /\ used \subseteq Maps
  /\ job \in Job \cup {NoJob}
  /\ crashed \in BOOLEAN
  /\ before \in [Addr -> Values]

\* A store to one page is never seen through another: no two pages share a
\* map of their own, every such map has been allocated, and the distinguished
\* map that all other pages read through still holds UNTAINTED everywhere
\* (ENSURE_MAPPABLE_BYTE_GRANUITY, shadow_mem.c:21-26).
NoSharing ==
  /\ \A p, q \in Page : primary[p] = primary[q] => p = q \/ primary[p] = Distinguished
  /\ \A p \in Page : primary[p] \in used \cup {Distinguished}
  /\ byte[Distinguished] = Fresh

\* Up to the byte the loop has reached, the range reads the value stored, and
\* every other address reads what it did before, also across pages and across
\* the end of the address space (set_mem_taint_bysize2, shadow_mem.c:111-118).
RangeExact ==
  job # NoJob =>
    \A b \in Addr :
      get_mem_taint2(b) = IF b \in {AddrPlus(job.a, k) : k \in 0 .. job.i - 1}
                          THEN job.v ELSE before[b]

\* The two-level map behaves as one flat map under single-byte stores and
\* resets.
Flat == INSTANCE FlatMem WITH mem <- Contents
ImplementsFlatMem == Flat!Spec
=============================================================================
