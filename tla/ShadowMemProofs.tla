-------------------------- MODULE ShadowMemProofs --------------------------
(***************************************************************************)
(* Proofs about ShadowMem, for every number and size of pages and every    *)
(* amount of host memory: pages never share a map, a range store changes   *)
(* exactly its range, and the two-level map implements a flat one.         *)
(***************************************************************************)
EXTENDS ShadowMem, TLAPS

-----------------------------------------------------------------------------
(* Addresses.                                                              *)

\* An address is its page and its offset put together.
LEMMA Split ==
  ASSUME NEW a \in Addr
  PROVE  /\ a \in Nat /\ pageOf(a) \in Nat
         /\ offOf(a) \in Offset
         /\ a = PageSize * pageOf(a) + offOf(a)
<1>1. a \in Nat /\ PageSize \in Nat /\ PageSize > 0
  BY SizeAssumption DEF Addr, AddrSpace
<1> QED
  BY <1>1 DEF pageOf, offOf, Offset

\* The page of an address is one of the primary map's.
LEMMA PageType ==
  ASSUME NEW a \in Addr
  PROVE  pageOf(a) \in Page
<1> DEFINE q == pageOf(a)
<1>1. /\ q \in Nat /\ PageSize \in Nat /\ PageNum \in Nat /\ PageSize > 0
      /\ a = PageSize * q + offOf(a) /\ offOf(a) \in Nat
      /\ a < PageNum * PageSize
  BY Split, SizeAssumption DEF Addr, AddrSpace, Offset
<1>2. ASSUME q >= PageNum PROVE FALSE
  <2>1. PICK d \in Nat : q = PageNum + d
    <3>1. q - PageNum \in Nat
      BY <1>1, <1>2
    <3> QED
      BY <1>1, <3>1
  <2>2. PageSize * (PageNum + d) = PageSize * PageNum + PageSize * d
    BY <1>1
  <2>3. PageSize * d >= 0 /\ PageSize * PageNum = PageNum * PageSize
    BY <1>1
  <2> HIDE DEF q
  <2>4. PageSize * q = PageNum * PageSize + PageSize * d
    BY <2>1, <2>2, <2>3
  <2> QED
    BY <1>1, <2>3, <2>4
<1> HIDE DEF q
<1>3. q \in 0 .. PageNum - 1
  BY <1>1, <1>2
<1> QED
  BY <1>3 DEF q, Page

\* Two addresses with the same page and offset are the same.
LEMMA SplitInjective ==
  ASSUME NEW a \in Addr, NEW b \in Addr,
         pageOf(a) = pageOf(b), offOf(a) = offOf(b)
  PROVE  a = b
BY Split

\* Addition wraps inside the address space.
LEMMA AddrPlusType ==
  ASSUME NEW a \in Addr, NEW n \in Nat
  PROVE  AddrPlus(a, n) \in Addr
<1>1. AddrSpace \in Nat /\ AddrSpace > 0
  BY SizeAssumption DEF AddrSpace
<1> HIDE DEF AddrSpace
<1>2. a + n \in Nat
  BY <1>1 DEF Addr
<1> QED
  BY <1>1, <1>2 DEF AddrPlus, Addr

-----------------------------------------------------------------------------
(* One byte.                                                               *)

\* The part of the state that set_mem_taint2 works on.
MapType ==
  /\ primary \in [Page -> Maps \cup {Distinguished}]
  /\ byte \in [Maps \cup {Distinguished} -> [Offset -> Values]]
  /\ used \subseteq Maps
  /\ crashed \in BOOLEAN

\* Every address reads a shadow value.
LEMMA ReadType ==
  ASSUME MapType, NEW a \in Addr
  PROVE  get_mem_taint2(a) \in Values
BY PageType, Split DEF MapType, get_mem_taint2

\* A fresh map is a secondary map.
LEMMA FreshType == Fresh \in [Offset -> Values]
BY ValueAssumption DEF Fresh

\* set_mem_taint2 changes what address a reads, and nothing else; or malloc
\* fails and nothing changes.
LEMMA StoreByte ==
  ASSUME MapType, NoSharing, ~crashed, NEW a \in Addr, NEW v \in Values,
         set_mem_taint2(a, v)
  PROVE  /\ MapType' /\ NoSharing'
         /\ \/ crashed' /\ UNCHANGED <<primary, byte, used>>
            \/ /\ ~crashed'
               /\ \A b \in Addr : get_mem_taint2(b)' =
                                    IF b = a THEN v ELSE get_mem_taint2(b)
<1> DEFINE p == pageOf(a)
           o == offOf(a)
<1>1. p \in Page /\ o \in Offset
  BY PageType, Split
<1>2. ASSUME NEW b \in Addr
      PROVE  /\ pageOf(b) \in Page /\ offOf(b) \in Offset
             /\ b # a => pageOf(b) # p \/ offOf(b) # o
  BY PageType, Split, SplitInjective
<1> HIDE DEF p, o
<1>3. CASE /\ primary[p] # Distinguished
           /\ byte' = [byte EXCEPT ![primary[p]][o] = v]
           /\ UNCHANGED <<primary, used, crashed>>
  <2>1. primary[p] \in Maps
    BY <1>1, <1>3 DEF MapType
  <2>2. MapType'
    BY <1>1, <1>3, <2>1 DEF MapType
  <2>3. NoSharing'
    BY <1>1, <1>3, <2>1, MapAssumption DEF NoSharing, MapType, Fresh
  <2>4. ASSUME NEW b \in Addr
        PROVE  get_mem_taint2(b)' = IF b = a THEN v ELSE get_mem_taint2(b)
    <3>1. get_mem_taint2(b)' = byte'[primary[pageOf(b)]][offOf(b)]
      BY <1>3 DEF get_mem_taint2
    <3>2. CASE b = a
      <4>1. pageOf(b) = p /\ offOf(b) = o
        BY <3>2 DEF p, o
      <4> QED
        BY <1>1, <1>3, <2>1, <3>1, <3>2, <4>1 DEF MapType
    <3>3. CASE b # a
      <4>1. primary[pageOf(b)] # primary[p] \/ offOf(b) # o
        BY <1>1, <1>2, <1>3, <3>3 DEF NoSharing
      <4>2. byte'[primary[pageOf(b)]][offOf(b)] = byte[primary[pageOf(b)]][offOf(b)]
        BY <1>1, <1>2, <1>3, <2>1, <4>1 DEF MapType
      <4> QED
        BY <3>1, <3>3, <4>2 DEF get_mem_taint2
    <3> QED
      BY <3>2, <3>3
  <2> QED
    BY <1>3, <2>2, <2>3, <2>4
<1>4. CASE /\ primary[p] = Distinguished
           /\ \E m \in Maps \ used :
                /\ primary' = [primary EXCEPT ![p] = m]
                /\ byte' = [byte EXCEPT ![m] = [Fresh EXCEPT ![o] = v]]
                /\ used' = used \cup {m}
           /\ UNCHANGED crashed
  <2>1. PICK m \in Maps \ used :
                /\ primary' = [primary EXCEPT ![p] = m]
                /\ byte' = [byte EXCEPT ![m] = [Fresh EXCEPT ![o] = v]]
                /\ used' = used \cup {m}
    BY <1>4
  <2>2. MapType'
    BY <1>1, <1>4, <2>1, FreshType DEF MapType
  <2>3. \A q \in Page : primary[q] # m
    BY <2>1, MapAssumption DEF NoSharing
  <2>4. NoSharing'
    <3>1. byte'[Distinguished] = Fresh
      BY <2>1, MapAssumption DEF NoSharing, MapType
    <3>2. \A q \in Page : primary'[q] = IF q = p THEN m ELSE primary[q]
      BY <1>1, <2>1 DEF MapType
    <3> QED
      BY <2>1, <2>3, <3>1, <3>2 DEF NoSharing, Fresh
  <2>5. ASSUME NEW b \in Addr
        PROVE  get_mem_taint2(b)' = IF b = a THEN v ELSE get_mem_taint2(b)
    <3>1. get_mem_taint2(b)' = byte'[primary'[pageOf(b)]][offOf(b)]
      BY DEF get_mem_taint2
    <3>2. CASE pageOf(b) = p
      <4>1. get_mem_taint2(b)' = [Fresh EXCEPT ![o] = v][offOf(b)]
        BY <1>1, <2>1, <3>1, <3>2 DEF MapType
      <4>2. get_mem_taint2(b) = Fresh[offOf(b)]
        BY <1>4, <3>2 DEF get_mem_taint2, NoSharing
      <4>3. offOf(b) = o <=> b = a
        BY <1>2, <3>2 DEF o
      <4> QED
        BY <1>1, <1>2, <4>1, <4>2, <4>3, FreshType
    <3>3. CASE pageOf(b) # p
      <4>1. primary'[pageOf(b)] = primary[pageOf(b)]
        BY <1>2, <2>1, <3>3 DEF MapType
      <4>2. byte'[primary[pageOf(b)]] = byte[primary[pageOf(b)]]
        BY <1>2, <2>1, <2>3 DEF MapType
      <4>3. b # a
        BY <3>3 DEF p
      <4> QED
        BY <3>1, <4>1, <4>2, <4>3 DEF get_mem_taint2
    <3> QED
      BY <3>2, <3>3
  <2> QED
    BY <1>4, <2>2, <2>4, <2>5
<1>5. CASE crashed' = TRUE /\ UNCHANGED <<primary, byte, used>>
  BY <1>5 DEF MapType, NoSharing, Fresh
<1> QED
  BY <1>3, <1>4, <1>5 DEF set_mem_taint2, p, o

-----------------------------------------------------------------------------
(* The specification.                                                      *)

IInv == TypeOK /\ NoSharing /\ RangeExact

\* The initial state satisfies the inductive invariant.
LEMMA InitInv == Init => IInv
<1> SUFFICES ASSUME Init PROVE IInv
  OBVIOUS
<1>1. TypeOK
  BY FreshType, ValueAssumption DEF Init, TypeOK
<1>2. NoSharing
  BY DEF Init, NoSharing
<1>3. RangeExact
  BY DEF Init, RangeExact
<1> QED
  BY <1>1, <1>2, <1>3 DEF IInv

\* One more byte of a range.
LEMMA RangeGrows ==
  ASSUME NEW a, NEW i \in Nat
  PROVE  {AddrPlus(a, k) : k \in 0 .. (i + 1) - 1} =
           {AddrPlus(a, k) : k \in 0 .. i - 1} \cup {AddrPlus(a, i)}
<1>1. 0 .. (i + 1) - 1 = (0 .. i - 1) \cup {i}
  OBVIOUS
<1> QED
  BY <1>1

\* A turn of the loop preserves the inductive invariant.
LEMMA StepInv ==
  ASSUME IInv, Step
  PROVE  IInv'
<1> DEFINE a == AddrPlus(job.a, job.i)
<1>1. job \in Job /\ job # NoJob /\ ~crashed /\ job.i \in Nat /\ job.v \in Values
  BY DEF Step, IInv, TypeOK, Job
<1>2. a \in Addr
  BY <1>1, AddrPlusType DEF Job
<1>3. set_mem_taint2(a, job.v) /\ UNCHANGED before
  BY DEF Step
<1>4. job' = IF crashed' THEN job ELSE [job EXCEPT !.i = @ + 1]
  BY DEF Step
<1>5. MapType
  BY DEF IInv, TypeOK, MapType
<1>6. /\ MapType' /\ NoSharing'
      /\ \/ crashed' /\ UNCHANGED <<primary, byte, used>>
         \/ /\ ~crashed'
            /\ \A b \in Addr : get_mem_taint2(b)' =
                                 IF b = a THEN job.v ELSE get_mem_taint2(b)
  BY <1>1, <1>2, <1>3, <1>5, StoreByte DEF IInv
<1>7. job' \in Job /\ job' # NoJob /\ job'.a = job.a /\ job'.v = job.v
  BY <1>1, <1>4, NoJobAssumption DEF Job
<1>8. TypeOK'
  BY <1>3, <1>6, <1>7 DEF TypeOK, MapType, IInv
<1>9. RangeExact'
  <2>1. CASE crashed' /\ UNCHANGED <<primary, byte, used>>
    BY <1>3, <1>4, <2>1 DEF RangeExact, IInv, get_mem_taint2
  <2>2. CASE /\ ~crashed'
             /\ \A b \in Addr : get_mem_taint2(b)' =
                                  IF b = a THEN job.v ELSE get_mem_taint2(b)
    <3> DEFINE done == {AddrPlus(job.a, k) : k \in 0 .. job.i - 1}
               done1 == {AddrPlus(job'.a, k) : k \in 0 .. job'.i - 1}
    <3>1. job'.i = job.i + 1
      BY <1>1, <1>4, <2>2 DEF Job
    <3>2. done1 = done \cup {a}
      BY <1>1, <1>7, <3>1, RangeGrows
    <3>3. \A b \in Addr : get_mem_taint2(b) = IF b \in done THEN job.v ELSE before[b]
      BY <1>1 DEF IInv, RangeExact
    <3> HIDE DEF a, done, done1
    <3>4. \A b \in Addr : get_mem_taint2(b)' = IF b \in done1 THEN job'.v ELSE before'[b]
      BY <1>3, <1>7, <2>2, <3>2, <3>3
    <3> QED
      BY <3>4 DEF done1, RangeExact
  <2> QED
    BY <1>6, <2>1, <2>2
<1> QED
  BY <1>6, <1>8, <1>9 DEF IInv

\* Every step preserves the inductive invariant.
LEMMA NextInv ==
  ASSUME IInv, [Next]_vars
  PROVE  IInv'
<1>1. CASE UNCHANGED vars
  BY <1>1 DEF vars, IInv, TypeOK, NoSharing, RangeExact, get_mem_taint2, Fresh
<1>2. ASSUME NEW a \in Addr, NEW v \in Values, NEW n \in Lengths, Start(a, v, n)
      PROVE  IInv'
  <2>1. \A b \in Addr : get_mem_taint2(b) \in Values
    BY ReadType DEF IInv, TypeOK, MapType
  <2>2. TypeOK'
    BY <1>2, <2>1 DEF Start, IInv, TypeOK, Job, Contents
  <2>3. NoSharing'
    BY <1>2 DEF Start, IInv, NoSharing, Fresh
  <2>4. job'.i = 0 /\ before' = Contents /\ UNCHANGED <<primary, byte>>
    BY <1>2 DEF Start
  <2>5. RangeExact'
    BY <2>4 DEF RangeExact, Contents, get_mem_taint2
  <2> QED
    BY <2>2, <2>3, <2>5 DEF IInv
<1>3. CASE Step
  BY <1>3, StepInv
<1>4. CASE Return
  BY <1>4 DEF Return, IInv, TypeOK, NoSharing, RangeExact, Fresh
<1>5. CASE taintInit2
  <2>1. TypeOK'
    BY <1>5, FreshType DEF taintInit2, IInv, TypeOK
  <2>2. NoSharing'
    BY <1>5 DEF taintInit2, IInv, TypeOK, NoSharing, Fresh
  <2> QED
    BY <1>5, <2>1, <2>2 DEF taintInit2, IInv, RangeExact
<1> QED
  BY <1>1, <1>2, <1>3, <1>4, <1>5 DEF Next

\* The inductive invariant holds in every reachable state.
LEMMA Invariance == Spec => []IInv
BY InitInv, NextInv, PTL DEF Spec

\* Pages never see each other's stores.
THEOREM PagesApart == Spec => []NoSharing
<1>1. IInv => NoSharing
  BY DEF IInv
<1> QED
  BY <1>1, Invariance, PTL

\* set_mem_taint_bysize2 changes exactly its range, wherever it lies.
THEOREM RangeStores == Spec => []RangeExact
<1>1. IInv => RangeExact
  BY DEF IInv
<1> QED
  BY <1>1, Invariance, PTL

-----------------------------------------------------------------------------
(* The two-level map implements the flat one.                              *)

\* Equal reads make equal contents.
LEMMA SameContents ==
  ASSUME \A b \in Addr : get_mem_taint2(b)' = get_mem_taint2(b)
  PROVE  Contents' = Contents
BY DEF Contents

\* A step of the two-level map is a store, a reset or no change of the flat one.
LEMMA StepSimulation ==
  ASSUME IInv, [Next]_vars
  PROVE  [Flat!Next]_Contents
<1>1. CASE UNCHANGED <<primary, byte>>
  BY <1>1, SameContents DEF get_mem_taint2
<1>2. CASE Step
  <2> DEFINE a == AddrPlus(job.a, job.i)
  <2>1. job \in Job /\ ~crashed /\ a \in Addr /\ job.v \in Values
    BY <1>2, AddrPlusType DEF Step, IInv, TypeOK, Job
  <2>2. \/ UNCHANGED <<primary, byte>>
        \/ \A b \in Addr : get_mem_taint2(b)' =
                             IF b = a THEN job.v ELSE get_mem_taint2(b)
    BY <1>2, <2>1, StoreByte DEF Step, IInv, TypeOK, MapType
  <2>3. CASE \A b \in Addr : get_mem_taint2(b)' =
                               IF b = a THEN job.v ELSE get_mem_taint2(b)
    <3>1. Contents' = [Contents EXCEPT ![a] = job.v]
      BY <2>1, <2>3 DEF Contents
    <3>2. Flat!SetByte(a, job.v)
      BY <3>1 DEF Flat!SetByte
    <3>3. Flat!Addr = Addr
      BY DEF Flat!Addr, Addr
    <3> QED
      BY <2>1, <3>2, <3>3 DEF Flat!Next
  <2> QED
    BY <1>1, <2>2, <2>3
<1>3. CASE taintInit2
  <2>1. \A b \in Addr : get_mem_taint2(b)' = Untainted
    BY <1>3, PageType, Split DEF taintInit2, get_mem_taint2, IInv, TypeOK, Fresh
  <2>2. Contents' = [b \in Addr |-> Untainted]
    BY <2>1 DEF Contents
  <2>3. Flat!Reset
    BY <2>2 DEF Flat!Reset, Flat!Addr, Addr
  <2> QED
    BY <2>3 DEF Flat!Next
<1> QED
  BY <1>1, <1>2, <1>3 DEF Next, vars, Start, Return

\* shadow_mem.c behaves as a flat map with one value per guest address.
THEOREM Refinement == Spec => ImplementsFlatMem
<1>1. Init => Flat!Init
  <2> SUFFICES ASSUME Init PROVE Flat!Init
    OBVIOUS
  <2>1. \A b \in Addr : get_mem_taint2(b) = Untainted
    BY PageType, Split DEF Init, get_mem_taint2, Fresh
  <2> QED
    BY <2>1 DEF Contents, Flat!Init, Flat!Addr, Addr
<1>2. IInv /\ [Next]_vars => [Flat!Next]_Contents
  BY StepSimulation
<1> QED
  BY <1>1, <1>2, Invariance, PTL DEF Spec, ImplementsFlatMem, Flat!Spec
=============================================================================
