------------------------------ MODULE FlatMem ------------------------------
(***************************************************************************)
(* What shadow_mem.c promises: one value per guest address.  This is the   *)
(* shadow memory that module ObjTracer works with.                         *)
(***************************************************************************)
EXTENDS Integers

CONSTANTS AddrSpace, Values, Untainted

VARIABLE mem

Addr == 0 .. AddrSpace - 1

Init == mem = [a \in Addr |-> Untainted]

\* set_mem_taint2
SetByte(a, v) == mem' = [mem EXCEPT ![a] = v]

\* taintInit2
Reset == mem' = [a \in Addr |-> Untainted]

Next == (\E a \in Addr, v \in Values : SetByte(a, v)) \/ Reset

Spec == Init /\ [][Next]_mem
=============================================================================
