------------------------------ MODULE MCRbTree ------------------------------
(***************************************************************************)
(* Model checking of RbTree: three families of objects in one address      *)
(* space of ten addresses.                                              *)
(***************************************************************************)
EXTENDS RbTree

Objects(starts, sizes) == [key : starts, size : sizes, type : Types]

\* Disjoint one-byte objects: every tree shape of that size.
Disjoints == Objects(0 .. 8, {1})

\* Nested, overlapping and equal-start objects.
Overlapping == Objects(0 .. 4, {1, 2, 4})

\* Objects whose end wraps around the address space, and their neighbours: a
\* lookup never returns them, and the next object at such an address aborts.
Wrapping == Objects({0, 1, 7, 8, 9}, {1, 3})

Families == {Disjoints, Overlapping, Wrapping}
=============================================================================
