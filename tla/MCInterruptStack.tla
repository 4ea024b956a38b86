-------------------------- MODULE MCInterruptStack --------------------------
EXTENDS InterruptStack, TLC

\* No stack is special.
Interchangeable == Permutations(Stacks)
=============================================================================
