---------------------------- MODULE MCCallChain ----------------------------
(* CallChain with two tasks and one return address of each kind.           *)
EXTENDS CallChain

\* The last word of the address space, and the word of kernel stack 0 in which
\* the first call of a task sets up its frame: inside the task's own stack for
\* task 0, outside it for task 1.
MCUserEbps == {AddrMod - 1, Esp0(0) - 4}
=============================================================================
