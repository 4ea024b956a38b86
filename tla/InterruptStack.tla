--------------------------- MODULE InterruptStack ---------------------------
(***************************************************************************)
(* g_interrupt_esp of lib_map.cpp: for every kernel stack, the interrupts  *)
(* and exceptions that are open on it.  do_interrupt_all pushes, every     *)
(* protected-mode iret pops, and the top decides whether a call chain is   *)
(* marked as interrupt context.  The guest kernel around it switches       *)
(* tasks, enters and leaves system calls, forks, and lets tasks die.       *)
(*                                                                         *)
(* A stack stands for the task that runs on it.  Both the key and max_esp  *)
(* come from one read of the TSS's esp0 (get_kernel_esp), so an entry is   *)
(* its interrupt number alone.                                             *)
(***************************************************************************)
EXTENDS Integers, Sequences

CONSTANTS
  Stacks,     \* kernel stacks, by esp0 & 0xffffe000
  IntNums,    \* interrupt and exception numbers other than 0x80
  MaxDepth,   \* bound: interrupts the guest nests on one stack
  MaxEntries, \* bound: entries on one stack of g_interrupt_esp
  Absent      \* no key in g_interrupt_esp

ASSUME BoundAssumption == MaxDepth \in Nat /\ MaxEntries \in Nat
ASSUME AbsentAssumption == Absent \notin Seq(IntNums)

VARIABLES
  stk,      \* g_interrupt_esp
  booted,   \* guest: esp0 can be read
  cur,      \* guest: the stack in use
  mode,     \* guest: what each task runs below its open interrupts
  ints,     \* guest: the interrupts open on each stack, innermost last
  left      \* history: entries that no interrupt of a living task owns

vars == <<stk, booted, cur, mode, ints, left>>

Entries(b) == IF stk[b] = Absent THEN <<>> ELSE stk[b]

-----------------------------------------------------------------------------
add_interrupt_esp(b, n) == stk' = [stk EXCEPT ![b] = Append(Entries(b), n)]

\* The marker of a call chain on stack b; top() needs a stack that is not empty.
get_interrupt_new(b) == IF stk[b] = Absent THEN Absent ELSE stk[b][Len(stk[b])]

\* Seeded fault: the key stays when its stack becomes empty.
delete_keeps_key(b) ==
  stk' = IF stk[b] = Absent \/ stk[b] = <<>> THEN stk
         ELSE [stk EXCEPT ![b] = SubSeq(@, 1, Len(@) - 1)]

\* Seeded fault: the key goes with its first entry.
delete_whole_key(b) == stk' = [stk EXCEPT ![b] = Absent]

\* A pop, and the key goes with its last entry.
delete_interrupt_esp(b) ==
  stk' = IF stk[b] = Absent \/ stk[b] = <<>> THEN stk
         ELSE [stk EXCEPT ![b] = IF Len(@) = 1 THEN Absent
                                 ELSE SubSeq(@, 1, Len(@) - 1)]

-----------------------------------------------------------------------------
\* Before the guest kernel has mapped the TSS, get_kernel_esp returns an
\* uninitialized variable: the key is any.
BootInterrupt(b, n) ==
  /\ ~booted /\ Len(Entries(b)) < MaxEntries
  /\ add_interrupt_esp(b, n)
  /\ left' = [left EXCEPT ![b] = @ + 1]
  /\ UNCHANGED <<booted, cur, mode, ints>>

BootIret(b) ==
  /\ ~booted
  /\ delete_interrupt_esp(b)
  /\ left' = [left EXCEPT ![b] = IF @ = 0 THEN 0 ELSE @ - 1]
  /\ UNCHANGED <<booted, cur, mode, ints>>

Boot ==
  /\ ~booted
  /\ booted' = TRUE
  /\ UNCHANGED <<stk, cur, mode, ints, left>>

\* do_interrupt_all for an interrupt or exception.
Interrupt(n) ==
  /\ booted /\ Len(ints[cur]) < MaxDepth /\ Len(Entries(cur)) < MaxEntries
  /\ add_interrupt_esp(cur, n)
  /\ ints' = [ints EXCEPT ![cur] = Append(@, n)]
  /\ UNCHANGED <<booted, cur, mode, left>>

\* helper_iret_protected, back from an interrupt.
Iret ==
  /\ booted /\ ints[cur] # <<>>
  /\ delete_interrupt_esp(cur)
  /\ ints' = [ints EXCEPT ![cur] = SubSeq(@, 1, Len(@) - 1)]
  /\ UNCHANGED <<booted, cur, mode, left>>

\* do_interrupt_all for int 0x80, and sysenter: nothing is pushed.
SysEnter ==
  /\ booted /\ mode[cur] = "user" /\ ints[cur] = <<>>
  /\ mode' = [mode EXCEPT ![cur] = "sys"]
  /\ UNCHANGED <<stk, booted, cur, ints, left>>

\* Back from a system call by iret, which pops all the same.
SysIret ==
  /\ booted /\ mode[cur] = "sys" /\ ints[cur] = <<>>
  /\ delete_interrupt_esp(cur)
  /\ mode' = [mode EXCEPT ![cur] = "user"]
  /\ left' = [left EXCEPT ![cur] = IF @ = 0 THEN 0 ELSE @ - 1]
  /\ UNCHANGED <<booted, cur, ints>>

SysExit ==
  /\ booted /\ mode[cur] = "sys" /\ ints[cur] = <<>>
  /\ mode' = [mode EXCEPT ![cur] = "user"]
  /\ UNCHANGED <<stk, booted, cur, ints, left>>

InKernel == mode[cur] = "sys" \/ ints[cur] # <<>>

\* A task switch: stack and esp0 change together, interrupts being off.
Switch(b) ==
  /\ booted /\ InKernel
  /\ b # cur /\ mode[b] # "free"
  /\ cur' = b
  /\ UNCHANGED <<stk, booted, mode, ints, left>>

\* fork: a child on a free stack, which will leave the system call.
Fork(b) ==
  /\ booted /\ mode[cur] = "sys" /\ mode[b] = "free"
  /\ mode' = [mode EXCEPT ![b] = "sys"]
  /\ UNCHANGED <<stk, booted, cur, ints, left>>

\* The task dies, perhaps inside an interrupt or exception that never returns,
\* and its stack is free for another one.
Exit(b) ==
  /\ booted /\ InKernel
  /\ b # cur /\ mode[b] # "free"
  /\ mode' = [mode EXCEPT ![cur] = "free"]
  /\ left' = [left EXCEPT ![cur] = @ + Len(ints[cur])]
  /\ ints' = [ints EXCEPT ![cur] = <<>>]
  /\ cur' = b
  /\ UNCHANGED <<stk, booted>>

Init ==
  /\ stk = [b \in Stacks |-> Absent]
  /\ booted = FALSE
  /\ cur \in Stacks
  /\ mode = [b \in Stacks |-> IF b = cur THEN "sys" ELSE "free"]
  /\ ints = [b \in Stacks |-> <<>>]
  /\ left = [b \in Stacks |-> 0]

Next ==
  \/ \E b \in Stacks, n \in IntNums : BootInterrupt(b, n)
  \/ \E b \in Stacks : BootIret(b)
  \/ Boot
  \/ \E n \in IntNums : Interrupt(n)
  \/ Iret
  \/ SysEnter
  \/ SysIret
  \/ SysExit
  \/ \E b \in Stacks : Switch(b)
  \/ \E b \in Stacks : Fork(b)
  \/ \E b \in Stacks : Exit(b)

Spec == Init /\ [][Next]_vars

-----------------------------------------------------------------------------
TypeOK ==
  /\ stk \in [Stacks -> Seq(IntNums) \cup {Absent}]
  /\ booted \in BOOLEAN
  /\ cur \in Stacks
  /\ mode \in [Stacks -> {"free", "user", "sys"}]
  /\ ints \in [Stacks -> Seq(IntNums)]
  /\ left \in [Stacks -> Nat]

\* get_interrupt_new never calls top() on an empty stack, which C++ leaves
\* undefined: a key that is present has an entry (lib_map.cpp:1366-1389).
NoEmptyStack == \A b \in Stacks : stk[b] # <<>>

\* On every stack the open interrupts are the topmost entries, in the order of
\* their nesting, whatever tasks died on that stack before and whatever the
\* boot left behind; below them are exactly the leftovers (seg_helper.c:1186,
\* 2306).
OpenInterruptsOnTop ==
  \A b \in Stacks :
    /\ Len(Entries(b)) = left[b] + Len(ints[b])
    /\ \A i \in 1 .. Len(ints[b]) : Entries(b)[left[b] + i] = ints[b][i]

\* The call chain of a task is marked with its innermost open interrupt, also
\* after any number of task switches, deaths and unmatched irets; without an
\* open interrupt it is marked only on a stack that has leftovers
\* (get_callstack_ebp, lib_map.cpp:1246-1253).
MarkerRight ==
  \A b \in Stacks :
    /\ ints[b] # <<>> => get_interrupt_new(b) = ints[b][Len(ints[b])]
    /\ ints[b] = <<>> /\ left[b] = 0 => get_interrupt_new(b) = Absent
=============================================================================
