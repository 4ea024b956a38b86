----------------------------- MODULE CallChain -----------------------------
(***************************************************************************)
(* get_callstack_ebp of lib_map.cpp: the call chain of the running guest   *)
(* task, read from the saved frame pointers on its kernel stack.  Its hash *)
(* is the type of an object and the identity of an access.                 *)
(*                                                                         *)
(* The guest kernel is the environment: functions with and without a frame *)
(* pointer, system calls, interrupts, task switches, forks and exits.  It  *)
(* leaves in memory, ESP and EBP what the walk then reads.                 *)
(*                                                                         *)
(* Addresses count 4-byte words and wrap at AddrMod.  EBP is a general     *)
(* register to user code, which may leave any word in it.  Words below the *)
(* stack pointer are zeroed when they are popped; FramesLive states that   *)
(* the walk does not read them before it has followed a user EBP.          *)
(***************************************************************************)
EXTENDS Integers, Sequences, SequencesExt

CONSTANTS
  AddrMod,    \* words of the address space
  Low,        \* first word of stack 0; code addresses are below
  NStacks,    \* kernel stacks
  STACK_SIZE, \* words of a kernel stack
  Gap,        \* words between esp0 and the end of a stack
  MaxActive,  \* bound: calls active on one stack
  UserEbps,   \* what user code may hold in EBP
  CallRets,   \* return addresses of ordinary calls
  SysRet,     \* return address into the system call entry code
  StopRets,   \* TIME_INTERRUPT, COMMON_INTERRUPT, COMMON_EXCEPTION
  OtherRets,  \* return addresses into other interrupt entry code
  SchedRet,   \* return address in the range of HARD_CODE_SCHED2
  ForkRet     \* address a new task starts at

Tasks == 0 .. NStacks - 1
Base(b) == Low + b * STACK_SIZE
Esp0(b) == Base(b) + STACK_SIZE - Gap
StackWords == Low .. Low + NStacks * STACK_SIZE - 1
Words == 0 .. AddrMod - 1
Rets == CallRets \cup StopRets \cup OtherRets \cup {SysRet, SchedRet, ForkRet}

ASSUME LayoutAssumption ==
  /\ {AddrMod, Low, NStacks, STACK_SIZE, Gap} \subseteq Nat \ {0}
  /\ Rets \subseteq 1 .. Low - 1
  /\ Low + NStacks * STACK_SIZE < AddrMod
  /\ UserEbps \subseteq Words

VARIABLES
  mem,    \* the words of all kernel stacks
  esp,    \* the stack pointer of each task: ESP for the running one
  ebp,    \* the register EBP
  cur,    \* the running task
  phase,  \* where the running task is in switch_to
  state,  \* what each task does
  intr,   \* g_interrupt_esp, an interrupt named by its entry's return address
  act     \* history: the calls active on each stack, innermost last

vars == <<mem, esp, ebp, cur, phase, state, intr, act>>

AddrPlus(a, n) == (a + n) % AddrMod

Call(r) == [ret |-> r, framed |-> FALSE]

-----------------------------------------------------------------------------
(* The walk.                                                               *)

\* HARD_CODE_SCHED1: between the push and the pop of EBP in switch_to.
StartEbp == IF phase = "run" THEN ebp ELSE mem[esp[cur]]

esp_max == IF intr[cur] # <<>> THEN Esp0(cur) ELSE Base(cur) + STACK_SIZE

\* Seeded fault: the frame is not checked against the end of the stack.
OutsideBelow(e) == e < Base(cur)

Outside(e) == e < Base(cur) \/ AddrPlus(e, 1) >= esp_max

\* PEMU_read_mem leaves the destination alone when it fails.
PEMU_read_mem(a, old) == IF a \in StackWords THEN mem[a] ELSE old

Stops(e, r) == r # SchedRet /\ (e \notin StackWords \/ r \in StopRets)

\* Seeded fault: no special case for the frame of __switch_to.
FollowSaved(e, r) == PEMU_read_mem(e, e)

Follow(e, r) == PEMU_read_mem(IF r = SchedRet THEN AddrPlus(e, 2) ELSE e, e)

\* The return addresses found, outermost first, and the frames they were found
\* in, innermost first.  The loop of the code has no bound; n is one.
RECURSIVE Walk(_, _, _, _, _)
Walk(e, r, chain, frames, n) ==
  IF Outside(e) \/ n = 0 THEN [chain |-> chain, frames |-> frames]
  ELSE LET ret == PEMU_read_mem(AddrPlus(e, 1), r)
       IN  IF Stops(e, ret)
           THEN [chain |-> <<ret>> \o chain, frames |-> Append(frames, e)]
           ELSE Walk(Follow(e, ret), ret, <<ret>> \o chain, Append(frames, e), n - 1)

get_callstack_ebp == Walk(StartEbp, 0, <<>>, <<>>, STACK_SIZE)

\* Seeded fault: the oldest open interrupt.
MarkerOldest == IF intr[cur] = <<>> THEN 0 ELSE intr[cur][1]

\* The number in front of the chain, 0 for none.
Marker == IF intr[cur] = <<>> THEN 0 ELSE Last(intr[cur])

\* Push and pop of g_interrupt_esp; InterruptStack has them in full.
add_interrupt_esp(r) == intr' = [intr EXCEPT ![cur] = Append(@, r)]
delete_interrupt_esp == intr' = [intr EXCEPT ![cur] = Front(@)]

-----------------------------------------------------------------------------
(* The guest.                                                              *)

\* The running task pushes the words of vs.
Push(vs) ==
  /\ esp[cur] - Len(vs) >= Base(cur)
  /\ esp' = [esp EXCEPT ![cur] = @ - Len(vs)]
  /\ mem' = [a \in StackWords |->
               IF esp[cur] - Len(vs) <= a /\ a < esp[cur] THEN vs[esp[cur] - a]
               ELSE mem[a]]

\* The running task pops n words.
Pop(n) ==
  /\ esp' = [esp EXCEPT ![cur] = @ + n]
  /\ mem' = [a \in StackWords |->
               IF esp[cur] <= a /\ a < esp[cur] + n THEN 0 ELSE mem[a]]

Enter(r) ==
  /\ Len(act[cur]) < MaxActive
  /\ act' = [act EXCEPT ![cur] = Append(@, Call(r))]

Innermost == Last(act[cur])
InKernel == phase = "run" /\ state[cur] = "kernel"

\* Interrupts are off inside schedule's task switch.
Switching == \E i \in DOMAIN act[cur] : act[cur][i].ret \in {SchedRet, ForkRet}

\* A system call: the user's registers are saved, the handler is called.
SysEnter(u) ==
  /\ state[cur] = "user"
  /\ Push(<<u, 0, SysRet>>)
  /\ Enter(SysRet)
  /\ ebp' = u
  /\ state' = [state EXCEPT ![cur] = "kernel"]
  /\ UNCHANGED <<cur, phase, intr>>

\* An interrupt or exception in user code, which holds u in EBP.
InterruptUser(u, r) ==
  /\ state[cur] = "user"
  /\ Push(<<u, 0, r>>)
  /\ Enter(r)
  /\ ebp' = u
  /\ state' = [state EXCEPT ![cur] = "kernel"]
  /\ add_interrupt_esp(r)
  /\ UNCHANGED <<cur, phase>>

\* An interrupt or exception in kernel code: EBP stays as it is.
InterruptKernel(r) ==
  /\ InKernel /\ ~Switching
  /\ Push(<<ebp, 0, r>>)
  /\ Enter(r)
  /\ add_interrupt_esp(r)
  /\ UNCHANGED <<ebp, cur, phase, state>>

\* A call.  What the entry code and switch_to call is compiled C and sets up its
\* frame first; what such functions call may be assembly and have none.
CallFunction(r) ==
  /\ InKernel
  /\ act[cur] # <<>> => Innermost.framed \/ Innermost.ret \in CallRets
  /\ Push(<<r>>)
  /\ Enter(r)
  /\ UNCHANGED <<ebp, cur, phase, state, intr>>

\* push %ebp; mov %esp, %ebp.  A function may do without it.
Prologue ==
  /\ InKernel /\ act[cur] # <<>> /\ ~Innermost.framed
  /\ Push(<<ebp>>)
  /\ ebp' = esp'[cur]
  /\ act' = [act EXCEPT ![cur][Len(act[cur])].framed = TRUE]
  /\ UNCHANGED <<cur, phase, state, intr>>

\* leave
Leave ==
  /\ InKernel /\ act[cur] # <<>> /\ Innermost.framed
  /\ Pop(1)
  /\ ebp' = mem[esp[cur]]
  /\ act' = [act EXCEPT ![cur][Len(act[cur])].framed = FALSE]
  /\ UNCHANGED <<cur, phase, state, intr>>

Returns == InKernel /\ act[cur] # <<>> /\ ~Innermost.framed

\* ret
Ret ==
  /\ Returns /\ Innermost.ret \in CallRets \cup {SchedRet, ForkRet}
  /\ Pop(1)
  /\ act' = [act EXCEPT ![cur] = Front(@)]
  /\ phase' = IF Innermost.ret = SchedRet THEN "back" ELSE "run"
  /\ UNCHANGED <<ebp, cur, state, intr>>

\* iret at the end of an interrupt handler.
Iret ==
  /\ Returns /\ Innermost.ret \in StopRets \cup OtherRets
  /\ Pop(3)
  /\ ebp' = mem[esp[cur] + 2]
  /\ act' = [act EXCEPT ![cur] = Front(@)]
  /\ delete_interrupt_esp
  /\ state' = [state EXCEPT ![cur] = IF esp'[cur] = Esp0(cur) THEN "user" ELSE @]
  /\ UNCHANGED <<cur, phase>>

\* The end of a system call; a new task ends the fork it was born in.
SysExit ==
  /\ InKernel
  /\ \/ Returns /\ Innermost.ret = SysRet /\ Pop(3)
     \/ act[cur] = <<>> /\ Pop(2)
  /\ act' = [act EXCEPT ![cur] = <<>>]
  /\ ebp' = 0
  /\ state' = [state EXCEPT ![cur] = "user"]
  /\ UNCHANGED <<cur, phase, intr>>

\* schedule() saves EBP on the stack it leaves, which has room to come back.
SwitchOut ==
  /\ InKernel /\ ~Switching /\ act[cur] # <<>> /\ Innermost.framed
  /\ \E b \in Tasks : state[b] \in {"asleep", "new"}
  /\ Len(act[cur]) < MaxActive /\ esp[cur] - 3 >= Base(cur)
  /\ Push(<<ebp>>)
  /\ phase' = "out"
  /\ UNCHANGED <<ebp, cur, state, intr, act>>

\* movl next->sp, %esp
SwitchStack(b) ==
  /\ phase = "out" /\ state[b] \in {"asleep", "new"}
  /\ cur' = b
  /\ phase' = "in"
  /\ state' = [state EXCEPT ![cur] = "asleep"]
  /\ UNCHANGED <<mem, esp, ebp, intr, act>>

\* The next task's resume address is pushed as the return address of
\* __switch_to; EBP is still the other task's.
SwitchTo ==
  /\ phase = "in"
  /\ LET ip == IF state[cur] = "new" THEN ForkRet ELSE SchedRet
     IN  Push(<<ip>>) /\ Enter(ip)
  /\ phase' = "run"
  /\ state' = [state EXCEPT ![cur] = "kernel"]
  /\ UNCHANGED <<ebp, cur, intr>>

\* popl %ebp
SwitchBack ==
  /\ phase = "back"
  /\ Pop(1)
  /\ ebp' = mem[esp[cur]]
  /\ phase' = "run"
  /\ UNCHANGED <<cur, state, intr, act>>

\* fork: the child's stack holds a copy of the caller's user registers.
Fork(b) ==
  /\ InKernel /\ state[b] = "free"
  /\ act[cur] # <<>> /\ act[cur][1].ret = SysRet /\ intr[cur] = <<>>
  /\ esp' = [esp EXCEPT ![b] = Esp0(b) - 2]
  /\ mem' = [mem EXCEPT ![Esp0(b) - 1] = mem[Esp0(cur) - 1]]
  /\ state' = [state EXCEPT ![b] = "new"]
  /\ UNCHANGED <<ebp, cur, phase, intr, act>>

\* A task that has left schedule() for the last time gives up its stack.
Reap(b) ==
  /\ InKernel /\ state[b] = "asleep" /\ intr[b] = <<>>
  /\ state' = [state EXCEPT ![b] = "free"]
  /\ esp' = [esp EXCEPT ![b] = Esp0(b)]
  /\ mem' = [a \in StackWords |->
               IF Base(b) <= a /\ a < Base(b) + STACK_SIZE THEN 0 ELSE mem[a]]
  /\ act' = [act EXCEPT ![b] = <<>>]
  /\ UNCHANGED <<ebp, cur, phase, intr>>

Init ==
  /\ mem = [a \in StackWords |-> 0]
  /\ esp = [b \in Tasks |-> Esp0(b)]
  /\ ebp = 0
  /\ cur \in Tasks
  /\ phase = "run"
  /\ state = [b \in Tasks |-> IF b = cur THEN "user" ELSE "free"]
  /\ intr = [b \in Tasks |-> <<>>]
  /\ act = [b \in Tasks |-> <<>>]

Next ==
  \/ \E u \in UserEbps : SysEnter(u)
  \/ \E u \in UserEbps, r \in StopRets \cup OtherRets : InterruptUser(u, r)
  \/ \E r \in StopRets \cup OtherRets : InterruptKernel(r)
  \/ \E r \in CallRets : CallFunction(r)
  \/ Prologue
  \/ Leave
  \/ Ret
  \/ Iret
  \/ SysExit
  \/ SwitchOut
  \/ \E b \in Tasks : SwitchStack(b)
  \/ SwitchTo
  \/ SwitchBack
  \/ \E b \in Tasks : Fork(b)
  \/ \E b \in Tasks : Reap(b)

Spec == Init /\ [][Next]_vars

-----------------------------------------------------------------------------
TypeOK ==
  /\ mem \in [StackWords -> Words]
  /\ esp \in [Tasks -> StackWords]
  /\ ebp \in Words
  /\ cur \in Tasks
  /\ phase \in {"run", "out", "in", "back"}
  /\ state \in [Tasks -> {"free", "new", "user", "kernel", "asleep"}]
  /\ intr \in [Tasks -> Seq(StopRets \cup OtherRets)]
  /\ act \in [Tasks -> Seq([ret : Rets, framed : BOOLEAN])]

\* The calls with a frame, from the innermost interrupt the walk knows on.
Framed == SelectSeq(act[cur], LAMBDA c : c.framed)
LastStop == LET stops == {i \in DOMAIN Framed : Framed[i].ret \in StopRets}
            IN  IF stops = {} THEN 1 ELSE Max(stops)
Expected == [i \in 1 .. Len(Framed) - LastStop + 1 |-> Framed[LastStop + i - 1].ret]

\* Where an object can be accessed: in a function with a frame, in one without
\* that such a function called, and in switch_to.
Recording ==
  /\ state[cur] = "kernel" \/ phase = "in"
  /\ \/ phase # "run"
     \/ /\ act[cur] # <<>>
        /\ \/ Innermost.framed
           \/ /\ Innermost.ret \in CallRets
              /\ Len(act[cur]) > 1 /\ act[cur][Len(act[cur]) - 1].framed

\* The outermost call is the handler of a system call or of an interrupt the
\* walk does not know, so that the walk leaves its frame with the user's EBP; and
\* that points into the task's own kernel stack, or its successor wraps to 0.
UserEbp == mem[Esp0(cur) - 1]
FollowsUser ==
  /\ Expected # <<>> /\ Expected[1] \in OtherRets \cup {SysRet}
  /\ \/ Base(cur) <= UserEbp /\ UserEbp + 1 < Base(cur) + STACK_SIZE
     \/ UserEbp = AddrMod - 1

\* The chain ends in the list of the active calls that have a frame, back to the
\* innermost interrupt the walk knows, at every point of a task's life: in the
\* middle of a task switch, in a new task, and when EBP still belongs to another
\* task.  It is that list unless the walk goes on with the user's EBP; one that
\* wraps around repeats the outermost address, one that points into the stack
\* puts whatever it leads to in front (lib_map.cpp:1265-1280).
ChainExact ==
  Recording =>
    LET c == get_callstack_ebp.chain
    IN  /\ IsSuffix(Expected, c)
        /\ c # Expected =>
             /\ FollowsUser
             /\ UserEbp \notin StackWords => c = <<Expected[1]>> \o Expected

\* As far as the calls of the kernel go, one frame each, the frames of a walk
\* ascend strictly and lie in the live part of the running task's own stack;
\* behind them the loop, which checks neither, ends, unless it goes on with the
\* user's EBP.  So no task switch, fork or interrupt makes it turn in a circle
\* or read a word that was popped; a user EBP that points into the stack can
\* (lib_map.cpp:1264-1280).
FramesLive ==
  /\ TypeOK
  /\ Recording =>
       LET f == get_callstack_ebp.frames
           n == Len(Expected)
       IN  /\ n <= Len(f)
           /\ \A i \in 1 .. n :
                /\ esp[cur] <= f[i] /\ f[i] + 1 < Esp0(cur)
                /\ i > 1 => f[i - 1] < f[i]
           /\ n < Len(f) => FollowsUser

\* A chain that begins at an interrupt's entry carries a marker, and the marker
\* is that interrupt, or a later one that the walk does not know and passed;
\* unless the chain begins where a user's EBP has led (lib_map.cpp:1246-1253,
\* 1290-1292).
MarkerMatchesChain ==
  LET c == get_callstack_ebp.chain
  IN  Recording /\ ~FollowsUser /\ c # <<>> /\ c[1] \in StopRets =>
        Marker \in ({c[1]} \cup OtherRets) \cap Range(c)
=============================================================================
