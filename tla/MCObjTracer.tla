---------------------------- MODULE MCObjTracer ----------------------------
(***************************************************************************)
(* Model checking of ObjTracer.  The full product of contexts, accesses    *)
(* and snapshots is too large, so a behaviour lies in one of three slices  *)
(* of it, which the first state chooses: contexts that meet, without       *)
(* accesses; accesses, with one allocation under way at a time; and        *)
(* snapshots, with one allocation under way at a time and no accesses.     *)
(*                                                                         *)
(* Contexts and call sites are interchangeable: no definition tells two of *)
(* them apart.                                                             *)
(***************************************************************************)
EXTENDS ObjTracer, FiniteSets, TLC

CONSTANT Slices      \* the slices a run looks at

VARIABLE slice

Interchangeable == Permutations(Ctx) \cup Permutations(Sites)

\* A guest without blocks, and one with a block in the middle of the arena.
Saved(blocks) == [ctx |-> [c \in Ctx |-> Idle], heap |-> blocks]
TwoSnapshots ==
  {Saved({}), Saved({[addr |-> 4, size |-> 1, kind |-> "kmalloc", st |-> "live"]})}

NoAccess ==
  /\ written = {}
  /\ \A a \in Addr : inst[a] # NoInst => inst[a].pset = {}

NoVmalloc ==
  /\ \A h \in heap : h.kind # "vmalloc"
  /\ \A c \in Ctx : ctx[c].op = "alloc" => ctx[c].kind # "vmalloc"

OneAtATime ==
  /\ Cardinality({c \in Ctx : ctx[c] # Idle}) <= 1
  /\ Cardinality({s \in Sites : pend[s] # NoSize}) <= 1

InSlice ==
  CASE slice = "meet"   -> NoAccess /\ NoVmalloc
    [] slice = "access" -> OneAtATime /\ ~mixed
    [] slice = "load"   -> OneAtATime /\ NoAccess

MCInit == Init /\ slice \in Slices
MCNext ==
  /\ IF slice = "load" THEN Next ELSE GuestStep \/ PEMU_init
  /\ UNCHANGED slice
  /\ InSlice'
MCSpec == MCInit /\ [][MCNext]_<<vars, slice>>
=============================================================================
