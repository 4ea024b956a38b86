---------------------------- MODULE ObjIndexSpec ----------------------------
(***************************************************************************)
(* The object index as a state machine over the set of its nodes: the      *)
(* abstract specification that module RbTree implements.                   *)
(***************************************************************************)
EXTENDS ObjIndex

CONSTANT
  Objects     \* the nodes the callers insert

VARIABLES
  objs,     \* the nodes in the index
  aborted   \* assert(0) at the end of ds_code_all_insert_rb was reached

vars == <<objs, aborted>>

\* ds_code_all_insert_rb: everything found at the start address is dropped
\* first; the insertion then fails on a node that was not found, or for want of
\* memory.
Insert(node) ==
  /\ ~aborted
  /\ \E S \in EraseWhileFound(objs, node.key) :
       \/ objs' = S /\ aborted' = TRUE
       \/ /\ ~DuplicateKey(S, node.key)
          /\ objs' = S \cup {node} /\ aborted' = FALSE

\* ds_code_all_delete_rb
Delete(a) ==
  /\ ~aborted
  /\ objs' \in EraseWhileFound(objs, a)
  /\ UNCHANGED aborted

Init == objs = {} /\ aborted = FALSE

Next ==
  \/ \E node \in Objects : Insert(node)
  \/ \E a \in Addr : Delete(a)

Spec == Init /\ [][Next]_vars
=============================================================================
