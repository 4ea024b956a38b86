------------------------------ MODULE ObjIndex ------------------------------
(***************************************************************************)
(* What the object index of target-i386/rev_sem/rb_tree.c promises to its  *)
(* callers, without the tree.  The index is a set of nodes, one per traced *)
(* guest kernel object; a node holds the object's start address (key), its *)
(* size and its type (a hash of the allocating call chain).                *)
(*                                                                         *)
(* Lookups are a set of possible results, because ds_code_rbtFind2 walks   *)
(* the tree by start address only: when intervals overlap, which covering  *)
(* node it meets first, and whether it meets one at all, depends on the    *)
(* shape the tree happens to have.  Module RbTree has the tree itself and  *)
(* is checked to stay within these results.                                *)
(***************************************************************************)
EXTENDS Integers

CONSTANTS
  AddrSpace,   \* number of addresses; 2^32 in the code (KeyType is uint32_t)
  Types,       \* call-chain hashes (size_t type)
  NoNode       \* the NULL that ds_code_rbtFind2 returns

ASSUME AddrSpaceAssumption == AddrSpace \in Nat \ {0}

Addr == 0 .. AddrSpace - 1

Node == [key : Addr, size : Addr, type : Types]

ASSUME NoNodeAssumption == NoNode \notin Node

\* uint32 addition, as in current->key+current->size.
AddrPlus(a, n) == (a + n) % AddrSpace

\* The test a node must pass to be returned for address a.
Covers(n, a) == n.key <= a /\ a < AddrPlus(n.key, n.size)

Covering(S, a) == {n \in S : Covers(n, a)}

\* The walk goes right at m when m.key < a, so a covering node with a smaller
\* key is lost behind an m that lies between it and a and does not cover a.
MayMiss(S, a) ==
  \A n \in Covering(S, a) :
    \E m \in S : n.key < m.key /\ m.key < a /\ ~Covers(m, a)

\* ds_code_rbtFind2(a)
Find2(S, a) == Covering(S, a) \cup (IF MayMiss(S, a) THEN {NoNode} ELSE {})

\* while ((dup = ds_code_rbtFind2(a)) != NULL) rbtErase(dup);
EraseWhileFound(S, a) ==
  {S \ D : D \in {E \in SUBSET Covering(S, a) : MayMiss(S \ E, a)}}

\* rbtInsert finds a node with the same key: any status but RBT_STATUS_OK.
DuplicateKey(S, a) == \E n \in S : n.key = a

\* No node starts inside another one.
Disjoint(S) == \A m, n \in S : Covers(m, n.key) => m = n

UniqueKeys(S) == \A m, n \in S : m.key = n.key => m = n
=============================================================================
