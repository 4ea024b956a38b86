------------------------------- MODULE RbTree -------------------------------
(***************************************************************************)
(* The red-black interval tree of target-i386/rev_sem/rb_tree.c, pointer   *)
(* by pointer.  A tree is a record of the root pointer and of the node     *)
(* pool n; a node that has not been allocated, or has been freed, is       *)
(* FreeNode.  The two mirror-image halves of the code's rotations and      *)
(* fixups are one definition with the side as a parameter.                 *)
(*                                                                         *)
(* The walks and fixup loops are RECURSIVE operators, so this module is    *)
(* for TLC only.                                                           *)
(***************************************************************************)
EXTENDS ObjIndex, FiniteSets, TLC

CONSTANTS
  Workloads,  \* families of objects; a behaviour inserts objects of one family
  MaxNodes    \* bound: nodes the model can allocate

ASSUME InputAssumption == \A w \in Workloads : w \subseteq Node
ASSUME MaxNodesAssumption == MaxNodes \in Nat \ {0}

VARIABLES
  tree,       \* static NodeType *root and the nodes it points to
  aborted,    \* assert(0) at the end of ds_code_all_insert_rb was reached
  work        \* the objects the callers insert

vars == <<tree, aborted, work>>

Null == -1       \* the parent pointer of the root
Sentinel == 0    \* SENTINEL, every leaf
Id == 1 .. MaxNodes

FreeNode == [left |-> Null, right |-> Null, parent |-> Null,
             color |-> "BLACK", key |-> 0, size |-> 0, type |-> NoNode]

\* static NodeType sentinel = { SENTINEL, SENTINEL, 0, BLACK, 0};
SentinelNode == [FreeNode EXCEPT !.left = Sentinel, !.right = Sentinel]

Other(side) == IF side = "left" THEN "right" ELSE "left"

-----------------------------------------------------------------------------
(* t.x is the cursor x of the fixup loops.                                 *)

\* Seeded fault: the inner subtree moves without its parent pointer.
RelinkStaleParent(t, x, y, inner, p, side) ==
  [t EXCEPT
     !.root = IF p = Null THEN y ELSE @,
     !.n[x][Other(side)] = inner,
     !.n[y].parent = p,
     !.n[p][IF t.n[p][side] = x THEN side ELSE Other(side)] = IF p = Null THEN @ ELSE y,
     !.n[y][side] = x,
     !.n[x].parent = y]

\* The assignments of a rotation, in the code's order: y, the far child of x,
\* takes the place of x below p, and its inner child goes to x.
Relink(t, x, y, inner, p, side) ==
  [t EXCEPT
     !.root = IF p = Null THEN y ELSE @,
     !.n[x][Other(side)] = inner,
     !.n[inner].parent = IF inner = Sentinel THEN @ ELSE x,
     !.n[y].parent = IF y = Sentinel THEN @ ELSE p,
     !.n[p][IF t.n[p][side] = x THEN side ELSE Other(side)] = IF p = Null THEN @ ELSE y,
     !.n[y][side] = x,
     !.n[x].parent = IF x = Sentinel THEN @ ELSE y]

\* rotateLeft for side "left", rotateRight for side "right".
Rotate(t, x, side) ==
  Relink(t, x, t.n[x][Other(side)], t.n[t.n[x][Other(side)]][side],
         t.n[x].parent, side)

\* x->parent->color = BLACK; x->parent->parent->color = RED; rotate the
\* grandparent g away from x.
RecolorAndRotate(t, p, g, side) ==
  Rotate([t EXCEPT !.n[p].color = "BLACK", !.n[g].color = "RED"], g, Other(side))

\* One turn of insertFixup's loop; p is the parent and g the grandparent of x,
\* side the side of g that p is on.
InsertTurn(t, p, g, side) ==
  LET uncle == t.n[g][Other(side)]
  IN  IF t.n[uncle].color = "RED"
      THEN [t EXCEPT !.n[p].color = "BLACK", !.n[uncle].color = "BLACK",
                     !.n[g].color = "RED", !.x = g]
      ELSE IF t.x = t.n[p][Other(side)]
      THEN RecolorAndRotate([Rotate(t, p, side) EXCEPT !.x = p], t.x, g, side)
      ELSE RecolorAndRotate(t, p, g, side)

RECURSIVE insertFixup(_)
insertFixup(t) ==
  LET p == t.n[t.x].parent
      g == t.n[p].parent
  IN  IF t.x = t.root \/ t.n[p].color = "BLACK"
      THEN [t EXCEPT !.n[t.root].color = "BLACK"]
      ELSE insertFixup(InsertTurn(t, p, g, IF p = t.n[g].left THEN "left" ELSE "right"))

\* x = root
ToRoot(t) == [t EXCEPT !.x = t.root]

\* Seeded fault: the sibling does not take over its parent's color.
BorrowWithoutColor(t, p, w, side) ==
  ToRoot(Rotate([t EXCEPT !.n[p].color = "BLACK",
                          !.n[t.n[w][Other(side)]].color = "BLACK"], p, side))

\* The far child of the sibling w is red: w takes its parent's place and color.
Borrow(t, p, w, side) ==
  ToRoot(Rotate([t EXCEPT !.n[w].color = t.n[p].color,
                          !.n[p].color = "BLACK",
                          !.n[t.n[w][Other(side)]].color = "BLACK"], p, side))

\* One turn of deleteFixup's loop once the sibling w is black.
BlackSibling(t, p, w, side) ==
  LET far == Other(side)
  IN  IF t.n[t.n[w].left].color = "BLACK" /\ t.n[t.n[w].right].color = "BLACK"
      THEN [t EXCEPT !.n[w].color = "RED", !.x = p]
      ELSE IF t.n[t.n[w][far]].color = "BLACK"
      THEN Borrow(Rotate([t EXCEPT !.n[t.n[w][side]].color = "BLACK",
                                   !.n[w].color = "RED"], w, far),
                  p, t.n[w][side], side)
      ELSE Borrow(t, p, w, side)

\* A red sibling w is turned away first; its inner child is the new sibling.
DeleteTurn(t, p, w, side) ==
  IF t.n[w].color = "RED"
  THEN BlackSibling(Rotate([t EXCEPT !.n[w].color = "BLACK",
                                     !.n[p].color = "RED"], p, side),
                    p, t.n[w][side], side)
  ELSE BlackSibling(t, p, w, side)

RECURSIVE deleteFixup(_)
deleteFixup(t) ==
  LET p == t.n[t.x].parent
  IN  IF t.x = t.root \/ t.n[t.x].color = "RED"
      THEN [t EXCEPT !.n[t.x].color = "BLACK"]
      ELSE deleteFixup(IF t.x = t.n[p].left
                       THEN DeleteTurn(t, p, t.n[p].right, "left")
                       ELSE DeleteTurn(t, p, t.n[p].left, "right"))

-----------------------------------------------------------------------------
RECURSIVE Leftmost(_, _)
Leftmost(t, y) ==
  IF t.n[y].left = Sentinel THEN y ELSE Leftmost(t, t.n[y].left)

\* Seeded fault: the successor's size is not copied along with its key.
UnlinkKeepingSize(t, z, y, p) ==
  [t EXCEPT
     !.root = IF p = Null THEN t.x ELSE @,
     !.n[t.x].parent = p,
     !.n[p][IF t.n[p].left = y THEN "left" ELSE "right"] = IF p = Null THEN @ ELSE t.x,
     !.n[z].key = t.n[y].key, !.n[z].type = t.n[y].type]

\* t.x, the only child of y, takes the place of y below p; z takes over y's
\* key, size and type.
Unlink(t, z, y, p) ==
  [t EXCEPT
     !.root = IF p = Null THEN t.x ELSE @,
     !.n[t.x].parent = p,
     !.n[p][IF t.n[p].left = y THEN "left" ELSE "right"] = IF p = Null THEN @ ELSE t.x,
     !.n[z].key = t.n[y].key, !.n[z].size = t.n[y].size, !.n[z].type = t.n[y].type]

\* rbtErase once it has chosen the node y to unlink.
EraseVia(t, z, y) ==
  LET t1 == Unlink([t EXCEPT !.x = IF t.n[y].left # Sentinel
                                   THEN t.n[y].left ELSE t.n[y].right],
                   z, y, t.n[y].parent)
  IN  [(IF t.n[y].color = "BLACK" THEN deleteFixup(t1) ELSE t1)
        EXCEPT !.n[y] = FreeNode]

\* rbtErase(z): the node that is unlinked is z or z's successor.
rbtErase(t, z) ==
  EraseVia(t, z, IF t.n[z].left = Sentinel \/ t.n[z].right = Sentinel
                 THEN z ELSE Leftmost(t, t.n[z].right))

\* Seeded fault: the end of a node counts as part of it.
CoversInclusive(n, a) == n.key <= a /\ a <= n.key + n.size

\* The test of ds_code_rbtFind2 on one node.
Hit(n, a) == Covers(n, a)

RECURSIVE WalkFind2(_, _, _)
WalkFind2(t, current, a) ==
  IF current = Sentinel THEN Null
  ELSE IF Hit(t.n[current], a) THEN current
  ELSE WalkFind2(t, IF a <= t.n[current].key THEN t.n[current].left
                    ELSE t.n[current].right, a)

ds_code_rbtFind2(t, a) == WalkFind2(t, t.root, a)

\* while ((dup = ds_code_rbtFind2(a)) != NULL) rbtErase(dup);
RECURSIVE EraseFrom(_, _, _)
EraseFrom(t, dup, a) ==
  IF dup = Null THEN t
  ELSE LET t1 == rbtErase(t, dup) IN EraseFrom(t1, ds_code_rbtFind2(t1, a), a)

ds_code_erase_all(t, a) == EraseFrom(t, ds_code_rbtFind2(t, a), a)

\* The walk of rbtInsert: the node with this key if the walk meets one, and
\* otherwise the future parent.
RECURSIVE WalkInsert(_, _, _, _)
WalkInsert(t, current, parent, a) ==
  IF current = Sentinel THEN [dup |-> FALSE, parent |-> parent]
  ELSE IF t.n[current].key = a THEN [dup |-> TRUE, parent |-> parent]
  ELSE WalkInsert(t, IF a < t.n[current].key THEN t.n[current].left
                     ELSE t.n[current].right, current, a)

\* malloc of a node, when it does not fail.
FreeIds(t) == {i \in Id : t.n[i] = FreeNode}
Malloc(t) == CHOOSE i \in FreeIds(t) : \A j \in FreeIds(t) : i <= j

\* A new node of rbtInsert.
Leaf(parent, node) ==
  [left |-> Sentinel, right |-> Sentinel, parent |-> parent, color |-> "RED",
   key |-> node.key, size |-> node.size, type |-> node.type]

\* The new node x goes below parent.
Link(t, x, parent, node) ==
  insertFixup(
    [t EXCEPT
       !.x = x,
       !.root = IF parent = Null THEN x ELSE @,
       !.n[x] = Leaf(parent, node),
       !.n[parent][IF node.key <= t.n[parent].key THEN "left" ELSE "right"] =
           IF parent = Null THEN @ ELSE x])

-----------------------------------------------------------------------------
\* Which free block malloc returns is immaterial, so after an operation the
\* nodes are named by the rank of their keys; and the cursor and the sentinel's
\* parent pointer are dropped, because only the fixups read them and they are
\* set just before.  States that differ in nothing else become one.
Renamed(t, used, name) ==
  [root |-> name[t.root],
   x |-> Null,
   n |-> [i \in DOMAIN t.n |->
            IF i \in 1 .. Cardinality(used)
            THEN [t.n[CHOOSE x \in used : name[x] = i] EXCEPT
                    !.left = name[@], !.right = name[@], !.parent = name[@]]
            ELSE IF i = Sentinel THEN [t.n[i] EXCEPT !.parent = Null]
            ELSE FreeNode]]

Ranks(t, used) ==
  [x \in used |-> Cardinality({y \in used :
                    \/ t.n[y].key < t.n[x].key
                    \/ t.n[y].key = t.n[x].key /\ y <= x})]

Named(t, used) == Renamed(t, used, Ranks(t, used) @@ [x \in {Null, Sentinel} |-> x])

SetTree(t) == tree' = Named(t, Id \ FreeIds(t))

\* rbtInsert once the walk has ended at at: there is a node with this key, or
\* malloc fails (RBT_STATUS_MEM_EXHAUSTED), or the new node is linked.
InsertAt(t, at, node) ==
  \/ /\ SetTree(t)
     /\ aborted' = TRUE
  \/ /\ ~at.dup /\ FreeIds(t) # {}
     /\ SetTree(Link(t, Malloc(t), at.parent, node))
     /\ aborted' = FALSE

rbtInsert(t, node) == InsertAt(t, WalkInsert(t, t.root, Null, node.key), node)

\* ds_code_all_insert_rb with rbtInsert2: erase whatever is found at the start
\* address, insert, and assert that the insertion succeeded.
ds_code_all_insert_rb(node) ==
  /\ ~aborted
  /\ rbtInsert(ds_code_erase_all(tree, node.key), node)
  /\ UNCHANGED work

\* ds_code_all_delete_rb: one erase of what is found, then ds_code_erase_all.
ds_code_all_delete_rb(a) ==
  /\ ~aborted
  /\ SetTree(ds_code_erase_all(tree, a))
  /\ UNCHANGED <<aborted, work>>

Init ==
  /\ tree = [root |-> Sentinel, x |-> Null,
             n |-> [i \in {Null, Sentinel} \cup Id |->
                      IF i = Sentinel THEN SentinelNode ELSE FreeNode]]
  /\ aborted = FALSE
  /\ work \in Workloads

Next ==
  \/ \E node \in work : ds_code_all_insert_rb(node)
  \/ \E a \in Addr : ds_code_all_delete_rb(a)

Spec == Init /\ [][Next]_vars

-----------------------------------------------------------------------------
RECURSIVE Subtree(_, _)
Subtree(t, x) ==
  IF x = Sentinel THEN {}
  ELSE {x} \cup Subtree(t, t.n[x].left) \cup Subtree(t, t.n[x].right)

RECURSIVE BlackHeights(_, _)
BlackHeights(t, x) ==
  IF x = Sentinel THEN {0}
  ELSE LET own == IF t.n[x].color = "BLACK" THEN 1 ELSE 0
       IN  {h + own : h \in BlackHeights(t, t.n[x].left)
                            \cup BlackHeights(t, t.n[x].right)}

InTree == Subtree(tree, tree.root)

AsNode(x) == [key |-> tree.n[x].key, size |-> tree.n[x].size,
              type |-> tree.n[x].type]

Contents == {AsNode(x) : x \in InTree}

TypeOK ==
  /\ tree.root \in Id \cup {Sentinel}
  /\ \A x \in Id : tree.n[x] = FreeNode \/
       /\ tree.n[x].left \in Id \cup {Sentinel}
       /\ tree.n[x].right \in Id \cup {Sentinel}
       /\ tree.n[x].parent \in Id \cup {Null}
       /\ tree.n[x].color \in {"RED", "BLACK"}
       /\ AsNode(x) \in Node
  /\ aborted \in BOOLEAN
  /\ work \in Workloads

\* The pointers form one search tree: every allocated node and nothing else
\* hangs off the root, children point back to their parent, and keys are
\* strictly ordered.  Rotations, the successor copy and the unlinking in
\* rbtErase each update these links in several assignments (rb_tree.c:49-99,
\* 288-330).
WellLinked ==
  /\ TypeOK
  /\ InTree = Id \ FreeIds(tree)
  /\ tree.root # Sentinel => tree.n[tree.root].parent = Null
  /\ \A x \in InTree : \A side \in {"left", "right"} :
       LET c == tree.n[x][side]
       IN  c # Sentinel =>
             /\ tree.n[c].parent = x
             /\ \A d \in Subtree(tree, c) :
                  IF side = "left" THEN tree.n[d].key < tree.n[x].key
                  ELSE tree.n[d].key > tree.n[x].key

\* The tree is red-black balanced after every whole operation: black root, no
\* red node with a red child, and equally many black nodes on every path, so
\* that a lookup per guest memory access stays logarithmic (rb_tree.c:101-157,
\* 228-285).  The sentinel must stay black for the fixups to be right.
Balanced ==
  /\ tree.n[tree.root].color = "BLACK"
  /\ tree.n[Sentinel].color = "BLACK"
  /\ \A x \in InTree : tree.n[x].color = "RED" =>
       /\ tree.n[tree.n[x].left].color = "BLACK"
       /\ tree.n[tree.n[x].right].color = "BLACK"
  /\ Cardinality(BlackHeights(tree, tree.root)) = 1

\* Whatever the shape of the tree, a lookup returns a node that covers the
\* address, and returns NULL only when a node between the covering ones and
\* the address hides them (ds_code_rbtFind2, rb_tree.c:360-373).
FindWithinContract ==
  \A a \in Addr :
    LET x == ds_code_rbtFind2(tree, a)
    IN  (IF x = Null THEN NoNode ELSE AsNode(x)) \in Find2(Contents, a)

\* The tree implements the index its callers rely on: every insertion and
\* deletion changes the set of nodes the way module ObjIndexSpec says.
Index == INSTANCE ObjIndexSpec WITH objs <- Contents, Objects <- UNION Workloads
ImplementsIndex == Index!Spec
=============================================================================
