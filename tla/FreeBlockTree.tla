--------------------------- MODULE FreeBlockTree ---------------------------
(***************************************************************************)
(* The AVL tree of vm.c on its own: any sequence of avl_insert and         *)
(* avl_delete on a pool of nodes, against the plain set of blocks the tree *)
(* stands for.  A node that has left the tree is used again, which the     *)
(* heap never does (the kfree calls in avl_delete are commented out); it   *)
(* only bounds the pool.                                                   *)
(***************************************************************************)
EXTENDS AvlTree

CONSTANTS
    Bases,       \* base addresses inserted: numbers
    SizesOf      \* SizesOf[b]: the sizes a block at base b may have, none zero

Pool == 1 .. Cardinality(Bases)

VARIABLES
    node,        \* memory of the nodes, and at NULL the memory at address 0
    root,        \* heap->root
    blocks       \* ghost: the set of blocks inserted and not deleted

vars == <<node, root, blocks>>

Init ==
    /\ node = [p \in Pool \cup {NULL} |-> NewNode(0, 0)]
    /\ root = NULL
    /\ blocks = {}

\* create_node, with the pool in place of kmalloc.
create_node(m, base, size) ==
    LET unused == Pool \ NodesOf(m, root)
        p == CHOOSE q \in unused : \A u \in unused : q <= u
    IN  Result([m EXCEPT ![p] = NewNode(base, size)], p)

\* avl_insert: a size of zero and a base that is present change no block.
avl_insert(base, size) ==
    LET d == Descend(node, root, base)
        c == IF d.found = NULL THEN create_node(node, base, size)
                               ELSE Result(node, d.found)
        r == Unwind(c.m, d.path, Sides(node, d.path, base), base, c.p)
    IN  IF size = 0 THEN Result(node, root) ELSE r

Insert(base, size) ==
    LET r == avl_insert(base, size)
    IN  /\ node' = r.m
        /\ root' = r.p
        /\ blocks' = IF size = 0 \/ \E b \in blocks : b.base = base
                       THEN blocks
                       ELSE blocks \cup {[base |-> base, size |-> size]}

Delete(base) ==
    LET r == avl_delete(node, root, base)
    IN  /\ node' = r.m
        /\ root' = r.p
        /\ blocks' = {b \in blocks : b.base # base}

Next ==
    \/ \E base \in Bases : \E size \in SizesOf[base] \cup {0} : Insert(base, size)
    \/ \E base \in Bases : Delete(base)

Spec == Init /\ [][Next]_vars

(***************************************************************************)
(* Properties.                                                             *)
(***************************************************************************)

\* avl_insert: "Insert a new virtual address block into the AVL tree": the
\* tree holds exactly the blocks inserted and not deleted, each once.
TreeHoldsBlocks ==
    /\ Blocks(node, root) = blocks
    /\ Len(InOrder(node, root)) = Cardinality(blocks)

\* No rotation has gone through a child that is not there: page 0 is mapped,
\* so the code does not fault but uses the memory at address 0 as a node.
NullUntouched == node[NULL] = NewNode(0, 0)

\* The heights that the rotations store are wrong, and a later operation goes
\* by them; the only harm they do is a rotation through a missing child.  In
\* every tree that comes before that, however unbalanced, rotations and the
\* copying of the successor keep the order, drop no subtree and link none
\* twice.
HarmlessUntilNull ==
    NullUntouched => Ordered(node, root) /\ TreeHoldsBlocks

\* find_best_fit: "the best-fit (smallest) block", "NULL if not found".
BestFitFound ==
    \A size \in 1 .. 4 :
        LET p   == find_best_fit(node, root, size)
            fit == {b \in blocks : b.size >= size}
        IN  IF p = NULL THEN fit = {}
                        ELSE \A b \in fit : node[p].size <= b.size
=============================================================================
