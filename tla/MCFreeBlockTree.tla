-------------------------- MODULE MCFreeBlockTree --------------------------
(***************************************************************************)
(* Instances of FreeBlockTree.                                             *)
(***************************************************************************)
EXTENDS FreeBlockTree

CONSTANT N       \* number of bases

MCBases == 1 .. N

\* One size per base: the shape of the tree is the question.
MCOneSize == [b \in MCBases |-> {1 + (b % 3)}]

\* The tree without the names of its nodes.
\* Which node of the pool is where has no influence on a later step, so
\* states with the same tree are one.
RECURSIVE Shape(_)
Shape(p) ==
    IF p = NULL THEN <<>>
    ELSE <<node[p].base, node[p].size, node[p].height,
           Shape(node[p].left), Shape(node[p].right)>>

\* Once a rotation has written through NULL the tree may be cyclic.
MCView ==
    IF NullUntouched THEN <<Shape(root), blocks>> ELSE <<node, root, blocks>>

\* Only bases that are not in the tree are inserted, as the heap does, and no
\* sizes of zero.
FreshNext ==
    \/ \E base \in Bases : \E size \in SizesOf[base] :
          (\A b \in blocks : b.base # base) /\ Insert(base, size)
    \/ \E base \in Bases : Delete(base)

FreshSpec == Init /\ [][FreshNext]_vars
=============================================================================
