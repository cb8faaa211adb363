------------------------------ MODULE AvlTree ------------------------------
(***************************************************************************)
(* The AVL tree of free heap blocks of kernel/arch/i386/vm.c, ordered by   *)
(* base address.  "m" is the memory of the nodes: m[p] is the avl_node_t   *)
(* at pointer p.  Operations that change the tree return the new memory    *)
(* and the pointer the C function returns.                                 *)
(*                                                                         *)
(* avl_insert is split where it calls create_node, because create_node     *)
(* allocates on the heap whose tree this is: Descend is the way down,      *)
(* Unwind everything that happens after create_node has returned.          *)
(***************************************************************************)
EXTENDS Integers, Sequences, FiniteSets

NULL == 0

Larger(a, b) == IF a > b THEN a ELSE b

Result(m, p) == [m |-> m, p |-> p]

height(m, p) == IF p = NULL THEN 0 ELSE m[p].height

get_balance(m, p) ==
    IF p = NULL THEN 0 ELSE height(m, m[p].left) - height(m, m[p].right)

\* node->height = 1 + max(height(node->left), height(node->right))
UpdateHeight(m, p) ==
    [m EXCEPT ![p].height =
        1 + Larger(height(m, m[p].left), height(m, m[p].right))]

(***************************************************************************)
(* Rotations.  The two comparisons against height(y->right) are the code's:*)
(* rotate_right chooses x's height, and rotate_left x's height, by looking *)
(* at a node that is not a child of x.                                     *)
(***************************************************************************)
rotate_right(m, y) ==
    LET x  == m[y].left
        m1 == [m EXCEPT ![x].right = y, ![y].left = m[x].right]
        m2 == UpdateHeight(m1, y)
        hl == height(m2, m2[x].left)
    IN  Result([m2 EXCEPT ![x].height =
                   1 + IF hl > height(m2, m2[y].right)
                         THEN hl ELSE height(m2, m2[x].right)], x)

rotate_left(m, x) ==
    LET y  == m[x].right
        m1 == [m EXCEPT ![y].left = x, ![x].right = m[y].left]
        hl == height(m1, m1[x].left)
        m2 == [m1 EXCEPT ![x].height =
                  1 + IF hl > height(m1, m1[y].right)
                        THEN hl ELSE height(m1, m1[x].right)]
    IN  Result(UpdateHeight(m2, y), y)

rotate_left_right(m, p) ==
    LET r == rotate_left(m, m[p].left)
    IN  rotate_right([r.m EXCEPT ![p].left = r.p], p)

rotate_right_left(m, p) ==
    LET r == rotate_right(m, m[p].right)
    IN  rotate_left([r.m EXCEPT ![p].right = r.p], p)

(***************************************************************************)
(* avl_insert.                                                             *)
(***************************************************************************)

\* Update the height of p and rotate towards the side base was inserted on.
BalanceInserted(m, p, base) ==
    LET u == UpdateHeight(m, p)
        b == get_balance(u, p)
    IN  CASE b > 1 /\ base < u[u[p].left].base    -> rotate_right(u, p)
          [] b < -1 /\ base > u[u[p].right].base  -> rotate_left(u, p)
          [] b > 1 /\ base > u[u[p].left].base    -> rotate_left_right(u, p)
          [] b < -1 /\ base < u[u[p].right].base  -> rotate_right_left(u, p)
          [] OTHER                                -> Result(u, p)

\* The nodes visited on the way down to where base belongs, and the node
\* found there: NULL, or the node that has that base already.
RECURSIVE Descend(_, _, _)
Descend(m, p, base) ==
    IF p = NULL \/ m[p].base = base
      THEN [path |-> <<>>, found |-> p]
      ELSE LET rest == Descend(m, IF base < m[p].base THEN m[p].left
                                                      ELSE m[p].right, base)
           IN  [path |-> <<p>> \o rest.path, found |-> rest.found]

\* The way back up: every node of the path stores the subtree returned to it
\* on the side it was entered from (sides), and is balanced.
RECURSIVE Unwind(_, _, _, _, _)
Unwind(m, path, sides, base, sub) ==
    IF path = <<>>
      THEN Result(m, sub)
      ELSE LET p    == path[Len(path)]
               side == sides[Len(path)]
               r    == BalanceInserted(
                          IF side = "left" THEN [m EXCEPT ![p].left = sub]
                                           ELSE [m EXCEPT ![p].right = sub],
                          p, base)
           IN  Unwind(r.m, SubSeq(path, 1, Len(path) - 1), sides, base, r.p)

\* The side of each node of the path that the descent took.
Sides(m, path, base) ==
    [k \in 1 .. Len(path) |-> IF base < m[path[k]].base THEN "left" ELSE "right"]

NewNode(base, size) ==
    [base |-> base, size |-> size, height |-> 1, left |-> NULL, right |-> NULL]

(***************************************************************************)
(* avl_delete.                                                             *)
(***************************************************************************)
RECURSIVE find_min_base(_, _)
find_min_base(m, p) ==
    IF m[p].left = NULL THEN p ELSE find_min_base(m, m[p].left)

\* Update the height of p and rotate by the balance of the heavier child.
BalanceDeleted(m, p) ==
    LET u == UpdateHeight(m, p)
        b == get_balance(u, p)
        l == get_balance(u, u[p].left)
        r == get_balance(u, u[p].right)
    IN  CASE b > 1 /\ l >= 0  -> rotate_right(u, p)
          [] b < -1 /\ r <= 0 -> rotate_left(u, p)
          [] b > 1 /\ l < 0   -> rotate_left_right(u, p)
          [] b < -1 /\ r > 0  -> rotate_right_left(u, p)
          [] OTHER            -> Result(u, p)

RECURSIVE avl_delete(_, _, _)
avl_delete(m, p, base) ==
    CASE p = NULL -> Result(m, NULL)
      [] p # NULL /\ base < m[p].base ->
            LET d == avl_delete(m, m[p].left, base)
            IN  BalanceDeleted([d.m EXCEPT ![p].left = d.p], p)
      [] p # NULL /\ base > m[p].base ->
            LET d == avl_delete(m, m[p].right, base)
            IN  BalanceDeleted([d.m EXCEPT ![p].right = d.p], p)
      [] p # NULL /\ base = m[p].base ->
            IF m[p].left = NULL \/ m[p].right = NULL
              THEN Result(m, IF m[p].left # NULL THEN m[p].left ELSE m[p].right)
              ELSE LET s == m[find_min_base(m, m[p].right)]
                       c == [m EXCEPT ![p].base = s.base, ![p].size = s.size]
                       d == avl_delete(c, c[p].right, s.base)
                   IN  BalanceDeleted([d.m EXCEPT ![p].right = d.p], p)

(***************************************************************************)
(* find_best_fit: the right subtree is searched only when the node itself  *)
(* is too small, the left one only when it is large enough.                *)
(***************************************************************************)
RECURSIVE find_best_fit(_, _, _)
find_best_fit(m, p, size) ==
    IF p = NULL THEN NULL
    ELSE IF m[p].size < size THEN find_best_fit(m, m[p].right, size)
    ELSE LET l == find_best_fit(m, m[p].left, size)
         IN  IF l # NULL /\ m[l].size < m[p].size THEN l ELSE p

(***************************************************************************)
(* Reading a tree: its nodes in order of the tree, and what they stand for.*)
(***************************************************************************)
RECURSIVE InOrder(_, _)
InOrder(m, p) ==
    IF p = NULL THEN <<>>
    ELSE InOrder(m, m[p].left) \o <<p>> \o InOrder(m, m[p].right)

NodesOf(m, p) == LET s == InOrder(m, p) IN {s[k] : k \in 1 .. Len(s)}

Blocks(m, p) == {[base |-> m[n].base, size |-> m[n].size] : n \in NodesOf(m, p)}

\* Strictly ascending bases: a search tree in which no node is linked twice.
Ordered(m, p) ==
    LET s == InOrder(m, p)
    IN  \A k \in 1 .. (Len(s) - 1) : m[s[k]].base < m[s[k + 1]].base
=============================================================================
