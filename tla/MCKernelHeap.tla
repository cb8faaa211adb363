---------------------------- MODULE MCKernelHeap ----------------------------
(***************************************************************************)
(* Instances of KernelHeap.                                                *)
(***************************************************************************)
EXTENDS KernelHeap

\* The constants of vm.h in proportion: start and limit add up to more than
\* WORD.  And a heap that has room to grow by a page.
Wraps == [start |-> 192, initial |-> 24, max_size |-> 208]
Grows == [start |-> 64, initial |-> 16, max_size |-> 24]

MCHeaps == {Wraps, Grows}
KernelHeaps == {Wraps}

\* Behaviours are followed up to the first removal of a node in the middle of
\* an insertion: after that the tree may be cyclic and a search endless.
TreeIntact == ~heap.reentered

\* The nodes that dropped out of the tree are never read again; what has been
\* written at address 0 may be.
MCView ==
    <<heap.root, heap.start_addr, heap.end_addr, heap.header, heap.reentered, live, freed,
      NodeHeaders(heap),
      {<<p, heap.node[p]>> : p \in NodesOf(heap.node, heap.root)
                                  \cup ({NULL} \cap DOMAIN heap.node)}>>
=============================================================================
