---------------------------- MODULE MCBootMemory ----------------------------
(* Boot layouts for TLC, in bytes of a machine with pages of 8 bytes.      *)
EXTENDS BootMemory

\* The initrd right behind the kernel image, the usual choice.
Near == [kernel : {11, 15, 16, 20}, initrd : {5, 8, 15, 17}, gap : {0}]

\* Far behind it, with an end that leaves room on its last page.
Far == [kernel : {11, 16}, initrd : {9, 18}, gap : {300, 440}]

\* An image whose last page holds no more bytes than the multiboot header, and
\* a gap that pm_initialize does not count.
Misjudged == [kernel : {17, 18}, initrd : {15, 16}, gap : {0}]
               \cup [kernel : {11}, initrd : {8, 15}, gap : {8, 24}]

MCLayouts == Near \cup Far \cup Misjudged

\* Far behind it, with an end on a page boundary.
FarAligned == [kernel : {11}, initrd : {8, 16}, gap : {300}]
=============================================================================
