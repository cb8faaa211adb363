------------------------------ MODULE MCInitrd ------------------------------
(* Instances of Initrd for TLC: two long paths that share their 63 bytes,   *)
(* and the names the kernel knows.                                          *)
EXTENDS Initrd

CONSTANTS long1, long2, short, sub

MCDepth == [p \in Paths |-> IF p \in {test_txt, long1} THEN 2 ELSE 1]
MCStored == [p \in Paths |-> IF p \in {long1, long2} THEN short ELSE p]
MCContents == {<<>>, <<1>>, <<2, 3, 4>>}
MCShort == {<<>>, <<1>>}
=============================================================================
