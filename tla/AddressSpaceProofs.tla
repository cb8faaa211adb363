------------------------- MODULE AddressSpaceProofs -------------------------
(***************************************************************************)
(* Proofs about module AddressSpace, for every memory layout, every number *)
(* of frames, tables and processes: the kernel's tables are linked, every  *)
(* other frame belongs to one page of one process, and fork implements     *)
(* private memory (module PrivateMemory).                                  *)
(***************************************************************************)
EXTENDS AddressSpace, FiniteSetTheorems, NaturalsInduction,
        WellFoundedInduction, TLAPS

(***************************************************************************)
(* Arithmetic: a page and its place in the two levels of tables.           *)
(***************************************************************************)

\* The sizes of the tables.
LEMMA Sizes ==
    /\ PD_ENTRIES \in Nat \ {0} /\ PT_ENTRIES \in Nat \ {0} /\ MAX_PROCS \in Nat \ {0}
    /\ FRAMES \in Nat /\ MAX_TABLES \in Nat
    /\ KernelPages \subseteq Pages /\ StackPages \subseteq Pages /\ StackPages # {}
    /\ Pages \subseteq Nat /\ Indices \subseteq Nat /\ Entries \subseteq Nat
    /\ Procs \subseteq Nat /\ Tables \subseteq Nat /\ Frames \subseteq Nat
  BY AddressSpaceConstants DEF Pages, Indices, Entries, Procs, Tables, Frames

\* A page has an index in the directory and one in the table, and they give
\* the page back.
LEMMA Divided ==
    ASSUME NEW page \in Pages
    PROVE  /\ TableOf(page) \in Indices /\ EntryOf(page) \in Entries
           /\ page = TableOf(page) * PT_ENTRIES + EntryOf(page)
<1> DEFINE i == page \div PT_ENTRIES
           e == page % PT_ENTRIES
<1>1. /\ i \in Int /\ e \in 0 .. (PT_ENTRIES - 1)
      /\ page = i * PT_ENTRIES + e
  BY Sizes
<1>2. page \in Nat /\ page < PD_ENTRIES * PT_ENTRIES
  BY Sizes DEF Pages
<1> HIDE DEF i, e
<1>3. i >= 0
  <2> SUFFICES ASSUME i <= -1 PROVE FALSE
    BY <1>1
  <2>1. i * PT_ENTRIES <= (-1) * PT_ENTRIES
    BY <1>1, Sizes
  <2> QED BY <1>1, <1>2, <2>1, Sizes
<1>4. i < PD_ENTRIES
  <2> SUFFICES ASSUME i >= PD_ENTRIES PROVE FALSE
    BY <1>1, Sizes
  <2>1. i * PT_ENTRIES >= PD_ENTRIES * PT_ENTRIES
    BY <1>1, Sizes
  <2> QED BY <1>1, <1>2, <2>1, Sizes
<1> QED BY <1>1, <1>3, <1>4, Sizes DEF i, e, TableOf, EntryOf, Indices, Entries

\* The same the other way round.
LEMMA Composed ==
    ASSUME NEW i \in Indices, NEW e \in Entries
    PROVE  /\ i * PT_ENTRIES + e \in Pages
           /\ TableOf(i * PT_ENTRIES + e) = i /\ EntryOf(i * PT_ENTRIES + e) = e
<1> DEFINE page == i * PT_ENTRIES + e
<1>1. i \in Nat /\ e \in Nat /\ e < PT_ENTRIES /\ i + 1 <= PD_ENTRIES
  BY Sizes DEF Indices, Entries
<1>2. (i + 1) * PT_ENTRIES <= PD_ENTRIES * PT_ENTRIES
  BY <1>1, Sizes
<1>3. i * PT_ENTRIES \in Nat /\ (i + 1) * PT_ENTRIES = i * PT_ENTRIES + PT_ENTRIES
  BY <1>1, Sizes
<1>4. page \in Pages
  BY <1>1, <1>2, <1>3, Sizes DEF Pages
<1>5. page \div PT_ENTRIES = i /\ page % PT_ENTRIES = e
  BY <1>1, <1>3, Sizes
<1> QED BY <1>4, <1>5 DEF TableOf, EntryOf

\* Two pages at the same place are the same page.
LEMMA SamePlace ==
    ASSUME NEW a \in Pages, NEW b \in Pages, TableOf(a) = TableOf(b), EntryOf(a) = EntryOf(b)
    PROVE  a = b
  BY Divided

(***************************************************************************)
(* Ranks: the n-th free frame, the n-th page to copy.                      *)
(***************************************************************************)

\* A set of numbers that is not empty has a first one.
LEMMA Smallest == ASSUME NEW S \in SUBSET Nat, S # {} PROVE \E x \in S : \A y \in S : x <= y
<1>1. IsWellFoundedOn(OpToRel(<, Nat), Nat)
  BY NatLessThanWellFounded
<1>2. PICK x \in S : \A y \in S : ~(<<y, x>> \in OpToRel(<, Nat))
  BY <1>1, WFMin
<1>3. ASSUME NEW y \in S, ~(x <= y) PROVE FALSE
  <2>1. <<y, x>> \in Nat \X Nat /\ y < x
    BY <1>3
  <2> QED BY <1>2, <2>1 DEF OpToRel
<1> QED BY <1>3

\* A bounded one has a last one.
LEMMA Largest ==
    ASSUME NEW n \in Nat, NEW S \in SUBSET (0 .. n), S # {}
    PROVE  Max(S) \in S
<1> DEFINE T == {n - s : s \in S}
<1>1. T \in SUBSET Nat /\ T # {}
  <2>1. \A s \in S : n - s \in Nat
    OBVIOUS
  <2>2. PICK s : s \in S
    OBVIOUS
  <2>3. n - s \in T
    BY <2>2
  <2> QED BY <2>1, <2>3
<1>2. PICK x \in T : \A y \in T : x <= y
  BY <1>1, Smallest
<1>3. PICK s \in S : x = n - s
  BY <1>2
<1>4. \A y \in S : s >= y
  BY <1>2, <1>3
<1> QED BY <1>4 DEF Max

\* The rank of a member is a number from 1 to the size of the set, and
\* different members have different ranks.
LEMMA RankBounds ==
    ASSUME NEW S \in SUBSET Nat, IsFiniteSet(S), NEW x \in S
    PROVE  /\ Rank(x, S) \in 1 .. Cardinality(S)
           /\ \A y \in S : Rank(x, S) = Rank(y, S) => x = y
<1> DEFINE Upto(n) == {m \in S : m <= n}
<1>1. \A n : Upto(n) \in SUBSET S
  OBVIOUS
<1>2. \A n : IsFiniteSet(Upto(n)) /\ Cardinality(Upto(n)) <= Cardinality(S)
           /\ Cardinality(Upto(n)) \in Nat
  BY <1>1, FS_Subset, FS_CardinalityType
<1>3. Cardinality(S) \in Nat
  BY FS_CardinalityType
<1>4. Cardinality(Upto(x)) # 0
  <2>1. x \in Upto(x)
    OBVIOUS
  <2> QED BY <1>2, <2>1, FS_EmptySet
<1>5. \A a, b \in S : a < b => Cardinality(Upto(a)) # Cardinality(Upto(b))
  <2> SUFFICES ASSUME NEW a \in S, NEW b \in S, a < b,
                      Cardinality(Upto(a)) = Cardinality(Upto(b))
               PROVE  FALSE
    OBVIOUS
  <2>1. Upto(a) \in SUBSET Upto(b)
    <3>1. \A m \in S : m <= a => m <= b
      OBVIOUS
    <3> QED BY <3>1
  <2>2. Upto(a) = Upto(b)
    BY <1>2, <2>1, FS_Subset
  <2>3. b \in Upto(b) /\ b \notin Upto(a)
    OBVIOUS
  <2> QED BY <2>2, <2>3
<1>6. \A n : Rank(n, S) = Cardinality(Upto(n))
  BY DEF Rank
<1> HIDE DEF Upto
<1> QED BY <1>2, <1>3, <1>4, <1>5, <1>6

\* Every number from 1 to the size of a finite set is a rank.
LEMMA RankExists ==
    ASSUME NEW S \in SUBSET Nat, IsFiniteSet(S), NEW n \in 1 .. Cardinality(S),
           NEW top \in Nat, \A s \in S : s <= top
    PROVE  \E x \in S : Rank(x, S) = n
<1> DEFINE Upto(m) == {s \in S : s <= m}
           T == {m \in Nat : Cardinality(Upto(m)) >= n}
<1>0. n \in Nat /\ n >= 1 /\ \A s \in S : s \in Nat
  <2>1. Cardinality(S) \in Nat
    BY FS_CardinalityType
  <2> QED BY <2>1
<1>1. \A m : IsFiniteSet(Upto(m)) /\ Cardinality(Upto(m)) \in Nat
  <2>1. \A m : Upto(m) \in SUBSET S
    OBVIOUS
  <2> QED BY <2>1, FS_Subset, FS_CardinalityType
<1>2. Upto(top) = S
  OBVIOUS
<1>3. T \in SUBSET Nat /\ T # {}
  <2>1. top \in T
    BY <1>2
  <2> QED BY <2>1
<1>4. PICK x \in T : \A y \in T : x <= y
  BY <1>3, Smallest
<1>5. x \in Nat /\ Cardinality(Upto(x)) >= n
  BY <1>4
<1>6. Cardinality(Upto(x - 1)) < n
  <2>1. CASE x = 0
    <3>1. Upto(x - 1) = {}
      <4>1. \A s \in S : ~(s <= x - 1)
        BY <1>0, <2>1
      <4> QED BY <4>1
    <3> QED BY <1>0, <3>1, FS_EmptySet
  <2>2. CASE x # 0
    <3>1. x - 1 \in Nat /\ x - 1 \notin T
      <4>1. x - 1 \in Nat /\ ~(x <= x - 1)
        BY <1>5, <2>2
      <4> QED BY <1>4, <4>1
    <3>2. Cardinality(Upto(x - 1)) \in Nat /\ ~(Cardinality(Upto(x - 1)) >= n)
      BY <1>1, <3>1
    <3> QED BY <1>0, <3>2
  <2> QED BY <2>1, <2>2
<1>7. x \in S
  <2> SUFFICES ASSUME x \notin S PROVE FALSE
    OBVIOUS
  <2>1. \A s \in S : s <= x <=> s <= x - 1
    BY <1>0, <1>5
  <2>2. Upto(x) = Upto(x - 1)
    BY <2>1
  <2> QED BY <1>0, <1>1, <1>5, <1>6, <2>2
<1>8. Upto(x) = Upto(x - 1) \cup {x} /\ x \notin Upto(x - 1)
  <2>1. \A s \in S : (s <= x <=> s <= x - 1 \/ s = x) /\ ~(x <= x - 1)
    BY <1>0, <1>5
  <2> QED BY <1>7, <2>1
<1>9. Cardinality(Upto(x)) = Cardinality(Upto(x - 1)) + 1
  BY <1>1, <1>8, FS_AddElement
<1>10. Cardinality(Upto(x)) = n
  <2> HIDE DEF Upto
  <2>1. Cardinality(Upto(x - 1)) \in Nat /\ Cardinality(Upto(x)) \in Nat
    BY <1>1
  <2> QED BY <2>1, <1>0, <1>5, <1>6, <1>9
<1> QED BY <1>7, <1>10 DEF Rank

(***************************************************************************)
(* The inductive invariant.                                                *)
(***************************************************************************)
KernelTables == Cardinality(KernelIndices)

\* Every process has the kernel's tables where kernel_pd has them.
KernelLinked ==
    /\ KernelTables <= ntables
    /\ \A p \in 1 .. nprocs : \A i \in KernelIndices : pds[p][i] = kernel_pd[i]

\* A table that is not the kernel's is at one place of one directory.
TablesPrivate ==
    /\ \A p \in 1 .. nprocs : \A i \in Indices \ KernelIndices :
          pds[p][i] # 0 => pds[p][i] > KernelTables
    /\ \A p, q \in 1 .. nprocs : \A i, j \in Indices \ KernelIndices :
          pds[p][i] # 0 /\ pds[p][i] = pds[q][j] => p = q /\ i = j

\* A frame is at one place of one table.
FramesUnique ==
    \A t, u \in 1 .. ntables : \A d, e \in Entries :
       tables[t][d] # 0 /\ tables[t][d] = tables[u][e] => t = u /\ d = e

\* The frames of the tables are in memory, a table nobody made yet is clear.
FramesBounded ==
    /\ \A t \in Tables : \A e \in Entries : tables[t][e] <= nframes
    /\ \A t \in Tables : t > ntables => \A e \in Entries : tables[t][e] = 0

\* The kernel's pages and the stacks made so far have frames.
Mapped ==
    /\ \A p \in 1 .. nprocs : \A page \in KernelPages \cup (StackPages \ to_map) :
          FrameOf(p, page) # 0
    /\ to_map # {} => nprocs = 1

IInv ==
    TypeOK /\ KernelLinked /\ TablesPrivate /\ FramesUnique /\ FramesBounded /\ Mapped

\* The directory of the kernel numbers its tables.
LEMMA KernelDirectory ==
    /\ KernelIndices \subseteq Indices /\ IsFiniteSet(KernelPages)
    /\ KernelTables \in 0 .. MAX_TABLES /\ Cardinality(KernelPages) \in 0 .. FRAMES
    /\ kernel_pd \in [Indices -> 0 .. KernelTables]
    /\ \A i \in KernelIndices : kernel_pd[i] \in 1 .. KernelTables
    /\ \A i \in Indices \ KernelIndices : kernel_pd[i] = 0
    /\ \A i, j \in KernelIndices : kernel_pd[i] = kernel_pd[j] => i = j
<1>1. KernelIndices \in SUBSET Indices
  BY Sizes, Divided DEF KernelIndices
<1>2. IsFiniteSet(KernelIndices) /\ KernelTables \in Nat
  <2>1. IsFiniteSet(Indices)
    BY Sizes, FS_Interval DEF Indices
  <2> QED BY <1>1, <2>1, FS_Subset, FS_CardinalityType DEF KernelTables
<1>3. IsFiniteSet(KernelPages) /\ Cardinality(KernelPages) \in Nat
  <2>1. PD_ENTRIES * PT_ENTRIES - 1 \in Int
    BY Sizes
  <2>2. IsFiniteSet(Pages)
    BY <2>1, FS_Interval DEF Pages
  <2> QED BY <2>2, Sizes, FS_Subset, FS_CardinalityType
<1>4. KernelTables <= MAX_TABLES /\ Cardinality(KernelPages) <= FRAMES
  BY AddressSpaceConstants DEF KernelTables
<1>5. \A i \in KernelIndices :
         /\ Rank(i, KernelIndices) \in 1 .. KernelTables
         /\ \A j \in KernelIndices : Rank(i, KernelIndices) = Rank(j, KernelIndices) => i = j
  BY <1>1, <1>2, Sizes, RankBounds DEF KernelTables
<1>6. \A i \in Indices : kernel_pd[i] =
         IF i \in KernelIndices THEN Rank(i, KernelIndices) ELSE 0
  BY DEF kernel_pd
<1>7. \A i \in Indices : kernel_pd[i] \in 0 .. KernelTables
  BY <1>2, <1>5, <1>6
<1>8. kernel_pd \in [Indices -> 0 .. KernelTables]
  BY <1>7 DEF kernel_pd
<1> QED BY <1>1, <1>2, <1>3, <1>4, <1>5, <1>6, <1>8, Sizes

\* The types, with the bounds spelt out.
LEMMA Types ==
    ASSUME TypeOK
    PROVE  /\ nframes \in Nat /\ nframes <= FRAMES /\ ntables \in Nat /\ ntables <= MAX_TABLES
           /\ nprocs \in Nat /\ nprocs >= 1 /\ 1 .. nprocs \subseteq Procs
           /\ 1 .. ntables \subseteq Tables
           /\ \A p \in Procs : \A i \in Indices :
                 /\ pds[p][i] \in 0 .. ntables
                 /\ pds[p][i] # 0 => pds[p][i] \in 1 .. ntables /\ pds[p][i] \in Tables
           /\ \A t \in Tables : \A e \in Entries : tables[t][e] \in Frames \cup {0}
<1>1. /\ nframes \in Nat /\ nframes <= FRAMES /\ ntables \in Nat /\ ntables <= MAX_TABLES
      /\ nprocs \in Nat /\ nprocs >= 1 /\ 1 .. nprocs \subseteq Procs
      /\ 1 .. ntables \subseteq Tables
  BY Sizes DEF TypeOK, Procs, Tables
<1>2. \A p \in Procs : \A i \in Indices : pds[p][i] \in 0 .. ntables
  BY DEF TypeOK
<1>3. \A n \in 0 .. ntables : n # 0 => n \in 1 .. ntables /\ n \in Tables
  BY <1>1
<1>4. \A t \in Tables : \A e \in Entries : tables[t][e] \in Frames \cup {0}
  BY DEF TypeOK
<1> QED BY <1>1, <1>2, <1>3, <1>4

\* No frame is mapped twice, unless at a page of the kernel.
LEMMA OwnFrames ==
    ASSUME IInv, NEW p \in 1 .. nprocs, NEW q \in 1 .. nprocs,
           NEW a \in Pages, NEW b \in Pages,
           FrameOf(p, a) # 0, FrameOf(p, a) = FrameOf(q, b)
    PROVE  a = b /\ (p = q \/ TableOf(a) \in KernelIndices)
<1> DEFINE i == TableOf(a)
           j == TableOf(b)
<1>1. i \in Indices /\ j \in Indices /\ EntryOf(a) \in Entries /\ EntryOf(b) \in Entries
  BY Divided
<1>2. p \in Procs /\ q \in Procs
  BY Types DEF IInv
<1>3. /\ pds[p][i] # 0 /\ pds[q][j] # 0
      /\ FrameOf(p, a) = tables[pds[p][i]][EntryOf(a)]
      /\ FrameOf(q, b) = tables[pds[q][j]][EntryOf(b)]
  BY DEF FrameOf
<1>4. pds[p][i] \in 1 .. ntables /\ pds[q][j] \in 1 .. ntables
  BY <1>1, <1>2, <1>3, Types DEF IInv
<1>5. pds[p][i] = pds[q][j] /\ EntryOf(a) = EntryOf(b)
  <2>1. FramesUnique
    BY DEF IInv
  <2>2. /\ tables[pds[p][i]][EntryOf(a)] # 0
        /\ tables[pds[p][i]][EntryOf(a)] = tables[pds[q][j]][EntryOf(b)]
    BY <1>3, Zenon
  <2> HIDE DEF i, j
  <2> QED BY <1>1, <1>4, <2>1, <2>2, SMTT(20) DEF FramesUnique
<1>6. i = j /\ (p = q \/ i \in KernelIndices)
  <2>1. CASE i \in KernelIndices /\ j \in KernelIndices
    BY <1>5, <2>1, KernelDirectory DEF IInv, KernelLinked
  <2>2. CASE i \notin KernelIndices /\ j \notin KernelIndices
    BY <1>1, <1>3, <1>5, <2>2 DEF IInv, TablesPrivate
  <2>3. ASSUME NEW r \in 1 .. nprocs, NEW s \in 1 .. nprocs, NEW x \in KernelIndices,
               NEW y \in Indices \ KernelIndices, pds[r][x] = pds[s][y], pds[s][y] # 0
        PROVE  FALSE
    <3>1. pds[r][x] <= KernelTables
      BY KernelDirectory DEF IInv, KernelLinked
    <3>2. pds[s][y] > KernelTables
      BY <2>3 DEF IInv, TablesPrivate
    <3>3. KernelTables \in Nat /\ pds[s][y] \in Nat
      <4>1. s \in Procs
        BY Sizes DEF IInv, TypeOK, Procs
      <4> QED BY <4>1, KernelDirectory, Sizes DEF IInv, TypeOK
    <3> QED BY <2>3, <3>1, <3>2, <3>3
  <2> QED BY <1>1, <1>3, <1>5, <2>1, <2>2, <2>3
<1> QED BY <1>5, <1>6, SamePlace

\* The frame of a page, if it has one, is one of the memory's.
LEMMA FrameType ==
    ASSUME IInv, NEW p \in 1 .. nprocs, NEW page \in Pages
    PROVE  FrameOf(p, page) \in Frames \cup {0}
<1>1. TableOf(page) \in Indices /\ EntryOf(page) \in Entries /\ p \in Procs
  BY Divided, Sizes DEF IInv, TypeOK, Procs
<1>2. pds[p][TableOf(page)] # 0 => pds[p][TableOf(page)] \in Tables
  BY <1>1, Types DEF IInv
<1> QED BY <1>1, <1>2, Types DEF IInv, FrameOf

\* pmalloc: every call up to the number of free frames gives one, each a
\* different one.
LEMMA Allocated ==
    ASSUME IInv
    PROVE  /\ IsFiniteSet(Free) /\ Free \subseteq 1 .. nframes /\ Cardinality(Free) \in Nat
           /\ \A n \in 1 .. Cardinality(Free) :
                 pmalloc(n) \in Free /\ Rank(pmalloc(n), Free) = n
<1>1. nframes \in Nat
  BY Sizes DEF IInv, TypeOK
<1>2. IsFiniteSet(1 .. nframes) /\ Free \in SUBSET (1 .. nframes)
  BY <1>1, FS_Interval DEF Free
<1>3. IsFiniteSet(Free) /\ Cardinality(Free) \in Nat
  BY <1>2, FS_Subset, FS_CardinalityType
<1>4. Free \in SUBSET Nat /\ \A f \in Free : f <= nframes
  BY <1>1, <1>2
<1>5. \A n \in 1 .. Cardinality(Free) : \E f \in Free : Rank(f, Free) = n
  BY <1>1, <1>3, <1>4, RankExists
<1> QED BY <1>2, <1>3, <1>5 DEF pmalloc

(***************************************************************************)
(* The start: the kernel's pages, and one process.                         *)
(***************************************************************************)
LEMMA InitInv == Init => IInv
<1> SUFFICES ASSUME Init PROVE IInv
  OBVIOUS
<1> DEFINE mapped(t, e) == {page \in KernelPages :
                              kernel_pd[TableOf(page)] = t /\ EntryOf(page) = e}
           chosen(t, e) == CHOOSE page \in mapped(t, e) : TRUE
<1>1. \A t \in Tables : \A e \in Entries :
         tables[t][e] = IF mapped(t, e) = {} THEN 0 ELSE Rank(chosen(t, e), KernelPages)
  BY DEF Init
<1>2. \A t, e : mapped(t, e) # {} =>
         /\ chosen(t, e) \in KernelPages
         /\ kernel_pd[TableOf(chosen(t, e))] = t /\ EntryOf(chosen(t, e)) = e
  <2> SUFFICES ASSUME NEW t, NEW e, mapped(t, e) # {} PROVE chosen(t, e) \in mapped(t, e)
    OBVIOUS
  <2> QED OBVIOUS
<1>3. \A page \in KernelPages :
         /\ Rank(page, KernelPages) \in 1 .. Cardinality(KernelPages)
         /\ \A other \in KernelPages :
               Rank(page, KernelPages) = Rank(other, KernelPages) => page = other
  <2>1. KernelPages \in SUBSET Nat /\ IsFiniteSet(KernelPages)
    BY Sizes, KernelDirectory
  <2> QED BY <2>1, RankBounds
<1> HIDE DEF chosen
<1>4. nframes \in Nat /\ Cardinality(KernelPages) <= nframes /\ nframes <= FRAMES
      /\ Cardinality(KernelPages) \in Nat
  BY KernelDirectory, Sizes DEF Init
<1>5. \A t \in Tables : \A e \in Entries :
         tables[t][e] \in 0 .. nframes /\ (tables[t][e] # 0 => mapped(t, e) # {})
  <2> SUFFICES ASSUME NEW t \in Tables, NEW e \in Entries
               PROVE  tables[t][e] \in 0 .. nframes /\ (tables[t][e] # 0 => mapped(t, e) # {})
    OBVIOUS
  <2>1. CASE mapped(t, e) = {}
    BY <1>1, <1>4, <2>1
  <2>2. CASE mapped(t, e) # {}
    <3>1. Rank(chosen(t, e), KernelPages) \in 1 .. Cardinality(KernelPages)
      BY <1>2, <1>3, <2>2
    <3>2. Rank(chosen(t, e), KernelPages) \in 0 .. nframes
      BY <1>4, <3>1
    <3> HIDE DEF mapped
    <3> QED BY <1>1, <2>2, <3>2
  <2> QED BY <2>1, <2>2
<1> HIDE DEF mapped
<1>6. TypeOK
  <2>1. tables \in [Tables -> [Entries -> Frames \cup {0}]]
    <3>1. \A t \in Tables : \A e \in Entries : tables[t][e] \in Frames \cup {0}
      <4>1. \A n \in 0 .. nframes : n \in Frames \cup {0}
        BY <1>4, Sizes DEF Frames
      <4> QED BY <1>5, <4>1
    <3>2. \A t \in Tables : tables[t] = [e \in Entries |-> tables[t][e]]
      BY DEF Init
    <3>3. tables = [t \in Tables |-> tables[t]]
      BY DEF Init
    <3> QED BY <3>1, <3>2, <3>3
  <2>2. ntables = KernelTables /\ ntables \in 0 .. MAX_TABLES
    BY KernelDirectory DEF Init, KernelTables
  <2>3. pds \in [Procs -> [Indices -> 0 .. ntables]]
    <3>1. kernel_pd \in [Indices -> 0 .. ntables] /\ [i \in Indices |-> 0] \in [Indices -> 0 .. ntables]
      BY <2>2, KernelDirectory, Sizes
    <3> QED BY <3>1 DEF Init
  <2>4. nframes \in 0 .. FRAMES /\ nprocs \in Procs /\ current_proc \in 1 .. nprocs
    BY <1>4, Sizes DEF Init, Procs
  <2>5. memory \in [Frames -> Values] /\ to_map \subseteq StackPages /\ panic \in BOOLEAN
    BY DEF Init
  <2> QED BY <2>1, <2>2, <2>3, <2>4, <2>5 DEF TypeOK
<1>7. ntables = KernelTables /\ 1 .. nprocs = {1} /\ 1 \in Procs
      /\ pds[1] = kernel_pd
  BY Sizes DEF Init, KernelTables, Procs
<1>8. KernelLinked
  BY <1>7, KernelDirectory DEF KernelLinked
<1>9. TablesPrivate
  BY <1>7, KernelDirectory DEF TablesPrivate
<1>10. \A t \in Tables : \A e \in Entries : tables[t][e] # 0 =>
          /\ chosen(t, e) \in KernelPages
          /\ kernel_pd[TableOf(chosen(t, e))] = t /\ EntryOf(chosen(t, e)) = e
          /\ tables[t][e] = Rank(chosen(t, e), KernelPages)
  BY <1>1, <1>2, <1>5
<1>11. FramesUnique
  <2> SUFFICES ASSUME NEW t \in 1 .. ntables, NEW u \in 1 .. ntables,
                      NEW d \in Entries, NEW e \in Entries,
                      tables[t][d] # 0, tables[t][d] = tables[u][e]
               PROVE  t = u /\ d = e
    BY DEF FramesUnique
  <2>1. t \in Tables /\ u \in Tables
    BY <1>6, Sizes DEF TypeOK, Tables
  <2>2. chosen(t, d) = chosen(u, e)
    BY <1>3, <1>10, <2>1
  <2> QED BY <1>10, <2>1, <2>2
<1>12. FramesBounded
  <2>1. ASSUME NEW t \in Tables, t > ntables, NEW e \in Entries PROVE tables[t][e] = 0
    <3> SUFFICES ASSUME tables[t][e] # 0 PROVE FALSE
      OBVIOUS
    <3>1. TableOf(chosen(t, e)) \in KernelIndices
      BY <1>10 DEF KernelIndices
    <3>2. t \in 1 .. KernelTables
      BY <1>10, <3>1, KernelDirectory
    <3> QED BY <1>7, <2>1, <3>2, KernelDirectory, Sizes
  <2>2. \A t \in Tables : \A e \in Entries : tables[t][e] <= nframes
    BY <1>4, <1>5
  <2> QED BY <2>1, <2>2 DEF FramesBounded
<1>13. Mapped
  <2>1. to_map = StackPages /\ nprocs = 1
    BY DEF Init
  <2>2. ASSUME NEW page \in KernelPages PROVE FrameOf(1, page) # 0
    <3>1. TableOf(page) \in KernelIndices /\ page \in Pages
      BY Sizes DEF KernelIndices
    <3>2. EntryOf(page) \in Entries
      BY <3>1, Divided
    <3>3. kernel_pd[TableOf(page)] \in 1 .. KernelTables
      BY <3>1, KernelDirectory
    <3>4. kernel_pd[TableOf(page)] \in Tables /\ kernel_pd[TableOf(page)] # 0
      BY <3>3, KernelDirectory, Sizes DEF Tables
    <3>5. page \in mapped(kernel_pd[TableOf(page)], EntryOf(page))
      BY DEF mapped
    <3>6. tables[kernel_pd[TableOf(page)]][EntryOf(page)] \in 1 .. Cardinality(KernelPages)
      BY <1>1, <1>2, <1>3, <3>2, <3>4, <3>5
    <3>7. tables[kernel_pd[TableOf(page)]][EntryOf(page)] # 0
      BY <1>4, <3>6
    <3> QED BY <1>7, <3>4, <3>7 DEF FrameOf
  <2> QED BY <1>7, <2>1, <2>2 DEF Mapped
<1> QED BY <1>6, <1>8, <1>9, <1>11, <1>12, <1>13 DEF IInv

(***************************************************************************)
(* move_stack: one page more, in a table of its own or in one it has.      *)
(***************************************************************************)

\* What the next page down changes: at most one entry of the directory of
\* process 1, not one of the kernel's, and one entry of the table there.
LEMMA StackPage ==
    ASSUME IInv, move_stack
    PROVE  \E page \in to_map, t \in Tables :
             LET i == TableOf(page)
             IN  /\ page \in Pages /\ i \in Indices \ KernelIndices /\ EntryOf(page) \in Entries
                 /\ ~panic /\ nprocs = 1
                 /\ ntables' \in {ntables, ntables + 1} /\ t \in 1 .. ntables'
                 /\ t > KernelTables
                 /\ pds' = [pds EXCEPT ![1][i] = t]
                 /\ pds[1][i] # 0 => t = pds[1][i] /\ ntables' = ntables
                 /\ pds[1][i] = 0 => t = ntables + 1 /\ ntables' = ntables + 1
                 /\ \/ panic' = TRUE /\ UNCHANGED <<tables, memory, to_map>>
                    \/ /\ panic' = panic
                       /\ pmalloc(1) \in Free /\ to_map' = to_map \ {page}
                       /\ tables' = [tables EXCEPT ![t][EntryOf(page)] = pmalloc(1)]
                       /\ IF to_map' = {}
                            THEN \E contents \in [StackPages -> Values] :
                                    memory' = Filled(contents)
                            ELSE memory' = memory
                 /\ UNCHANGED <<nframes, nprocs, current_proc>>
<1> DEFINE page == Max(to_map)
           i == TableOf(page)
           t == IF pds[1][i] # 0 THEN pds[1][i] ELSE ntables + 1
<1>1. to_map # {} /\ to_map \subseteq StackPages /\ ~panic /\ t \in Tables
  BY DEF move_stack, IInv, TypeOK
<1>2. page \in to_map
  <2>1. PD_ENTRIES * PT_ENTRIES - 1 \in Int /\ to_map \subseteq Pages
    BY <1>1, Sizes
  <2>2. Pages # {}
    BY <1>1, <2>1
  <2>3. PD_ENTRIES * PT_ENTRIES - 1 \in Nat
    BY <2>1, <2>2 DEF Pages
  <2> QED BY <1>1, <2>1, <2>3, Largest DEF Pages
<1> HIDE DEF page
<1>3. page \in Pages /\ i \in Indices \ KernelIndices /\ EntryOf(page) \in Entries
  <2>1. page \in StackPages /\ page \in Pages
    BY <1>1, <1>2, Sizes
  <2> QED BY <2>1, Divided, AddressSpaceConstants
<1>4. nprocs = 1 /\ 1 \in Procs
  BY <1>1, Types DEF IInv, Mapped
<1>5. /\ pds' = [pds EXCEPT ![1][i] = t]
      /\ ntables' = IF pds[1][i] # 0 THEN ntables ELSE ntables + 1
      /\ UNCHANGED <<nframes, nprocs, current_proc>>
  BY DEF move_stack, page
<1>6. ntables \in Nat /\ KernelTables \in Nat /\ KernelTables <= ntables
      /\ pds[1][i] \in 0 .. ntables
  BY <1>3, <1>4, Types, KernelDirectory DEF IInv, KernelLinked
<1>7. t > KernelTables /\ t \in 1 .. ntables' /\ ntables' \in {ntables, ntables + 1}
  <2>1. CASE pds[1][i] # 0
    <3>1. pds[1][i] > KernelTables
      BY <1>3, <1>4, <2>1 DEF IInv, TablesPrivate
    <3> QED BY <1>5, <1>6, <2>1, <3>1
  <2>2. CASE pds[1][i] = 0
    BY <1>5, <1>6, <2>2
  <2> QED BY <2>1, <2>2
<1>8. \/ panic' = TRUE /\ UNCHANGED <<tables, memory, to_map>>
      \/ /\ Free # {} /\ panic' = panic /\ to_map' = to_map \ {page}
         /\ tables' = [tables EXCEPT ![t][EntryOf(page)] = pmalloc(1)]
         /\ IF to_map' = {}
              THEN \E contents \in [StackPages -> Values] : memory' = Filled(contents)
              ELSE memory' = memory
  BY DEF move_stack, page
<1>9. Free # {} => pmalloc(1) \in Free
  <2> SUFFICES ASSUME Free # {} PROVE pmalloc(1) \in Free
    OBVIOUS
  <2>1. Cardinality(Free) \in Nat /\ Cardinality(Free) # 0
    BY Allocated, FS_EmptySet
  <2> QED BY <2>1, Allocated
<1>10. /\ pds[1][i] # 0 => t = pds[1][i] /\ ntables' = ntables
       /\ pds[1][i] = 0 => t = ntables + 1 /\ ntables' = ntables + 1
  BY <1>5
<1> HIDE DEF t
<1>11. \/ panic' = TRUE /\ UNCHANGED <<tables, memory, to_map>>
       \/ /\ panic' = panic
          /\ pmalloc(1) \in Free /\ to_map' = to_map \ {page}
          /\ tables' = [tables EXCEPT ![t][EntryOf(page)] = pmalloc(1)]
          /\ IF to_map' = {}
               THEN \E contents \in [StackPages -> Values] : memory' = Filled(contents)
               ELSE memory' = memory
  BY <1>8, <1>9, Zenon
<1>12. t \in Tables
  BY <1>1 DEF t
<1> USE <1>2, <1>12
<1> WITNESS page \in to_map, t \in Tables
<1> QED BY <1>1, <1>3, <1>4, <1>5, <1>7, <1>10, <1>11, Zenon

\* move_stack keeps the invariant, and every page that had a frame keeps it
\* except the one that is mapped.
LEMMA MoveStackInv ==
    ASSUME IInv, move_stack
    PROVE  /\ IInv'
           /\ \A page \in KernelPages : FrameOf(1, page)' = FrameOf(1, page)
<1>1. PICK page \in to_map, t \in Tables :
             LET i == TableOf(page)
             IN  /\ page \in Pages /\ i \in Indices \ KernelIndices /\ EntryOf(page) \in Entries
                 /\ ~panic /\ nprocs = 1
                 /\ ntables' \in {ntables, ntables + 1} /\ t \in 1 .. ntables'
                 /\ t > KernelTables
                 /\ pds' = [pds EXCEPT ![1][i] = t]
                 /\ pds[1][i] # 0 => t = pds[1][i] /\ ntables' = ntables
                 /\ pds[1][i] = 0 => t = ntables + 1 /\ ntables' = ntables + 1
                 /\ \/ panic' = TRUE /\ UNCHANGED <<tables, memory, to_map>>
                    \/ /\ panic' = panic
                       /\ pmalloc(1) \in Free /\ to_map' = to_map \ {page}
                       /\ tables' = [tables EXCEPT ![t][EntryOf(page)] = pmalloc(1)]
                       /\ IF to_map' = {}
                            THEN \E contents \in [StackPages -> Values] :
                                    memory' = Filled(contents)
                            ELSE memory' = memory
                 /\ UNCHANGED <<nframes, nprocs, current_proc>>
  BY StackPage
<1> DEFINE i == TableOf(page)
           e == EntryOf(page)
           f == pmalloc(1)
<1>2. /\ i \in Indices \ KernelIndices /\ e \in Entries /\ page \in Pages /\ page \in to_map
      /\ nprocs = 1 /\ nprocs' = 1 /\ nframes' = nframes /\ current_proc' = current_proc
      /\ t > KernelTables /\ t \in 1 .. ntables' /\ ntables' \in {ntables, ntables + 1}
      /\ pds[1][i] # 0 => t = pds[1][i] /\ ntables' = ntables
      /\ pds[1][i] = 0 => t = ntables + 1 /\ ntables' = ntables + 1
  BY <1>1
<1>3. TypeOK /\ 1 \in Procs /\ ntables \in Nat /\ KernelTables \in Nat
  BY <1>2, Types, KernelDirectory DEF IInv
<1>4. /\ pds'[1][i] = t
      /\ \A p \in Procs, j \in Indices : p # 1 \/ j # i => pds'[p][j] = pds[p][j]
      /\ pds' \in [Procs -> [Indices -> 0 .. ntables']]
  <2>1. pds' = [pds EXCEPT ![1][i] = t]
    BY <1>1
  <2>2. pds \in [Procs -> [Indices -> 0 .. ntables]]
    BY <1>3 DEF TypeOK
  <2>3. \A n \in 0 .. ntables : n \in 0 .. ntables'
    BY <1>2, <1>3
  <2>4. t \in 0 .. ntables'
    BY <1>2, <1>3
  <2> HIDE DEF i
  <2>5. pds'[1][i] = t /\ \A p \in Procs, j \in Indices : p # 1 \/ j # i => pds'[p][j] = pds[p][j]
    BY <1>2, <1>3, <2>1, <2>2
  <2> QED BY <1>2, <1>3, <2>1, <2>2, <2>3, <2>4, <2>5
<1>5. \/ tables' = tables /\ to_map' = to_map /\ memory' = memory /\ panic' = TRUE
      \/ /\ f \in Free /\ to_map' = to_map \ {page} /\ panic' = panic
         /\ tables' = [tables EXCEPT ![t][e] = f]
  BY <1>1
<1>6. f \in Free => f \in Frames /\ f # 0 /\ f <= nframes
         /\ \A u \in 1 .. ntables : \A d \in Entries : tables[u][d] # f
  <2> SUFFICES ASSUME f \in Free PROVE
         f \in Frames /\ f # 0 /\ f <= nframes
         /\ \A u \in 1 .. ntables : \A d \in Entries : tables[u][d] # f
    OBVIOUS
  <2> HIDE DEF f
  <2>1. f \in 1 .. nframes /\ f \notin Used
    BY DEF Free
  <2>2. f \in Frames /\ f # 0 /\ f <= nframes
    BY <1>3, <2>1, Types, Sizes DEF Frames
  <2> QED BY <2>1, <2>2 DEF Used
<1> HIDE DEF f
<1>7. /\ \A u \in Tables, d \in Entries : u # t \/ d # e => tables'[u][d] = tables[u][d]
      /\ tables'[t][e] = tables[t][e] \/ (f \in Free /\ tables'[t][e] = f)
      /\ tables' \in [Tables -> [Entries -> Frames \cup {0}]]
  <2>1. tables \in [Tables -> [Entries -> Frames \cup {0}]] /\ e \in Entries
    BY <1>2, <1>3 DEF TypeOK
  <2> HIDE DEF e
  <2>2. CASE tables' = tables
    BY <2>1, <2>2
  <2>3. CASE f \in Free /\ tables' = [tables EXCEPT ![t][e] = f]
    BY <1>6, <2>1, <2>3
  <2> QED BY <1>5, <2>2, <2>3
<1> HIDE DEF i, e
<1>8. 1 .. ntables' \subseteq Tables /\ ntables' \in 0 .. MAX_TABLES
  BY <1>2, <1>3, Types, Sizes DEF Tables
<1>9. \A pg \in Pages : pg # page /\ FrameOf(1, pg) # 0 => FrameOf(1, pg)' = FrameOf(1, pg)
  <2> SUFFICES ASSUME NEW pg \in Pages, pg # page, FrameOf(1, pg) # 0
               PROVE  FrameOf(1, pg)' = FrameOf(1, pg)
    OBVIOUS
  <2> DEFINE j == TableOf(pg)
             d == EntryOf(pg)
  <2>1. j \in Indices /\ d \in Entries /\ (j # i \/ d # e)
    BY <1>2, Divided, SamePlace DEF i, e
  <2>2. pds[1][j] # 0 /\ FrameOf(1, pg) = tables[pds[1][j]][d]
    BY DEF FrameOf
  <2>3. pds[1][j] \in 1 .. ntables /\ pds[1][j] \in Tables
    BY <1>3, <2>1, <2>2, Types
  <2>4. FrameOf(1, pg)' = IF pds'[1][j] = 0 THEN 0 ELSE tables'[pds'[1][j]][d]
    BY DEF FrameOf
  <2> HIDE DEF j, d
  <2>5. pds'[1][j] = pds[1][j]
    BY <1>2, <1>3, <1>4, <2>1, <2>2
  <2>6. CASE pds[1][j] # t
    BY <1>7, <2>1, <2>2, <2>3, <2>4, <2>5, <2>6
  <2>7. CASE pds[1][j] = t
    <3>1. pds[1][i] # 0 /\ t = pds[1][i]
      BY <1>2, <1>3, <2>3, <2>7
    <3>2. j = i
      <4>1. CASE j \in KernelIndices
        <5>1. pds[1][j] <= KernelTables
          BY <1>2, <4>1, KernelDirectory DEF IInv, KernelLinked
        <5> QED BY <1>2, <1>3, <2>3, <2>7, <5>1
      <4>2. CASE j \notin KernelIndices
        BY <1>2, <2>1, <2>2, <2>7, <3>1, <4>2 DEF IInv, TablesPrivate
      <4> QED BY <4>1, <4>2
    <3>3. d # e
      BY <2>1, <3>2
    <3> QED BY <1>7, <2>1, <2>2, <2>3, <2>4, <2>5, <3>3
  <2> QED BY <2>6, <2>7
<1>10. \A pg \in KernelPages : pg # page /\ FrameOf(1, pg) # 0 /\ pg \in Pages
  <2>1. \A pg \in KernelPages : TableOf(pg) \in KernelIndices
    BY DEF KernelIndices
  <2> QED BY <1>2, <2>1, Sizes DEF i, IInv, Mapped
<1>11. \A pg \in KernelPages : FrameOf(1, pg)' = FrameOf(1, pg)
  BY <1>9, <1>10
<1>12. KernelLinked'
  <2>1. KernelTables <= ntables'
    BY <1>2, <1>3 DEF IInv, KernelLinked
  <2>2. ASSUME NEW p \in 1 .. nprocs', NEW j \in KernelIndices PROVE pds'[p][j] = kernel_pd[j]
    <3>1. p = 1 /\ j # i /\ j \in Indices
      BY <1>2, KernelDirectory
    <3> QED BY <1>2, <1>3, <1>4, <3>1 DEF IInv, KernelLinked
  <2> QED BY <2>1, <2>2 DEF KernelLinked, KernelTables, KernelIndices, kernel_pd
<1>13. TablesPrivate'
  <2>1. \A p \in 1 .. nprocs' : p = 1
    BY <1>2
  <2>2. ASSUME NEW j \in Indices \ KernelIndices, pds'[1][j] # 0 PROVE pds'[1][j] > KernelTables
    BY <1>2, <1>3, <1>4, <2>2 DEF IInv, TablesPrivate
  <2>3. ASSUME NEW j \in Indices \ KernelIndices, NEW l \in Indices \ KernelIndices,
               pds'[1][j] # 0, pds'[1][j] = pds'[1][l], j # l
        PROVE  FALSE
    <3>1. \A m \in Indices \ KernelIndices : m # i /\ pds[1][m] # 0 => pds[1][m] # t
      <4> SUFFICES ASSUME NEW m \in Indices \ KernelIndices, m # i, pds[1][m] = t PROVE FALSE
        BY <1>2, <1>3
      <4>1. pds[1][m] \in 0 .. ntables
        BY <1>3, Types
      <4>2. pds[1][i] # 0
        BY <1>2, <1>3, <4>1
      <4> QED BY <1>2, <4>2 DEF IInv, TablesPrivate
    <3>2. CASE j # i /\ l # i
      BY <1>2, <1>3, <1>4, <2>3, <3>2 DEF IInv, TablesPrivate
    <3>3. CASE j = i \/ l = i
      BY <1>2, <1>3, <1>4, <2>3, <3>1, <3>3
    <3> QED BY <3>2, <3>3
  <2>4. KernelTables' = KernelTables /\ KernelIndices' = KernelIndices
    BY DEF KernelTables, KernelIndices
  <2> QED BY <2>1, <2>2, <2>3, <2>4 DEF TablesPrivate
<1>14. FramesUnique'
  <2> SUFFICES ASSUME NEW u \in 1 .. ntables', NEW w \in 1 .. ntables',
                      NEW c \in Entries, NEW d \in Entries,
                      tables'[u][c] # 0, tables'[u][c] = tables'[w][d]
               PROVE  u = w /\ c = d
    BY DEF FramesUnique
  <2>1. \A x \in 1 .. ntables' : \A b \in Entries :
           (x # t \/ b # e) /\ tables'[x][b] # 0 =>
              x \in 1 .. ntables /\ tables'[x][b] = tables[x][b]
    <3> SUFFICES ASSUME NEW x \in 1 .. ntables', NEW b \in Entries,
                        x # t \/ b # e, tables'[x][b] # 0
                 PROVE  x \in 1 .. ntables /\ tables'[x][b] = tables[x][b]
      OBVIOUS
    <3>1. x \in Tables /\ tables'[x][b] = tables[x][b]
      BY <1>7, <1>8
    <3>2. ~(x > ntables)
      BY <3>1 DEF IInv, FramesBounded
    <3> QED BY <1>2, <1>3, <3>1, <3>2
  <2>2. CASE (u # t \/ c # e) /\ (w # t \/ d # e)
    BY <2>1, <2>2 DEF IInv, FramesUnique
  <2>3. CASE tables'[t][e] = tables[t][e]
    <3>1. \A x \in 1 .. ntables' : \A b \in Entries : tables'[x][b] # 0 =>
              x \in 1 .. ntables /\ tables'[x][b] = tables[x][b]
      <4> SUFFICES ASSUME NEW x \in 1 .. ntables', NEW b \in Entries, tables'[x][b] # 0
                   PROVE  x \in 1 .. ntables /\ tables'[x][b] = tables[x][b]
        OBVIOUS
      <4>1. x \in Tables /\ tables'[x][b] = tables[x][b]
        BY <1>7, <1>8, <2>3
      <4>2. ~(x > ntables)
        BY <4>1 DEF IInv, FramesBounded
      <4> QED BY <1>2, <1>3, <4>1, <4>2
    <3> QED BY <3>1 DEF IInv, FramesUnique
  <2>4. CASE f \in Free /\ tables'[t][e] = f
    BY <1>6, <2>1, <2>2, <2>4
  <2> QED BY <1>7, <2>3, <2>4
<1>15. FramesBounded'
  <2>1. ASSUME NEW u \in Tables, NEW d \in Entries PROVE tables'[u][d] <= nframes'
    <3>1. tables[u][d] <= nframes
      BY DEF IInv, FramesBounded
    <3> QED BY <1>2, <1>6, <1>7, <3>1
  <2>2. ASSUME NEW u \in Tables, u > ntables', NEW d \in Entries PROVE tables'[u][d] = 0
    <3>1. u # t /\ u > ntables
      BY <1>2, <1>3, <2>2, Sizes
    <3> QED BY <1>7, <3>1 DEF IInv, FramesBounded
  <2> QED BY <2>1, <2>2 DEF FramesBounded, Tables, Entries
<1>16. Mapped'
  <2>1. nprocs' = 1 /\ \A p \in 1 .. nprocs' : p = 1
    BY <1>2
  <2>2. ASSUME NEW pg \in StackPages \ to_map' PROVE FrameOf(1, pg)' # 0
    <3>1. CASE pg # page
      <4>1. pg \in StackPages \ to_map /\ pg \in Pages
        BY <1>5, <2>2, <3>1, Sizes
      <4>2. FrameOf(1, pg) # 0
        BY <1>2, <4>1 DEF IInv, Mapped
      <4> QED BY <1>9, <3>1, <4>1, <4>2
    <3>2. CASE pg = page
      <4>1. f \in Free /\ tables' = [tables EXCEPT ![t][e] = f]
        BY <1>2, <1>5, <2>2, <3>2
      <4>2. tables'[t][e] = f
        BY <1>2, <1>3, <4>1 DEF TypeOK
      <4>3. FrameOf(1, pg)' = IF pds'[1][i] = 0 THEN 0 ELSE tables'[pds'[1][i]][e]
        BY <3>2 DEF FrameOf, i, e
      <4> QED BY <1>2, <1>3, <1>4, <1>6, <4>1, <4>2, <4>3
    <3> QED BY <3>1, <3>2
  <2> QED BY <1>10, <1>11, <2>1, <2>2 DEF Mapped
<1>17. TypeOK'
  <2>1. memory' \in [Frames -> Values]
    <3>1. memory \in [Frames -> Values]
      BY <1>3 DEF TypeOK
    <3>2. CASE memory' = memory
      BY <3>1, <3>2
    <3>3. ASSUME NEW contents \in [StackPages -> Values], memory' = Filled(contents)
          PROVE  memory' \in [Frames -> Values]
      <4>1. ASSUME NEW g \in Frames PROVE Filled(contents)[g] \in Values
        <5>1. CASE \E pg \in StackPages : FrameOf(1, pg)' = g
          <6>1. (CHOOSE pg \in StackPages : FrameOf(1, pg)' = g) \in StackPages
            BY <5>1
          <6> QED BY <5>1, <6>1 DEF Filled
        <5>2. CASE ~ \E pg \in StackPages : FrameOf(1, pg)' = g
          BY <3>1, <5>2 DEF Filled
        <5> QED BY <5>1, <5>2
      <4> QED BY <3>3, <4>1 DEF Filled
    <3> QED BY <1>1, <3>2, <3>3
  <2>2. nframes' \in 0 .. FRAMES /\ nprocs' \in Procs /\ current_proc' \in 1 .. nprocs'
    BY <1>2, <1>3 DEF TypeOK
  <2>3. to_map' \subseteq StackPages /\ panic' \in BOOLEAN
    BY <1>3, <1>5 DEF TypeOK
  <2> QED BY <1>4, <1>7, <1>8, <2>1, <2>2, <2>3
          DEF TypeOK, Procs, Indices, Tables, Entries, Frames
<1> QED BY <1>11, <1>12, <1>13, <1>14, <1>15, <1>16, <1>17 DEF IInv

(***************************************************************************)
(* fork: the parent's own tables are copied into new ones.                 *)
(***************************************************************************)

\* The tables that clone_page_directory copies are the parent's own, and
\* every copy is a new table.
LEMMA CopiedTables ==
    ASSUME IInv, NEW p \in 1 .. nprocs
    PROVE  /\ Copied(pds[p]) = {i \in Indices \ KernelIndices : pds[p][i] # 0}
           /\ Cardinality(Copied(pds[p])) \in Nat
           /\ \A i \in Copied(pds[p]) :
                 CloneOf(pds[p], i) \in
                    (ntables + 1) .. (ntables + Cardinality(Copied(pds[p])))
           /\ \A i, j \in Copied(pds[p]) :
                 CloneOf(pds[p], i) = CloneOf(pds[p], j) => i = j
           /\ \A t \in (ntables + 1) .. (ntables + Cardinality(Copied(pds[p]))) :
                 \E i \in Copied(pds[p]) : CloneOf(pds[p], i) = t
<1> DEFINE C == Copied(pds[p])
<1>1. C = {i \in Indices \ KernelIndices : pds[p][i] # 0}
  <2>1. \A i \in Indices : i \in KernelIndices => pds[p][i] = kernel_pd[i]
    BY DEF IInv, KernelLinked
  <2>2. \A i \in Indices : i \notin KernelIndices => kernel_pd[i] = 0
    BY KernelDirectory
  <2> QED BY <2>1, <2>2 DEF Copied, Linked
<1>2. C \in SUBSET Indices /\ C \in SUBSET Nat
  BY Sizes DEF Copied
<1>3. IsFiniteSet(C) /\ Cardinality(C) \in Nat
  <2>1. IsFiniteSet(Indices)
    BY Sizes, FS_Interval DEF Indices
  <2> QED BY <1>2, <2>1, FS_Subset, FS_CardinalityType
<1>4. ntables \in Nat /\ \A i : CloneOf(pds[p], i) = ntables + Rank(i, C)
  BY Types DEF IInv, CloneOf
<1> HIDE DEF C
<1>5. \A i \in C : /\ Rank(i, C) \in 1 .. Cardinality(C)
                   /\ \A j \in C : Rank(i, C) = Rank(j, C) => i = j
  BY <1>2, <1>3, RankBounds
<1>6. \A n \in 1 .. Cardinality(C) : \E i \in C : Rank(i, C) = n
  <2>1. \A i \in C : i <= PD_ENTRIES
    BY <1>2, Sizes DEF Indices
  <2> QED BY <1>2, <1>3, <2>1, Sizes, RankExists
<1>7. \A i \in C : CloneOf(pds[p], i) \in (ntables + 1) .. (ntables + Cardinality(C))
  BY <1>3, <1>4, <1>5
<1>8. \A i, j \in C : CloneOf(pds[p], i) = CloneOf(pds[p], j) => i = j
  BY <1>3, <1>4, <1>5
<1>9. ASSUME NEW t \in (ntables + 1) .. (ntables + Cardinality(C))
      PROVE  \E i \in C : CloneOf(pds[p], i) = t
  <2>1. t - ntables \in 1 .. Cardinality(C)
    BY <1>3, <1>4
  <2>2. PICK i \in C : Rank(i, C) = t - ntables
    BY <1>6, <2>1
  <2> QED BY <1>3, <1>4, <2>2
<1> QED BY <1>1, <1>3, <1>7, <1>8, <1>9 DEF C

\* When there is memory, every page that clone_page_table copies gets a free
\* frame of its own.
LEMMA CopiedPages ==
    ASSUME IInv, NEW p \in 1 .. nprocs,
           Cardinality(Free) >= Cardinality(ToCopy(pds[p]))
    PROVE  \A a \in ToCopy(pds[p]) :
              /\ NewFrame(pds[p], a) \in Free
              /\ \A b \in ToCopy(pds[p]) :
                    NewFrame(pds[p], a) = NewFrame(pds[p], b) => a = b
<1> DEFINE C == ToCopy(pds[p])
<1>1. C \in SUBSET Pages /\ C \in SUBSET Nat
  BY Sizes DEF ToCopy
<1>2. IsFiniteSet(C) /\ Cardinality(C) \in Nat
  <2>1. PD_ENTRIES * PT_ENTRIES - 1 \in Int
    BY Sizes
  <2>2. IsFiniteSet(Pages)
    BY <2>1, FS_Interval DEF Pages
  <2> QED BY <1>1, <2>2, FS_Subset, FS_CardinalityType
<1>3. Cardinality(Free) \in Nat /\ Cardinality(Free) >= Cardinality(C)
  BY Allocated
<1>4. \A a : NewFrame(pds[p], a) = pmalloc(Rank(a, C))
  BY DEF NewFrame
<1> HIDE DEF C
<1>5. \A a \in C : /\ Rank(a, C) \in 1 .. Cardinality(Free)
                   /\ \A b \in C : Rank(a, C) = Rank(b, C) => a = b
  <2>1. \A a \in C : /\ Rank(a, C) \in 1 .. Cardinality(C)
                     /\ \A b \in C : Rank(a, C) = Rank(b, C) => a = b
    BY <1>1, <1>2, RankBounds
  <2>2. \A n \in 1 .. Cardinality(C) : n \in 1 .. Cardinality(Free)
    BY <1>2, <1>3
  <2> QED BY <2>1, <2>2
<1>6. \A a \in C : /\ pmalloc(Rank(a, C)) \in Free
                   /\ Rank(pmalloc(Rank(a, C)), Free) = Rank(a, C)
  BY <1>5, Allocated
<1>7. \A a, b \in C : pmalloc(Rank(a, C)) = pmalloc(Rank(b, C)) => a = b
  <2> SUFFICES ASSUME NEW a \in C, NEW b \in C, pmalloc(Rank(a, C)) = pmalloc(Rank(b, C))
               PROVE  a = b
    OBVIOUS
  <2>1. Rank(a, C) = Rank(b, C)
    BY <1>6
  <2> QED BY <1>5, <2>1
<1> QED BY <1>4, <1>6, <1>7 DEF C

\* What a successful fork makes, with the copies named.
Forked ==
    LET src == pds[current_proc]
    IN  /\ ~panic /\ to_map = {} /\ nprocs + 1 \in Procs
        /\ ntables + Cardinality(Copied(src)) <= MAX_TABLES
        /\ Cardinality(Free) >= Cardinality(ToCopy(src))
        /\ pds' = [pds EXCEPT ![nprocs + 1] = clone_page_directory(src)]
        /\ ntables' = ntables + Cardinality(Copied(src))
        /\ tables' = [t \in Tables |->
              IF \E i \in Copied(src) : CloneOf(src, i) = t
              THEN clone_page_table(src, CHOOSE i \in Copied(src) : CloneOf(src, i) = t)
              ELSE tables[t]]
        /\ memory' = CopiedMemory(src)
        /\ nprocs' = nprocs + 1
        /\ UNCHANGED <<panic, nframes, current_proc, to_map>>

\* The new tables: an entry of a copy has a new frame where the original has
\* one, and the tables that exist do not change.
LEMMA ForkedTables ==
    ASSUME IInv, Forked
    PROVE  LET src == pds[current_proc]
           IN  /\ tables' \in [Tables -> [Entries -> Frames \cup {0}]]
               /\ \A t \in 1 .. ntables : tables'[t] = tables[t]
               /\ \A t \in Tables : t > ntables' => tables'[t] = tables[t]
               /\ \A i \in Copied(src), e \in Entries :
                     /\ tables[src[i]][e] # 0 =>
                           /\ i * PT_ENTRIES + e \in ToCopy(src)
                           /\ tables'[CloneOf(src, i)][e] = NewFrame(src, i * PT_ENTRIES + e)
                     /\ tables[src[i]][e] = 0 => tables'[CloneOf(src, i)][e] = 0
<1> DEFINE src == pds[current_proc]
<1>1. current_proc \in 1 .. nprocs /\ TypeOK
  BY DEF IInv, TypeOK
<1>2. /\ tables' = [t \in Tables |->
              IF \E i \in Copied(src) : CloneOf(src, i) = t
              THEN clone_page_table(src, CHOOSE i \in Copied(src) : CloneOf(src, i) = t)
              ELSE tables[t]]
      /\ ntables' = ntables + Cardinality(Copied(src))
      /\ ntables' <= MAX_TABLES
      /\ Cardinality(Free) >= Cardinality(ToCopy(src))
  BY DEF Forked
<1>3. /\ \A i \in Copied(src) : CloneOf(src, i) \in (ntables + 1) .. ntables'
      /\ \A i, j \in Copied(src) : CloneOf(src, i) = CloneOf(src, j) => i = j
      /\ Copied(src) = {i \in Indices \ KernelIndices : src[i] # 0}
      /\ ntables' \in Nat /\ ntables \in Nat
  <2>1. /\ Cardinality(Copied(src)) \in Nat
        /\ \A i \in Copied(src) :
              CloneOf(src, i) \in (ntables + 1) .. (ntables + Cardinality(Copied(src)))
        /\ \A i, j \in Copied(src) : CloneOf(src, i) = CloneOf(src, j) => i = j
        /\ Copied(src) = {i \in Indices \ KernelIndices : src[i] # 0}
    BY <1>1, CopiedTables
  <2>2. ntables \in Nat
    BY <1>1, Types
  <2> HIDE DEF src
  <2>3. ntables' \in Nat
    BY <1>2, <2>1, <2>2
  <2> QED BY <1>2, <2>1, <2>2, <2>3, Zenon
<1>4. \A a \in ToCopy(src) : NewFrame(src, a) \in Free
  BY <1>1, <1>2, CopiedPages
<1> HIDE DEF src
<1>5. ASSUME NEW i \in Copied(src), NEW e \in Entries
      PROVE  /\ clone_page_table(src, i)[e] \in Frames \cup {0}
             /\ tables[src[i]][e] # 0 =>
                   /\ i * PT_ENTRIES + e \in ToCopy(src)
                   /\ clone_page_table(src, i)[e] = NewFrame(src, i * PT_ENTRIES + e)
             /\ tables[src[i]][e] = 0 => clone_page_table(src, i)[e] = 0
  <2> DEFINE page == i * PT_ENTRIES + e
  <2>1. page \in Pages /\ TableOf(page) = i /\ EntryOf(page) = e
    BY <1>3, Composed
  <2>2. clone_page_table(src, i)[e] = IF page \in ToCopy(src) THEN NewFrame(src, page) ELSE 0
    BY DEF clone_page_table
  <2>3. page \in ToCopy(src) <=> tables[src[i]][e] # 0
    BY <2>1 DEF ToCopy
  <2>4. \A g \in Free : g \in Frames
    BY <1>1, Types, Sizes DEF Free, Frames
  <2> HIDE DEF page
  <2>5. clone_page_table(src, i)[e] \in Frames \cup {0}
    BY <1>4, <2>2, <2>4
  <2> QED BY <2>2, <2>3, <2>5 DEF page
<1>6. ASSUME NEW t \in Tables, ~ \E i \in Copied(src) : CloneOf(src, i) = t
      PROVE  tables'[t] = tables[t]
  BY <1>2, <1>6
<1>7. ASSUME NEW i \in Copied(src)
      PROVE  CloneOf(src, i) \in Tables /\ tables'[CloneOf(src, i)] = clone_page_table(src, i)
  <2>1. CloneOf(src, i) \in Tables
    BY <1>2, <1>3, Sizes DEF Tables
  <2>2. (CHOOSE j \in Copied(src) : CloneOf(src, j) = CloneOf(src, i)) = i
    BY <1>3
  <2> QED BY <1>2, <2>1, <2>2
<1>8. tables' \in [Tables -> [Entries -> Frames \cup {0}]]
  <2>1. ASSUME NEW t \in Tables PROVE tables'[t] \in [Entries -> Frames \cup {0}]
    <3>1. CASE \E i \in Copied(src) : CloneOf(src, i) = t
      <4>1. PICK i \in Copied(src) : CloneOf(src, i) = t
        BY <3>1
      <4>2. clone_page_table(src, i) \in [Entries -> Frames \cup {0}]
        BY <1>5 DEF clone_page_table
      <4> QED BY <1>7, <4>1, <4>2
    <3>2. CASE ~ \E i \in Copied(src) : CloneOf(src, i) = t
      BY <1>1, <1>6, <3>2 DEF TypeOK
    <3> QED BY <3>1, <3>2
  <2> QED BY <1>2, <2>1
<1>9. \A t \in 1 .. ntables : tables'[t] = tables[t]
  <2> SUFFICES ASSUME NEW t \in 1 .. ntables PROVE tables'[t] = tables[t]
    OBVIOUS
  <2>1. t \in Tables /\ \A i \in Copied(src) : CloneOf(src, i) # t
    BY <1>1, <1>3, Types
  <2> QED BY <1>6, <2>1
<1>10. \A t \in Tables : t > ntables' => tables'[t] = tables[t]
  <2> SUFFICES ASSUME NEW t \in Tables, t > ntables' PROVE tables'[t] = tables[t]
    OBVIOUS
  <2>1. \A i \in Copied(src) : CloneOf(src, i) # t
    BY <1>3, Sizes
  <2> QED BY <1>6, <2>1
<1> QED BY <1>5, <1>7, <1>8, <1>9, <1>10 DEF src

\* A frame that is mapped is in use, so that no copy gets it.
LEMMA MappedIsUsed ==
    ASSUME IInv, NEW p \in 1 .. nprocs, NEW page \in Pages
    PROVE  FrameOf(p, page) \notin Free
<1>1. TableOf(page) \in Indices /\ EntryOf(page) \in Entries /\ p \in Procs /\ TypeOK
  BY Divided, Types DEF IInv
<1>2. CASE pds[p][TableOf(page)] = 0
  BY <1>1, <1>2, Types DEF FrameOf, Free
<1>3. CASE pds[p][TableOf(page)] # 0
  <2>1. pds[p][TableOf(page)] \in 1 .. ntables
    BY <1>1, <1>3, Types
  <2> QED BY <1>1, <1>3, <2>1 DEF FrameOf, Used, Free
<1> QED BY <1>2, <1>3

\* The pages of the processes there are keep their frames, the child has the
\* kernel's pages and a copy of its parent's own.
LEMMA ForkedFrames ==
    ASSUME IInv, Forked, NEW child \in Procs, child = nprocs + 1
    PROVE  /\ \A p \in 1 .. nprocs, page \in Pages : FrameOf(p, page)' = FrameOf(p, page)
           /\ \A page \in Pages :
                 IF TableOf(page) \in KernelIndices
                 THEN FrameOf(child, page)' = FrameOf(current_proc, page)
                 ELSE FrameOf(current_proc, page) # 0 =>
                        /\ page \in ToCopy(pds[current_proc])
                        /\ FrameOf(child, page)' = NewFrame(pds[current_proc], page)
<1> DEFINE src == pds[current_proc]
<1>1. TypeOK /\ current_proc \in 1 .. nprocs /\ current_proc \in Procs /\ child \in Procs
      /\ nprocs \in Nat /\ ntables \in Nat
  BY Types DEF IInv, TypeOK, Forked
<1>2. pds' = [pds EXCEPT ![child] = clone_page_directory(src)]
  BY DEF Forked
<1>3. \A p \in Procs : pds'[p] = IF p = child THEN clone_page_directory(src) ELSE pds[p]
  BY <1>2 DEF IInv, TypeOK
<1>4. \A t \in 1 .. ntables : tables'[t] = tables[t]
  BY ForkedTables
<1>5. Copied(src) = {i \in Indices \ KernelIndices : src[i] # 0}
  BY <1>1, CopiedTables
<1>6. \A i \in Copied(src) : CloneOf(src, i) # 0
  <2>1. \A i \in Copied(src) :
           CloneOf(src, i) \in (ntables + 1) .. (ntables + Cardinality(Copied(src)))
        /\ Cardinality(Copied(src)) \in Nat
    BY <1>1, CopiedTables
  <2> HIDE DEF src
  <2> QED BY <1>1, <2>1
<1>7. \A i \in Copied(src), e \in Entries : tables[src[i]][e] # 0 =>
           tables'[CloneOf(src, i)][e] = NewFrame(src, i * PT_ENTRIES + e)
        /\ i * PT_ENTRIES + e \in ToCopy(src)
  BY ForkedTables
<1>8. \A p, page : FrameOf(p, page)' =
         IF pds'[p][TableOf(page)] = 0 THEN 0
         ELSE tables'[pds'[p][TableOf(page)]][EntryOf(page)]
  BY DEF FrameOf
<1>9. ASSUME NEW p \in 1 .. nprocs, NEW page \in Pages PROVE FrameOf(p, page)' = FrameOf(p, page)
  <2>1. p \in Procs /\ p # child /\ TableOf(page) \in Indices
    BY <1>1, Types, Divided
  <2>2. pds'[p] = pds[p]
    BY <1>3, <2>1
  <2>3. pds[p][TableOf(page)] # 0 => pds[p][TableOf(page)] \in 1 .. ntables
    BY <1>1, <2>1, Types
  <2> QED BY <1>4, <1>8, <2>2, <2>3 DEF FrameOf
<1>10. ASSUME NEW page \in Pages
       PROVE  IF TableOf(page) \in KernelIndices
                 THEN FrameOf(child, page)' = FrameOf(current_proc, page)
                 ELSE FrameOf(current_proc, page) # 0 =>
                        /\ page \in ToCopy(src)
                        /\ FrameOf(child, page)' = NewFrame(src, page)
  <2> DEFINE i == TableOf(page)
             e == EntryOf(page)
  <2>1. i \in Indices /\ e \in Entries /\ page = i * PT_ENTRIES + e
    BY Divided
  <2>2. pds'[child][i] = IF i \in Copied(src) THEN CloneOf(src, i) ELSE src[i]
    BY <1>1, <1>3, <2>1 DEF clone_page_directory
  <2>3. FrameOf(child, page)' = IF pds'[child][i] = 0 THEN 0 ELSE tables'[pds'[child][i]][e]
    BY <1>8
  <2>4. FrameOf(current_proc, page) = IF src[i] = 0 THEN 0 ELSE tables[src[i]][e]
    BY DEF FrameOf
  <2>5. src[i] # 0 => src[i] \in 1 .. ntables
    BY <1>1, <2>1, Types
  <2> HIDE DEF i, e, src
  <2>6. CASE i \in KernelIndices
    <3>1. pds'[child][i] = src[i]
      BY <1>5, <2>2, <2>6
    <3>2. FrameOf(child, page)' = FrameOf(current_proc, page)
      BY <1>4, <2>3, <2>4, <2>5, <3>1
    <3> QED BY <2>6, <3>2 DEF i
  <2>7. CASE i \notin KernelIndices
    <3> SUFFICES ASSUME FrameOf(current_proc, page) # 0
                 PROVE  /\ page \in ToCopy(src)
                        /\ FrameOf(child, page)' = NewFrame(src, page)
      BY <2>7 DEF i
    <3>1. src[i] # 0 /\ tables[src[i]][e] # 0
      BY <2>4
    <3>2. i \in Copied(src)
      BY <1>5, <2>1, <2>7, <3>1
    <3>3. FrameOf(child, page)' = tables'[CloneOf(src, i)][e]
      BY <1>6, <2>2, <2>3, <3>2
    <3> QED BY <1>7, <2>1, <3>1, <3>2, <3>3
  <2> QED BY <2>6, <2>7
<1> QED BY <1>9, <1>10 DEF src

\* A successful fork keeps the invariant.
LEMMA ForkedInv == ASSUME IInv, Forked PROVE IInv'
<1> DEFINE src == pds[current_proc]
<1>1. PICK child \in Procs : child = nprocs + 1
  BY DEF Forked
<1>2. TypeOK /\ current_proc \in 1 .. nprocs /\ current_proc \in Procs
      /\ nprocs \in Nat /\ ntables \in Nat /\ nframes \in Nat /\ KernelTables \in Nat
  BY Types, KernelDirectory DEF IInv, TypeOK
<1>3. /\ pds' = [pds EXCEPT ![child] = clone_page_directory(src)]
      /\ ntables' = ntables + Cardinality(Copied(src)) /\ ntables' <= MAX_TABLES
      /\ memory' = CopiedMemory(src) /\ nprocs' = child
      /\ to_map = {} /\ to_map' = {} /\ UNCHANGED <<panic, nframes, current_proc>>
      /\ Cardinality(Free) >= Cardinality(ToCopy(src))
  BY <1>1 DEF Forked
<1>4. /\ Copied(src) = {i \in Indices \ KernelIndices : src[i] # 0}
      /\ Cardinality(Copied(src)) \in Nat
      /\ \A i \in Copied(src) :
            CloneOf(src, i) \in (ntables + 1) .. (ntables + Cardinality(Copied(src)))
      /\ \A i, j \in Copied(src) : CloneOf(src, i) = CloneOf(src, j) => i = j
      /\ \A t \in (ntables + 1) .. (ntables + Cardinality(Copied(src))) :
            \E i \in Copied(src) : CloneOf(src, i) = t
  BY <1>2, CopiedTables
<1>5. \A a \in ToCopy(src) :
         /\ NewFrame(src, a) \in Free
         /\ \A b \in ToCopy(src) : NewFrame(src, a) = NewFrame(src, b) => a = b
  BY <1>2, <1>3, CopiedPages
<1>6. /\ tables' \in [Tables -> [Entries -> Frames \cup {0}]]
      /\ \A t \in 1 .. ntables : tables'[t] = tables[t]
      /\ \A t \in Tables : t > ntables' => tables'[t] = tables[t]
      /\ \A i \in Copied(src), e \in Entries :
            /\ tables[src[i]][e] # 0 =>
                  /\ i * PT_ENTRIES + e \in ToCopy(src)
                  /\ tables'[CloneOf(src, i)][e] = NewFrame(src, i * PT_ENTRIES + e)
            /\ tables[src[i]][e] = 0 => tables'[CloneOf(src, i)][e] = 0
  BY ForkedTables
<1>7. /\ \A p \in 1 .. nprocs, page \in Pages : FrameOf(p, page)' = FrameOf(p, page)
      /\ \A page \in Pages :
            IF TableOf(page) \in KernelIndices
            THEN FrameOf(child, page)' = FrameOf(current_proc, page)
            ELSE FrameOf(current_proc, page) # 0 =>
                   /\ page \in ToCopy(src)
                   /\ FrameOf(child, page)' = NewFrame(src, page)
  BY <1>1, ForkedFrames
<1>8. /\ \A p \in Procs : p # child => pds'[p] = pds[p]
      /\ \A j \in Indices : pds'[child][j] = IF j \in Copied(src) THEN CloneOf(src, j) ELSE src[j]
  BY <1>3 DEF IInv, TypeOK, clone_page_directory
<1>9. /\ src \in [Indices -> 0 .. ntables]
      /\ \A i \in KernelIndices : src[i] = kernel_pd[i]
  BY <1>2 DEF IInv, TypeOK, KernelLinked
<1>10. \A g \in Free : g \in Frames /\ g # 0 /\ g \in Nat /\ g <= nframes /\ g \notin Used
  BY <1>2, Types, Sizes DEF Free, Frames
<1> HIDE DEF src
<1>11. ntables' \in Nat /\ ntables <= ntables' /\ ntables' \in 0 .. MAX_TABLES
  BY <1>2, <1>3, <1>4, Sizes
<1>12. \A p \in 1 .. nprocs' : p = child \/ (p \in 1 .. nprocs /\ p \in Procs /\ pds'[p] = pds[p])
  <2> SUFFICES ASSUME NEW p \in 1 .. nprocs', p # child
               PROVE  p \in 1 .. nprocs /\ p \in Procs /\ pds'[p] = pds[p]
    OBVIOUS
  <2>1. p \in 1 .. nprocs
    BY <1>1, <1>2, <1>3
  <2> QED BY <1>2, <1>8, <2>1, Types
<1>13. \A j \in Indices \ KernelIndices : pds'[child][j] # 0 =>
          /\ j \in Copied(src) /\ pds'[child][j] = CloneOf(src, j)
          /\ pds'[child][j] \in Nat /\ pds'[child][j] > ntables
  <2> SUFFICES ASSUME NEW j \in Indices \ KernelIndices, pds'[child][j] # 0
               PROVE  /\ j \in Copied(src) /\ pds'[child][j] = CloneOf(src, j)
                      /\ pds'[child][j] \in Nat /\ pds'[child][j] > ntables
    OBVIOUS
  <2>1. j \in Copied(src)
    BY <1>4, <1>8
  <2>2. pds'[child][j] = CloneOf(src, j)
    BY <1>8, <2>1
  <2>3. CloneOf(src, j) \in Nat /\ CloneOf(src, j) > ntables
    BY <1>2, <1>4, <2>1
  <2> QED BY <2>1, <2>2, <2>3
<1>14. KernelLinked'
  <2>1. KernelTables <= ntables'
    <3>1. KernelTables <= ntables
      BY DEF IInv, KernelLinked
    <3> QED BY <1>2, <1>11, <3>1
  <2>2. ASSUME NEW p \in 1 .. nprocs', NEW j \in KernelIndices PROVE pds'[p][j] = kernel_pd[j]
    <3>1. CASE p = child
      <4>1. j \in Indices /\ j \notin Copied(src)
        BY <1>4, KernelDirectory
      <4> QED BY <1>8, <1>9, <3>1, <4>1
    <3>2. CASE p # child
      BY <1>12, <3>2 DEF IInv, KernelLinked
    <3> QED BY <3>1, <3>2
  <2> QED BY <2>1, <2>2 DEF KernelLinked, KernelTables, KernelIndices, kernel_pd
<1>15. TablesPrivate'
  <2>1. \A p \in 1 .. nprocs' : \A j \in Indices \ KernelIndices :
           pds'[p][j] # 0 => pds'[p][j] > KernelTables
    <3> SUFFICES ASSUME NEW p \in 1 .. nprocs', NEW j \in Indices \ KernelIndices,
                        pds'[p][j] # 0
                 PROVE  pds'[p][j] > KernelTables
      OBVIOUS
    <3>1. CASE p = child
      <4>1. KernelTables <= ntables
        BY DEF IInv, KernelLinked
      <4> QED BY <1>2, <1>13, <3>1, <4>1
    <3>2. CASE p # child
      BY <1>12, <3>2 DEF IInv, TablesPrivate
    <3> QED BY <3>1, <3>2
  <2>2. ASSUME NEW p \in 1 .. nprocs', NEW q \in 1 .. nprocs',
               NEW i \in Indices \ KernelIndices, NEW j \in Indices \ KernelIndices,
               pds'[p][i] # 0, pds'[p][i] = pds'[q][j]
        PROVE  p = q /\ i = j
    <3>1. CASE p = child /\ q = child
      BY <1>4, <1>13, <2>2, <3>1
    <3>2. CASE p # child /\ q # child
      BY <1>12, <2>2, <3>2 DEF IInv, TablesPrivate
    <3>3. ASSUME NEW r \in 1 .. nprocs', r # child, NEW a \in Indices, NEW b \in Indices \ KernelIndices,
                 pds'[r][a] = pds'[child][b], pds'[child][b] # 0
          PROVE  FALSE
      <4>1. pds'[r][a] \in 0 .. ntables
        BY <1>2, <1>12, <3>3, Types
      <4> QED BY <1>2, <1>13, <3>3, <4>1
    <3> QED BY <2>2, <3>1, <3>2, <3>3
  <2>3. KernelTables' = KernelTables /\ KernelIndices' = KernelIndices
    BY DEF KernelTables, KernelIndices
  <2> QED BY <2>1, <2>2, <2>3 DEF TablesPrivate
<1>16. ASSUME NEW t \in 1 .. ntables', ~(t \in 1 .. ntables)
       PROVE  \E i \in Copied(src) : t = CloneOf(src, i)
  <2>1. t \in (ntables + 1) .. (ntables + Cardinality(Copied(src)))
    BY <1>2, <1>3, <1>4, <1>16
  <2> QED BY <1>4, <2>1
<1>17. ASSUME NEW i \in Copied(src), NEW e \in Entries, tables'[CloneOf(src, i)][e] # 0
       PROVE  /\ i * PT_ENTRIES + e \in ToCopy(src)
              /\ tables'[CloneOf(src, i)][e] = NewFrame(src, i * PT_ENTRIES + e)
  BY <1>6, <1>17
<1>18. FramesUnique'
  <2> SUFFICES ASSUME NEW t \in 1 .. ntables', NEW u \in 1 .. ntables',
                      NEW d \in Entries, NEW e \in Entries,
                      tables'[t][d] # 0, tables'[t][d] = tables'[u][e]
               PROVE  t = u /\ d = e
    BY DEF FramesUnique
  <2>1. CASE t \in 1 .. ntables /\ u \in 1 .. ntables
    BY <1>6, <2>1 DEF IInv, FramesUnique
  <2>2. CASE ~(t \in 1 .. ntables) /\ ~(u \in 1 .. ntables)
    <3>1. PICK i \in Copied(src) : t = CloneOf(src, i)
      BY <1>16, <2>2
    <3>2. PICK j \in Copied(src) : u = CloneOf(src, j)
      BY <1>16, <2>2
    <3>3. i * PT_ENTRIES + d = j * PT_ENTRIES + e
      BY <1>5, <1>17, <3>1, <3>2
    <3>4. i = j /\ d = e
      BY <1>4, <3>3, Composed
    <3> QED BY <3>1, <3>2, <3>4
  <2>3. ASSUME NEW x \in 1 .. ntables', NEW y \in 1 .. ntables', NEW a \in Entries, NEW b \in Entries,
               x \in 1 .. ntables, ~(y \in 1 .. ntables), tables'[y][b] # 0,
               tables'[x][a] = tables'[y][b]
        PROVE  FALSE
    <3>1. PICK j \in Copied(src) : y = CloneOf(src, j)
      BY <1>16, <2>3
    <3>2. tables'[y][b] \in Free
      BY <1>5, <1>17, <2>3, <3>1
    <3>3. tables'[x][a] \in Used
      BY <1>6, <2>3 DEF Used
    <3> QED BY <1>10, <2>3, <3>2, <3>3
  <2> QED BY <2>1, <2>2, <2>3
<1>19. FramesBounded'
  <2>1. ASSUME NEW t \in Tables, NEW e \in Entries PROVE tables'[t][e] <= nframes'
    <3>1. tables[t][e] <= nframes /\ nframes' = nframes
      BY <1>3 DEF IInv, FramesBounded
    <3>2. CASE t \in 1 .. ntables \/ t > ntables'
      BY <1>6, <3>1, <3>2
    <3>3. CASE ~(t \in 1 .. ntables) /\ ~(t > ntables')
      <4>1. t \in 1 .. ntables'
        BY <1>11, <3>3, Sizes DEF Tables
      <4>2. PICK i \in Copied(src) : t = CloneOf(src, i)
        BY <1>16, <3>3, <4>1
      <4>3. tables'[t][e] = 0 \/ tables'[t][e] \in Free
        BY <1>5, <1>17, <4>2
      <4> QED BY <1>2, <1>10, <3>1, <4>3
    <3> QED BY <3>2, <3>3
  <2>2. ASSUME NEW t \in Tables, t > ntables', NEW e \in Entries PROVE tables'[t][e] = 0
    <3>1. t > ntables
      BY <1>2, <1>11, <2>2, Sizes
    <3> QED BY <1>6, <2>2, <3>1 DEF IInv, FramesBounded
  <2> QED BY <2>1, <2>2 DEF FramesBounded, Tables, Entries
<1>20. Mapped'
  <2>1. ASSUME NEW p \in 1 .. nprocs', NEW page \in KernelPages \cup (StackPages \ to_map')
        PROVE  FrameOf(p, page)' # 0
    <3>1. page \in Pages /\ page \in KernelPages \cup (StackPages \ to_map)
      BY <1>3, Sizes
    <3>2. CASE p # child
      BY <1>7, <1>12, <3>1, <3>2 DEF IInv, Mapped
    <3>3. CASE p = child
      <4>1. FrameOf(current_proc, page) # 0
        BY <1>2, <3>1 DEF IInv, Mapped
      <4>2. FrameOf(child, page)' # 0
        BY <1>5, <1>7, <1>10, <3>1, <4>1
      <4> QED BY <3>3, <4>2
    <3> QED BY <3>2, <3>3
  <2> QED BY <1>3, <2>1 DEF Mapped
<1>21. TypeOK'
  <2>1. pds' \in [Procs -> [Indices -> 0 .. ntables']]
    <3>1. pds \in [Procs -> [Indices -> 0 .. ntables]]
      BY <1>2 DEF TypeOK
    <3>2. \A n \in 0 .. ntables : n \in 0 .. ntables'
      BY <1>2, <1>11
    <3>3. clone_page_directory(src) \in [Indices -> 0 .. ntables']
      <4>1. \A i \in Copied(src) : CloneOf(src, i) \in 0 .. ntables'
        BY <1>2, <1>3, <1>4, <1>11
      <4> QED BY <1>9, <3>2, <4>1 DEF clone_page_directory
    <3> QED BY <1>3, <3>1, <3>2, <3>3
  <2>2. memory' \in [Frames -> Values]
    <3>1. memory \in [Frames -> Values]
      BY <1>2 DEF TypeOK
    <3>2. ASSUME NEW f \in Frames PROVE CopiedMemory(src)[f] \in Values
      <4> DEFINE page == CHOOSE page \in ToCopy(src) : NewFrame(src, page) = f
      <4>1. CASE \E pg \in ToCopy(src) : NewFrame(src, pg) = f
        <5>1. page \in ToCopy(src)
          BY <4>1
        <5> HIDE DEF page
        <5>2. page \in Pages /\ TableOf(page) \in Copied(src)
              /\ tables[src[TableOf(page)]][EntryOf(page)] # 0
          BY <5>1 DEF ToCopy
        <5>3. src[TableOf(page)] \in Tables /\ EntryOf(page) \in Entries
          <6>1. src[TableOf(page)] \in 0 .. ntables /\ src[TableOf(page)] # 0
            BY <1>4, <1>9, <5>2
          <6>2. src[TableOf(page)] \in Tables
            BY <1>2, <6>1, Types
          <6> QED BY <5>2, <6>2, Divided
        <5>4. tables[src[TableOf(page)]][EntryOf(page)] \in Frames
          BY <1>2, <5>2, <5>3, Types
        <5>5. CopiedMemory(src)[f] = memory[tables[src[TableOf(page)]][EntryOf(page)]]
          BY <4>1 DEF CopiedMemory, page
        <5> QED BY <3>1, <5>4, <5>5
      <4>2. CASE ~ \E pg \in ToCopy(src) : NewFrame(src, pg) = f
        BY <3>1, <4>2 DEF CopiedMemory
      <4> QED BY <4>1, <4>2
    <3> QED BY <1>3, <3>2 DEF CopiedMemory
  <2>3. nframes' \in 0 .. FRAMES /\ nprocs' \in Procs /\ current_proc' \in 1 .. nprocs'
    BY <1>1, <1>2, <1>3 DEF TypeOK
  <2>4. to_map' \subseteq StackPages /\ panic' \in BOOLEAN
    BY <1>2, <1>3 DEF TypeOK
  <2> QED BY <1>6, <1>11, <2>1, <2>2, <2>3, <2>4
          DEF TypeOK, Procs, Indices, Tables, Entries, Frames
<1> QED BY <1>14, <1>15, <1>18, <1>19, <1>20, <1>21 DEF IInv

(***************************************************************************)
(* The other steps.                                                        *)
(***************************************************************************)

\* fork succeeds, or finds too few frames and panics.
LEMMA ForkOutcome ==
    ASSUME fork
    PROVE  \/ Forked
           \/ /\ panic' = TRUE
              /\ UNCHANGED <<nframes, pds, tables, ntables, memory, nprocs, current_proc, to_map>>
  BY DEF fork, Forked

\* A step that leaves the tables alone keeps the invariant.
LEMMA SameTables ==
    ASSUME IInv, UNCHANGED <<nframes, pds, tables, ntables, nprocs, to_map>>,
           memory' \in [Frames -> Values], current_proc' \in 1 .. nprocs, panic' \in BOOLEAN
    PROVE  IInv' /\ \A p, page : FrameOf(p, page)' = FrameOf(p, page)
<1>1. \A p, page : FrameOf(p, page)' = FrameOf(p, page)
  BY DEF FrameOf, TableOf, EntryOf
<1>2. TypeOK'
  BY DEF IInv, TypeOK, Procs, Indices, Tables, Entries, Frames
<1>3. KernelLinked' /\ TablesPrivate'
  <2>1. KernelTables' = KernelTables /\ KernelIndices' = KernelIndices /\ Indices' = Indices
        /\ \A i : kernel_pd[i]' = kernel_pd[i]
    BY DEF KernelTables, KernelIndices, Indices, kernel_pd
  <2>2. KernelLinked'
    BY <2>1 DEF IInv, KernelLinked
  <2>3. TablesPrivate'
    BY <2>1 DEF IInv, TablesPrivate
  <2> QED BY <2>2, <2>3
<1>4. FramesUnique' /\ FramesBounded'
  BY DEF IInv, FramesUnique, FramesBounded, Tables, Entries
<1>5. Mapped'
  BY <1>1 DEF IInv, Mapped
<1> QED BY <1>1, <1>2, <1>3, <1>4, <1>5 DEF IInv

\* A write goes to a frame there is.
LEMMA Written ==
    ASSUME IInv, NEW page \in KernelPages \cup StackPages, NEW v \in Values, write(page, v)
    PROVE  /\ FrameOf(current_proc, page) \in Frames
           /\ memory' \in [Frames -> Values]
           /\ \A f \in Frames : memory'[f] =
                 IF f = FrameOf(current_proc, page) THEN v ELSE memory[f]
<1>1. page \in Pages /\ current_proc \in 1 .. nprocs /\ memory \in [Frames -> Values]
  BY Sizes DEF IInv, TypeOK
<1>2. FrameOf(current_proc, page) \in Frames
  BY <1>1, FrameType DEF write
<1> QED BY <1>1, <1>2 DEF write

\* Every step keeps the invariant.
LEMMA NextInv == IInv /\ [Next]_vars => IInv'
<1> SUFFICES ASSUME IInv, [Next]_vars PROVE IInv'
  OBVIOUS
<1>0. memory \in [Frames -> Values] /\ current_proc \in 1 .. nprocs /\ panic \in BOOLEAN
  BY DEF IInv, TypeOK
<1>1. CASE move_stack
  BY <1>1, MoveStackInv
<1>2. CASE fork
  <2>1. CASE Forked
    BY <2>1, ForkedInv
  <2>2. CASE /\ panic' = TRUE
             /\ UNCHANGED <<nframes, pds, tables, ntables, memory, nprocs, current_proc, to_map>>
    BY <1>0, <2>2, SameTables
  <2> QED BY <1>2, <2>1, <2>2, ForkOutcome
<1>3. ASSUME NEW p \in Procs, switch_proc(p) PROVE IInv'
  BY <1>0, <1>3, SameTables DEF switch_proc
<1>4. ASSUME NEW page \in KernelPages \cup StackPages, NEW v \in Values, write(page, v)
      PROVE  IInv'
  BY <1>0, <1>4, Written, SameTables DEF write
<1>5. CASE UNCHANGED vars
  BY <1>0, <1>5, SameTables DEF vars
<1> QED BY <1>1, <1>2, <1>3, <1>4, <1>5 DEF Next

\* The invariant says that the kernel's memory is shared and the rest not.
LEMMA InvShares == IInv => KernelSharedRestPrivate
<1> SUFFICES ASSUME IInv PROVE KernelSharedRestPrivate
  OBVIOUS
<1>1. ASSUME NEW p \in 1 .. nprocs, NEW page \in KernelPages
      PROVE  FrameOf(p, page) = FrameOf(1, page)
  <2>1. TableOf(page) \in KernelIndices /\ 1 \in 1 .. nprocs
    BY Types DEF KernelIndices, IInv
  <2>2. pds[p][TableOf(page)] = pds[1][TableOf(page)]
    BY <2>1 DEF IInv, KernelLinked
  <2> QED BY <2>2 DEF FrameOf
<1> QED BY <1>1 DEF KernelSharedRestPrivate, IInv, FramesUnique

(***************************************************************************)
(* The theorems.                                                           *)
(***************************************************************************)

\* The inductive invariant holds in every state.
THEOREM AlwaysSeparate == Spec => []IInv
  BY InitInv, NextInv, PTL DEF Spec

\* The types hold for every layout and every number of processes: move_stack
\* and fork never write past the tables, and a table holds frames that exist.
THEOREM AddressTypeCorrect == Spec => []TypeOK
<1>1. IInv => TypeOK
  BY DEF IInv
<1> QED BY <1>1, AlwaysSeparate, PTL

\* clone_page_directory links the kernel's tables and copies all others, so
\* that every process sees the kernel's memory and no frame is mapped twice.
THEOREM KernelIsSharedRestPrivate == Spec => []KernelSharedRestPrivate
  BY InvShares, AlwaysSeparate, PTL

(***************************************************************************)
(* fork implements private memory.                                         *)
(***************************************************************************)

\* The pages of the kernel and the stacks: frames there are, a kernel page
\* has the same one in every process, any other frame one page of one
\* process.
Separated ==
    /\ \A p \in 1 .. nprocs, a \in KernelPages :
          /\ a \in Pages /\ FrameOf(p, a) = FrameOf(1, a) /\ FrameOf(p, a) \in Frames
          /\ \A b \in KernelPages : FrameOf(p, a) = FrameOf(1, b) => a = b
          /\ \A q \in 1 .. nprocs, b \in StackPages : FrameOf(p, a) # FrameOf(q, b)
    /\ \A p \in 1 .. nprocs, a \in StackPages \ to_map :
          /\ a \in Pages /\ FrameOf(p, a) \in Frames
          /\ \A q \in 1 .. nprocs, b \in StackPages :
                FrameOf(p, a) = FrameOf(q, b) => p = q /\ a = b

\* The invariant separates them.
LEMMA Apart == IInv => Separated
<1> SUFFICES ASSUME IInv PROVE Separated
  OBVIOUS
<1>1. /\ \A a \in KernelPages : a \in Pages /\ TableOf(a) \in KernelIndices
      /\ \A a \in StackPages : a \in Pages /\ TableOf(a) \notin KernelIndices
  BY Sizes, AddressSpaceConstants DEF KernelIndices
<1>2. 1 \in 1 .. nprocs
  BY Types DEF IInv
<1>3. \A p \in 1 .. nprocs : \A a \in KernelPages \cup (StackPages \ to_map) :
         FrameOf(p, a) # 0 /\ FrameOf(p, a) \in Frames
  <2>1. \A p \in 1 .. nprocs : \A a \in KernelPages \cup (StackPages \ to_map) : FrameOf(p, a) # 0
    BY DEF IInv, Mapped
  <2> QED BY <1>1, <2>1, FrameType
<1>4. \A p, q \in 1 .. nprocs, a, b \in Pages :
         FrameOf(p, a) # 0 /\ FrameOf(p, a) = FrameOf(q, b) =>
            a = b /\ (p = q \/ TableOf(a) \in KernelIndices)
  BY OwnFrames
<1>5. \A p \in 1 .. nprocs, a \in KernelPages : FrameOf(p, a) = FrameOf(1, a)
  BY InvShares DEF KernelSharedRestPrivate
<1>6. ASSUME NEW p \in 1 .. nprocs, NEW a \in KernelPages
      PROVE  /\ \A b \in KernelPages : FrameOf(p, a) = FrameOf(1, b) => a = b
             /\ \A q \in 1 .. nprocs, b \in StackPages : FrameOf(p, a) # FrameOf(q, b)
  BY <1>1, <1>2, <1>3, <1>4
<1>7. ASSUME NEW p \in 1 .. nprocs, NEW a \in StackPages \ to_map
      PROVE  \A q \in 1 .. nprocs, b \in StackPages :
                FrameOf(p, a) = FrameOf(q, b) => p = q /\ a = b
  BY <1>1, <1>3, <1>4
<1> QED BY <1>1, <1>3, <1>5, <1>6, <1>7 DEF Separated

\* move_stack is a stutter until the last page, which makes the stack of the
\* first process.
LEMMA StackRefines ==
    ASSUME IInv, move_stack
    PROVE  /\ Shared' = Shared
           /\ \/ Own' = Own
              \/ /\ Own = <<>>
                 /\ \E contents \in [StackPages -> Values] : Own' = [q \in {1} |-> contents]
<1>1. IInv' /\ \A page \in KernelPages : FrameOf(1, page)' = FrameOf(1, page)
  BY MoveStackInv
<1>1a. Separated'
  BY <1>1, Apart, PTL
<1>2. /\ to_map # {} /\ nprocs = 1 /\ nprocs' = 1
      /\ memory' = memory \/ \E contents \in [StackPages -> Values] : memory' = Filled(contents)
  BY StackPage
<1>3. /\ \A a \in KernelPages : FrameOf(1, a) \in Frames
      /\ \A a \in KernelPages, b \in StackPages : FrameOf(1, a)' # FrameOf(1, b)'
  <2>1. \A a \in KernelPages : FrameOf(1, a) \in Frames
    BY <1>2, Apart DEF Separated
  <2>2. \A p \in 1 .. nprocs', a \in KernelPages :
           \A q \in 1 .. nprocs', b \in StackPages : FrameOf(p, a)' # FrameOf(q, b)'
    BY <1>1a DEF Separated
  <2> QED BY <1>2, <2>1, <2>2
<1>4. \A a \in KernelPages : memory'[FrameOf(1, a)'] = memory[FrameOf(1, a)]
  <2>1. CASE memory' = memory
    BY <1>1, <2>1
  <2>2. ASSUME NEW contents \in [StackPages -> Values], memory' = Filled(contents),
               NEW a \in KernelPages
        PROVE  memory'[FrameOf(1, a)'] = memory[FrameOf(1, a)]
    <3>1. FrameOf(1, a)' = FrameOf(1, a) /\ FrameOf(1, a) \in Frames
      BY <1>1, <1>3
    <3>2. ~ \E b \in StackPages : FrameOf(1, b)' = FrameOf(1, a)
      BY <1>3, <3>1
    <3> QED BY <2>2, <3>1, <3>2 DEF Filled
  <2> QED BY <1>2, <2>1, <2>2
<1>5. Shared' = Shared
  BY <1>4 DEF Shared
<1>6. Own = <<>>
  BY <1>2 DEF Own
<1>7. CASE to_map' # {}
  BY <1>2, <1>5, <1>6, <1>7 DEF Own
<1>8. CASE to_map' = {}
  <2> DEFINE contents == [page \in StackPages |-> memory'[FrameOf(1, page)']]
  <2>1. contents \in [StackPages -> Values]
    <3>1. \A p \in 1 .. nprocs', a \in StackPages \ to_map' : FrameOf(p, a)' \in Frames
      BY <1>1a DEF Separated, Frames
    <3>2. \A a \in StackPages : FrameOf(1, a)' \in Frames
      BY <1>2, <1>8, <3>1 DEF Frames
    <3>3. memory' \in [Frames -> Values]
      BY <1>1 DEF IInv, TypeOK, Frames
    <3> QED BY <3>2, <3>3
  <2>2. 1 .. nprocs' = {1}
    BY <1>2
  <2>3. Own' = [q \in {1} |-> contents]
    BY <1>8, <2>2 DEF Own
  <2> QED BY <1>5, <1>6, <2>1, <2>3
<1> QED BY <1>7, <1>8

\* A successful fork gives the child a copy of the parent's stack, and writes
\* to nobody's memory.
LEMMA ForkRefines ==
    ASSUME IInv, Forked
    PROVE  /\ Shared' = Shared
           /\ current_proc \in 1 .. nprocs /\ current_proc \in Procs /\ nprocs + 1 \in Procs
           /\ DOMAIN Own = 1 .. nprocs
           /\ Own' = [q \in DOMAIN Own \cup {nprocs + 1} |->
                        IF q = nprocs + 1 THEN Own[current_proc] ELSE Own[q]]
<1> DEFINE src == pds[current_proc]
<1>1. PICK child \in Procs : child = nprocs + 1
  BY DEF Forked
<1>2. /\ current_proc \in 1 .. nprocs /\ current_proc \in Procs /\ nprocs \in Nat
      /\ nprocs >= 1 /\ to_map = {} /\ to_map' = {} /\ nprocs' = child
      /\ memory' = CopiedMemory(src) /\ Cardinality(Free) >= Cardinality(ToCopy(src))
  BY <1>1, Types DEF IInv, TypeOK, Forked
<1>3. /\ \A p \in 1 .. nprocs, page \in Pages : FrameOf(p, page)' = FrameOf(p, page)
      /\ \A page \in Pages :
            IF TableOf(page) \in KernelIndices
            THEN FrameOf(child, page)' = FrameOf(current_proc, page)
            ELSE FrameOf(current_proc, page) # 0 =>
                   /\ page \in ToCopy(src)
                   /\ FrameOf(child, page)' = NewFrame(src, page)
  BY <1>1, ForkedFrames
<1>4. \A a \in ToCopy(src) :
         /\ NewFrame(src, a) \in Free /\ NewFrame(src, a) \in Frames
         /\ \A b \in ToCopy(src) : NewFrame(src, a) = NewFrame(src, b) => a = b
  <2>1. \A g \in Free : g \in Frames
    BY Types, Sizes DEF IInv, Free, Frames
  <2> QED BY <1>2, <2>1, CopiedPages
<1>5. Separated
  BY Apart
<1>6. \A a \in KernelPages : a \in Pages /\ FrameOf(1, a) \in Frames
  BY <1>2, <1>5 DEF Separated
<1>7. \A p \in 1 .. nprocs, a \in StackPages :
         a \in Pages /\ FrameOf(p, a) \in Frames /\ FrameOf(p, a) # 0
  BY <1>2, <1>5, Sizes DEF Separated, Frames
<1>8. ASSUME NEW p \in 1 .. nprocs, NEW page \in Pages, FrameOf(p, page) \in Frames
      PROVE  memory'[FrameOf(p, page)'] = memory[FrameOf(p, page)]
  <2>1. FrameOf(p, page) \notin Free
    BY MappedIsUsed
  <2>2. ~ \E a \in ToCopy(src) : NewFrame(src, a) = FrameOf(p, page)
    BY <1>4, <2>1
  <2>3. CopiedMemory(src)[FrameOf(p, page)] = memory[FrameOf(p, page)]
    BY <1>8, <2>2 DEF CopiedMemory
  <2> QED BY <1>2, <1>3, <2>3
<1>9. ASSUME NEW page \in StackPages
      PROVE  memory'[FrameOf(child, page)'] = memory[FrameOf(current_proc, page)]
  <2>1. page \in Pages /\ TableOf(page) \notin KernelIndices /\ FrameOf(current_proc, page) # 0
    BY <1>2, <1>7, AddressSpaceConstants
  <2>2. page \in ToCopy(src) /\ FrameOf(child, page)' = NewFrame(src, page)
    BY <1>3, <2>1
  <2>3. (CHOOSE a \in ToCopy(src) : NewFrame(src, a) = NewFrame(src, page)) = page
    BY <1>4, <2>2
  <2>4. CopiedMemory(src)[NewFrame(src, page)] = memory[tables[src[TableOf(page)]][EntryOf(page)]]
    BY <1>4, <2>2, <2>3 DEF CopiedMemory
  <2>5. FrameOf(current_proc, page) = tables[src[TableOf(page)]][EntryOf(page)]
    BY <2>1 DEF FrameOf
  <2> QED BY <1>2, <2>2, <2>4, <2>5
<1> HIDE DEF src
<1>10. Shared' = Shared
  <2>1. 1 \in 1 .. nprocs
    BY <1>2
  <2>2. \A a \in KernelPages : memory'[FrameOf(1, a)'] = memory[FrameOf(1, a)]
    BY <1>6, <1>8, <2>1
  <2> QED BY <2>2 DEF Shared
<1>11. Own = [p \in 1 .. nprocs |-> [page \in StackPages |-> memory[FrameOf(p, page)]]]
  BY <1>2 DEF Own
<1>12. Own' = [p \in 1 .. child |-> [page \in StackPages |-> memory'[FrameOf(p, page)']]]
  BY <1>2 DEF Own
<1>13. \A p \in 1 .. nprocs :
          [page \in StackPages |-> memory'[FrameOf(p, page)']] = Own[p]
  <2> SUFFICES ASSUME NEW p \in 1 .. nprocs
               PROVE  [page \in StackPages |-> memory'[FrameOf(p, page)']] = Own[p]
    OBVIOUS
  <2>1. \A page \in StackPages : memory'[FrameOf(p, page)'] = memory[FrameOf(p, page)]
    BY <1>7, <1>8
  <2> QED BY <1>11, <2>1
<1>14. [page \in StackPages |-> memory'[FrameOf(child, page)']] = Own[current_proc]
  BY <1>2, <1>9, <1>11
<1>15. 1 .. child = (1 .. nprocs) \cup {child} /\ child \notin 1 .. nprocs
  BY <1>1, <1>2
<1>16. Own' = [q \in (1 .. nprocs) \cup {child} |->
                 IF q = child THEN Own[current_proc] ELSE Own[q]]
  BY <1>12, <1>13, <1>14, <1>15
<1>17. DOMAIN Own = 1 .. nprocs
  BY <1>11
<1> QED BY <1>1, <1>2, <1>10, <1>16, <1>17

\* A write to a kernel page is seen by all.
LEMMA WriteKernelRefines ==
    ASSUME IInv, NEW page \in KernelPages, NEW v \in Values, write(page, v)
    PROVE  Shared' = [Shared EXCEPT ![page] = v] /\ Own' = Own
<1>1. current_proc \in 1 .. nprocs /\ 1 \in 1 .. nprocs
  BY Types DEF IInv, TypeOK
<1>2. /\ FrameOf(current_proc, page) \in Frames
      /\ \A f \in Frames : memory'[f] = IF f = FrameOf(current_proc, page) THEN v ELSE memory[f]
  BY Written
<1>3. /\ UNCHANGED <<nprocs, to_map>>
      /\ \A p, pg : FrameOf(p, pg)' = FrameOf(p, pg)
  BY DEF write, FrameOf, TableOf, EntryOf
<1>4. Separated
  BY Apart
<1>5. \A a \in KernelPages : memory'[FrameOf(1, a)'] =
         IF a = page THEN v ELSE memory[FrameOf(1, a)]
  BY <1>1, <1>2, <1>3, <1>4 DEF Separated
<1>6. Shared' = [Shared EXCEPT ![page] = v]
  BY <1>5 DEF Shared
<1>7. CASE to_map # {}
  BY <1>3, <1>6, <1>7 DEF Own
<1>8. CASE to_map = {}
  <2>1. \A p \in 1 .. nprocs, a \in StackPages : memory'[FrameOf(p, a)'] = memory[FrameOf(p, a)]
    BY <1>1, <1>2, <1>3, <1>4, <1>8 DEF Separated
  <2>2. Own' = [p \in 1 .. nprocs |-> [a \in StackPages |-> memory'[FrameOf(p, a)']]]
    BY <1>3, <1>8 DEF Own
  <2>3. Own = [p \in 1 .. nprocs |-> [a \in StackPages |-> memory[FrameOf(p, a)]]]
    BY <1>8 DEF Own
  <2> QED BY <1>6, <2>1, <2>2, <2>3
<1> QED BY <1>7, <1>8

\* A write to the stack is seen by the process that runs, and by no other.
LEMMA WriteStackRefines ==
    ASSUME IInv, NEW page \in StackPages, NEW v \in Values, to_map = {}, write(page, v)
    PROVE  /\ Shared' = Shared
           /\ current_proc \in Procs /\ current_proc \in DOMAIN Own
           /\ Own' = [Own EXCEPT ![current_proc][page] = v]
<1>1. current_proc \in 1 .. nprocs /\ 1 \in 1 .. nprocs /\ current_proc \in Procs
  BY Types DEF IInv, TypeOK
<1>2. /\ FrameOf(current_proc, page) \in Frames
      /\ \A f \in Frames : memory'[f] = IF f = FrameOf(current_proc, page) THEN v ELSE memory[f]
  BY Written
<1>3. /\ UNCHANGED <<nprocs, to_map>>
      /\ \A p, pg : FrameOf(p, pg)' = FrameOf(p, pg)
  BY DEF write, FrameOf, TableOf, EntryOf
<1>4. Separated
  BY Apart
<1>5. \A a \in KernelPages : memory'[FrameOf(1, a)'] = memory[FrameOf(1, a)]
  BY <1>1, <1>2, <1>3, <1>4 DEF Separated
<1>6. Shared' = Shared
  BY <1>5 DEF Shared
<1>7. \A p \in 1 .. nprocs, a \in StackPages : memory'[FrameOf(p, a)'] =
         IF p = current_proc /\ a = page THEN v ELSE memory[FrameOf(p, a)]
  BY <1>1, <1>2, <1>3, <1>4 DEF Separated
<1>8. Own' = [p \in 1 .. nprocs |-> [a \in StackPages |-> memory'[FrameOf(p, a)']]]
  BY <1>3 DEF Own
<1>9. Own = [p \in 1 .. nprocs |-> [a \in StackPages |-> memory[FrameOf(p, a)]]]
  BY DEF Own
<1>10. Own' = [Own EXCEPT ![current_proc][page] = v]
  <2> DEFINE E == [Own EXCEPT ![current_proc][page] = v]
             mine == [Own[current_proc] EXCEPT ![page] = v]
  <2>1. E = [p \in 1 .. nprocs |-> IF p = current_proc THEN mine ELSE Own[p]]
    BY <1>1, <1>9
  <2>2. mine = [a \in StackPages |-> IF a = page THEN v ELSE memory[FrameOf(current_proc, a)]]
    BY <1>1, <1>9
  <2> HIDE DEF E, mine
  <2>3. ASSUME NEW p \in 1 .. nprocs PROVE [a \in StackPages |-> memory'[FrameOf(p, a)']] = E[p]
    <3>1. CASE p = current_proc
      BY <1>7, <2>1, <2>2, <3>1
    <3>2. CASE p # current_proc
      BY <1>7, <1>9, <2>1, <3>2
    <3> QED BY <3>1, <3>2
  <2>4. Own' = E
    BY <1>8, <2>1, <2>3
  <2> QED BY <2>4 DEF E
<1> QED BY <1>1, <1>6, <1>9, <1>10

\* Every step is one of PrivateMemory or leaves it alone.
LEMMA NextRefines ==
    ASSUME IInv, [Next]_vars
    PROVE  [Memory!Next]_<<Shared, Own>>
<1>0. 1 \in Procs
  BY Sizes DEF Procs
<1>1. CASE move_stack
  <2>1. CASE Own' = Own
    BY <1>1, <2>1, StackRefines
  <2>2. ASSUME Own = <<>>, NEW contents \in [StackPages -> Values], Own' = [q \in {1} |-> contents]
        PROVE  Memory!Next
    <3>1. Memory!Grow(1, contents)
      BY <1>1, <2>2, StackRefines DEF Memory!Grow
    <3> QED BY <1>0, <3>1 DEF Memory!Next
  <2> QED BY <1>1, <2>1, <2>2, StackRefines
<1>2. CASE fork
  <2>1. CASE Forked
    <3>1. nprocs + 1 \in Procs \ DOMAIN Own
      BY <2>1, ForkRefines, Types DEF IInv
    <3>2. Memory!Fork(current_proc, nprocs + 1)
      BY <2>1, <3>1, ForkRefines DEF Memory!Fork
    <3> QED BY <2>1, <3>2, ForkRefines DEF Memory!Next
  <2>2. CASE UNCHANGED <<nframes, pds, tables, ntables, memory, nprocs, current_proc, to_map>>
    BY <2>2 DEF Shared, Own, FrameOf, TableOf, EntryOf
  <2> QED BY <1>2, <2>1, <2>2, ForkOutcome
<1>3. ASSUME NEW p \in Procs, switch_proc(p) PROVE UNCHANGED <<Shared, Own>>
  BY <1>3 DEF switch_proc, Shared, Own, FrameOf, TableOf, EntryOf
<1>4. ASSUME NEW page \in KernelPages, NEW v \in Values, write(page, v) PROVE Memory!Next
  <2>1. Memory!WriteShared(page, v)
    BY <1>4, WriteKernelRefines DEF Memory!WriteShared
  <2> QED BY <2>1 DEF Memory!Next
<1>5. ASSUME NEW page \in StackPages, NEW v \in Values, to_map = {}, write(page, v)
      PROVE  Memory!Next
  <2>1. Memory!WriteOwn(current_proc, page, v) /\ current_proc \in Procs
    BY <1>5, WriteStackRefines DEF Memory!WriteOwn
  <2> QED BY <2>1 DEF Memory!Next
<1>6. CASE UNCHANGED vars
  BY <1>6 DEF vars, Shared, Own, FrameOf, TableOf, EntryOf
<1> QED BY <1>1, <1>2, <1>3, <1>4, <1>5, <1>6 DEF Next

\* The first state is one of PrivateMemory.
LEMMA InitRefines == Init => Memory!Init
<1> SUFFICES ASSUME Init PROVE Memory!Init
  OBVIOUS
<1>1. IInv
  BY InitInv
<1>2. Separated /\ 1 \in 1 .. nprocs /\ memory \in [Frames -> Values]
  BY <1>1, Apart, Types DEF IInv, TypeOK
<1>3. Shared \in [KernelPages -> Values]
  BY <1>2 DEF Separated, Shared
<1>4. Own = <<>>
  BY Sizes DEF Init, Own
<1> QED BY <1>3, <1>4 DEF Memory!Init

\* Processes have private memory: the model of clone_page_directory,
\* clone_page_table and copy_physical_page implements a kernel memory that
\* all share and a stack for each that starts as a copy of its parent's and
\* that no other process writes, whatever the layout and the interleaving.
THEOREM ProcessesHavePrivateMemory == Spec => ImplementsPrivateMemory
<1>1. IInv /\ [Next]_vars => [Memory!Next]_<<Shared, Own>>
  BY NextRefines
<1> QED BY <1>1, InitRefines, AlwaysSeparate, PTL
        DEF Spec, ImplementsPrivateMemory, Memory!Spec
=============================================================================
