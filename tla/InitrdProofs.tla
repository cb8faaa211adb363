---------------------------- MODULE InitrdProofs ----------------------------
(***************************************************************************)
(* Proofs about module Initrd, for every set of paths and contents and     *)
(* every size of the table: what the builder writes the kernel finds,      *)
(* reads and lists.                                                        *)
(***************************************************************************)
EXTENDS Initrd, SequenceTheorems, NaturalsInduction, WellFoundedInduction, TLAPS

(***************************************************************************)
(* The inductive invariant.                                                *)
(***************************************************************************)
Types == {"file", "dir", "other"}

Names == {garbage} \cup {Stored[p] : p \in Paths}

Visited == [path : Paths \cup {garbage}, level : Nat, type : Types, content : Seq(Bytes)]

Headers == [magic : {INITRD_MAGIC}, name : Names, offset : Nat, length : Nat,
            parent_number : Nat, number : Nat, type : Types]

Before == {"walk", "walked", "undefined"}
After == {"mounted", "listed", "booted", "null pointer"}

\* The walk and the table have the same entries, in the same order.
Tables ==
    /\ stage \in Before \cup {"built"} \cup After
    /\ walked \in Seq(Visited) /\ files \in Seq(Headers) /\ data \in Seq(Bytes)
    /\ Len(files) <= INITRD_MAX_FILES
    /\ Len(files) <= Len(walked)
    /\ stage = "walk" => Len(walked) = Len(files)
    /\ stage # "walk" => files # <<>>
    /\ \A i \in 1 .. Len(files) :
          /\ files[i].name = StoredName(walked[i])
          /\ files[i].length = Len(walked[i].content)
          /\ files[i].number = i - 1
          /\ files[i].type = walked[i].type
          /\ walked[i].type # "file" => walked[i].content = <<>>

\* The data of a file is where its header says.
DataPlaced ==
    \A i \in 1 .. Len(files) : files[i].type = "file" =>
       /\ files[i].offset >= DATA
       /\ files[i].offset - DATA + files[i].length <= Len(data)
       /\ \A x \in 1 .. files[i].length :
             data[files[i].offset - DATA + x] = walked[i].content[x]

\* What there is of data fits in memory.
DataFits(longest) == Len(data) <= Len(files) * longest

\* The sizes.
LEMMA Sizes ==
    /\ INITRD_MAX_FILES \in Nat \ {0} /\ ADDR \in Nat /\ DATA \in Nat /\ WORD \in Nat
    /\ LIST_BUFFER \in Nat /\ BOOT_BUFFER \in Nat /\ 2 * (LIST_BUFFER + 2) < WORD
    /\ Contents \subseteq Seq(Bytes) /\ garbage \in Bytes /\ garbage \in Names
    /\ \A p \in Paths : Depth[p] \in Nat \ {0} /\ Stored[p] \in Names
  BY InitrdConstants DEF DATA, Bytes, Names

\* A longest content.
LongestIs(longest) ==
    /\ longest \in Nat
    /\ \A c \in Contents : Len(c) <= longest
    /\ ADDR + DATA + INITRD_MAX_FILES * longest < WORD

\* An entry the walk may visit: a root, or one with a path of its own; only
\* files have contents.
LEMMA EntryType ==
    ASSUME Tables, NEW e \in NextEntries
    PROVE  /\ e \in Visited /\ StoredName(e) \in Names
           /\ e.type = "file" => e.content \in Contents
           /\ e.type # "file" => e.content = <<>>
           /\ walked = <<>> => e.type = "dir"
<1>1. CASE walked = <<>>
  <2>1. e = Root
    BY <1>1 DEF NextEntries
  <2> QED BY <1>1, <2>1, Sizes DEF Root, Visited, Types, StoredName
<1>2. CASE walked # <<>>
  <2>1. PICK p \in Paths :
           \/ \E c \in Contents : e = [path |-> p, level |-> Depth[p], type |-> "file", content |-> c]
           \/ \E t \in {"dir", "other"} :
                 e = [path |-> p, level |-> Depth[p], type |-> t, content |-> <<>>]
    BY <1>2 DEF NextEntries
  <2>2. Depth[p] \in Nat \ {0} /\ Stored[p] \in Names
    BY Sizes
  <2>3. CASE \E c \in Contents : e = [path |-> p, level |-> Depth[p], type |-> "file", content |-> c]
    BY <1>2, <2>2, <2>3, Sizes DEF Visited, Types, StoredName
  <2>4. CASE \E t \in {"dir", "other"} :
                 e = [path |-> p, level |-> Depth[p], type |-> t, content |-> <<>>]
    BY <1>2, <2>2, <2>4, Sizes DEF Visited, Types, StoredName
  <2> QED BY <2>1, <2>3, <2>4
<1> QED BY <1>1, <1>2

\* A function on 1 .. n is a sequence of length n.
LEMMA FunctionSeq ==
    ASSUME NEW S, NEW n \in Nat, NEW f \in [1 .. n -> S]
    PROVE  f \in Seq(S) /\ Len(f) = n
<1>1. f \in Seq(S)
  BY SeqDef
<1>2. Len(f) \in Nat /\ 1 .. Len(f) = 1 .. n
  BY <1>1, LenProperties
<1> QED BY <1>1, <1>2

\* A set of places that is not empty has a last one.
LEMMA LastPlace ==
    ASSUME NEW n \in Nat, NEW S \in SUBSET (1 .. n), S # {}
    PROVE  Max(S) \in S /\ \A y \in S : Max(S) >= y
<1> DEFINE T == {n - s : s \in S}
<1>1. T \subseteq Nat /\ T # {}
  <2>1. \A s \in S : n - s \in Nat
    OBVIOUS
  <2>2. PICK s : s \in S
    OBVIOUS
  <2>3. n - s \in T
    BY <2>2
  <2> QED BY <2>1, <2>3
<1>2. IsWellFoundedOn(OpToRel(<, Nat), Nat)
  BY NatLessThanWellFounded
<1>3. PICK x \in T : \A y \in T : ~(<<y, x>> \in OpToRel(<, Nat))
  BY <1>1, <1>2, WFMin
<1>4. PICK s \in S : x = n - s
  BY <1>3
<1>5. \A y \in S : s >= y
  <2> SUFFICES ASSUME NEW y \in S, ~(s >= y) PROVE FALSE
    OBVIOUS
  <2>1. n - y \in T /\ n - y \in Nat /\ x \in Nat /\ n - y < x
    BY <1>1, <1>4
  <2>2. <<n - y, x>> \in OpToRel(<, Nat)
    BY <2>1 DEF OpToRel
  <2> QED BY <1>3, <2>1, <2>2
<1> QED BY <1>5 DEF Max

(***************************************************************************)
(* The builder.                                                            *)
(***************************************************************************)

\* What one visit adds: an entry g of the walk, a header h, and the bytes.
Entered(g, h, bytes) ==
    /\ walked' = Append(walked, g) /\ files' = Append(files, h) /\ data' = data \o bytes
    /\ g \in Visited /\ h \in Headers /\ bytes \in Seq(Bytes)
    /\ h.name = StoredName(g) /\ h.length = Len(g.content)
    /\ h.number = Len(files) /\ h.type = g.type
    /\ h.type = "file" => h.offset = DATA + Len(data) /\ g.content = bytes
    /\ h.type # "file" => bytes = <<>> /\ g.content = <<>>

\* The number of the parent is a number.
LEMMA ParentNumber ==
    ASSUME Tables, NEW level
    PROVE  parent_number(level) \in Nat
<1> DEFINE dirs == {i \in DOMAIN files : files[i].type = "dir"}
<1>1. DOMAIN files = 1 .. Len(files) /\ Len(files) \in Nat
  BY LenProperties DEF Tables
<1>2. parent_number(level) = IF level > 1 /\ dirs # {} THEN files[Max(dirs)].number ELSE 0
  BY DEF parent_number
<1>3. ASSUME dirs # {} PROVE files[Max(dirs)].number \in Nat
  <2>1. Max(dirs) \in 1 .. Len(files)
    BY <1>1, <1>3, LastPlace
  <2> HIDE DEF dirs
  <2> QED BY <2>1 DEF Tables
<1> HIDE DEF dirs
<1> QED BY <1>2, <1>3

\* process_entry adds one entry.
LEMMA EntryEntered ==
    ASSUME Tables, NEW e \in NextEntries, process_entry(e),
           NEW longest, LongestIs(longest)
    PROVE  \E g, h, bytes : Entered(g, h, bytes) /\ Len(bytes) <= longest
<1>1. /\ e \in Visited /\ StoredName(e) \in Names
      /\ e.type = "file" => e.content \in Contents
      /\ e.type # "file" => e.content = <<>>
  BY EntryType
<1>2. parent_number(e.level) \in Nat /\ Len(files) \in Nat /\ Len(data) \in Nat
      /\ Len(e.content) \in Nat /\ e.content \in Seq(Bytes)
  BY <1>1, ParentNumber, LenProperties DEF Tables, Visited
<1>3. CASE e.type = "file"
  <2>1. PICK bytes \in {e.content, [i \in DOMAIN e.content |-> garbage]} :
              /\ data' = data \o bytes
              /\ walked' = Append(walked, [e EXCEPT !.content = bytes])
    BY <1>3 DEF process_entry, Visit
  <2>2. bytes \in Seq(Bytes) /\ Len(bytes) = Len(e.content)
    <3>1. CASE bytes = e.content
      BY <1>2, <3>1
    <3>2. CASE bytes = [i \in DOMAIN e.content |-> garbage]
      <4>1. DOMAIN e.content = 1 .. Len(e.content)
        BY <1>2, LenProperties
      <4>2. bytes \in [1 .. Len(e.content) -> Bytes]
        BY <3>2, <4>1, Sizes
      <4> QED BY <1>2, <4>2, FunctionSeq
    <3> QED BY <2>1, <3>1, <3>2
  <2> DEFINE g == [e EXCEPT !.content = bytes]
             h == Header(e, current_offset)
  <2>3. /\ g \in Visited /\ g.content = bytes /\ g.type = e.type /\ g.level = e.level
        /\ g.path = e.path
    BY <1>1, <2>2 DEF Visited
  <2>4. StoredName(g) = StoredName(e)
    BY <2>3 DEF StoredName
  <2>5. /\ h.name = StoredName(e) /\ h.length = Len(e.content) /\ h.number = Len(files)
        /\ h.type = e.type
        /\ h.offset = DATA + Len(data)
    BY DEF Header, current_offset, file_count
  <2>6. h \in Headers
    <3>1. current_offset \in Nat /\ e.type \in Types
      BY <1>1, <1>2, Sizes DEF current_offset, Visited
    <3> QED BY <1>1, <1>2, <3>1 DEF Header, Headers, file_count
  <2>7. files' = Append(files, h)
    BY <1>3 DEF process_entry
  <2>8. Len(bytes) <= longest
    BY <1>1, <1>3, <2>2 DEF LongestIs
  <2> HIDE DEF g, h
  <2>9. walked' = Append(walked, g)
    BY <2>1 DEF g
  <2>10. Entered(g, h, bytes)
    BY <1>3, <2>1, <2>2, <2>3, <2>4, <2>5, <2>6, <2>7, <2>9 DEF Entered
  <2> QED BY <2>8, <2>10
<1>4. CASE e.type # "file"
  <2> DEFINE h == Header(e, 0)
  <2>1. /\ h.name = StoredName(e) /\ h.length = Len(e.content) /\ h.number = Len(files)
        /\ h.type = e.type
    BY DEF Header, file_count
  <2>2. h \in Headers
    <3>1. e.type \in Types
      BY <1>1 DEF Visited
    <3> QED BY <1>1, <1>2, <3>1 DEF Header, Headers, file_count
  <2>3. files' = Append(files, h) /\ walked' = Append(walked, e) /\ data' = data
    BY <1>4 DEF process_entry, Visit
  <2> HIDE DEF h
  <2>4. <<>> \in Seq(Bytes) /\ data \o <<>> = data /\ Len(<<>>) = 0
    BY EmptySeq, ConcatEmptySeq DEF Tables
  <2>5. Entered(e, h, <<>>)
    BY <1>1, <1>4, <2>1, <2>2, <2>3, <2>4 DEF Entered
  <2> QED BY <2>4, <2>5 DEF LongestIs
<1> QED BY <1>3, <1>4

\* Appending.
LEMMA Appended ==
    ASSUME NEW S, NEW s \in Seq(S), NEW x \in S
    PROVE  /\ Append(s, x) \in Seq(S) /\ Len(Append(s, x)) = Len(s) + 1 /\ Len(s) \in Nat
           /\ Append(s, x) # <<>>
           /\ \A i \in 1 .. Len(s) : Append(s, x)[i] = s[i]
           /\ Append(s, x)[Len(s) + 1] = x
  OBVIOUS

\* One more entry keeps the table and the data right.
LEMMA EnteredKeeps ==
    ASSUME Tables, DataPlaced, stage = "walk", stage' = "walk",
           Len(files) < INITRD_MAX_FILES, NEW longest, LongestIs(longest), DataFits(longest),
           NEW g, NEW h, NEW bytes, Entered(g, h, bytes), Len(bytes) <= longest
    PROVE  (Tables /\ DataPlaced /\ DataFits(longest))'
<1> DEFINE n == Len(files)
<1>1. /\ files' \in Seq(Headers) /\ Len(files') = n + 1 /\ n \in Nat /\ files' # <<>>
      /\ \A i \in 1 .. n : files'[i] = files[i]
      /\ files'[n + 1] = h
  BY Appended DEF Tables, Entered
<1>2. /\ walked' \in Seq(Visited) /\ Len(walked') = n + 1
      /\ \A i \in 1 .. n : walked'[i] = walked[i]
      /\ walked'[n + 1] = g
  BY Appended DEF Tables, Entered
<1>3. /\ data' \in Seq(Bytes) /\ Len(data') = Len(data) + Len(bytes)
      /\ Len(data) \in Nat /\ Len(bytes) \in Nat
      /\ \A x \in 1 .. Len(data) : data'[x] = data[x]
      /\ \A x \in 1 .. Len(bytes) : data'[Len(data) + x] = bytes[x]
  <2>1. data \in Seq(Bytes) /\ bytes \in Seq(Bytes) /\ data' = data \o bytes
    BY DEF Tables, Entered
  <2>2. Len(data) \in Nat /\ Len(bytes) \in Nat
    BY <2>1, LenProperties
  <2> QED BY <2>1, <2>2, ConcatProperties
<1> HIDE DEF n
<1>4. \A i \in 1 .. (n + 1) : i \in 1 .. n \/ i = n + 1
  BY <1>1
<1>5. n <= INITRD_MAX_FILES - 1 /\ n = Len(files)
  BY <1>1, Sizes DEF n
<1>6. /\ h.name = StoredName(g) /\ h.length = Len(g.content) /\ h.number = n /\ h.type = g.type
      /\ h.type # "file" => g.content = <<>>
      /\ h.type = "file" => h.offset = DATA + Len(data) /\ g.content = bytes
  BY DEF Entered, n
<1>7. Tables'
  <2>1. ASSUME NEW i \in 1 .. (n + 1)
        PROVE  /\ files'[i].name = StoredName(walked'[i])
               /\ files'[i].length = Len(walked'[i].content)
               /\ files'[i].number = i - 1
               /\ files'[i].type = walked'[i].type
               /\ walked'[i].type # "file" => walked'[i].content = <<>>
    <3>1. CASE i \in 1 .. n
      BY <1>1, <1>2, <1>5, <3>1 DEF Tables
    <3>2. CASE i = n + 1
      BY <1>1, <1>2, <1>6, <3>2
    <3> QED BY <1>4, <3>1, <3>2
  <2>2. Len(files') <= INITRD_MAX_FILES /\ Len(files') <= Len(walked') /\ Len(walked') = Len(files')
    BY <1>1, <1>2, <1>5, Sizes
  <2>3. stage' \in Before \cup {"built"} \cup After
    BY DEF Before
  <2>4. \A i : StoredName(walked[i])' = StoredName(walked'[i])
    BY DEF StoredName
  <2> QED BY <1>1, <1>2, <1>3, <2>1, <2>2, <2>3, <2>4
          DEF Tables, Before, After, Visited, Headers, Types, Names, Bytes
<1>8. DataPlaced'
  <2> SUFFICES ASSUME NEW i \in 1 .. (n + 1), files'[i].type = "file"
               PROVE  /\ files'[i].offset >= DATA
                      /\ files'[i].offset - DATA + files'[i].length <= Len(data')
                      /\ \A x \in 1 .. files'[i].length :
                            data'[files'[i].offset - DATA + x] = walked'[i].content[x]
    BY <1>1 DEF DataPlaced, DATA
  <2>1. CASE i \in 1 .. n
    <3>1. /\ files[i].offset >= DATA
          /\ files[i].offset - DATA + files[i].length <= Len(data)
          /\ \A x \in 1 .. files[i].length :
                data[files[i].offset - DATA + x] = walked[i].content[x]
      BY <1>1, <1>5, <2>1 DEF DataPlaced
    <3>2. files[i].offset \in Nat /\ files[i].length \in Nat
      <4>1. files[i] \in Headers
        BY <1>5, <2>1, ElementOfSeq DEF Tables
      <4> QED BY <4>1 DEF Headers
    <3>3. \A x \in 1 .. files[i].length : files[i].offset - DATA + x \in 1 .. Len(data)
      <4> SUFFICES ASSUME NEW off \in Nat, NEW len \in Nat, off >= DATA,
                          off - DATA + len <= Len(data), NEW x \in 1 .. len
                   PROVE  off - DATA + x \in 1 .. Len(data)
        BY <3>1, <3>2
      <4> QED BY <1>3, Sizes
    <3>4. files'[i] = files[i] /\ walked'[i] = walked[i]
      BY <1>1, <1>2, <2>1
    <3>5. files[i].offset - DATA + files[i].length <= Len(data')
      BY <1>3, <3>1, <3>2, Sizes
    <3> QED BY <1>3, <3>1, <3>3, <3>4, <3>5
  <2>2. CASE i = n + 1
    <3>1. /\ files'[i].offset = DATA + Len(data) /\ walked'[i].content = bytes
          /\ files'[i].length = Len(bytes)
      BY <1>1, <1>2, <1>6, <2>2
    <3>2. /\ files'[i].offset >= DATA
          /\ files'[i].offset - DATA + files'[i].length <= Len(data')
      BY <1>3, <3>1, Sizes
    <3>3. \A x \in 1 .. files'[i].length :
             data'[files'[i].offset - DATA + x] = walked'[i].content[x]
      <4>1. files'[i].offset - DATA = Len(data)
        BY <1>3, <3>1, Sizes
      <4> QED BY <1>3, <3>1, <4>1
    <3> QED BY <3>2, <3>3
  <2> QED BY <1>4, <2>1, <2>2
<1>9. DataFits(longest)'
  <2>1. longest \in Nat /\ Len(data) <= n * longest
    BY <1>5 DEF LongestIs, DataFits
  <2>2. (n + 1) * longest = n * longest + longest
    BY <1>1, <2>1
  <2>3. n * longest \in Nat
    BY <1>1, <2>1
  <2> QED BY <1>1, <1>3, <2>1, <2>2, <2>3 DEF DataFits
<1> QED BY <1>7, <1>8, <1>9

(***************************************************************************)
(* The image and the mounted file system.                                  *)
(***************************************************************************)

\* From write_image on, the image is the table and the data.
ImageWritten ==
    stage \in {"built"} \cup After =>
       image = [nfiles |-> Len(files), table |-> files, data |-> data]

NodeSet == [name : Names, length : Nat, inode : Nat, parent_inode : Nat, flags : Nat]

\* From initrd_initialize on, there is a node and a header for each entry.
NodesMade ==
    stage \in After =>
       /\ root_nodes \in Seq(NodeSet) /\ Len(root_nodes) = Len(files)
       /\ \A i \in 1 .. Len(files) :
             /\ root_nodes[i].name = files[i].name
             /\ root_nodes[i].inode = i - 1
             /\ files[i].type = "file" => root_nodes[i].flags = FS_FILE
             /\ file_headers[i].length = files[i].length
             /\ file_headers[i].offset = (files[i].offset + ADDR) % WORD

Longest == CHOOSE longest \in 0 .. WORD : LongestIs(longest)

\* What the image and the nodes are made from.
Built ==
    /\ Tables /\ DataPlaced /\ DataFits(Longest)
    /\ ImageWritten /\ NodesMade

LEMMA LongestIsLongest == LongestIs(Longest)
<1>1. \E longest \in 0 .. WORD : LongestIs(longest)
  <2>1. PICK longest \in 0 .. WORD :
          /\ \A c \in Contents : Len(c) <= longest
          /\ ADDR + DATA + INITRD_MAX_FILES * longest < WORD
    BY InitrdConstants
  <2>2. longest \in Nat
    BY Sizes
  <2> QED BY <2>1, <2>2 DEF LongestIs
<1> QED BY <1>1 DEF Longest

\* Entry i, as long as the file system is mounted.
LEMMA EntryFacts ==
    ASSUME Built, stage \in After, NEW i \in 1 .. Len(files)
    PROVE  /\ walked[i].content \in Seq(Bytes)
           /\ Len(walked[i].content) \in Nat
           /\ root_nodes[i].name = StoredName(walked[i])
           /\ root_nodes[i].inode = i - 1
           /\ walked[i].type = "file" => root_nodes[i].flags = FS_FILE
           /\ walked[i].type # "file" => walked[i].content = <<>>
           /\ file_headers[i].length = Len(walked[i].content)
<1>1. Len(files) \in Nat /\ Len(walked) \in Nat
  BY LenProperties DEF Built, Tables
<1>2. i \in 1 .. Len(walked)
  BY <1>1 DEF Built, Tables
<1>3. walked[i] \in Visited
  BY <1>2, ElementOfSeq DEF Built, Tables
<1>4. walked[i].content \in Seq(Bytes)
  BY <1>3 DEF Visited
<1>5. Len(walked[i].content) \in Nat
  BY <1>4, LenProperties
<1> QED BY <1>4, <1>5 DEF Built, Tables, NodesMade

\* The byte x of a file is in memory where its header says: no offset wraps.
LEMMA ByteInMemory ==
    ASSUME Built, stage \in After, NEW i \in 1 .. Len(files),
           NEW x \in 1 .. Len(walked[i].content)
    PROVE  /\ file_headers[i].offset \in Nat
           /\ Memory(file_headers[i].offset + x - 1) = walked[i].content[x]
<1>1. walked[i].type = "file"
  <2> SUFFICES ASSUME walked[i].type # "file" PROVE FALSE
    OBVIOUS
  <2>1. walked[i].content = <<>>
    BY EntryFacts
  <2> QED BY <2>1
<1> DEFINE off == files[i].offset
           len == Len(walked[i].content)
<1>2. files[i].type = "file" /\ files[i].length = len
  BY <1>1 DEF Built, Tables
<1>3. off \in Nat
  <2>1. files[i] \in Headers
    BY ElementOfSeq DEF Built, Tables
  <2> QED BY <2>1 DEF Headers
<1>4. /\ off >= DATA /\ off - DATA + len <= Len(data)
      /\ data[off - DATA + x] = walked[i].content[x]
  BY <1>2 DEF Built, DataPlaced
<1>5. len \in Nat /\ Len(data) \in Nat /\ x \in Nat /\ x >= 1 /\ x <= len
      /\ data \in Seq(Bytes) /\ DOMAIN data = 1 .. Len(data)
  BY EntryFacts, LenProperties DEF Built, Tables
<1>6. file_headers[i].offset = (off + ADDR) % WORD
  BY DEF Built, NodesMade
<1>7. image.data = data
  BY DEF Built, ImageWritten
<1>8. Len(data) <= INITRD_MAX_FILES * Longest /\ INITRD_MAX_FILES * Longest \in Nat
      /\ ADDR + DATA + INITRD_MAX_FILES * Longest < WORD
  <2>1. Longest \in Nat /\ ADDR + DATA + INITRD_MAX_FILES * Longest < WORD
    BY LongestIsLongest DEF LongestIs
  <2>2. Len(data) <= Len(files) * Longest /\ Len(files) <= INITRD_MAX_FILES /\ Len(files) \in Nat
    BY LenProperties DEF Built, Tables, DataFits
  <2> HIDE DEF off, len
  <2>3. Len(files) * Longest <= INITRD_MAX_FILES * Longest
    BY <2>1, <2>2, Sizes
  <2>4. Len(files) * Longest \in Nat /\ INITRD_MAX_FILES * Longest \in Nat
    BY <2>1, <2>2, Sizes
  <2> QED BY <1>5, <2>1, <2>2, <2>3, <2>4
<1> HIDE DEF off, len
<1>9. off + ADDR < WORD /\ off + ADDR \in Nat
  <2> DEFINE total == INITRD_MAX_FILES * Longest
  <2>1. total \in Nat /\ Len(data) <= total /\ ADDR + DATA + total < WORD
    BY <1>8
  <2> HIDE DEF total
  <2> QED BY <1>3, <1>4, <1>5, <2>1, Sizes
<1>10. file_headers[i].offset = off + ADDR
  BY <1>6, <1>9, Sizes
<1>11. (file_headers[i].offset + x - 1) - ADDR - DATA + 1 = off - DATA + x
       /\ off - DATA + x \in 1 .. Len(data)
  BY <1>3, <1>4, <1>5, <1>10, Sizes
<1> QED BY <1>4, <1>5, <1>7, <1>9, <1>10, <1>11 DEF Memory

\* initrd_read gives the part of the file that was asked for.
LEMMA ReadsPart ==
    ASSUME Built, stage \in After, NEW i \in 1 .. Len(files),
           NEW offset \in Smalls, NEW size \in Smalls
    PROVE  /\ read_fs(i - 1, offset, size) = Part(walked[i].content, offset, size)
           /\ read_fs(i - 1, offset, size) \in Seq(Bytes)
<1> DEFINE c == walked[i].content
           len == Len(c)
           n == IF offset + size > len THEN len - offset ELSE size
           read == [j \in 1 .. n |-> Memory(file_headers[i].offset + offset + j - 1)]
<1>1. c \in Seq(Bytes) /\ len \in Nat /\ file_headers[i].length = len
      /\ root_nodes[i].inode = i - 1
  BY EntryFacts
<1>2. offset \in Nat /\ size \in Nat /\ offset + size < WORD /\ Len(files) \in Nat
  BY Sizes, LenProperties DEF Smalls, Built, Tables
<1>3. (offset + size) % WORD = offset + size
  BY <1>2, Sizes
<1>4. read_fs(i - 1, offset, size) = initrd_read(i - 1, offset, size)
  BY <1>2 DEF read_fs, InTable
<1>5. initrd_read(i - 1, offset, size) = IF offset > len THEN <<>> ELSE read
  <2>1. root_nodes[(i - 1) + 1].inode + 1 = i
    <3>1. (i - 1) + 1 = i
      BY <1>2
    <3> QED BY <1>1, <1>2, <3>1
  <2>2. n = IF (offset + size) % WORD > file_headers[i].length
            THEN file_headers[i].length - offset ELSE size
    BY <1>1, <1>3
  <2> HIDE DEF n, c, len
  <2> QED BY <1>1, <2>1, <2>2 DEF initrd_read
<1>6. Part(c, offset, size) = SubSeq(c, offset + 1, IF offset + size > len THEN len ELSE offset + size)
  BY DEF Part
<1>7. CASE offset > len
  <2> HIDE DEF c, len
  <2>0. offset + size > len
    BY <1>1, <1>2, <1>7
  <2>1. Part(c, offset, size) = SubSeq(c, offset + 1, len)
    BY <1>6, <2>0
  <2>2. SubSeq(c, offset + 1, len) = <<>>
    BY <1>1, <1>2, <1>7, SubSeqEmpty
  <2> HIDE DEF read
  <2>3. read_fs(i - 1, offset, size) = <<>>
    BY <1>4, <1>5, <1>7
  <2> QED BY <2>1, <2>2, <2>3, EmptySeq DEF c
<1>8. CASE ~(offset > len)
  <2>1. n \in Nat /\ offset + n <= len /\ Part(c, offset, size) = SubSeq(c, offset + 1, offset + n)
    BY <1>1, <1>2, <1>6, <1>8
  <2> HIDE DEF n
  <2>2. \A j \in 1 .. n : offset + j \in 1 .. len
    BY <1>1, <1>2, <2>1
  <2>3. \A j \in 1 .. n : Memory(file_headers[i].offset + offset + j - 1) = c[offset + j]
    <3> SUFFICES ASSUME NEW j \in 1 .. n
                 PROVE  Memory(file_headers[i].offset + offset + j - 1) = c[offset + j]
      OBVIOUS
    <3>1. /\ file_headers[i].offset \in Nat
          /\ Memory(file_headers[i].offset + (offset + j) - 1) = c[offset + j]
      BY <2>2, ByteInMemory
    <3>2. file_headers[i].offset + (offset + j) - 1 = file_headers[i].offset + offset + j - 1
      BY <1>2, <2>1, <3>1
    <3> QED BY <3>1, <3>2
  <2> HIDE DEF c, len
  <2>4. \A j \in 1 .. n : c[offset + j] \in Bytes
    BY <1>1, <2>2, ElementOfSeq DEF len
  <2>5. read \in [1 .. n -> Bytes]
    BY <2>3, <2>4
  <2>6. read \in Seq(Bytes) /\ Len(read) = n
    BY <2>1, <2>5, FunctionSeq
  <2> DEFINE part == SubSeq(c, offset + 1, offset + n)
  <2>7. /\ part \in Seq(Bytes) /\ Len(part) = n
        /\ \A j \in 1 .. n : part[j] = c[offset + j]
    <3>1. offset + 1 \in Int /\ offset + n \in Int
      BY <1>2, <2>1
    <3>2. \A j \in (offset + 1) .. (offset + n) : c[j] \in Bytes
      <4> SUFFICES ASSUME NEW j \in (offset + 1) .. (offset + n) PROVE c[j] \in Bytes
        OBVIOUS
      <4>1. j \in 1 .. len
        BY <1>1, <1>2, <2>1
      <4> QED BY <1>1, <4>1, ElementOfSeq DEF len
    <3>3. /\ part \in Seq(Bytes)
          /\ Len(part) = IF offset + 1 <= offset + n THEN (offset + n) - (offset + 1) + 1 ELSE 0
          /\ \A j \in 1 .. (offset + n) - (offset + 1) + 1 : part[j] = c[(offset + 1) + j - 1]
      BY <3>1, <3>2, SubSeqProperties
    <3>4. (offset + n) - (offset + 1) + 1 = n /\ \A j \in 1 .. n : (offset + 1) + j - 1 = offset + j
      BY <1>2, <2>1
    <3> HIDE DEF part
    <3>5. Len(part) = n
      BY <1>2, <2>1, <3>3
    <3> QED BY <3>3, <3>4, <3>5
  <2>8. \A j \in 1 .. Len(read) : read[j] = part[j]
    BY <2>3, <2>6, <2>7
  <2> HIDE DEF read, part
  <2>9. read = part
    BY <2>6, <2>7, <2>8, SeqEqual
  <2>10. read_fs(i - 1, offset, size) = read
    BY <1>4, <1>5, <1>8
  <2> QED BY <2>1, <2>6, <2>9, <2>10 DEF part, c
<1> QED BY <1>7, <1>8

\* Searching: the first place with a name.
LEMMA FirstPlace ==
    ASSUME NEW S \in SUBSET Nat, S # {}
    PROVE  Min(S) \in S /\ \A y \in S : Min(S) <= y
<1>1. IsWellFoundedOn(OpToRel(<, Nat), Nat)
  BY NatLessThanWellFounded
<1>2. PICK x \in S : \A y \in S : ~(<<y, x>> \in OpToRel(<, Nat))
  BY <1>1, WFMin
<1>3. \A y \in S : x <= y
  <2> SUFFICES ASSUME NEW y \in S, ~(x <= y) PROVE FALSE
    OBVIOUS
  <2>1. <<y, x>> \in Nat \X Nat /\ y < x
    OBVIOUS
  <2> QED BY <1>2, <2>1 DEF OpToRel
<1> QED BY <1>3 DEF Min

\* initrd_finddir at the root: a name nobody shares finds its entry, any
\* name finds an entry of the table, the node "dev" or nothing.
LEMMA Found ==
    ASSUME Built, stage \in After, NEW i \in 1 .. Len(files)
    PROVE  LET node == finddir_fs(initrd_root, StoredName(walked[i]))
           IN  /\ \/ node = initrd_dev
                  \/ node + 1 \in 1 .. Len(files) /\ node \in Nat
               /\ (/\ StoredName(walked[i]) # dev
                   /\ \A j \in 1 .. (i - 1) : ~SharesName(i, j))
                  => node = i - 1
<1> DEFINE name == StoredName(walked[i])
           named == {j \in DOMAIN root_nodes : root_nodes[j].name = name}
<1>1. DOMAIN root_nodes = 1 .. Len(files) /\ Len(files) \in Nat
  BY LenProperties DEF Built, NodesMade, Tables
<1>2. \A j \in 1 .. Len(files) : root_nodes[j].name = StoredName(walked[j])
  BY EntryFacts
<1>3. i \in named /\ named \in SUBSET Nat
  BY <1>1, <1>2
<1>4. finddir_fs(initrd_root, name) =
         IF name = dev THEN initrd_dev ELSE IF named = {} THEN NULL ELSE Min(named) - 1
  BY DEF finddir_fs, FlagsOf, InTable, initrd_root, FS_DIRECTORY, initrd_finddir
<1> HIDE DEF name
<1>5. Min(named) \in named /\ \A y \in named : Min(named) <= y
  BY <1>3, FirstPlace
<1>6. Min(named) \in 1 .. Len(files) /\ root_nodes[Min(named)].name = name
  BY <1>1, <1>5
<1>7. \/ finddir_fs(initrd_root, name) = initrd_dev
      \/ /\ finddir_fs(initrd_root, name) + 1 \in 1 .. Len(files)
         /\ finddir_fs(initrd_root, name) \in Nat
  <2>1. CASE name = dev
    BY <1>4, <2>1
  <2>2. CASE name # dev
    <3>1. finddir_fs(initrd_root, name) = Min(named) - 1
      BY <1>3, <1>4, <2>2
    <3> HIDE DEF named
    <3> QED BY <1>1, <1>6, <3>1
  <2> QED BY <2>1, <2>2
<1>8. ASSUME name # dev, \A j \in 1 .. (i - 1) : ~SharesName(i, j)
      PROVE  finddir_fs(initrd_root, name) = i - 1
  <2>1. ~(Min(named) < i)
    <3> SUFFICES ASSUME Min(named) < i PROVE FALSE
      OBVIOUS
    <3>1. Min(named) \in 1 .. (i - 1)
      BY <1>1, <1>6
    <3>2. StoredName(walked[Min(named)]) = name
      BY <1>2, <1>6
    <3> QED BY <1>8, <3>1, <3>2 DEF SharesName, name
  <2>2. Min(named) <= i
    BY <1>3, <1>5
  <2>3. Min(named) = i
    <3> HIDE DEF named
    <3> QED BY <1>1, <1>6, <2>1, <2>2
  <2>4. named # {}
    BY <1>3
  <2> HIDE DEF named
  <2>5. finddir_fs(initrd_root, name) = Min(named) - 1
    BY <1>4, <1>8, <2>4
  <2> QED BY <2>3, <2>5
<1> QED BY <1>7, <1>8 DEF name

(***************************************************************************)
(* The listing.                                                            *)
(***************************************************************************)

\* The concatenation of the first k of a sequence of sequences.
Flat(s) == LET flatten[k \in 1 .. Len(s)] ==
                 IF k = 1 THEN s[k] ELSE flatten[k - 1] \o s[k]
           IN  flatten

\* The recursion is well founded.
LEMMA FlatIs ==
    ASSUME NEW s, Len(s) \in Nat \ {0}
    PROVE  /\ \A k \in 1 .. Len(s) :
                 Flat(s)[k] = IF k = 1 THEN s[k] ELSE Flat(s)[k - 1] \o s[k]
           /\ FlattenSeq(s) = Flat(s)[Len(s)]
<1> DEFINE Round(f, n) == [k \in 1 .. n |-> IF k = 1 THEN s[k] ELSE f[k - 1] \o s[k]]
           Bad == {n \in Nat : ~ \E f : f = Round(f, n)}
<1>1. Bad = {}
  <2> SUFFICES ASSUME Bad # {} PROVE FALSE
    OBVIOUS
  <2>1. Bad \in SUBSET Nat
    OBVIOUS
  <2>2. Min(Bad) \in Bad /\ \A y \in Bad : Min(Bad) <= y
    BY <2>1, FirstPlace
  <2>3. PICK n \in Nat : n \in Bad /\ \A y \in Bad : n <= y
    BY <2>1, <2>2
  <2>4. n # 0
    <3> DEFINE empty == [k \in 1 .. 0 |-> 0]
    <3>1. empty = Round(empty, 0)
      <4>1. \A k \in 1 .. 0 : empty[k] = Round(empty, 0)[k]
        OBVIOUS
      <4> QED BY <4>1
    <3>2. 0 \notin Bad
      BY <3>1
    <3> QED BY <2>3, <3>2
  <2>5. n - 1 \in Nat /\ n - 1 \notin Bad
    <3>1. n - 1 \in Nat /\ ~(n <= n - 1)
      BY <2>4
    <3> QED BY <2>3, <3>1
  <2>6. PICK f : f = Round(f, n - 1)
    BY <2>5
  <2> DEFINE g == [k \in 1 .. n |-> IF k = n THEN (IF k = 1 THEN s[k] ELSE f[k - 1] \o s[k])
                                    ELSE f[k]]
  <2>7. \A k \in 1 .. (n - 1) : f[k] = IF k = 1 THEN s[k] ELSE f[k - 1] \o s[k]
    BY <2>6
  <2>8. \A k \in 1 .. n : g[k] = IF k = 1 THEN s[k] ELSE g[k - 1] \o s[k]
    <3> SUFFICES ASSUME NEW k \in 1 .. n
                 PROVE  g[k] = IF k = 1 THEN s[k] ELSE g[k - 1] \o s[k]
      OBVIOUS
    <3>1. k # 1 => k - 1 \in 1 .. n /\ k - 1 # n /\ g[k - 1] = f[k - 1]
      BY <2>3
    <3>2. CASE k = n
      BY <3>1, <3>2
    <3>3. CASE k # n
      <4>1. k \in 1 .. (n - 1)
        BY <2>3, <3>3
      <4> QED BY <2>7, <3>1, <3>3, <4>1
    <3> QED BY <3>2, <3>3
  <2>9. g = Round(g, n)
    <3>1. \A k \in 1 .. n : g[k] = Round(g, n)[k]
      BY <2>8
    <3> QED BY <3>1
  <2>10. n \notin Bad
    BY <2>9
  <2> QED BY <2>3, <2>10
<1>2. PICK f : f = Round(f, Len(s))
  BY <1>1
<1>3. Flat(s) = CHOOSE g : g = Round(g, Len(s))
  BY Zenon DEF Flat
<1>4. Flat(s) = Round(Flat(s), Len(s))
  BY <1>2, <1>3
<1>5. FlattenSeq(s) = Flat(s)[Len(s)]
  BY DEF FlattenSeq, Flat
<1> HIDE DEF Bad
<1> QED BY <1>4, <1>5

\* What the listing shows of every entry.
Pieces == [i \in 1 .. Len(files) |-> Part(walked[i].content, 0, LIST_BUFFER)]

\* No two entries share a name, and none is called "dev".
ToldApart ==
    /\ \A i, j \in 1 .. Len(files) : i # j => ~SharesName(i, j)
    /\ \A i \in 1 .. Len(files) : StoredName(walked[i]) # dev

\* The listing is at an entry, "dev" being the first, and has shown the
\* pieces before it.
Listing ==
    /\ index \in 0 .. (Len(files) + 1)
    /\ shown \in Seq(Bytes)
    /\ stage \notin After => index = 0 /\ shown = <<>>
    /\ stage = "listed" => index = Len(files) + 1
    /\ ToldApart => shown = IF index <= 1 THEN <<>> ELSE Flat(Pieces)[index - 1]

IInv == Built /\ Listing

\* As long as the table stays, so does what is known of it.
LEMMA TableStays ==
    ASSUME Tables, DataPlaced, DataFits(Longest),
           UNCHANGED <<walked, files, data>>,
           stage' \in Before \cup {"built"} \cup After,
           stage' = "walk" => stage = "walk",
           stage' # "walk" => files # <<>>
    PROVE  (Tables /\ DataPlaced /\ DataFits(Longest))'
<1>1. walked' = walked /\ files' = files /\ data' = data
  OBVIOUS
<1>2. Tables'
  BY <1>1 DEF Tables, Before, After, Visited, Headers, Types, Names, Bytes, StoredName
<1>3. DataPlaced'
  BY <1>1 DEF DataPlaced, DATA
<1>4. DataFits(Longest)'
  BY <1>1 DEF DataFits, Longest, LongestIs, DATA
<1> QED BY <1>2, <1>3, <1>4

\* So does what the kernel has mounted.
LEMMA MountStays ==
    ASSUME ImageWritten, NodesMade, UNCHANGED <<files, data, image, mounted>>,
           stage' \in {"built"} \cup After => stage \in {"built"} \cup After,
           stage' \in After => stage \in After
    PROVE  (ImageWritten /\ NodesMade)'
<1>1. files' = files /\ data' = data /\ image' = image /\ root_nodes' = root_nodes
      /\ file_headers' = file_headers
  BY DEF mounted
<1>2. ImageWritten'
  BY <1>1 DEF ImageWritten
<1>3. NodesMade'
  BY <1>1 DEF NodesMade, NodeSet, Names, FS_FILE
<1> QED BY <1>2, <1>3

\* Outside list_fs the listing stays; before the mount it is empty.
LEMMA ListingStays ==
    ASSUME Tables, Listing, UNCHANGED listing, UNCHANGED <<walked, files>>,
           stage' = "listed" => stage = "listed",
           stage' \notin After => stage \notin After
    PROVE  Listing'
<1>1. index' = index /\ shown' = shown /\ walked' = walked /\ files' = files
  BY DEF listing
<1>2. ToldApart' <=> ToldApart
  BY <1>1 DEF ToldApart, SharesName, StoredName
<1>3. Flat(Pieces)' = Flat(Pieces)
  BY <1>1 DEF Flat, Pieces, Part
<1> QED BY <1>1, <1>2, <1>3 DEF Listing, Bytes

\* As long as the walk goes on nothing has been listed.
LEMMA NothingListed ==
    ASSUME Listing, UNCHANGED listing, stage \notin After, stage' \notin After, Len(files') \in Nat
    PROVE  Listing'
<1>1. index' = 0 /\ shown' = <<>>
  BY DEF Listing, listing
<1>2. stage' # "listed"
  BY DEF After
<1>3. index' \in 0 .. (Len(files') + 1)
  BY <1>1
<1>4. shown' \in Seq(Bytes)
  BY <1>1, EmptySeq
<1> QED BY <1>1, <1>2, <1>3, <1>4 DEF Listing, Bytes

(***************************************************************************)
(* The steps of the builder.                                               *)
(***************************************************************************)
LEMMA ProcessEntryKeeps ==
    ASSUME IInv, NEW e \in NextEntries, process_entry(e)
    PROVE  IInv'
<1>1. Tables /\ DataPlaced /\ DataFits(Longest) /\ Listing
  BY DEF IInv, Built
<1>2. stage = "walk" /\ stage' = "walk" /\ Len(files) < INITRD_MAX_FILES /\ UNCHANGED listing
  BY DEF process_entry, file_count
<1>3. PICK g, h, bytes : Entered(g, h, bytes) /\ Len(bytes) <= Longest
  BY <1>1, LongestIsLongest, EntryEntered
<1>4. (Tables /\ DataPlaced /\ DataFits(Longest))'
  BY <1>1, <1>2, <1>3, LongestIsLongest, EnteredKeeps
<1>5. Len(files') \in Nat
  BY <1>4, LenProperties DEF Tables
<1>6. stage \notin After /\ stage' \notin After /\ stage' # "built"
  BY <1>2 DEF After
<1>7. Listing'
  BY <1>1, <1>2, <1>5, <1>6, NothingListed
<1>8. (ImageWritten /\ NodesMade)'
  BY <1>6 DEF ImageWritten, NodesMade, After
<1> QED BY <1>4, <1>7, <1>8 DEF IInv, Built

\* The end of the walk, for whatever reason: the first entry is there.
LEMMA WalkEndKeeps ==
    ASSUME IInv, stage = "walk", stage' \in {"walked", "undefined"}, files # <<>>,
           UNCHANGED <<files, data, listing>>,
           walked' = walked \/ \E e \in NextEntries : walked' = Append(walked, e)
    PROVE  IInv'
<1>1. Tables /\ DataPlaced /\ DataFits(Longest) /\ Listing
  BY DEF IInv, Built
<1>2. files' = files /\ data' = data /\ UNCHANGED listing
  OBVIOUS
<1>3. /\ walked' \in Seq(Visited) /\ Len(files) <= Len(walked')
      /\ \A i \in 1 .. Len(files) : walked'[i] = walked[i]
  <2>1. CASE walked' = walked
    BY <1>1, <2>1 DEF Tables
  <2>2. CASE \E e \in NextEntries : walked' = Append(walked, e)
    <3>1. PICK e \in NextEntries : walked' = Append(walked, e)
      BY <2>2
    <3>2. e \in Visited
      BY <1>1, EntryType
    <3>3. Len(files) = Len(walked) /\ walked \in Seq(Visited)
      BY <1>1 DEF Tables
    <3>4. Len(walked') = Len(walked) + 1 /\ Len(walked) \in Nat /\ walked' \in Seq(Visited)
          /\ \A i \in 1 .. Len(walked) : walked'[i] = walked[i]
      BY <3>1, <3>2, <3>3, Appended
    <3> QED BY <3>3, <3>4
  <2> QED BY <2>1, <2>2
<1>4. stage \notin After /\ stage' \notin After /\ stage' # "built" /\ stage' # "walk"
      /\ stage' \in Before
  BY DEF After, Before
<1>5. Tables'
  <2>1. \A i : StoredName(walked[i])' = StoredName(walked'[i])
    BY DEF StoredName
  <2>2. ASSUME NEW i \in 1 .. Len(files)
        PROVE  /\ files[i].name = StoredName(walked'[i])
               /\ files[i].length = Len(walked'[i].content)
               /\ files[i].number = i - 1
               /\ files[i].type = walked'[i].type
               /\ walked'[i].type # "file" => walked'[i].content = <<>>
    BY <1>1, <1>3 DEF Tables
  <2> QED BY <1>1, <1>2, <1>3, <1>4, <2>1, <2>2
          DEF Tables, Before, After, Visited, Headers, Types, Names, Bytes
<1>6. DataFits(Longest)'
  BY <1>1, <1>2 DEF DataFits, Longest, LongestIs, DATA
<1>7. DataPlaced'
  BY <1>1, <1>2, <1>3 DEF DataPlaced, DATA
<1>8. Listing'
  <2>1. Len(files') \in Nat
    BY <1>5, LenProperties DEF Tables
  <2> QED BY <1>1, <1>2, <1>4, <2>1, NothingListed
<1>9. (ImageWritten /\ NodesMade)'
  BY <1>4 DEF ImageWritten, NodesMade, After
<1> QED BY <1>5, <1>6, <1>7, <1>8, <1>9 DEF IInv, Built

LEMMA WriteImageKeeps ==
    ASSUME IInv, write_image
    PROVE  IInv'
<1>1. /\ Tables /\ DataPlaced /\ DataFits(Longest)
      /\ Listing
  BY DEF IInv, Built
<1>2. stage = "walked" /\ stage' = "built" /\ UNCHANGED <<walked, files, data>>
      /\ UNCHANGED listing /\ files # <<>>
  BY <1>1 DEF write_image, Tables
<1>3. (Tables /\ DataPlaced /\ DataFits(Longest))'
  BY <1>1, <1>2, TableStays
<1>4. ImageWritten'
  BY <1>2 DEF ImageWritten, write_image, file_count
<1>5. stage' \notin After /\ stage \notin After
  BY <1>2 DEF After
<1>6. Listing'
  BY <1>1, <1>2, <1>5, ListingStays
<1> QED BY <1>3, <1>4, <1>5, <1>6 DEF IInv, Built, NodesMade, After

\* A node is made of every entry.
LEMMA InitializeKeeps ==
    ASSUME IInv, NEW unset \in {0, FS_FILE, FS_DIRECTORY}, initrd_initialize(unset)
    PROVE  IInv'
<1>1. /\ Tables /\ DataPlaced /\ DataFits(Longest)
      /\ Listing /\ ImageWritten
  BY DEF IInv, Built
<1>2. stage = "built" /\ stage' = "mounted" /\ UNCHANGED <<walked, files, data>>
      /\ UNCHANGED listing /\ files # <<>> /\ image' = image
  BY <1>1 DEF initrd_initialize, Tables, builder
<1>3. (Tables /\ DataPlaced /\ DataFits(Longest))'
  BY <1>1, <1>2, TableStays DEF After
<1>4. image = [nfiles |-> Len(files), table |-> files, data |-> data]
  BY <1>1, <1>2 DEF ImageWritten
<1>5. stage \notin After /\ stage' \in After
  BY <1>2 DEF After
<1>6. ImageWritten'
  BY <1>2, <1>4 DEF ImageWritten
<1>7. Listing'
  BY <1>1, <1>2, <1>5, ListingStays
<1> DEFINE n == Len(files)
           headers == [i \in 1 .. n |-> Relocated(files[i])]
           nodes == [i \in 1 .. n |-> NodeOf(files[i], unset)]
<1>8. file_headers' = headers /\ root_nodes' = nodes
  <2>1. image.nfiles = n /\ image.table = files
    BY <1>4
  <2> QED BY <2>1 DEF initrd_initialize
<1>9. n \in Nat /\ \A i \in 1 .. n : files[i] \in Headers /\ files[i].number = i - 1
  BY <1>1, LenProperties, ElementOfSeq DEF Tables
<1>10. ASSUME NEW i \in 1 .. n
       PROVE  /\ headers[i].offset = (files[i].offset + ADDR) % WORD
              /\ headers[i].length = files[i].length
  BY <1>9 DEF Headers, Relocated
<1> HIDE DEF headers
<1>11. ASSUME NEW i \in 1 .. n
       PROVE  /\ nodes[i].name = files[i].name /\ nodes[i].inode = i - 1
              /\ files[i].type = "file" => nodes[i].flags = FS_FILE
              /\ nodes[i] \in NodeSet
  <2>1. Flags(files[i].type, unset) \in Nat
    <3>1. FS_FILE \in Nat /\ FS_DIRECTORY \in Nat /\ unset \in Nat
      BY DEF FS_FILE, FS_DIRECTORY
    <3>2. CASE files[i].type = "file"
      BY <3>1, <3>2 DEF Flags
    <3>3. CASE files[i].type = "dir"
      BY <3>1, <3>3 DEF Flags
    <3>4. CASE files[i].type \notin {"file", "dir"}
      BY <3>1, <3>4 DEF Flags
    <3> QED BY <3>2, <3>3, <3>4
  <2>2. files[i].type = "file" => Flags(files[i].type, unset) = FS_FILE
    BY DEF Flags
  <2>3. nodes[i] = [name |-> files[i].name, length |-> files[i].length, inode |-> i - 1,
                    parent_inode |-> files[i].parent_number,
                    flags |-> Flags(files[i].type, unset)]
    BY <1>9 DEF NodeOf, Headers
  <2> HIDE DEF nodes
  <2>4. i - 1 \in Nat
    BY <1>9
  <2> QED BY <1>9, <2>1, <2>2, <2>3, <2>4 DEF NodeSet, Headers
<1>12. nodes \in [1 .. n -> NodeSet]
  BY <1>11
<1> HIDE DEF nodes
<1>13. nodes \in Seq(NodeSet) /\ Len(nodes) = n
  BY <1>9, <1>12, FunctionSeq
<1>14. NodesMade'
  BY <1>2, <1>8, <1>10, <1>11, <1>13 DEF NodesMade, NodeSet, Names, FS_FILE
<1> QED BY <1>3, <1>6, <1>7, <1>14 DEF IInv, Built

(***************************************************************************)
(* The listing and the boot messages.                                      *)
(***************************************************************************)

\* initrd_readdir at the root: "dev", then the entries, then nothing.
LEMMA EntryListed ==
    ASSUME IInv, stage \in After
    PROVE  LET entry == readdir_fs(initrd_root, index)
           IN  /\ index = 0 => entry # NoEntry /\ entry.name = dev
               /\ index \in 1 .. Len(files) => /\ entry # NoEntry
                                               /\ entry.name = StoredName(walked[index])
               /\ index = Len(files) + 1 => entry = NoEntry
<1> DEFINE entry == readdir_fs(initrd_root, index)
<1>1. Len(root_nodes) = Len(files) /\ Len(files) \in Nat /\ index \in 0 .. (Len(files) + 1)
  BY LenProperties DEF IInv, Built, NodesMade, Tables, Listing
<1>2. entry = IF index = 0 THEN [name |-> dev, inode |-> 0]
              ELSE IF index - 1 >= Len(root_nodes) THEN NoEntry
              ELSE [name |-> root_nodes[(index - 1) + 1].name,
                    inode |-> root_nodes[(index - 1) + 1].inode]
  BY DEF readdir_fs, FlagsOf, InTable, initrd_root, FS_DIRECTORY, initrd_readdir
<1> HIDE DEF entry
<1>3. CASE index = 0
  <2>1. entry = [name |-> dev, inode |-> 0]
    BY <1>2, <1>3
  <2>2. entry.inode = 0 /\ NoEntry.inode = -3 /\ entry.name = dev
    BY <2>1 DEF NoEntry, NULL
  <2> QED BY <1>1, <1>3, <2>2 DEF entry
<1>4. CASE index \in 1 .. Len(files)
  <2>1. (index - 1) + 1 = index /\ ~(index - 1 >= Len(root_nodes)) /\ index # 0
    BY <1>1, <1>4
  <2>2. root_nodes[index].name = StoredName(walked[index]) /\ root_nodes[index].inode = index - 1
    BY <1>4, EntryFacts DEF IInv
  <2>3. entry = [name |-> root_nodes[index].name, inode |-> root_nodes[index].inode]
    BY <1>2, <2>1
  <2>4. entry.name = StoredName(walked[index]) /\ entry.inode = index - 1
    BY <2>2, <2>3
  <2>5. NoEntry.inode = -3 /\ index - 1 # -3
    BY <1>1, <1>4 DEF NoEntry, NULL
  <2>6. entry # NoEntry
    BY <2>4, <2>5
  <2> QED BY <1>1, <1>4, <2>1, <2>4, <2>6 DEF entry
<1>5. CASE index = Len(files) + 1
  <2>1. index # 0 /\ index - 1 >= Len(root_nodes) /\ index \notin 1 .. Len(files)
    BY <1>1, <1>5
  <2> QED BY <1>2, <2>1 DEF entry
<1> QED BY <1>1, <1>3, <1>4, <1>5

\* A round of list_fs shows the piece of the entry it is at.
LEMMA PieceShown ==
    ASSUME IInv, stage = "mounted", list_fs, index \in 1 .. Len(files)
    PROVE  /\ shown' \in Seq(Bytes)
           /\ ToldApart => shown' = shown \o Pieces[index]
           /\ index' = index + 1 /\ stage' = stage
<1> DEFINE entry == readdir_fs(initrd_root, index)
           node == finddir_fs(initrd_root, entry.name)
<1>1. stage \in After /\ Built /\ Listing /\ Len(files) \in Nat /\ shown \in Seq(Bytes)
  BY LenProperties DEF After, IInv, Built, Tables, Listing
<1>2. entry # NoEntry /\ entry.name = StoredName(walked[index])
  BY <1>1, EntryListed
<1>3. /\ node = initrd_dev \/ (node + 1 \in 1 .. Len(files) /\ node \in Nat)
      /\ ToldApart => node = index - 1
  <2>1. node = finddir_fs(initrd_root, StoredName(walked[index]))
    BY <1>2
  <2>2. /\ node = initrd_dev \/ (node + 1 \in 1 .. Len(files) /\ node \in Nat)
        /\ (/\ StoredName(walked[index]) # dev
            /\ \A j \in 1 .. (index - 1) : ~SharesName(index, j)) => node = index - 1
    BY <1>1, <2>1, Found
  <2>3. \A j \in 1 .. (index - 1) : j \in 1 .. Len(files) /\ j # index
    BY <1>1
  <2>4. ToldApart => /\ StoredName(walked[index]) # dev
                     /\ \A j \in 1 .. (index - 1) : ~SharesName(index, j)
    BY <2>3 DEF ToldApart
  <2> QED BY <2>2, <2>4
<1>4. /\ shown' = IF FlagsOf(node) = FS_DIRECTORY THEN shown
                  ELSE shown \o read_fs(node, 0, LIST_BUFFER)
      /\ index' = index + 1 /\ stage' = stage
  BY <1>2 DEF list_fs
<1> HIDE DEF node
<1>5. 0 \in Smalls /\ LIST_BUFFER \in Smalls
  BY Sizes DEF Smalls
<1>6. ASSUME node + 1 \in 1 .. Len(files), node \in Nat
      PROVE  /\ read_fs(node, 0, LIST_BUFFER) = Part(walked[node + 1].content, 0, LIST_BUFFER)
             /\ read_fs(node, 0, LIST_BUFFER) \in Seq(Bytes)
             /\ FlagsOf(node) = root_nodes[node + 1].flags
  <2>1. (node + 1) - 1 = node
    BY <1>6
  <2>2. /\ read_fs((node + 1) - 1, 0, LIST_BUFFER) = Part(walked[node + 1].content, 0, LIST_BUFFER)
        /\ read_fs((node + 1) - 1, 0, LIST_BUFFER) \in Seq(Bytes)
    BY <1>1, <1>5, <1>6, ReadsPart
  <2>3. FlagsOf(node) = root_nodes[node + 1].flags
    BY <1>6 DEF FlagsOf, InTable
  <2> QED BY <2>1, <2>2, <2>3
<1>7. shown' \in Seq(Bytes)
  <2>1. CASE node = initrd_dev
    <3>1. FlagsOf(node) = FS_DIRECTORY
      BY <2>1 DEF FlagsOf, InTable, initrd_dev
    <3> QED BY <1>1, <1>4, <3>1
  <2>2. CASE node + 1 \in 1 .. Len(files) /\ node \in Nat
    <3>1. read_fs(node, 0, LIST_BUFFER) \in Seq(Bytes)
      BY <1>6, <2>2
    <3>2. shown \o read_fs(node, 0, LIST_BUFFER) \in Seq(Bytes)
      BY <1>1, <3>1, ConcatProperties
    <3> QED BY <1>1, <1>4, <3>2
  <2> QED BY <1>3, <2>1, <2>2
<1>8. ASSUME ToldApart
      PROVE  shown' = shown \o Pieces[index]
  <2>1. node = index - 1 /\ node \in Nat /\ node + 1 = index
    BY <1>1, <1>3, <1>8
  <2>2. /\ read_fs(node, 0, LIST_BUFFER) = Part(walked[index].content, 0, LIST_BUFFER)
        /\ FlagsOf(node) = root_nodes[index].flags
    BY <1>6, <2>1
  <2>3. Pieces[index] = Part(walked[index].content, 0, LIST_BUFFER)
    BY DEF Pieces
  <2>4. CASE walked[index].type = "file"
    <3>1. FlagsOf(node) # FS_DIRECTORY
      BY <1>1, <2>2, <2>4, EntryFacts DEF FS_FILE, FS_DIRECTORY
    <3> QED BY <1>4, <2>2, <2>3, <3>1
  <2>5. CASE walked[index].type # "file"
    <3>1. walked[index].content = <<>>
      BY <1>1, <2>5, EntryFacts
    <3>2. Part(<<>>, 0, LIST_BUFFER) = <<>>
      <4>1. Len(<<>>) = 0
        BY EmptySeq
      <4>2. (IF 0 + LIST_BUFFER > Len(<<>>) THEN Len(<<>>) ELSE 0 + LIST_BUFFER) = 0
        BY <4>1, Sizes
      <4>3. SubSeq(<<>>, 0 + 1, 0) = <<>>
        BY SubSeqEmpty
      <4> QED BY <4>2, <4>3 DEF Part
    <3>3. shown \o <<>> = shown
      BY <1>1, ConcatEmptySeq
    <3>4. Pieces[index] = <<>> /\ read_fs(node, 0, LIST_BUFFER) = <<>>
      BY <2>2, <2>3, <3>1, <3>2
    <3> QED BY <1>4, <3>3, <3>4
  <2> QED BY <2>4, <2>5
<1> QED BY <1>4, <1>7, <1>8

\* A piece is a sequence of bytes.
LEMMA PiecesType ==
    ASSUME Built, stage \in After, NEW i \in 1 .. Len(files)
    PROVE  Pieces[i] \in Seq(Bytes)
<1>1. 0 \in Smalls /\ LIST_BUFFER \in Smalls
  BY Sizes DEF Smalls
<1> QED BY <1>1, ReadsPart DEF Pieces

LEMMA ListKeeps ==
    ASSUME IInv, list_fs
    PROVE  IInv'
<1>1. /\ Tables /\ DataPlaced /\ DataFits(Longest) /\ ImageWritten /\ NodesMade
      /\ Listing
  BY DEF IInv, Built
<1>2. stage = "mounted" /\ UNCHANGED <<walked, files, data>>
      /\ UNCHANGED <<files, data, image, mounted>> /\ stage' \in {"mounted", "listed"}
  BY DEF list_fs, builder
<1>3. stage \in After /\ stage' \in After /\ files # <<>>
  BY <1>1, <1>2 DEF After, Tables
<1>4. (Tables /\ DataPlaced /\ DataFits(Longest))'
  BY <1>1, <1>2, <1>3, TableStays
<1>5. (ImageWritten /\ NodesMade)'
  BY <1>1, <1>2, <1>3, MountStays
<1>6. ToldApart' <=> ToldApart
  BY <1>2 DEF ToldApart, SharesName, StoredName
<1>7. Flat(Pieces)' = Flat(Pieces)
  BY <1>2 DEF Flat, Pieces, Part
<1>8. index \in 0 .. (Len(files) + 1) /\ Len(files) \in Nat /\ Len(files) # 0
      /\ shown \in Seq(Bytes) /\ files' = files
  BY <1>1, <1>2, <1>3, LenProperties, EmptySeq DEF Listing, Tables
<1>9. Listing'
  <2>1. CASE index = 0
    <3>1. readdir_fs(initrd_root, index) # NoEntry
          /\ readdir_fs(initrd_root, index).name = dev
      BY <1>3, <2>1, EntryListed
    <3>2. finddir_fs(initrd_root, dev) = initrd_dev
      BY DEF finddir_fs, FlagsOf, InTable, initrd_root, FS_DIRECTORY, initrd_finddir
    <3>3. FlagsOf(initrd_dev) = FS_DIRECTORY
      BY DEF FlagsOf, InTable, initrd_dev
    <3>4. shown' = shown /\ index' = 1 /\ stage' = "mounted"
      BY <1>2, <2>1, <3>1, <3>2, <3>3 DEF list_fs
    <3>5. ToldApart => shown = <<>>
      BY <1>1, <2>1 DEF Listing
    <3> QED BY <1>3, <1>6, <1>8, <3>4, <3>5 DEF Listing, Bytes
  <2>2. CASE index \in 1 .. Len(files)
    <3>1. /\ shown' \in Seq(Bytes)
          /\ ToldApart => shown' = shown \o Pieces[index]
          /\ index' = index + 1 /\ stage' = stage
      BY <1>2, <2>2, PieceShown
    <3>2. Len(Pieces) = Len(files)
      <4>1. Pieces \in [1 .. Len(files) -> {Pieces[i] : i \in 1 .. Len(files)}]
        BY DEF Pieces
      <4> QED BY <1>8, <4>1, FunctionSeq
    <3>3. Flat(Pieces)[index] = IF index = 1 THEN Pieces[index]
                                ELSE Flat(Pieces)[index - 1] \o Pieces[index]
      BY <1>8, <2>2, <3>2, FlatIs
    <3>4. ASSUME ToldApart PROVE shown' = Flat(Pieces)[index]
      <4>1. CASE index = 1
        <5>1. shown = <<>>
          BY <1>1, <3>4, <4>1 DEF Listing
        <5>2. Pieces[index] \in Seq(Bytes)
          BY <1>3, <2>2, PiecesType DEF IInv
        <5> QED BY <3>1, <3>3, <3>4, <4>1, <5>1, <5>2, ConcatEmptySeq
      <4>2. CASE index # 1
        <5>1. ~(index <= 1)
          BY <1>8, <2>2, <4>2
        <5>2. shown = Flat(Pieces)[index - 1]
          BY <1>1, <3>4, <5>1 DEF Listing
        <5> QED BY <3>1, <3>3, <3>4, <4>2, <5>2
      <4> QED BY <4>1, <4>2
    <3>5. index' \in 0 .. (Len(files) + 1) /\ ~(index' <= 1) /\ index' - 1 = index
      BY <1>8, <2>2, <3>1
    <3>6. ToldApart' => shown' = Flat(Pieces)'[index' - 1]
      BY <1>6, <1>7, <3>4, <3>5
    <3> QED BY <1>2, <1>3, <1>8, <3>1, <3>5, <3>6 DEF Listing, Bytes
  <2>3. CASE index = Len(files) + 1
    <3>1. readdir_fs(initrd_root, index) = NoEntry
      BY <1>3, <2>3, EntryListed
    <3>2. stage' = "listed" /\ index' = index /\ shown' = shown
      BY <3>1 DEF list_fs
    <3> QED BY <1>1, <1>2, <1>3, <1>6, <1>7, <2>3, <3>2 DEF Listing, Bytes
  <2> QED BY <1>8, <2>1, <2>2, <2>3
<1> QED BY <1>4, <1>5, <1>9 DEF IInv, Built

LEMMA BootKeeps ==
    ASSUME IInv, NEW unset, boot_messages(unset)
    PROVE  IInv'
<1>1. /\ Tables /\ DataPlaced /\ DataFits(Longest) /\ ImageWritten /\ NodesMade
      /\ Listing
  BY DEF IInv, Built
<1>2. stage = "mounted" /\ UNCHANGED <<walked, files, data>> /\ UNCHANGED listing
      /\ UNCHANGED <<files, data, image, mounted>> /\ stage' \in {"booted", "null pointer"}
  BY DEF boot_messages, builder
<1>3. stage \in After /\ stage' \in After /\ files # <<>>
  BY <1>1, <1>2 DEF After, Tables
<1>4. (Tables /\ DataPlaced /\ DataFits(Longest))'
  BY <1>1, <1>2, <1>3, TableStays
<1>5. (ImageWritten /\ NodesMade)'
  BY <1>1, <1>2, <1>3, MountStays
<1>6. Listing'
  BY <1>1, <1>2, <1>3, ListingStays
<1> QED BY <1>4, <1>5, <1>6 DEF IInv, Built

(***************************************************************************)
(* The specification.                                                      *)
(***************************************************************************)
LEMMA InitHolds == Init => IInv
<1> SUFFICES ASSUME Init PROVE IInv
  OBVIOUS
<1>1. /\ stage = "walk" /\ walked = <<>> /\ files = <<>> /\ data = <<>>
      /\ index = 0 /\ shown = <<>>
  BY DEF Init
<1>2. Len(<<>>) = 0 /\ 1 .. 0 = {} /\ DOMAIN <<>> = {}
  BY EmptySeq
<1>3. Tables
  BY <1>1, <1>2, EmptySeq, Sizes DEF Tables, Before
<1>4. DataPlaced
  BY <1>1, <1>2 DEF DataPlaced
<1>5. DataFits(Longest)
  BY <1>1, <1>2, LongestIsLongest DEF DataFits, LongestIs
<1>6. ImageWritten /\ NodesMade
  BY <1>1 DEF ImageWritten, NodesMade, After
<1>7. Listing
  BY <1>1, <1>2, EmptySeq DEF Listing
<1> QED BY <1>3, <1>4, <1>5, <1>6, <1>7 DEF IInv, Built

LEMMA NextKeeps == IInv /\ [Next]_vars => IInv'
<1> SUFFICES ASSUME IInv, [Next]_vars PROVE IInv'
  OBVIOUS
<1>1. ASSUME NEW e \in NextEntries, process_entry(e) PROVE IInv'
  BY <1>1, ProcessEntryKeeps
<1>2. ASSUME stage = "walk", walked # <<>> PROVE files # <<>>
  <2>1. Len(walked) = Len(files) /\ walked \in Seq(Visited) /\ files \in Seq(Headers)
    BY <1>2 DEF IInv, Built, Tables
  <2> QED BY <1>2, <2>1, EmptySeq
<1>3. ASSUME NEW e \in NextEntries, process_entry_unopened(e) PROVE IInv'
  <2>1. stage = "walk" /\ stage' = "walked" /\ UNCHANGED <<files, data, listing>>
        /\ walked' = walked /\ e.type = "file"
    BY <1>3 DEF process_entry_unopened
  <2>2. walked # <<>>
    BY <2>1, EntryType DEF IInv, Built
  <2> QED BY <1>2, <2>1, <2>2, WalkEndKeeps
<1>4. ASSUME NEW e \in NextEntries, process_entry_full(e) PROVE IInv'
  <2>1. stage = "walk" /\ stage' = "undefined" /\ UNCHANGED <<files, data, listing>>
        /\ walked' = Append(walked, e) /\ Len(files) = INITRD_MAX_FILES
    BY <1>4 DEF process_entry_full, Visit, file_count
  <2>2. files # <<>>
    BY <2>1, Sizes, EmptySeq
  <2> QED BY <2>1, <2>2, WalkEndKeeps
<1>5. ASSUME end_of_walk PROVE IInv'
  <2>1. stage = "walk" /\ stage' = "walked" /\ UNCHANGED <<files, data, listing>>
        /\ walked' = walked /\ walked # <<>>
    BY <1>5 DEF end_of_walk, builder
  <2> QED BY <1>2, <2>1, WalkEndKeeps
<1>6. ASSUME write_image PROVE IInv'
  BY <1>6, WriteImageKeeps
<1>7. ASSUME NEW unset \in {0, FS_FILE, FS_DIRECTORY}, initrd_initialize(unset) PROVE IInv'
  BY <1>7, InitializeKeeps
<1>8. ASSUME list_fs PROVE IInv'
  BY <1>8, ListKeeps
<1>9. ASSUME NEW unset, boot_messages(unset) PROVE IInv'
  BY <1>9, BootKeeps
<1>10. ASSUME UNCHANGED vars PROVE IInv'
  <2>1. /\ Tables /\ DataPlaced /\ DataFits(Longest) /\ ImageWritten /\ NodesMade
        /\ Listing
    BY DEF IInv, Built
  <2>2. stage' = stage /\ UNCHANGED <<walked, files, data>> /\ UNCHANGED listing
        /\ UNCHANGED <<files, data, image, mounted>>
    BY <1>10 DEF vars, builder
  <2>3. stage' \in Before \cup {"built"} \cup After /\ (stage' # "walk" => files # <<>>)
    BY <2>1, <2>2 DEF Tables
  <2>4. (Tables /\ DataPlaced /\ DataFits(Longest))'
    BY <2>1, <2>2, <2>3, TableStays
  <2>5. (ImageWritten /\ NodesMade)'
    BY <2>1, <2>2, MountStays
  <2>6. Listing'
    BY <2>1, <2>2, ListingStays
  <2> QED BY <2>4, <2>5, <2>6 DEF IInv, Built
<1> QED BY <1>1, <1>3, <1>4, <1>5, <1>6, <1>7, <1>8, <1>9, <1>10 DEF Next, build

\* The image, the nodes and the listing are right in every state: the
\* builder, initrd_initialize and list_fs keep IInv.
THEOREM AlwaysBuilt == Spec => []IInv
<1> QED BY InitHolds, NextKeeps, PTL DEF Spec

\* What is mounted has a node for each entry of the table.
LEMMA NodesOfTable == IInv /\ IsMounted => Built /\ stage \in After /\ Nodes = 1 .. Len(files)
<1> SUFFICES ASSUME IInv, IsMounted PROVE Built /\ stage \in After /\ Nodes = 1 .. Len(files)
  OBVIOUS
<1>1. Built /\ stage \in After
  BY DEF IInv, IsMounted, After
<1>2. root_nodes \in Seq(NodeSet) /\ Len(root_nodes) = Len(files)
  BY <1>1 DEF Built, NodesMade
<1> QED BY <1>1, <1>2, LenProperties DEF Nodes

\* initrd_read: every part of every file is read back as the builder wrote it.
THEOREM FilesReadBack == Spec => []ReadsBack
<1>1. IInv => ReadsBack
  BY NodesOfTable, ReadsPart DEF ReadsBack
<1> QED BY <1>1, AlwaysBuilt, PTL

\* initrd_finddir: a name finds the first entry visited that has it.
THEOREM NamesAreFound == Spec => []FindsByName
<1>1. IInv => FindsByName
  <2> SUFFICES ASSUME IInv, IsMounted, NEW i \in Nodes, StoredName(walked[i]) # dev,
                      \A j \in 1 .. (i - 1) : ~SharesName(i, j)
               PROVE  finddir_fs(initrd_root, StoredName(walked[i])) = i - 1
    BY DEF FindsByName
  <2>1. Built /\ stage \in After /\ i \in 1 .. Len(files)
    BY NodesOfTable
  <2> QED BY <2>1, Found
<1> QED BY <1>1, AlwaysBuilt, PTL

\* list_fs: the listing shows the beginning of every file once, in the order
\* of the walk.
THEOREM ListingIsComplete == Spec => []ListShowsFiles
<1>1. IInv => ListShowsFiles
  <2> SUFFICES ASSUME IInv, stage = "listed",
                      \A i, j \in Nodes : i # j => ~SharesName(i, j),
                      \A i \in Nodes : StoredName(walked[i]) # dev
               PROVE  shown = FlattenSeq([i \in Nodes |-> Part(walked[i].content, 0, LIST_BUFFER)])
    BY DEF ListShowsFiles
  <2>1. Nodes = 1 .. Len(files) /\ Listing /\ Tables
    BY NodesOfTable DEF IsMounted, IInv, Built
  <2>2. ToldApart
    BY <2>1 DEF ToldApart
  <2>3. Len(files) \in Nat \ {0}
    BY <2>1, LenProperties, EmptySeq DEF Tables
  <2>4. index = Len(files) + 1 /\ shown = IF index <= 1 THEN <<>> ELSE Flat(Pieces)[index - 1]
    BY <2>1, <2>2 DEF Listing
  <2>5. shown = Flat(Pieces)[Len(files)]
    <3>1. ~(index <= 1) /\ index - 1 = Len(files)
      BY <2>3, <2>4
    <3> QED BY <2>4, <3>1
  <2>6. Len(Pieces) = Len(files)
    <3>1. Pieces \in [1 .. Len(files) -> {Pieces[i] : i \in 1 .. Len(files)}]
      BY DEF Pieces
    <3> QED BY <2>3, <3>1, FunctionSeq
  <2>7. FlattenSeq(Pieces) = Flat(Pieces)[Len(files)]
    BY <2>3, <2>6, FlatIs
  <2> QED BY <2>1, <2>5, <2>7 DEF Pieces
<1> QED BY <1>1, AlwaysBuilt, PTL
=============================================================================
