------------------------------- MODULE Initrd -------------------------------
(***************************************************************************)
(* The initial RAM disk: initrd_builder.c walks the directory "initrd" and *)
(* writes the image, initrd_initialize mounts it where the loader put it,  *)
(* kernel_main and list_fs read it through the file system layer, fs.c.    *)
(* Paths are atoms with a depth and the name that 63 bytes hold of them.   *)
(* The header and every table entry take one unit of the image, as does    *)
(* every byte of a file.                                                   *)
(***************************************************************************)
EXTENDS Integers, SequencesExt

CONSTANTS
    Paths,                 \* paths below the directory
    Depth,                 \* their level in the walk
    Stored,                \* the name strncpy keeps of each
    version_txt, test_txt, dev,        \* names the kernel knows
    garbage,               \* a name, or a byte, that nobody wrote
    Contents,              \* what a file may hold: sequences of bytes
    INITRD_MAX_FILES,
    ADDR,                  \* where the loader puts the image
    LIST_BUFFER,           \* the buffer of list_fs (256)
    BOOT_BUFFER,           \* the buffer of kernel_main (64)
    WORD                   \* 2^32

\* The data begins behind the header and the whole table.
DATA == 1 + INITRD_MAX_FILES

\* What a byte may hold.
Bytes == {garbage} \cup UNION {Range(c) : c \in Contents}

\* A full table of the longest files lies below the end of memory.
ASSUME InitrdConstants ==
    /\ INITRD_MAX_FILES \in Nat \ {0} /\ ADDR \in Nat \ {0}
    /\ LIST_BUFFER \in Nat /\ BOOT_BUFFER \in Nat
    /\ \A p \in Paths : Depth[p] \in Nat \ {0}
    /\ Contents \subseteq Seq(Bytes)
    /\ WORD \in Nat /\ 2 * (LIST_BUFFER + 2) < WORD
    /\ \E longest \in 0 .. WORD :
          /\ \A c \in Contents : Len(c) <= longest
          /\ ADDR + DATA + INITRD_MAX_FILES * longest < WORD

VARIABLES
    stage,                 \* how far build, boot and the listing are
    walked,                \* ghost: the entries nftw has visited
    stopped,               \* ghost: the walk ended before its last entry
    files, data,           \* the builder's table, and what follows it
    image,
    file_headers, root_nodes, version_node,
    dirent, index, shown,  \* list_fs: its entry, counter and output
    buffer, printed        \* kernel_main: its buffer and what it printed

builder == <<walked, stopped, files, data, image>>
mounted == <<file_headers, root_nodes, version_node>>
listing == <<dirent, index, shown>>
reading == <<buffer, printed>>
vars == <<stage, builder, mounted, listing, reading>>

\* Node types, and the nodes that are not in root_nodes.
FS_FILE == 1
FS_DIRECTORY == 2
initrd_root == -1
initrd_dev == -2
NULL == -3
NoEntry == [name |-> NULL, inode |-> NULL]

Init ==
    /\ stage = "walk"
    /\ walked = <<>> /\ stopped = FALSE
    /\ files = <<>> /\ data = <<>>
    /\ image = [nfiles |-> 0, table |-> <<>>, data |-> <<>>]
    /\ file_headers = <<>> /\ root_nodes = <<>> /\ version_node = NULL
    /\ dirent = NoEntry /\ index = 0 /\ shown = <<>>
    /\ buffer = <<>> /\ printed = <<>>

(***************************************************************************)
(* The builder.                                                            *)
(***************************************************************************)

\* Defined alike by the builder and the kernel.
INITRD_MAGIC == 57005

file_count == Len(files)

current_offset == DATA + Len(data)

\* The directory itself has level 0; "initrd" + 7 is behind its terminator.
Root == [path |-> garbage, level |-> 0, type |-> "dir", content |-> <<>>]

StoredName(e) == IF e.level = 0 THEN garbage ELSE Stored[e.path]

\* What nftw may visit next, in preorder.
NextEntries ==
    IF walked = <<>> THEN {Root}
    ELSE LET deepest == Last(walked).level
                        + IF Last(walked).type = "dir" THEN 1 ELSE 0
             fresh   == {p \in Paths : /\ Depth[p] <= deepest
                                       /\ \A i \in DOMAIN walked : walked[i].path # p}
         IN  {[path |-> p, level |-> Depth[p], type |-> t, content |-> c] :
                 p \in fresh, t \in {"file"}, c \in Contents}
             \cup {[path |-> p, level |-> Depth[p], type |-> t, content |-> <<>>] :
                 p \in fresh, t \in {"dir", "other"}}

\* The parent is the directory that was entered last, for level 2 and below.
parent_number(level) ==
    LET dirs == {i \in DOMAIN files : files[i].type = "dir"}
    IN  IF level > 1 /\ dirs # {} THEN files[Max(dirs)].number ELSE 0

\* Mutant of Header: the offset counts from the end of the table.
Header_relative(e, offset) ==
    [magic |-> INITRD_MAGIC, name |-> StoredName(e),
     offset |-> IF offset = 0 THEN 0 ELSE offset - DATA, length |-> Len(e.content),
     parent_number |-> parent_number(e.level), number |-> file_count,
     type |-> e.type]

Header(e, offset) ==
    [magic |-> INITRD_MAGIC, name |-> StoredName(e), offset |-> offset,
     length |-> Len(e.content), parent_number |-> parent_number(e.level), number |-> file_count,
     type |-> e.type]

Visit(e) == walked' = Append(walked, e)

\* process_entry when it returns 0; a file whose reading fails is filled
\* with whatever malloc returned.
process_entry(e) ==
    /\ stage = "walk" /\ file_count < INITRD_MAX_FILES
    /\ IF e.type = "file"
       THEN /\ files' = Append(files, Header(e, current_offset))
            /\ \E bytes \in {e.content, [i \in DOMAIN e.content |-> garbage]} :
                  /\ data' = data \o bytes
                  /\ Visit([e EXCEPT !.content = bytes])
       ELSE /\ files' = Append(files, Header(e, 0))
            /\ Visit(e)
            /\ UNCHANGED data
    /\ UNCHANGED <<stage, stopped, image, mounted, listing, reading>>

\* process_entry when fopen fails: the walk ends.
process_entry_unopened(e) ==
    /\ stage = "walk" /\ file_count < INITRD_MAX_FILES
    /\ e.type = "file"
    /\ stopped' = TRUE
    /\ stage' = "walked"
    /\ UNCHANGED <<walked, files, data, image, mounted, listing, reading>>

\* process_entry with a full table: "file_count > INITRD_MAX_FILES" is false,
\* and the entry is written behind the array.
process_entry_full(e) ==
    /\ stage = "walk" /\ file_count = INITRD_MAX_FILES
    /\ Visit(e)
    /\ stage' = "undefined"
    /\ UNCHANGED <<stopped, files, data, image, mounted, listing, reading>>

\* nftw has nothing left.
end_of_walk ==
    /\ stage = "walk" /\ walked # <<>>
    /\ stage' = "walked"
    /\ UNCHANGED <<builder, mounted, listing, reading>>

\* The end of main: the header and the table go in front of the data.
write_image ==
    /\ stage = "walked"
    /\ image' = [nfiles |-> file_count, table |-> files, data |-> data]
    /\ stage' = "built"
    /\ UNCHANGED <<walked, stopped, files, data, mounted, listing, reading>>

(***************************************************************************)
(* The kernel.                                                             *)
(***************************************************************************)

\* The unit of memory at an address.
Memory(address) ==
    LET i == address - ADDR - DATA + 1
    IN  IF i \in DOMAIN image.data THEN image.data[i] ELSE garbage

\* The flags of a node that is neither file nor directory are never set.
Flags(type, unset) ==
    CASE type = "file" -> FS_FILE [] type = "dir" -> FS_DIRECTORY
      [] OTHER -> unset

\* The index, from 0, of the last node with a name; NULL if there is none.
LastNamed(nodes, name) ==
    LET named == {i \in DOMAIN nodes : nodes[i].name = name}
    IN  IF named = {} THEN NULL ELSE Max(named) - 1

\* The node of a header.  A header without the magic number is passed over:
\* its node stays as kmalloc returned it.
NodeOf(header, unset) ==
    IF header.magic # INITRD_MAGIC
    THEN [name |-> garbage, length |-> 0, inode |-> 0, parent_inode |-> 0,
          flags |-> unset]
    ELSE [name |-> header.name, length |-> header.length,
          inode |-> header.number, parent_inode |-> header.parent_number,
          flags |-> Flags(header.type, unset)]

\* Offsets are made relative to the start of memory, under the same test.
Relocated(header) ==
    IF header.magic # INITRD_MAGIC THEN header
    ELSE [header EXCEPT !.offset = (@ + ADDR) % WORD]

initrd_initialize(unset) ==
    LET nodes == [i \in 1 .. image.nfiles |-> NodeOf(image.table[i], unset)]
    IN  /\ stage = "built"
        /\ file_headers' = [i \in 1 .. image.nfiles |-> Relocated(image.table[i])]
        /\ root_nodes' = nodes
        /\ version_node' = LastNamed(nodes, version_txt)
        /\ stage' = "mounted"
        /\ UNCHANGED <<builder, listing, reading>>

\* The bytes copied; 32-bit sums.
initrd_read(node, offset, size) ==
    LET header == file_headers[root_nodes[node + 1].inode + 1]
        n      == IF (offset + size) % WORD > header.length
                  THEN header.length - offset ELSE size
    IN  IF offset > header.length THEN <<>>
        ELSE [i \in 1 .. n |-> Memory(header.offset + offset + i - 1)]

\* Mutant of initrd_readdir: the bound is tested before the entry "dev" is
\* taken off the index.
initrd_readdir_early(node, at) ==
    LET i == IF node = initrd_root THEN at - 1 ELSE at
    IN  IF node = initrd_root /\ at = 0 THEN [name |-> dev, inode |-> 0]
        ELSE IF at >= Len(root_nodes) THEN NoEntry
        ELSE [name |-> root_nodes[i + 1].name, inode |-> root_nodes[i + 1].inode]

initrd_readdir(node, at) ==
    LET i == IF node = initrd_root THEN at - 1 ELSE at
    IN  IF node = initrd_root /\ at = 0 THEN [name |-> dev, inode |-> 0]
        ELSE IF i >= Len(root_nodes) THEN NoEntry
        ELSE [name |-> root_nodes[i + 1].name, inode |-> root_nodes[i + 1].inode]

\* Mutant of initrd_finddir: the last node with the name is returned.
initrd_finddir_last(node, name) ==
    IF node = initrd_root /\ name = dev THEN initrd_dev
    ELSE LastNamed(root_nodes, name)

initrd_finddir(node, name) ==
    LET named == {i \in DOMAIN root_nodes : root_nodes[i].name = name}
    IN  IF node = initrd_root /\ name = dev THEN initrd_dev
        ELSE IF named = {} THEN NULL ELSE Min(named) - 1

\* The layer above: a node without the callback gives nothing.
InTable(node) == node >= 0

FlagsOf(node) == IF InTable(node) THEN root_nodes[node + 1].flags ELSE FS_DIRECTORY

read_fs(node, offset, size) ==
    IF InTable(node) THEN initrd_read(node, offset, size) ELSE <<>>

readdir_fs(node, at) ==
    IF FlagsOf(node) = FS_DIRECTORY /\ ~InTable(node)
    THEN initrd_readdir(node, at) ELSE NoEntry

finddir_fs(node, name) ==
    IF FlagsOf(node) = FS_DIRECTORY /\ ~InTable(node)
    THEN initrd_finddir(node, name) ELSE NULL

\* One round of the loop of list_fs.
list_fs ==
    LET entry == readdir_fs(initrd_root, index)
        node  == finddir_fs(initrd_root, entry.name)
    IN  /\ stage = "mounted"
        /\ dirent' = entry
        /\ IF entry = NoEntry
           THEN stage' = "listed" /\ UNCHANGED <<index, shown>>
           ELSE /\ shown' = IF FlagsOf(node) = FS_DIRECTORY THEN shown
                            ELSE shown \o read_fs(node, 0, LIST_BUFFER)
                /\ index' = index + 1
                /\ UNCHANGED stage
        /\ UNCHANGED <<builder, mounted, reading>>

\* What printf("%s") shows of a buffer: it stops at the byte 0, or goes on
\* behind the end.
CString(bytes) ==
    LET ends == {i \in DOMAIN bytes : bytes[i] = 0}
    IN  IF ends = {} THEN Append(bytes, garbage)
        ELSE SubSeq(bytes, 1, Min(ends) - 1)

\* A file read into the buffer.
Into(buf, bytes) == bytes \o SubSeq(buf, Len(bytes) + 1, Len(buf))

\* kernel_main reads and prints the version and a test file through one
\* buffer from kmalloc, which is not cleared.
boot_messages(unset) ==
    LET size(node) == root_nodes[node + 1].length
        test == finddir_fs(initrd_root, test_txt)
        first == Into([i \in 1 .. BOOT_BUFFER |-> unset],
                      read_fs(version_node, 0, size(version_node)))
        second == Into(first, read_fs(test, 0, size(test)))
    IN  /\ stage = "mounted" /\ index = 0
        /\ IF version_node = NULL \/ test = NULL
           THEN stage' = "null pointer" /\ UNCHANGED reading
           ELSE /\ buffer' = second
                /\ printed' = <<CString(first), CString(second)>>
                /\ stage' = "booted"
        /\ UNCHANGED <<builder, mounted, listing>>

build ==
    \/ \E e \in NextEntries :
          process_entry(e) \/ process_entry_unopened(e) \/ process_entry_full(e)
    \/ end_of_walk
    \/ write_image

Next ==
    \/ build
    \/ \E unset \in {0, FS_FILE, FS_DIRECTORY} : initrd_initialize(unset)
    \/ list_fs
    \/ \E unset \in {0, garbage} : boot_messages(unset)

Spec == Init /\ [][Next]_vars

(***************************************************************************)
(* Properties.                                                             *)
(***************************************************************************)
Nodes == DOMAIN root_nodes

IsMounted == stage \in {"mounted", "listed", "booted", "null pointer"}

\* The part of a file from an offset on, at most size bytes.
Part(content, offset, size) == SubSeq(content, offset + 1,
    IF offset + size > Len(content) THEN Len(content) ELSE offset + size)

Smalls == 0 .. (LIST_BUFFER + 2)

\* The builder and initrd_read ("Read a file pointed to by node into a
\* buffer"): every part of every file that the builder visited is read back
\* as it was written, and nothing of another file, even when the walk ended
\* at a file that could not be opened.
ReadsBack ==
    IsMounted =>
       \A i \in Nodes : walked[i].type = "file" =>
          \A offset, size \in Smalls :
             read_fs(i - 1, offset, size) = Part(walked[i].content, offset, size)

SharesName(i, j) == StoredName(walked[i]) = StoredName(walked[j])

\* initrd_finddir ("Find a node with a specific name in a node"): the name
\* kept of a path finds the first entry visited that has it; only "dev" is
\* hidden by the kernel's own node.
FindsByName ==
    IsMounted =>
       \A i \in Nodes :
          /\ StoredName(walked[i]) # dev
          /\ \A j \in 1 .. (i - 1) : ~SharesName(i, j)
          => finddir_fs(initrd_root, StoredName(walked[i])) = i - 1

\* list_fs ("List all contents in the initrd"): when names differ, the
\* listing shows the beginning of every file once, in the order of the walk.
ListShowsFiles ==
    /\ stage = "listed"
    /\ \A i, j \in Nodes : i # j => ~SharesName(i, j)
    /\ \A i \in Nodes : StoredName(walked[i]) # dev
    => shown = FlattenSeq([i \in Nodes |-> Part(walked[i].content, 0, LIST_BUFFER)])

\* initrd_file_header ("Identification number of parent dirs"): the parent is
\* the directory that holds the entry, the last one visited a level above.
ParentHoldsEntry ==
    \A i \in DOMAIN files \ {1} :
       files[i].parent_number + 1 =
          Max({j \in 1 .. (i - 1) : walked[j].level = walked[i].level - 1})

\* main ("Initrd build successfully"): the image has every entry.
ImageComplete == stage = "built" => ~stopped

\* process_entry and INITRD_MAX_FILES: the table is not overrun.
TableHolds == stage # "undefined"

\* initrd_read, for every size: nothing behind the end of the file is read.
ReadStaysInFile ==
    IsMounted =>
       \A i \in Nodes : \A offset, size \in 0 .. (WORD - 1) :
          Len(read_fs(i - 1, offset, size)) <= root_nodes[i].length

\* kernel_main ("Read a file under non-root dir"): what it prints second is
\* the test file.
PrintsTestFile ==
    stage = "booted" =>
       printed[2] = walked[finddir_fs(initrd_root, test_txt) + 1].content
=============================================================================
