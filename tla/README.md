# ShigureOS in TLA+

Models of the kernel of ShigureOS (`src/kernel`), the TLC configurations that
check them on small instances, and TLAPS proofs of the results that matter for
every size. Paths such as `vm.c` mean `kernel/arch/i386/vm.c`.

## 1. The system

ShigureOS is a kernel for one i686 CPU. Concurrency comes from interrupts (timer,
keyboard) and from the processes the timer switches between. Nothing is
persistent.

| Component | State | Operations | Interacts with |
|---|---|---|---|
| Physical memory manager, `pm.c` | one bitmap per buddy order, `placement_address`, extent of memory | `pm_initialize`, `frame_initialize`, `pmalloc`, `pfree` | bitmaps are placed by `ikmalloc`; called by `alloc_frame` |
| Free block tree, `vm.c` | AVL nodes ordered by address | `avl_insert`, `avl_delete`, `find_best_fit` | nodes come from the heap it describes |
| Kernel heap, `vm.c` | tree root, end of heap, block headers | `heap_init`, `heap_alloc`, `heap_free`, `expand_heap`, `kmalloc`, `ikmalloc`, `kfree` | tree, frames, every other component |
| Paging, `vm.c` | `kernel_pd`, `current_pd`, page tables | `vm_initialize`, `get_page`, `alloc_frame`, `free_frame`, `clone_page_directory`, `clone_page_table`, `switch_page_directory` | frames, heap, processes |
| Processes, `proc.c`, `asm/proc.S` | `ready_queue`, `current_proc`, saved contexts, `next_pid` | `proc_initialize`, `move_stack`, `fork`, `switch_proc`, `getpid` | called from the timer interrupt |
| Timer, `timer.c` | `timer_ticks`, `seconds_passed` | `timer_handler`, `timer_wait` | calls `switch_proc` |
| Interrupts, `irq.c`, `isr.c`, `idt.c`, `gdt.c` and their `.S` | descriptor tables, handler tables, PICs, the interrupt flag | installation, registration, dispatch, EOI, return | calls the handlers; prints when there is none |
| Keyboard, `kb.c` | ring buffer | `keyboard_handler`, `keyboard_getchar` | filled by an interrupt, emptied by the shell |
| Terminal, `tty.c` | cursor, text memory | `terminal_putchar` and what is built from it | shell, `printf`, serial port |
| Shell, `sh.c` | line buffer, history | prompt, line editing, commands | keyboard, terminal, heap, initrd |
| Initrd builder, `initrd_builder.c` | table of file headers, image | `process_entry` for every entry `nftw` visits, `main` | runs on the host; its image is a multiboot module |
| Initrd and file system, `initrd.c`, `fs.c` | file headers, nodes, `version_node` | `initrd_initialize`, `initrd_read`, `initrd_readdir`, `initrd_finddir`, `read_fs`, `readdir_fs`, `finddir_fs`, `list_fs` | heap, `kernel_main`, shell |
| Serial port, `serial.c` | registers of the device | `serial_initialize`, `serial_write` | every character of the terminal |
| C library, `libc` | - | `printf`, `puts`, `panic`, byte copies | terminal |
| Boot code, `kernel.c`, `boot.S` | loader's data | `kernel_main` | starts everything, with interrupts enabled from `idt_install` on |

What is hard here, and what makes each part correct:

* **Frames.** No frame is handed out twice or lost, through all sequences of
  merges, with indices that run past the end of a bitmap.
* **Tree and heap.** The tree should be a search tree that holds exactly the free
  memory, although its heights are computed wrongly and although inserting a
  block allocates from the tree that is being changed. It is not, with nine blocks or
  more (`tree_lost`); it is as long as no rotation goes through a missing child. Blocks
  never overlap, neighbours merge, a repeated `kfree` does no harm, memory freed comes
  back.
* **Boot.** Several allocators (image, initrd, placement, frames) share memory
  without knowing of each other; the identity mapping is a side effect of the
  order of calls.
* **Processes.** `fork` returns twice and is interrupted by the timer; a context
  must not be used before it is stored; everybody must run again; stacks are
  private and the kernel is shared.
* **Keyboard.** A single-producer single-consumer ring without locks.
* **Shell and terminal.** Two pieces of code move the line buffer and the cursor
  and have to agree. `printf` must pair directives with arguments up to its
  limits.
* **Interrupts.** They are enabled before anything is ready for them. Each line
  must reach its own handler with its own number, each must be acknowledged at
  exactly the controllers that have it in service, and a handler that prints must
  not disturb the code it interrupted.
* **Initrd.** The builder and the kernel agree on a layout only by writing the
  same structures twice. Whatever the walk meets (a file that cannot be opened,
  long names, equal names, entries that are neither file nor directory), what is
  read must be what was written.

The list under `hazards` in `PROJECT.json` names the lines.

## 2. Modules

| Module | Models | Notes |
|---|---|---|
| `FrameSpec` | what callers of `pmalloc(FRAME_SIZE)` rely on | abstract |
| `FrameAllocator` | `pm.c` after `frame_initialize` | implements `FrameSpec` |
| `FrameAllocatorProofs` | - | proofs |
| `AvlTree` | tree operations as operators | used by the next two |
| `FreeBlockTree` | the tree alone, against a set of blocks | |
| `KernelHeap` | the heap on that tree | composes tree and heap |
| `BootMemory` | `pm_initialize` to `heap_init` | |
| `BootMemoryProofs` | - | proofs |
| `PrivateMemory` | what `fork` promises about memory | abstract |
| `AddressSpace` | page tables, `move_stack`, `fork`, switches | implements `PrivateMemory` |
| `AddressSpaceProofs` | - | proofs |
| `Scheduler` | `fork`, `switch_proc`, timer interrupt | |
| `SchedulerProofs` | - | proofs |
| `KeyQueue` | what callers of `keyboard_getchar` rely on | abstract |
| `Keyboard` | `kb.c` | implements `KeyQueue` |
| `KeyboardProofs` | - | proofs |
| `Terminal` | `tty.c` as operators | used by `Printf`, `Shell` and `Interrupts` |
| `Printf` | `printf.c` as operators, with a reference definition | |
| `Shell` | `sh.c` over `Printf` and `Terminal` | composes shell, printf and terminal |
| `ShellProofs` | - | proofs |
| `Pic` | the two 8259 controllers, as `irq.c` uses them | external |
| `Serial` | `serial.c` and the device behind it | operators |
| `Interrupts` | `gdt.c`, `idt.c`, `isr.c`, `irq.c`, their `.S`, `kernel_main` | composes them with `Pic`, `Serial` and `Terminal` |
| `InterruptsProofs` | - | proofs |
| `Initrd` | `initrd_builder.c`, `initrd.c`, `fs.c`, the boot messages | composes builder and reader |
| `InitrdProofs` | - | proofs |
| `MC*` | instances for TLC | |

A definition whose comment begins "Mutant of" is a faulty variant of the
definition after it. It is used by no specification; `PROJECT.json` says which
property notices it.

### How state and actions correspond to the code

**FrameAllocator.** `bits` is the memory in which the bitmaps lie one after the
other, because `set_bit`, `clear_bit` and `is_bit_set` check no bound: an index
past `num_bits[j]` reaches padding, the next bitmap or what lies behind. Each
iteration over the orders in `pmalloc` and `pfree` is a step (`pmalloc_mark`,
`pfree_mark`); `call` holds the locals. `held` is a ghost. `pfree_mark` keeps
`buddy_bitmaps[order]` where one expects `[j]` (pm.c:201).

**AvlTree, FreeBlockTree, KernelHeap.** Node memory is a function from pointers
to records and `NULL` is address 0, which is mapped, so a write through `NULL`
changes memory and does not fault. `avl_insert` is cut where it calls
`create_node` (`Descend`, then `Unwind`), because in `KernelHeap` that call runs
`heap_alloc` on the same tree. A step of `KernelHeap` is one call of `kmalloc`,
`ikmalloc` with `page_align`, or `kfree`, including a `kfree` of a block freed
before. `reentered` is a ghost that records that the nested allocation has
removed a node; what happens to the tree afterwards is the subject of
`Heap_reentrant.cfg`, and the other properties are stated up to there.

**BootMemory.** One action per loop of `vm_initialize`, one step per iteration,
with `get_page`, `alloc_frame` and `ikmalloc` as operators. `placed` records
every region in which data has been put. `Layouts` is what the boot loader finds:
image size, initrd size and the gap between them. It puts the initrd on a page
boundary, as the multiboot header asks (boot.S, `ALIGN`). `pmalloc` is a counter:
without a free it hands out frames in ascending order. `pm_initialize` computes the
start of the free memory (`PmStart`) from the rounded sizes, without the multiboot header
and the gap, and keeps it in `pm_start`: layouts for which it then lies below the end of the
initrd are among `Layouts` (`Misjudged` in `MCBootMemory`).

**AddressSpace.** Starts after `vm_initialize`. A directory is its `tables[]`,
a table the frames of its pages. `fork` is one step because it runs with
interrupts disabled. `write` is any store of the running process.

**Scheduler.** `fork` is cut at every point where the interrupt flag matters:
`cli`, linking, storing the context. The locals `parent_proc` and `new_proc` of `fork` lie on
the stack, one copy per process, and the child's stack is a copy of the caller's; the
test `current_proc == parent_proc` behind `get_eip` decides, in both processes alike,
which way `fork` returns (`fork_parent`, `fork_child`). A compiler that keeps `parent_proc` in
a register changes nothing there: the register is the caller's own when the caller goes on,
and holds no process when the child begins. `caller` and `got` record who created whom
and what `fork` has returned. `eip` says where a saved context points:
unset, behind `get_eip` in `fork`, or behind it in `switch_proc`. A switch leaves
`timer_handler` unfinished on the old stack; its last two lines run when the
process is resumed, and `lead` (seconds in ticks minus ticks) accounts for that.

**Keyboard.** `keyboard_getchar` is cut between the test, the read and the store.
`keyboard_buffer` is not volatile and the indices are, so both orders of the last
two are behaviours.

**Terminal, Printf, Shell.** A screen is a record with cursor and cells; `x` and `y`
wrap modulo `WORD`; a write outside of the cells sets `stray`. One key is one
step, including everything it shows. `printf` is a recursive function of the position
in the format, the next argument and `written`, one round of the C loop
(`printf_round`) each time; it gives the characters printed and the value
returned. `INT_MAX` follows from `WORD`. A command is one step, with everything it prints; a word of fixed text
is one character. Keys include the ones without a character (Shift, Ctrl, Alt, function keys),
for which `kb.c` delivers 0. `typed` and `visible` are ghosts kept from the keys alone, not
from the buffer: the keys of the line but for those erased, and those of them that show
something. `slips` counts the keys without a character that were erased in this line,
`overrun` remembers that a line had more of them than `MARGIN`.

**Interrupts.** `pc` is the call of `kernel_main` that is next and `k` the position in
its loop: every gate, every byte sent to a controller and every byte sent to the
serial port is a step. Between any two steps a device may pull its line (`raise`), and
while the flag is set the CPU may take an interrupt (`interrupt`,
`spurious_interrupt`); an exception may come at any point once the IDT is loaded. An
interrupt enters through the gate that the vector selects, whatever is in it at that
time: a gate that cannot be used resets the machine, a gate for an exception ends in
`exception_handler`. `frame` is what the stub has pushed, plus ghosts: the line that
really asked, whether it was spurious, the code that the CPU pushed. `send_eoi`,
the handler or the message, and `iret` follow as two steps. The handlers' own work is
in `Scheduler` and `Keyboard`. After boot the shell prints for ever: `putchar_in_memory`
and `putchar_in_registers` are the two ways in which a compiler may order the loads
and stores of `terminal_putchar` (`terminal_x` and `terminal_y` are not volatile). Halves
of 32-bit words are kept apart, because `idt_set_descriptor` and
`gdt_set_descriptor` split them.

**Initrd.** `process_entry` runs on what `nftw` may visit next: every preorder walk over
`Paths` is a behaviour. `process_entry_unopened` is the failing `fopen`,
`process_entry_full` the call with a full table, after which nothing is known. `walked`
is a ghost: the entries visited and what the builder really stored of them. Headers,
table entries and bytes take one unit of the image each. Every header has the
magic number, and `initrd_initialize` passes over a header without it (`NodeOf`,
`Relocated`), which no image of the builder has. The kernel's part has
one step for mounting, one per round of `list_fs`, and one for the boot messages of
`kernel_main`; memory that nobody wrote (the rest of a buffer from `kmalloc`, flags
of an entry that is neither file nor directory) has any of the values that matter.

## 3. Runs

| Run | Instance | Result |
|---|---|---|
| `frame_single` | 5 frames, orders 0..2, 2-bit bytes, single frames | no frame shared or lost, pair bitmap exact, implements `FrameSpec` |
| `tree_lost` | 9 bases | **violated**: wrong heights lead to a rotation through a missing child and the blocks are lost |
| `heap` | a heap with limits in proportion to `vm.h` and one that can grow | blocks disjoint, merged, aligned, repeated `kfree` harmless, memory comes back while there is room for a node |
| `heap_exhausted` | limits in proportion to `vm.h` | **violated**: `kfree` gives nothing back |
| `sched` | 5 processes | contexts, return values, clock, every child runs |
| `sched_again` | 2 processes | **violated**: the last process keeps the CPU |
| `keyboard` | small ring, several characters | FIFO queue, every key taken |
| `shell_edit` | 3 x 4 screen, line buffer of 6, integers of 5 bits, keys with and without a character | the line typed is run, line and screen agree until a key without a character is erased, the cursor stays on the screen within `MARGIN` such erasures, `printf` prints what it is given |
| `boot` | pages of 8 bytes, images and initrds on and off page boundaries, near, far and misjudged | identity mapping, all mapped, no overlap of what the kernel places before the heap, the initrd overwritten only behind `pm_start`, no early panic |
| `space` | 4 processes at most, kernel and stack pages | private stacks, shared kernel |
| `initrd` | five paths on two levels, two with equal stored names, one called `dev`, a table of 4 | files read back, found by name, listed |
| `interrupts` | controllers of 4 lines, 4 exceptions, devices on both controllers, 2 x 2 screen | right handler, exact EOI, serial port configured, cursor recovers, ticks served |

Each violated property states a comment of the source; `findings` in
`PROJECT.json` quotes it next to the line that breaks it. `heap_exhausted` needs no
long history: whenever the block freed touches the only free block, as at
the first `kfree` of the kernel (`kernel.c:79`), the tree is empty while its node is
being allocated.

**Outside the runs.** `Tree_shape.cfg` (module `MCFreeBlockTree`, ten bases, any insertions
and deletions) checks `HarmlessUntilNull`, which passes: until a rotation goes through a
missing child, the tree is a search tree with exactly the blocks put in, however wrong its
heights are.

**Further disagreements.** These are not part of the runs either; each reproduces one more
case, by `tlc -config <file> <module>`, in which TLC finds the property violated. Where
the file already has a property, the one given here takes its place.

| File | Property | Module | Line | Shows |
|---|---|---|---|---|
| `Frame_mixed.cfg` | `NoDoubleAllocation` | `MCFrameAllocator` | pm.c:201 | with requests of 1 and 4 frames a held frame is handed out; the kernel itself only asks for one |
| `Tree_shape.cfg` | `BestFitFound` | `MCFreeBlockTree` | vm.c:845 | `find_best_fit` finds no best fit |
| `Heap_expand.cfg` | `ExpandsToMaxSize` | `MCKernelHeap` | vm.c:155 | `start_addr + max_size` wraps and the heap never grows |
| `Heap_exhausted.cfg` | `FragmentKept` | `MCKernelHeap` | vm.c:246 | the fragment before an aligned block is lost |
| `Heap_reentrant.cfg` | `ReentrantDeleteHarmless` | `MCKernelHeap` | vm.c:650 | allocating a node damages the tree it goes into |
| `Boot_initrd.cfg` | `InitrdNeverOverwritten` | `MCBootMemory` | pm.c:78 | where the last page of the image holds no more than the multiboot header ("Add the size of the kernel with 4KB boundary to memory location" counts from `stext`), or the loader leaves a gap, the bitmaps are placed over the end of the initrd |
| `Boot_overlap.cfg` | `PlacedDisjoint` | `MCBootMemory` | vm.c:94 | `placement_address` ("Address currently available after the end of the kernel") is moved back, and the heap is placed over the bitmaps or the directory |
| `Boot_unmapped.cfg` | `PlacedIsMapped` | `MCBootMemory` | vm.c:94 | the heap is placed where nothing is mapped |
| `Shell_cursor.cfg` | `CursorOnScreen` | `MCShell` | tty.c:165 | erasing keys without a character (sh.c:65) moves the cursor off the top of the screen, where `terminal_y` wraps |
| `Shell_history.cfg` | `LineInHistory` | `MCShell` | sh.c:79 | `buf_location` is 0 by the time of "Store in history" (sh.c:78): no line is ever stored |
| `Interrupts.cfg` | `NoDeviceException` | `Interrupts` | asm/idt.S:7 | an interrupt before `irq_remap` is taken for an exception and stops the system |
| `Interrupts.cfg` | `DivisorSet` | `Interrupts` | serial.c:11 | the newline of "No handler registered" becomes the divisor of the serial port |
| `Interrupts.cfg` | `MessageOnScreen` | `Interrupts` | kernel.c:37 | messages before `terminal_initialize` are written at address 0 |
| `Interrupts.cfg` | `NothingBehindScreen` | `Interrupts` | tty.c:118 | an interrupt that prints while `terminal_putchar` wraps puts a character behind the text memory |
| `Interrupts.cfg` | `ErrorCodeSeen` | `Interrupts` | asm/isr.S:18 | `page_fault` sees error code 0 whatever the fault was |
| `Initrd_table.cfg` | `TableHolds` | `MCInitrd` | initrd_builder.c:47 | one entry too many is written behind the table |
| `Initrd_parent.cfg` | `ParentHoldsEntry` | `MCInitrd` | initrd_builder.c:61 | an entry below level 1 that is visited after a directory beside it gets that directory as its parent |
| `Initrd_missing.cfg` | `ImageComplete` | `MCInitrd` | initrd_builder.c:81 | a file that cannot be opened ends the walk, and the image is reported as built |
| `Initrd_wrap.cfg` | `ReadStaysInFile` | `MCInitrd` | initrd.c:36 | `offset + size` wraps and the read goes past the end of the file |
| `Initrd_boot.cfg` | `PrintsTestFile` | `MCInitrd` | kernel.c:77 | the test file is printed with the end of the version, or with what was in the buffer |

**Bounds.** Five frames are the smallest number for which a last frame has an
order-1 index that falls into the next bitmap and an order-2 index in the
padding. Ten bases give trees with every single and double rotation, in insertion and
in deletion, and all ways in which the wrong heights lead to a rotation through a
missing child with that many blocks. The first needs eight when bases that are in the tree
are inserted again, which adds no node but balances the way to it, and nine in `tree_lost`,
which inserts only as the heap does. The heap instances have room for a few blocks and nodes, so
that it fills up, splits, merges at both sides and (in the heap that can) expands.
Three processes are what it takes to create one while another waits to be reached;
five let that happen at both ends of the list. A 3 x 4 screen wraps and scrolls while a line of five keys is
edited, the cursor can leave it within one line, `MARGIN` is 4 (it is 82 for 80 x 25 and
256), and 5-bit integers reach `INT_MAX` characters within four directives.
Controllers of four lines keep the cascade on line 2, as irq_remap asks for it, and
have a last line for spurious interrupts; a device on lines 0, 1 and 4 gives a timer,
a keyboard and the first line of the second controller; four exceptions are two that happen, one with
an error code and a handler, among others that share vectors with the firmware's
mapping. A 2 x 2 screen wraps and scrolls with every second character. A
table of four entries is filled by walks over five paths; files hold 0, 1 and 3
bytes against a listing buffer of 2 and a boot buffer of 4. `MAX_PROCS`, `MAX_TABLES`, `FRAMES` and the number of frames or bases are
the only bounds on behaviours; sizes and addresses are inputs.

`Tree_shape.cfg` and `tree_lost` use a view that forgets which node of the pool
a tree node is; no operation depends on it. The heap runs use a view without the
contents of nodes that have dropped out of the tree, which are never read again (what
has been written at address 0 stays in the view). Some behaviours are followed up to the
state of which nothing more can be said, which is itself checked: those of `Tree_shape.cfg` up to the
first write through `NULL` (`NullUntouched`; `tree_lost` shows what comes then), those of `shell_edit` up to
the first line with more slips than `MARGIN` (`WithinMargin`; see `Shell_cursor.cfg`), and those of the heap
runs up to the first state with `reentered` (`TreeIntact`), because the damaged tree may be cyclic. `CHECK_DEADLOCK FALSE` stands where
the code stops: `boot` (the sequence ends), `space` (`PANIC`), `initrd` (the
listing ends) and `interrupts` (`PANIC`, a halt or a reset).

**Fairness.** `Scheduler`: the timer keeps firing while interrupts are enabled,
and a process that runs makes progress; nobody has to call `fork`. `Keyboard`: the
shell calls `keyboard_getchar` for ever and nothing but an empty ring stops it;
nobody has to press a key. `Interrupts`: the CPU takes an interrupt that is pending
while the flag is set, and goes on inside the stub and the handler; no device has to
ask, and the shell may stand still. The other modules state safety only.

## 4. Proofs

Each theorem holds for every value of the constants that satisfies the module's
named assumptions. Each inductive invariant was first checked by TLC on the
instance of the component's run.

**`FrameAllocatorProofs`**: every number of frames, largest order, byte size and
placement of bitmaps that satisfy `FrameConstants`, `PowersOfTwo`, `BitmapLayout` and
`SizesFit`.

* `TypeCorrect`: `Spec => []TypeOK`, for any mix of sizes. `TypeOK` alone is not
  inductive: the block being marked must lie in the bitmap of its own order
  (`BlockInRange`), or the frame returned might not exist.
* `SingleFramesNeverShared`, `SingleFramesNeverLost`, `SingleFramesRefine`, under
  `SingleFrames` (all sizes are `FRAME_SIZE`, as in `alloc_frame` and
  `free_frame`). The invariant is `SingleInv`: only order 0 is held or in
  progress, a block being marked or freed is not held, and the bitmap of order 0
  equals the frames held plus the one in flight at every step. That it survives
  the loops over the higher orders is the point of the argument: their
  indices may leave their own bitmaps, but always upwards, away from order 0
  (`HigherOrdersApart`).
* `PairsMergeExactly`, under `SingleFrames`: the bitmap of order 1 is exact between
  calls. `PairInv` adds to `SingleInv` which pairs are exact while a call is in
  progress (`PairExact`: all but the pair of the frame in flight) and that the loop of
  `pfree` is at order 1 only when the buddy is free (`BuddyFree`). Order 2 has no such
  theorem: the code tests the buddy in the wrong bitmap there (pm.c:201).

`Frame_mixed.cfg` shows that the hypothesis is needed: for requests of several frames
the corresponding statements are false.

**`KeyboardProofs`**: every size of at least two and every set of characters.

* `ReaderNeverOverrun`: `Spec => []ReadIsStable`, by the invariant `IInv`
  (`TypeOK` and `ReadIsStable`, which are inductive together).
* `RingIsQueue`: `Spec => ImplementsKeyQueue`. A put appends to the contents
  (`PutAppends`), advancing takes their head (`AdvanceTakes`), all other steps
  stutter.

**`SchedulerProofs`**: every number of processes and of ticks per second.

* `SchedulerTypeCorrect`, `ContextStoredFirst`, `ForkReturnValues`, `UptimeBounded`, all
  from one invariant. `NeverJumpsToUnset` alone is not inductive: a context that is not
  stored belongs to the process that runs or to the one that `fork` has just linked,
  and then interrupts are off (`ContextsStored`, `CliSections`, `Linking`).
  `ForkTellsApart` says for both directions what `fork` has returned where: `CopiedStack` has
  the locals of a process that is in `fork` (its own in the caller, the caller's in the child
  that has not gone on yet), so that the test of proc.c:73 comes out right however many
  switches lie between, and `Returned` relates `got` and `caller`.
  `QueueInOrder` says that the list is 1, 2, 3, ... in order of creation, so that
  a process behind the current one has never run; each tick that `UptimeFollowsTicks`
  allows to be lost is paid for by a process passed for the first time
  (`ClockBehind`).

**`AddressSpaceProofs`**: every number of frames, tables, processes and entries of a
table, and every set of kernel and stack pages in different tables.

* `AddressTypeCorrect` and `KernelIsSharedRestPrivate`. `KernelLinked` (every directory
  has the kernel's tables where `kernel_pd` has them) and `TablesPrivate` (any other
  table is at one place of one directory) are what decides between linking and copying
  in `clone_page_directory`; `FramesUnique`, `FramesBounded` and `Mapped` carry it on
  to frames. The frames that a copy takes are new and different
  because they are numbered from the ones in use.
* `ProcessesHavePrivateMemory`: `Spec => ImplementsPrivateMemory`. `move_stack` before
  the stack is complete stutters, a write to a stack page changes one page of one
  process, a write to a kernel page the memory that all share, `fork` copies
  one memory.

**`InterruptsProofs`**: every number of lines, exceptions and vectors, every set of
devices, any mapping by the firmware, any screen.

* `LinesReachRoutines`, `ServiceExact`, `PortReady`, `CursorComesBack`. The invariant has
  a part for each group of variables: `Gates` (the entries set so far, by the
  position of `kernel_main`), `Chips` (both controllers after every byte of
  `irq_remap`), `Serving` (the frame of the interrupt, in agreement with the
  vector it came through), `Port` (the device after every byte of
  `serial_initialize`) and `Cursor` (where the cursor may be at every point of
  `terminal_putchar`). `InServiceExact` depends on `Chips`, because the first byte to
  each controller clears what is in service, and on the fact that a frame that is
  waiting for its EOI keeps interrupts off. `LinesReachRoutines` says more than
  `Gates`: a frame that began before `irq_install` was over must have ended by then, or have
  stopped the system.
* Assumptions: at least three lines, the cascade at bit 2 (`BitsOf(4) = {2}`) and no
  device on it; a screen of more than one column; `NULL` is no line and no frame.

**`InitrdProofs`**: every set of paths, depths, names and contents, every size of the
table and the buffers.

* `FilesReadBack`, `NamesAreFound`, `ListingIsComplete`.
  The invariant says that table and walk have the same entries in the same order
  (`Tables`), that the data of a file is where its header says (`DataPlaced`), that
  nothing wraps (`DataFits`), that image and nodes are made of them (`ImageWritten`,
  `NodesMade`), and how far `list_fs` is (`Listing`).
* Assumption: an image with a full table of the largest files ends below
  `WORD`, and twice the buffer is below `WORD`. `Initrd_wrap.cfg` shows what happens
  without.

**`BootMemoryProofs`**: every size of pages, tables, bitmaps and memory, and every
layout that leaves free memory below the heap.

* `LowMemoryIsIdentity`: `Spec => []IdentityMapped`, wherever the loader puts the initrd.
  `FramesInOrder` says that frames 0, 1, ... go to pages 0, 1, ... until the heap is
  mapped, and that those of the heap are higher.
* `PlacedApart`: `Spec => []EarlyPlacedDisjoint`, wherever the loader puts the initrd.
  `OwnInv` has the image and all the kernel places below `placement_address` while it
  grows, and no page table placed after it has been set anew (`HeapTables`: the tables of
  the heap are there by then). That the image itself ends below the start of the free memory
  needs `BootImage`: the header that pm.c:78 leaves out is shorter than the page that is
  counted for an initrd, which is never empty.
* `InitrdApart`: `Spec => []InitrdKept`, wherever the loader puts the initrd. Only the part of
  the initrd behind `pm_start` can be overwritten. `KeptInv` says that `placement_address`
  stays at `pm_start` or above until it is set anew, and behind the initrd from then on, so
  that all that is placed there is clear of that part (`Clear`); the image ends before the
  initrd begins. That the part behind `pm_start` is not always empty is what
  `Boot_initrd.cfg` shows.
* `PlacedReachable` (and `AllPlacedApart`), under `InitrdBehind`: for every layout the
  initrd ends no higher than the start of the free memory that `pm_initialize` computes.
  This is a condition on the layout that the code does not establish: an initrd on the first
  page behind the image satisfies it unless the last page of the image holds no more than
  the multiboot header, one behind a gap only if rounding makes up for it. Where it is
  false, bitmaps are placed over the initrd (`Boot_initrd.cfg`). The invariant `PlaceInv` has what is placed below
  `placement_address` (`PlacedBelow`), page tables for the heap before its frames
  (`HeapTables`), and a map that reaches what will be placed behind it
  (`MapComplete`). The loop that maps the kernel moves its own bound; the proof needs
  no bound on its rounds, because only its end matters. `HEAP_BYTES + NODE_BYTES <=
  PD_BYTES` (a directory is larger than the heap's structure and its root) is what makes
  room for the two regions placed last. Without the hypothesis `PlacedIsMapped`
  is false (`Boot_unmapped.cfg`).
* `OutOfFramesOnlyWhenFull`: `Spec => []PanicOnlyWhenFull`, wherever the loader puts the
  initrd and whatever the proportions of pages, tables and memory. The loop that maps
  the kernel runs up to `placement_address`, which its own page tables move, so that it
  might run away. `RoomInv` says why it does not: a table is placed only at the first
  page of its range, so that `placement_address` is never farther from the directory than
  `TablesFor` the pages mapped so far (`TablesCounted`), and the identity mapping never
  gets beyond that or the end of the initrd (`FramesCounted`). A frame
  is missing then only if the heap, the identity mapping and its tables need more than
  there are.

**`ShellProofs`**: every screen, line buffer and history, every set of keys and all
values that commands show, under `TerminalConstants`, `ShellConstants` (the special
characters differ from each other and from letters), `ShownValues` (numbers are
integers, the version is a text) and `LineFits` (a line is no longer than the screen
without one row, as 255 is less than 24 * 80).

* `LineTypedIsRun`: `Spec => []RunsLineTyped`, for all keys. The invariant `Buffer`
  keeps the last byte of the buffer NUL, so that it always holds a C string
  (`StringEnds`, `StringEndsOnce`).
  `Record` relates the buffer and `buf_location` to the keys typed.
* `CursorStaysOnScreen` (`CursorWithinMargin`) and `LineStaysOnScreen` (`LineOnScreen`), for all keys,
  those without a character too. The invariant is `Display`: unless a line had
  more slips than `MARGIN`, the cursor is on the screen and no write has missed it; while a
  line is edited the cursor is as many cells behind the first one as the line still can
  move it back, with the slips that are left (`InLine`), and the cells before it hold the
  prompt and the characters typed if nothing has slipped. `CursorOnScreen` alone is not
  inductive, and not true (`Shell_cursor.cfg`): `terminal_back` tests nothing, and only the
  distance to the first cell keeps it on the screen. The lemmas say what one character and
  one backspace do to cells and cursor at the end of a line and of the screen
  (`LetterAdvances`, `BackspaceClears`). What a command prints matters only as a finite text
  (`OutputIsText`); for this the loops of `printint` and `printf` are proved to end.
* `NumbersPrinted` (`IntegersPrinted`, for every width of `int`): a numeral denotes its
  number. `NumeralDenotes` follows the loop of `printint`: the digit in front of the
  buffer is the last of the numeral, and the value of a numeral with one digit more
  (`ValueMore`) is the number before the division.
* `PrintfShowsPieces`: for a row of any number of pieces, each of which is a character,
  `%%` or a directive with an argument of any value (`IsPiece`), what `printf` prints is
  the concatenation of what the pieces show, and the value returned is its length or -1.
  The difficulty is that `printf` prints the text up to the next `%` in one round, so that
  its rounds do not correspond to pieces: a `%%` takes the text behind it along. `AtRun`
  therefore speaks of the state of the loop behind the run of plain characters that
  begins at a position, whether or not a round starts there. The induction goes from the
  last piece to the first (`RightAtEnd`, `RightBefore`, with one lemma for each form
  of piece: `PlainRun`, `PercentRun`, `DirectiveRun`). A `%` in front of any other
  character, after which `printf` shows the rest as it is, is modelled but no piece: no
  format of the kernel has one.
* `CommandsPrintArguments`: `Spec => []CommandPrints`, from the two, after the pieces of
  the run are shown to be such pieces (`PiecesRight`).

Two patterns recur. Induction over natural numbers (rounds of a loop, cardinalities)
is done by a least counterexample, with `NatLessThanWellFounded` and `WFMin`, since the
library's induction theorems take an operator. A function defined by recursion is
unrolled once it is proved that some function satisfies its equation, which is again
an induction.

**Only model-checked:**

* liveness (`EveryChildRuns`, `EveryProcessRunsAgain`, `EveryKeyTaken`, `TickServed`),
  which needs fairness and `ENABLED`;
* everything about the tree and the heap (`HarmlessUntilNull` by `Tree_shape.cfg`, `BlocksDisjoint`, `Coalesced`, `AlignedData`, `DoubleFreeIgnored`,
  `FreeGivesBackWithRoom`): `AvlTree` is made of recursive operators;
* the layouts of `Boot.cfg` that do not satisfy `InitrdBehind`, where `PlacedIsMapped` holds
  for some layouts only.

## 5. Not modelled

* Code that nobody calls: `reduce_heap`, `free_avl_tree`, `timer_wait`,
  `unregister_request_handler`, `serial_read`, `abort`, `panic_assert`. `write_fs`,
  `open_fs` and `close_fs` find no callback in any node.
* `print_avl_tree` and `page_fault` print and change nothing else; that `page_fault` stops
  is in `Interrupts`.
* `multiboot.h` declares the loader's structures; the loader is a choice of
  layouts in `BootMemory` and of a good or bad magic number in `Interrupts`.
* Page flags, colours, the hardware cursor, segment registers, and registers other
  than `eip`: which of them `switch_physical_proc` may lose depends on the code
  the compiler makes of `proc.c`.
* A timer switch inside `kmalloc` or `pmalloc`: `kernel_main` creates no second process,
  the test of `fork` being commented out.
* Byte copies, string comparison and port instructions of the C library, which the
  models use by what they compute.
* The contents of heap blocks, and with them the byte that `cmd_version` clears
  behind its block (sh.c:133).

## 6. Plan

1. Done: models of frames, tree, heap, boot, address spaces, scheduling, keyboard,
   shell, interrupts, serial port, initrd with its builder, `printf`; proofs for frames,
   keyboard, scheduling, address spaces, interrupts, initrd, boot and the shell on its
   terminal.
2. Left: the tree and the heap. Since wrong heights break the tree from nine blocks on
   (`tree_lost`), there is nothing to prove of it for every number of blocks;
   a theorem on the heap would have to say for which sequences of calls the tree stays
   whole, with the operations of `AvlTree` as functions instead of recursive operators.
