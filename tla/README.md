# ParadoxOS in TLA+

A verification development for ParadoxOS, a 64-bit hobby kernel for the PC: a
window manager, a shell, ring-3 programs, a small file system on an ATA disk, a
page allocator, a heap and a scheduler, all on one CPU. The modules here model
the kernel's own logic, TLC checks them on small instances, and TLAPS proves
some of the results for every instance. Paths below are relative to the
repository (`src/kernel/...` are the kernel's sources, `user/` its programs).

## How the system runs

There is one CPU and, in practice, one thread: `kernel_main` initialises
everything and then loops for ever over `gui_tick(); hlt`. Everything else
happens in interrupt handlers, which run with interrupts off:

- **IRQ0**, the timer at 100 Hz: counts, and on every tenth tick calls
  `scheduler_schedule`, *before* `irq_handler` sends the EOI.
- **IRQ1**, the keyboard: `keyboard_handler` turns a scancode into a character
  and hands it to the ring-3 program that is active (stdin), else to the window
  manager (the editor or the args field), else to the shell. The whole shell,
  and every program launched at its prompt, runs *inside* this handler; its EOI
  is the last thing it does. Until then the controller delivers nothing of
  lower priority, another IRQ1 included.
- **IRQ12**, the mouse: assembles packets and accumulates button edges, which
  the next `gui_tick` takes.
- **int 0x80**: system calls, through an interrupt gate: IF is off inside.

The hard parts follow from that: handlers run between any two steps of the main
loop and share its globals without locks; a program can be launched by the main
loop and by the shell that interrupts it; one address holds the image of every
program and one variable the kernel context to come back to; the EOI is sent
early, late or by another context; and the disk can lose power between any two
sectors.

## Inventory

| component | state | operations | used by, uses | what makes it correct |
|---|---|---|---|---|
| processes and scheduler (`process.cpp`, `context_switch.asm`) | process table, PIDs, PCBs with links, ready queue head and tail, current process | create, destroy, add, remove, next, schedule, yield, exit | timer, `spawn`, SYS_YIELD, SYS_EXIT; uses the page allocator | the queue is a list of distinct READY processes, nobody overtakes, stacks are conserved, the EOI is owed once, a process resumes where it stopped |
| page allocator (`pmm.cpp`) | bitmap, total and used pages | init from the memory map, alloc page, alloc contiguous, free page | heap, stacks, paging | no page twice, only usable pages, the counter is the bitmap's |
| heap (`heap.cpp`) | linked blocks with headers | init, kmalloc, kfree, krealloc | PCBs, VFS nodes and contents | blocks tile the heap, allocations are disjoint, neighbours merge |
| disk file system (`diskfs.cpp`) | superblock in memory and on disk, file sectors | init and restore at boot, save | the editor's Save; uses VFS, ATA | what was reported saved is restored |
| ATA driver (`ata.cpp`) | whether there is a drive | init, read, write | diskfs, one sector at a time | what is reported done is done, on the medium |
| VFS (`vfs.cpp`) | a tree built once, contents of files in the heap | lookup, path, append, pop, write, run | shell, window manager, diskfs; uses the heap | a path leads back to its node, a text survives the moves of its buffer |
| user mode (`usermode*.{cpp,asm}`, `elf.cpp`, `syscall.cpp`) | `g_usermode_active`, `g_usermode_save`, the image, the stack page | launch, enter ring 3, system calls, return | Run in Files, the shell | each launch has its own image, stack and way back; interrupts are on again afterwards |
| stdin (`stdin.cpp`) | one line, its length, ready flag | push, read line | keyboard, SYS_READ | a line that is ready ends in a newline and reaches the program |
| keyboard (`keyboard.cpp`) | modifiers, a ring buffer nobody reads | handler | IRQ1 | each character goes to one consumer |
| mouse (`mouse.cpp`) | packet bytes, position, pending edges | handler, consume event | IRQ12, `gui_tick` | no click is lost |
| window manager (`gui.cpp`) | windows with their places, z-order, drag, focus, the Files window's directory and selection, editor file | tick, clicks, keys | main loop, keyboard; uses VFS, mouse | the stack lists the open windows once, a drag ends, a selection is one of the files listed, a window can be got back, a press hits what is seen |
| terminal (`gui.cpp`), VGA text (`vga.cpp`) | cells and cursor | putc | all output, of the main loop and of interrupts | the screen shows the end of what was printed, nothing is stored outside it |
| calculator (`gui.cpp`) | accumulator, operator, display | press | clicks | the display shows the sum typed |
| framebuffer, font (`framebuffer.cpp`, `font.cpp`) | back buffer in the heap, screen | fill, outline, blit, glyph, present | all drawing | what is drawn is clipped to the buffer exactly |
| shell (`shell.cpp`) | command line, current directory | commands | keyboard | the directory exists |
| paging (`paging.cpp`) | page tables | map, unmap, translate | nothing after boot; uses the page allocator | a page leads to the frame it was mapped to, tables are apart |
| timer (`timer.cpp`) | ticks | handler, sleep | everything that waits | sleeps end |
| interrupts (`idt.cpp`, `interrupts.asm`, `pic.cpp`) | gates, masks, in-service bits | dispatch, EOI | all | see scheduler and user mode |
| PCI (`pci.cpp`) | the list of functions found | scan at boot | `lspci`, the System Monitor | each function is listed once |
| boot (`boot.asm`, `kernel.cpp`, `gdt.cpp`, `tss.cpp`), serial | | straight-line set-up and output | | |

`PROJECT.json` lists the same parts with their status, the hazards of the code
at their lines, and for every definition the lines it stands for.

## The modules

| module | models | state to code |
|---|---|---|
| `RoundRobin` | the abstract scheduler: what `process.h` promises its client | `queue` is the ready queue as a sequence, `state` the states of the PCBs |
| `Scheduler` | `process.cpp`, `context_switch.asm`, the in-service bit of IRQ0 | the linked list by `ready_queue_head`, `ready_queue_tail`, `next`; a PCB is its PID; `resume` is where a saved context goes on, `rsp` how many words of its stack (`Frame`) it has; `in_service` the 8259's bit; `free_pages` what stacks come from |
| `PhysMem` | `pmm.cpp` and `heap_init`'s requests | `page_bitmap` is the set of pages whose bit is 1; `held` (history) the blocks given out |
| `Paging`, `PagingMC` | `paging.cpp` over `PhysMem`, which it extends | `entries` are the tables and what is in them; `call` a `paging_map` under way, level by level; `mapped` (history) what it was told |
| `Heap` | `heap.cpp` | `header` maps a block's address to its header; `given` (history) what clients asked for |
| `Contents` | the contents of files, over `Heap`, which it extends | `file` has the nodes' `content`, `len` and `cap`; `memory` is every byte of the heap; `written` (history) the text a file should hold |
| `DiskFs`, `DiskFsMC` | `diskfs.cpp` over `ata.cpp`, with the editor's keys | `super`, `data` are the disk, `g_super`, `g_loaded` memory, `text` the contents in the VFS; `save`, `buf` a save in progress; `safe` (history) what was reported saved, and how far later saves have written over it |
| `Ata` | `ata.cpp` and the drive | `pc` is which wait is polling, `call` the call it is of; `status`, `command`, `cache`, `platter` are the drive; `abandoned`, `rejected` (history) a wait that gave up, a write the drive failed |
| `Ring3` | `run_user_elf`, `elf_load`, `usermode.cpp`, `usermode_asm.asm`, SYS_READ, SYS_EXIT, `stdin.cpp`, the routing of keys | `pc[c]` is how far the launch of context `c` is, for the main loop and for IRQ1; `saved_rsp`, `saved_if` are `g_usermode_save`; `seen` is the bitmap `pmm.cpp` has tested and not yet written; `crossed`, `torn` (history) where in a launch of the main loop the shell launched a program, and whether `spawn` ran between a test and a write of the bitmap |
| `ArgFrame` | `usermode_run_with_args`: a command line as words and bytes on the page that becomes the stack | `args` is the line; tokens, strings, pointers and the stack pointer are operators of it |
| `Desktop` | the window manager, the mouse packets that feed it, and the Files window over `Vfs` | `windows`, `z_order`, `g_drag_idx`, `g_files_dir`, `g_files_selected`, ... under their names; `tick` is how far `gui_tick` is |
| `ZOrder` | `z_bring_to_top` and `z_remove`, which `Desktop` and `Placement` extend | operators on `z_order` as a sequence |
| `Placement` | the window manager's geometry, in pixels | `place` is where each window is, `stack` and `cascade` are `z_order` and `g_next_cascade`, `drag` the window dragged and where it is held |
| `Terminal` | `gui_term_putc` and `vga_putchar` | `screen` is the cells, the cursor and whether a store fell outside; `term_pc`, `char`, `column` the main loop inside `gui_term_putc`; `ink` (history) the text on an endless roll |
| `Calculator` | `calc_press` and the conversions | `g_calc_display`, `g_calc_acc`, `g_calc_op`, `g_calc_fresh` under their names; `sum` (history) what was typed |
| `Framebuffer` | `framebuffer.cpp` and the glyphs of `font.cpp` | `back` is the memory around the back buffer, `hw` the screen's; `picture` (history) what the calls draw on an endless plane |
| `Pci` | `pci_scan_bus` | `space` is what is in the slots, `next` where the loops are, `pci_devices` the list |
| `PartsMC` | composes the modules that keep state of their own and call none of each other: extends `Contents` (and so `Heap`), `Ata`, `Pci`, `Terminal`, `Framebuffer` and `Placement`, which are proved about, and instantiates the others | `part` says which one a behaviour is of |
| `Vfs` | the tree of `vfs.cpp`, `vfs_lookup`, `vfs_path_of`, and `cmd_cd` as an operator | a node is its name, a path a sequence of names and slashes |
| `Console` | `keyboard.cpp`, the packet assembler of `mouse.cpp`, the line, `cd` and `sh` of `shell.cpp` | `modifiers`, `packet_idx`, `buffer_pos`, `g_cwd` under their names; `todo` the lines a command and the scripts it is in have still to run; `held`, `scancodes`, `phase` the keyboard's and the mouse's own state |
| `RoundRobin_proofs`, `Scheduler_proofs`, `Paging_proofs` (allocator and tables), `Parts_proofs` (heap, contents, disk driver, PCI, character screens, framebuffer), `DiskFs_proofs`, `Ring3_proofs`, `Desktop_proofs` (windows and their places), `Console_proofs` | the theorems and their lemmas | |

`Scheduler` composes with `RoundRobin` by refinement: the ready queue of the
abstraction is `ListSeq(List)`, the PCBs the head pointer reaches. `PhysMem`
contains the one client that matters to it at boot, `heap_init`; `Paging` adds
the page tables that grow out of it afterwards, beside its other users, and is
proved to be a use of it. `Contents` is the client of `Heap` that moves what it
holds. `Ring3` composes user mode with the keyboard, the shell's `spawn` (the
pages it takes), stdin and the page bitmap, because what it is about is their
interleaving; `DiskFs` composes the file system with the disk and the keyboard
for the same reason, `Desktop` the window manager with the mouse and the tree of
`Vfs`, `Console` the two PS/2 devices with the shell that runs inside the
keyboard's interrupt, over the paths of `Vfs`. The parts `PartsMC` and `InputMC`
put side by side are checked in one run each; a behaviour is of one of them, so
that their states add up and do not multiply. An action is a whole handler or
function where nothing can come in between, and a step of it where something can.

In each module a definition that stands beside the one the model uses and is
introduced as a way to get it wrong (`RemovedButForTheTail` beside `Removed`) is
the form used by `PROJECT.json`'s mutants: with it the named property fails.

### What the models leave out on purpose

- *Process creation*: the PCB's `kmalloc` succeeds; a full table and a failed
  `kmalloc` return before anything changes.
- *Context switch*: of the registers RIP and RSP are kept. What the model assumes
  of the build is the stack `switch_context` is entered with (`Frame`): with the
  Makefile's `-O2` `scheduler_schedule` jumps to it as its last act, so that its
  return address is `irq_handler`'s or the wrapper's of `sys_yield`, above which
  lie the registers these have saved. `switch_context` saves RSP while it points
  at that return address, and the address as RIP; to resume it loads RSP, pushes
  RIP and returns, so the context goes on with the return address still on its
  stack. What it then pops for its own return address (`ReturnsTo`) is a register
  it saved. A fresh context is started correctly. Where the code goes from there
  cannot be modelled: `astray` ends the behaviour, and everything `Scheduler`
  shows is about behaviours up to the first time a suspended context is resumed.
  With `SavedRsp == Depth(via) - 1`, which is the repair, `ResumedWhereSaved`
  holds in the same run (1 869 states). `RoundRobin` has no such limit: it is
  what the scheduler would do, and is checked and proved as such. It is safe
  only: that anybody gets the CPU is a question of which ticks the controller
  delivers, and so of `Scheduler`.
- *Exit of a process*: `Exit` is `sys_exit` with no ring-3 program active; with one
  it returns to the launch before it looks at the process, which is `Ring3`'s.
- *Page allocator without a memory map*: `pmm_init` gives up and every table stays
  empty; the empty map is the same, and the theorems about the allocator admit
  it. The run has no such map, since there the boot's page tables would lie
  outside all memory (`BootTablesAssumption`).
- *User mode*: what follows after `usermode_return` jumped into a frame of a
  handler that has ended ("lost") is not modelled either.
- *File system*: a sector write that succeeds is on the medium; one that fails may be;
  power fails between sectors, not inside one. The superblock is one sector
  here: the code writes three, but the five files of the VFS never need an entry
  past the first of them. The copy out of the file's buffer is one step. Data is
  blocks of two kinds and a zero.
- *Disk driver*: one sector per call, as every caller asks, and without the
  strings IDENTIFY returns. A wait is a million reads of a port in the code and
  an open number here. `TrueMeansDone` exempts what follows a wait that gave up
  and a write the drive rejected: there the code does report as done what was
  not: a flush that fails is taken for done, and after a command that was given up
  the next `ata_read` takes its DRQ for its own. `DiskFs` has neither.
- *Paging*: the addresses below 4 GiB, which `boot.asm` maps with 2 MiB pages:
  `paging.cpp` does not look at the size bit and would take such a page for a
  table. Nothing calls it after boot. `paging_identity_map_region` is a loop of
  `paging_map` that drops the results. The TLB is left out.
- *Heap*: `krealloc`'s copy is left out; nothing calls it. The contents are in
  `Contents`, for files. There, as in the editor, a key for which a buffer has
  no room is dropped. The comment at the
  top of `heap.cpp` says a block's size includes its header; the code, and the
  model, do not count it.
- *Console*: the case of letters, and so Caps Lock; `key_buffer`, which nothing
  reads; what a program or the window manager does with a key (in `Ring3` and
  `Desktop`). The user does not outrun the keyboard: a key is pressed when the
  scancodes of the one before have been read. Letters are Ctrl-J, Ctrl-H and one
  that stands for the others. A script is a sequence of
  commands that does not run itself: one that does recurses until the stack is
  gone.
- *User mode, the bitmap*: the pages are all in one byte of it, the case in which
  a write of a byte that has changed since its test can do harm. The compiler
  may set the bit in memory or store the byte it has tested; the build does the
  latter, the model allows both. `elf_load` puts every image at the one address
  programs have.
- *User mode, arguments*: the frame's stack pointer is a multiple of 8 and not
  always of 16; `crt0.asm` aligns it, and `ArgFrame` asks for no more.
- *Desktop*: where things are on the screen is in `Placement`, so that a press
  may hit anything here; only the left button is looked at by `gui_tick`. What
  is drawn inside a window is left out. A window dragged low is painted over the
  taskbar, while presses there go to the taskbar: `Reachable` speaks of
  what is above it. Six buttons fit the taskbar of a screen 980 wide, not of
  one 800 wide.
- *Terminal*: the main loop prints only glyphs and newlines with interrupts on.
  Inside `term_newline` the row is one too large for a moment, and an interrupt
  that prints then stores outside the cells; `TerminalRight` says that this is
  the only place. Colours are left out, and so is `vga_clear`, which clears the
  buffer nobody sees when output goes to the window.
- *Calculator*: the least number divided by -1 traps; the model stops there, and
  `CalculatorSound` shows that only a number too long for the word leads to it.
- *PCI*: every device has a function 0, as the bus requires. The registers that
  are only copied into the list are left out.

## What the runs check

TLC, `-workers 2`, each below two minutes.

| run | states | question and result |
|---|---|---|
| `RoundRobin_lone` | finds a counterexample | `KeepsItsTurn`: a process that is elected while it is alone stays READY, is therefore not queued at the next call, and never runs again. |
| `Scheduler_client` | 75 966 | Do linked list, table and switch implement the round robin (`RoundRobinSpec`), under every sequence of calls of a client that keeps to `process.h`? Also `QueueIsAList`, `StacksAccounted`, `EoiOwedOnce`, and what progress there is with the ticks the controller delivers and nothing else assumed: `FirstInLineGetsTheCpu`, while IRQ0 is not in service the process first in line comes next. Four PIDs over five slots, slot 0 being the idle process's, and seven pages: slots are reused, and three living processes leave one page, so that a fourth creation fails with one stack in hand. A full table refuses a creation before anything changes. |
| `Scheduler_resume` | finds a counterexample | `ResumedWhereSaved`: a process switched in again takes a register for its return address; see *Context switch* above. |
| `Scheduler_preempt` | finds a counterexample | `QueuedGetsTheCpu`: a tick switches to a process that is fresh, which never comes to the EOI of the tick. No other tick is delivered while it runs, and who waits in the queue waits for ever. The same without the fault of the context switch (`SavedRsp` repaired): it is one of its own. |
| `DiskFs` | 6.19 million | Two files, two slots, two sectors, texts of up to three blocks, a failure or a power loss at each write, keys in between: `SavedSurvives`, `OneSlotPerFile`, `OthersUntouched`. A foreign disk, an unreadable one and one with entries are all booted from. Reports are remembered of one file (`Watched`): what is promised of a file depends on no other's report, and the other file is saved, fails and is edited around it. A save that fails or is cut off has begun to write over the last good copy of its own file: what is left of that copy is in `SavedSurvives` too. The files differ in their order of creation only, and either may come first. |
| `DiskFs_empty` | finds a counterexample | `EmptyFileSurvives`: a file saved empty comes back with its default text. |
| `Paging` | 250 571 | Do page allocator and page tables keep their promises together, from `pmm_init` on? Five memory maps of 13 to 20 pages: flat, with a hole and a region that starts inside a page, regions meeting inside a page, a high address with little memory below, one where the heap's first request fails. Three virtual pages: two that share their last table, one under a table of the boot code. Pages run out inside a `paging_map`, and recycled pages become tables. `UsedPagesCounted`, `HandedOutOnce`, `OnlyUsablePages`, `FirstRunFound` of the allocator; `Translates`, `TablesApart` of the tables. |
| `Ring3` | 462 049 | Two programs, four pages, a line of three characters: a launch from Files, one from the shell inside it, a `spawn` between any two steps. `LaunchesApart`, `InterruptsRestored`, `LineEnds`, `FilesProgramReads`. Four pages are two stacks and a spawn, or a spawn and none left. |
| `Ring3_stacks` | finds a counterexample | `StacksApart`: `spawn` between a test of the bitmap and its write. |
| `Ring3_cat` | finds a counterexample | `EveryProgramReads`: `cat` at the prompt never gets its line, IRQ1 being in service. |
| `Input` | 323 840 | The console: nine keys, two held at a time, among them both Shifts and Print Screen; a line of three characters; every kind of path `cd` tells apart and a script that calls another; lost and stray mouse bytes until some point: `NoStuckModifier`, `LineFits`, `PwdLeadsBack`, `BackInStep`. Beside it the desktop: three applications in a table of four slots, Files rows of each kind, mouse packets between any two steps of a tick: `StackIsTheWindows`, `DragIsHeld`, `SelectionIsListed`, `PressReachesTick`. |
| `Parts` | 343 898 | Each part through everything it can do at small sizes, as below. |

The parts of `Parts`, and what their sizes reach:

- *The scheduler's promise* (`QueueOnce`, `CpuToTheLiving`, `NoOvertaking`): three
  processes, so that one runs while two wait. No process is queued twice or dead,
  the CPU belongs to the living, nobody overtakes.
- *Heap* (`Tiled`, `AllocationsApart`, `Coalesced`): every sequence of calls with
  five sizes on 28 bytes with headers of 3. Four blocks fit; sizes are on both
  sides of the split boundary.
- *Contents* (`TextKept`): two files and another client in the same 28
  bytes, first buffers of 2, texts of up to 4: two doublings, buffers freed and
  reused by the others, and growths for which there is no block.
- *Calculator* (`CalculatorSound`): words of 6 bits and sums of five entries; all
  four operators wrap, and the least number is reached.
- *Terminal* (`TerminalRight`): two rows of four columns with tabs every two, so
  that wrap, tab, erase and scroll meet in the corner; three lines of text.
- *Disk driver* (`TrueMeansDone`): two sectors, every order of calls, a drive
  that may be slow, fail, or be given up at every wait.
- *Argument frame* (`FrameSound`): every line of up to six characters, three
  words at most, on a page of 96 bytes.
- *Framebuffer* (`ClipExact`): three pixels by two in rows of four;
  rectangles, glyphs and sprites that begin and end on and off every edge.
- *Placement* (`Reachable`): the Files window, the calculator and an editor
  opened from Files on a screen of 1280 by 800; drags to two opposite corners,
  which are all four limits of a drag.
- *PCI* (`EachFunctionOnce`): two buses of two devices with three functions, a list of
  five: every mixture of kinds of device, of which many overflow it.

A counterexample is reported in `PROJECT.json` with the sentence of the
repository's documents that it contradicts.

`CHECK_DEADLOCK FALSE` is set where the behaviour may really end: in `Scheduler`
once a context is astray, in `Ring3` when a launch is lost or waits for ever, in
`Paging` when everything is mapped and no page is left, in `Parts` when the
calculator has halted the machine, a frame is shown or the scan is over.

### Fairness

- `RoundRobin`, and `Scheduler` in `Scheduler_resume`: none; they show only safety.
- `Scheduler_client`, `Scheduler_preempt` (`FairClientSpec`): weak fairness of a tick
  that the controller lets through (`Tick`, which needs IRQ0 not in service). The
  timer never stops raising it, and the main loop's `hlt` has interrupts on; what
  the code does not give, that a tick always comes, is not assumed. Processes
  need not yield or exit, clients need not call anything.
- `Ring3`: the CPU executes the kernel's own steps (`Step`), and a user who is
  asked for a line presses Enter. That programs exit, or read, is not assumed.
- `Console`: the CPU goes on with a command it has begun, pending interrupts of
  the keyboard and the mouse are delivered, and the mouse goes on moving.
  `BackInStep` speaks of the time from which no byte is lost and the bytes of
  movement have the sync bit clear (`steady`): a stream of bytes that all have it
  would never show the driver that it is out of step. Clear it is for movements
  of 0 to 7 to the right or up and of 9 to 16 to the left or down, and not for 1
  to 8 to the left or down, which are 0xFF to 0xF8: the assumption is a real one,
  and while a hand moves slowly to the left nothing is promised.
- `Desktop`: `gui_tick` is called after every `hlt`, and the timer ends every
  `hlt`. This assumes that a program launched by Run returns. Nothing is assumed
  of the user.

## What is proved

With TLAPS, for every value of the constants that the named assumptions admit.
Each inductive invariant was first checked by TLC on the instance of the run.

**`RoundRobin_proofs`** (from `IdleAssumption`: PID 0 is not handed out).
`TypeCorrect`, `QueueSafety`, `CpuSafety`: `QueueTypeOK`, `QueueOnce` and
`CpuToTheLiving` are invariants for any set of processes, also an infinite one.
None is inductive alone: that the queue has no duplicates needs that the current
process is not in it (a preempted process is appended), that the CPU goes to the
living needs that whatever is queued is READY, and that needs that only the
current process is RUNNING. The three are proved together, action by action,
from lemmas on what appending, removing and taking the head do to the set of
queued processes. `TurnsAreKept` is the action property `NoOvertaking`: appending
and removing leave what stays in the queue in its order (`InOrder`), and in a
queue without duplicates the order says who is ahead.

**`Scheduler_proofs`** (from `SizesAssumption`: numbers are numbers, and the
table has a slot for idle). First the linked list: `Holds(l, q)` says that the
links of `l` go through the sequence `q`, without repetition, to an end that the
tail points to. `ListSeq` reads that sequence, and appending, taking the first
and cutting one out of the list are those operations on the sequence; the walk
of `scheduler_remove` is shown to stop at the right place by taking the least
one. With it each action is the action of `RoundRobin` of the same purpose or
changes nothing it sees, so `RoundRobin`'s inductive invariant holds of the list
without being proved again. `TheQueueIsAList`, `ImplementsRoundRobin`
(`RoundRobinSpec`), and from `Tabled`, `Counted` and `Owed`:
`StacksAreAccounted`, and `TheEoiIsOwedOnce`, for which it matters that a switch
elects a process that is READY and not the current one.

**`Paging_proofs`** (from `PhysMem`'s `SizesAssumption` and `MapsAssumption`: the
loader's available regions share no page, which `pmm_init` relies on and does
not check; and from `VirtualAssumption`, that addresses are four indices, and
`BootTablesAssumption`, that the kernel's image, where the boot's tables are, is
in memory and not page 0). The allocator: `TypeCorrect` (the counter stays
between 0 and the total: it does not wrap), `Accounting` (`UsedPagesCounted`),
`Exclusive` (`HandedOutOnce`), `UsableOnly` (`OnlyUsablePages`) and
`RunsAreNotMissed` (`FirstRunFound`). The inductive invariant adds that every
clear bit and every held page is one `pmm_init` cleared and did not mark again;
the initial state needs that clearing counts each page once, a bijection between
the steps of the loop and the pages. That the scan misses no run follows from
the greatest used page before a run's end. The tables:
`PagingUsesTheAllocator`, every behaviour of `Paging` is one of `PhysMem`, because
each of its steps is a call of `pmm_alloc_page`, a call of one of the other users,
or leaves the allocator alone; so what is proved of the allocator holds of the
two together (`PagesKeptByPaging`). `TablesAreATree` (`TablesApart`) and
`TranslationIsTheLastMap` (`Translates`) rest on an invariant of the tables,
`Tree`: the levels are apart, and a table is linked from one entry. A call that
is under way is at the table its address leads to (`CallReached`). A table that
is linked is empty, and what linked it led nowhere before, so that no other
address is moved (`Linked`); an entry of a last table is one address's
(`Written`).

**`Parts_proofs`**, the heap (from `Heap`'s `SizesAssumption`: the heap is longer
than a header, and nobody asks for 0 bytes). `TheHeapIsTiled`,
`AllocationsNeverOverlap` and `FreedMemoryIsMerged`: `Tiled`, `AllocationsApart`
and `Coalesced` hold for any size of heap, header and alignment and any set of
requests. `Tiled` is not inductive: a block outside the list would satisfy it.
`List` adds that no block reaches into another, so that a block is the next of
one block at most (`OnePrevious`); the rest needs that no two free blocks are
neighbours and that the blocks in use are those the clients were given, each as
large as was asked. One lemma for each of taking, merging and freeing says that
it keeps the list; `kmalloc`, `kfree` and `krealloc` are put together from these
(`KmallocKeeps`, `KfreeKeeps`, `MovedKeeps`).

The contents (from `ContentsAssumption`: the first buffer and the other client's
block are not empty, and texts are texts). `TextsAreKept` (`TextKept`) uses those
lemmas: what `ensure_cap` leaves is `Ready`, a buffer that is large enough, with
the text in it and the bytes of every other block as they were, because no two
blocks overlap before or after. That its loop ends, and with enough, for every
need is `DoubledIsEnough`: the function the loop defines exists (`DoublingExists`,
extended downwards from the need by a least-element argument), and its result is
at least the need, as a greatest capacity below the need that fails would have a
double that fails.

The disk driver (without assumptions). `TransfersAreDone` (`TrueMeansDone`):
`InStep` says, for each wait of the driver, what the drive was asked and what it
has done by then, as long as no wait gave up and nothing was rejected.

The PCI scan (from `ScanAssumption`: buses, devices, functions and the list's
length are numbers). `TheBusIsListed` (`EachFunctionOnce`): what exists among the
addresses passed grows by the one the loops are at and by no other
(`NothingIsSkipped`), although they step over functions and over whole devices;
and a list that has the first functions passed, in order, has them again with the
next (`ListsNext`). What answers at functions 1-7 exists, because the loops look
there only in devices with the multi-function bit (`Scanning`).

The character screens (from `TerminalAssumption`: there are rows and columns, a
tab stop divides a row, and no glyph is a control character). `TheScreenIsTheText`
(`TerminalRight`): each character does to the screen what it does to the roll of
paper whose end the screen shows (`GuiTermPutcIs`, `VgaPutcharIs`). A tab is a
loop of spaces, whose result is found by a least number of spaces for which it
would be another (`TabbedIs`); that it ends at the next stop, and on the row, is
arithmetic with remainders (`StopIs`). The property is about the screen between
two calls; `TermInv` says of every place inside the main loop's that the screen
is the end of the roll once the rest of the call is done (`Finished`), and which
of its registers and fields an interrupt may find how (`Places`).
Drawing (from `FramebufferAssumption`: the screen has a size and its lines are no
shorter than its width, corners and sides are integers, a sprite has its rows).
`DrawingStaysInTheBuffer` (`ClipExact`). `back_row(y)[x]` gives each pixel of the
screen a cell of its own (`CellOfPixel`, by `Division`), and clipping a rectangle
leaves its pixels that are on the screen (`ClippedIs`); so a call keeps the
buffer the picture if it stores in the cells of its pixels on the screen, there
and nowhere else, what they are (`CallDraws`). Coordinates are integers without
a width: windows stay near the screen (`Reachable`), far from 2^31.

**`DiskFs_proofs`** (from `DiskAssumption`: a zero is no character, and files have
texts to begin with). `EntriesAreUnique` (`OneSlotPerFile`), `SavedIsRestored`
(`SavedSurvives`) and `SavesKeepApart` (`OthersUntouched`). `SavedSurvives` speaks
of a boot that may come at any time. It is kept because the entry of a file that
has a report is on the disk in one slot (`Keeps`), the same in memory until a
save of that file begins (`Saving`), and because a save owns its slot before it
writes anything (`SaveOwns`), also after earlier saves that failed and left their
entries. A report outlives a later save of its file: of what was reported, the
sectors beyond those that saves have begun to write since (`rewritten`) are still
there, and the whole of it when none has.

**`Ring3_proofs`** (from `ConstantsAssumption`: finitely many pages, none of them
0, and a line has a length). `LaunchesKeepApart` (`LaunchesApart`),
`InterruptsComeBack` (`InterruptsRestored`), `LinesEnd` (`LineEnds`). The
properties are about single states, but rest on who may move: while the shell is
at work the main loop stands still (`ShellLaunch`), and while a program runs the
keyboard does not reach the shell (`FilesLaunch`). `LaunchesApart` says of the
image, of the context and of the bitmap which command has to come at which place
of the main loop to spoil it. That `spawn` does is shown by `Ring3_stacks`. With
`ReturnsToLauncher` in its place TLC finds the launch at the prompt that comes
inside main's `usermode_jump` and takes over `g_usermode_save`: the first
program's exit then returns into a frame of a handler that has ended. A program that the shell launches between main's test of a bit and
its write does no harm, because it has given its page back before main goes on,
and the byte that main read is the byte of the bitmap again; `spawn` keeps its
page, and its mark is lost.

**`Desktop_proofs`** (from `WindowsAssumption`, `IconsAssumption` and
`ClickedAssumption`: a number of slots, the icons of Files and Terminal, and rows
that are nodes of the tree). `TheStackIsTheWindows` (`StackIsTheWindows`),
`DragsAreHeld` (`DragIsHeld`), `SelectionsAreListed` (`SelectionIsListed`).
`z_order` is an injective sequence over the slots in use; taking one out and
putting it on top are shown to keep that. A drag needs that the press that
begins it is still held, or its release pending, when the press is handled:
`PressSeen` in the driver and `PressTaken` in the tick.

The places of windows (from `PlacementAssumption`: the screen is 980 by 412 or
larger, so that six taskbar buttons and the calculator fit; the boot loader is
asked for 1280 by 800, `boot.asm`). `WindowsCanBeReached` (`Reachable`): `open_app` and every
tick of a drag leave a window `Grippable`, with 80 pixels of its title between
the sides of the screen and all of the title's height above the taskbar. A press
searches the windows from the top and the painting covers them from the bottom:
both end at the topmost window that the point is in (`HitIs`, `SeenIs`). There
are six applications and each has one window, so that there are six buttons at
most (`SixWindows`).

**`Console_proofs`** (from `LengthAssumption` and `ScriptAssumption`: the line
has room for its zero, and scripts are sequences of commands). `ModifiersComeOff`
(`NoStuckModifier`), `LinesAreTerminated` (`LineFits`), `PathsLeadBack`
(`PwdLeadsBack`). A modifier that is on is that of a key that is down or has its
release among the scancodes not yet read (`Backed`). `pwd` and `cd` are recursive
over paths; the tree is fixed and three levels deep, so both results are
exhibited and shown to satisfy the recursion.

The type invariants of `RoundRobin` and `PhysMem` are not run separately; in the other
state machines the type invariant is the first conjunct of a property that is.

Only model-checked, because it is out of the prover's reach: liveness everywhere
(`FirstInLineGetsTheCpu`, `FilesProgramReads`, `PressReachesTick`, `BackInStep`), and
what folds over sequences of any length result in, which needs induction over
data: the sums of the calculator and the argument frame. The violations are found by
TLC alone.

## Not modelled

- Boot and descriptors, serial output: straight-line code whose state no other
  part reads. Masks and the remapping dialogue of the PIC, for the same reason.
- Exceptions, which print and halt.
- `timer_sleep`: nothing calls SYS_SLEEP. It would not wake, as `hlt` runs with
  interrupts off there, and its product of milliseconds and frequency is 32 bits
  wide; but no sentence of the repository says what it should do.
- What is drawn inside windows, and the arithmetic of mouse movements.
- `mouse_init`'s dialogue with the port: only that an acknowledgement may come
  after `mouse_read` gave up on it, as a stray byte in `Console`.
- `elf_load`'s checks and copy, but that it overwrites the one image address:
  the images are linked into the kernel.

## Plan

Every safety property that needs no induction over data is proved. Left are, in
the models, the copy of a file's buffer byte by byte in `DiskFs`, the
segments of `elf_load`, and the movement of the mouse pointer in `Placement`.
