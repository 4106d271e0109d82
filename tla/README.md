# A TLA+ model of HumanOS

HumanOS is a small x86 kernel: one CPU, a round-robin scheduler, Ring 3 processes
that enter the kernel by `int 0x80`, a page allocator and a heap, a keyboard and
text console, a timer, paging, and a file system and a program loader on an ATA disk.
This directory holds TLA+ modules that model its parts, TLC configurations that check
them on small instances, and TLAPS proofs of their safety properties for every instance. `PROJECT.json`
maps each definition to the lines it stands for, and lists runs, mutants, hazards
and theorems.

## The parts and how they meet

| part | source | module | status |
|---|---|---|---|
| scheduler, time slices | `kernel/scheduler.c`, `pit.c`, `arch/i386/interrupts.s` | `Scheduler` | modelled, proved |
| the same calls, interruptible | `kernel/scheduler.c` | `SchedulerPreempt` | wait and exit only; proved |
| semaphore, spinlock | `kernel/semaphore.c`, `spinlock.c` | `Semaphore` => `SemaphoreSpec` | modelled, proved |
| page manager | `kernel/pmm.c`, boot in `main.c` | `Pmm` => `PmmSpec` | modelled, proved |
| paging | `kernel/paging.c` | `Paging` over `Pmm` | modelled, proved |
| heap | `kernel/heap.c` | `Heap` over the pool of `PmmSpec` | modelled, calls atomic; proved |
| program loader | `kernel/elf.c` | `Elf` over `Heap` | modelled, proved |
| keyboard, `SYS_READ` | `drivers/keyboard.c`, `kernel/syscall.c` | `Keyboard` => `KeyboardSpec` | modelled, proved |
| console | `drivers/vga.c` | `Vga` | modelled, proved with the shell |
| shell | `kernel/main.c` | `Shell` over `Vga` | line editing and history; proved |
| timer | `kernel/pit.c` | `Pit` | modelled, proved |
| disk driver | `drivers/ata.c` | `Ata` => `AtaSpec` | modelled, proved |
| file system, power | `kernel/vfs.c`, `kernel/power.c` | `Vfs` => `VfsSpec` | modelled, proved |
| dispatch, tables, exceptions | `syscall.c`, `gdt.c`, `idt.c`, `isr.c` | (in the above) | only what the above use |
| user C library | `user/libc.c` | none | no caller, see below |
| serial, CPUID, boot code | `serial.c`, `cpu.c`, `boot.s` | none | pure I/O |

`A => B` reads "A is checked to implement B".

What makes a step atomic is the interrupt flag. IRQ0, IRQ1 and `int 0x80` enter
through interrupt gates (`0x8E`, `0xEE`), so a handler runs to its end or to its
context switch. Code that runs with interrupts enabled may be preempted between
any two memory accesses: that is the setting of `Semaphore`, `SchedulerPreempt`,
`Paging`, `Elf` and `Pit`, and, for a shutdown that cuts a transfer off, of `Ata`.
In the tree as it is, nobody calls `process_wait`, `process_kill`,
`scheduler_add_process`, the semaphore, `pit_sleep`, `page_map` or `page_unmap`. `Scheduler` takes the first three under
the gate discipline; `SchedulerPreempt` shows that process_wait and process_exit
need it.

## State and actions

**Scheduler.** The variables are the statics of `scheduler.c` and the fields of
`process_t` by slot. A stack is named by the slot that owns it, so `esp[i]` says
whose stack the saved frame is on, `cpu` on whose stack the CPU executes, `tss` to
whose `TSS.esp0` points. `bypass` counts, as history, the switches that passed a
READY process over. Every action is a whole handler: `Irq0` is the stub,
`pit_handler`, `scheduler_tick` and the yield; `process_exit` marks, wakes and
yields. `process_wait` ends at its first yield and `process_wait_loop` is one more
round of its loop.

**SchedulerPreempt** extends it with `step`, the statement a process is at, and
splits wait and exit there.

**Semaphore.** One step per memory access, with `count--` a read and a write. One
CPU goes round the table, by preemption or by the yield in `sem_wait`. A process may
exit, or kill another wherever that one is, between two of its own calls.

**Pmm.** `bitmap` is the set of bits that are set. Boot is one step per page of its
loops, so the counters are built by `pmm_mark_free` and `pmm_mark_used`. `Boots`
holds the machines: a memory map, a size, or no multiboot loader. The loop over the
regions of a map is taken in page order, which frees the same pages.

**Paging** extends it. `paging_init` is one step per page it allocates; it is the
first caller of the page manager. `page_map` and `page_unmap` are a store and an
`invlpg` (the compiled code has one store of the entry), by callers that interleave;
`Walk` and `Evict` are the processor filling and dropping its cached translations.
`halted` is the end of `isr_handler`, reached where the tables lie beyond the identity
map. Callers leave the kernel's pages and the tables' own pages alone.

**Heap.** The block list is a sequence; a block knows its first page and its size,
as its header does. The model stops once a new header is written over a block of the
list (`intact`), since the list then holds arbitrary data: this is why its runs do
not check deadlock. Sizes wrap at `LIMIT`, 2^32 in the code.

**Elf** extends it. `elf_run` goes through the program headers one step each; the
processes that already run allocate and free in between (`Processes`). A file is its
headers, its entry and whether `elf_validate` takes it. A load that fails keeps its
segments, as in the code.

**Keyboard.** `keyboard_handler` per scancode, `SYS_READ` per count.

**Vga, Shell.** The screen is a value, characters are functions on it. One action
per kind of key. A command is the text it prints.

**Pit.** The counter, and one sleeper: each read of the 64-bit counter is two loads, in
either order. `hlt` ends with the clock or with any other interrupt.

**Ata.** The registers of a channel are shared by its two drives, and its `drive` is the
latch the last write to the drive/head register left. A call is a step per wait. A drive
may take longer than the driver's loops, fail, or answer when nobody waits any more.
`AtaSpec` is the disk `Vfs` stands on: a sector is transferred whole or not at all.

**Vfs.** A call is a step up to its first sector write, and a `job` of the writes
left. Between two writes the power may fail or another process may reboot. A
transfer is whole or fails, and the failure goes unnoticed, as in the code. `VfsSpec` is
what a user may rely on: a call works on one file, and that file is what the call makes of
it once the call completes; nothing is promised of a file whose own call failed or was cut
short, nor of any file after a boot that could not read the table (`Lose`).

## Runs

| run | instance | shows |
|---|---|---|
| `sched` | 4 slots, 2 ticks a slice | single RUNNING process on its own stack, TSS, no lost wakeup, bounded bypass, final termination; no starvation, waits return |
| `sem` | 3 processes, 2 units, kills | mutual exclusion, refinement, progress |
| `pmm` (`MCPaging`) | bitmap of 2 words of 4 bits, 14 boots, a table of 6 entries, 2 callers | counters, no double allocation, kernel kept, only usable RAM, refinement; tables kept, translation cache coherent |
| `heap` (`MCElf`) | 4 pages with a hole, sizes modulo 64, 3 programs | totals, sizes, coalescing; programs start inside their image |
| `keyboard` | ring of 4 | queue refinement, prefix |
| `devices` (`MCDevices`) | all 80 sets of drives, 2 sectors; words of 8 ticks | the driver's disk and the latch agree, refinement; sleeps last and end |
| `shell` | 5 x 2 screen, line of 3, history of 2 | echo equals buffer, history order |
| `vfs` | 2 entries, 3 names, 2 faults, 2 boots | completed calls last, names unique, refinement |

Four runs expect a violation of what a document or comment says:

* `preempt_wait`: a process BLOCKED in `process_wait` may stay so after its target
  has terminated, because a preempted `process_exit` is never scheduled again.
* `heap_overlap`: a block's `size` may cover pages that are free or another block's,
  since `kfree` merges list neighbours and returns the merged pages.
* `shell_history`: the up arrow goes on past the last ten commands.
* `vfs_welcome`: boot writes the welcome file although other files exist.

`MCDevices` checks the clock and the disk driver in one run. They share no state and
neither calls the other, so each behaviour has one of them move.

**Bounds.** Four slots let KernelMain idle while one process waits, one terminates
and one competes. Fourteen boots cover each clamp, a region that starts or ends in
a page, spare bits in the last word, and memories that leave one page, none, or only
pages beyond the identity map for the tables. Two callers and a page outside the table
(`Remapped`) show every order of stores and flushes. Four pages with a hole make a
two-page block non-contiguous, a request of 62 wraps the sizes, and `MaxTotal`
stops the heap after enough merges. `MaxLoads` lets a second load run over what the
first left. `MaxTicks` (13) passes the carry into the high word at 8; delays whose
product with `RATE` is 0, below and above the word are used. Ring
and history are one longer than what fits, so their indices wrap. `MaxEntered`
exceeds the history; the line and the prompt just fit a row, as 16 + 63 < 80 in the
code. The command Tab completes fills the line and loses its space; the file name leaves
room. `MaxFaults` and `MaxBoots` allow a fault in a call, a crash in it, and one more
of each. Nothing in `Scheduler` needs a bound: a slot is never reused.

**Fairness.** `sched`: the PIT interrupts for ever (WF on `Irq0`), and a process
in the loop of `process_wait` executes it. `sem`: IRQ0 keeps coming (WF); a process
that is given the CPU again and again when it can move does move (SF), since a slice
is 100 ms and an access is not; a live process that holds a unit gives it
back, which is the callers' duty. `devices`: the PIT interrupts for ever and the
sleeper is given turns (WF on each). `preempt_wait`: the timer, and the statements of a call (WF).

**Mutants.** Each property of a passing run is violated when one mapped definition is
replaced by its `Mut...` variant: a scan that does not wrap, a missing demotion, a check that
is dropped.

## Proofs

`SchedulerProofs` shows, for all `MAX_PROCESSES`, `QUANTUM` and `ExitCodes` within
`SchedulerAssumption`, that `IInv` is inductive. `OneRunning` and the others are not
by themselves: which process is next depends on who is READY, so `ExecutingNotReady`
is needed; a wakeup works because pids follow slots (`PidsInOrder`) and a BLOCKED
process names its target (`BlockedOnTarget`); the bypass bound needs `BypassPaid`,
which says that every switch that passes a process over brings the scan closer to it.
The heart is `YieldCorrect`: from states that meet `YieldPre`, a yield establishes
`YieldPost`, whoever called. Each action then only has to show that its states do.
`TerminatedIsFinal` follows as an action property.

The same module asks what is left of this when the timer strikes between the statements of
`process_wait` and `process_exit`, which loses wake-ups (`preempt_wait`). `PreemptInv` says
that KernelMain is never blocked or terminated (`IdleCanRun`), so that a yield always finds
someone; that a process inside `process_exit` is already TERMINATED and will not run again
once it is switched away (`ExitHalfway`); and that one inside `process_wait` names a process
of the table (`WaitingOnTarget`). It is inductive, and from it follow one RUNNING
process on its own stack with the TSS behind it, the bypass bound and final termination:
a preemption there can lose a wake-up, never a context.

`MemoryProofs` shows the same for the page manager, for every page size, word size,
bitmap size and set of boots within `PmmAssumption`: the machine has the 2 MB the
kernel is loaded into. The counters are exact because each routine changes one bit
(`SetBit`, `ClearBit`), and `AllocInMemory` shows that the first clear bit is a page
that exists whenever `free_pages` is not 0: a spare bit lies above every page, and
after a "map" boot it is set. `LoopBounds`, `KernelSoFar`, `MapPages` and
`BitsInMap` carry boot's progress. `Refinement` maps the clear pages to the pool.

Its second half shows that paging is, for the page manager, just another caller
(`PagingUsesPmm`), so that the first half carries over, and that `PagingInv` is inductive.
`TlbCoherent` needs `CacheFilled` (only present entries are cached, with paging on), and
`TablesKept` needs `TablesOwned`, which follows the directory from its allocation to the
moment paging is switched on. It assumes that the kernel is inside the identity map and
that nobody remaps it.

`SemaphoreProofs`: `IInv` adds to mutual exclusion that the lock is taken while someone,
dead or alive, is inside (`LockTaken`), and that a count read there is still the count
(`ReadIsCurrent`). The refinement counts the holders; `UnitsConserved` is proved only.

`DeviceProofs`, the clock: `PitInv` says that, without a carry, a loaded word lies between
its values at the call and now (`HalfRight`), so that the target is far enough
(`TargetRight`) and a read never overtakes the counter. The disk driver: `DiskSelected` is
inductive with `ProbeAlone` (no call before the probe is over) and `SectorLatched` (the
registers hold the sector of the call). The last carries the refinement of `AtaSpec`, for
any sectors, values and drives.

`KeyboardProofs`: with `IInv` (the slots between tail and head hold keys) each scancode
and each read of a byte is a step of the queue; the indices need a few facts on `%`.

`HeapProofs`, the heap: `HeapInv` joins types, `RequestFits`, `Coalesced` and the totals.
`MergeKeeps` says what a merge does to a list in which one block was just freed, and
`Released` puts the two merges of `kfree` together. The totals are sums over the list.
A sum is a recursive function, and what it needs (a block appended, changed or merged
away changes the sum by that block's size) is proved from the least index at which it
could fail, which stands in for induction. `HeapCorrect` is the result for
any processes that call `kmalloc` and `kfree`.

`BlocksKept` is proved from the same lemmas and says what the heap's callers rely on most: a
block in use stays as it is until its own `kfree`. (What `heap_overlap` shows is that the
pages behind it may not.)

The loader: `ElfInv` adds `LoaderInv`. `EntryLoaded` is about programs that have started
and is not inductive: the load in progress must be right so far (`ImageRight`), and every
segment loaded must keep a block of its own, since the processes free blocks between two
segments and a merge moves the blocks behind it. The argument is that the processes
free only blocks that hold no loaded segment (`Held`), and that a merge removes only free
blocks and shrinks none. The heap's properties are proved once more for this larger system, the one
the `heap` run checks.

`ShellProofs`: `EchoMatches` is not inductive: a backspace blanks one cell, so what is right
of the cursor must have been blank before, and scrolling brings up a row that must be blank
(`Tidy`); browsing shows lines from the history, so those must fit (`Line`). `ShellInv` says
this. `Prints` and `Erases` say what writing a text and erasing its end do to a screen that
shows a text; each key is then one or two of these. They rest on the assumption
that the prompt and a full line fit one row, 16 + 63 < 80 in the code, and go
through `vga_putc` with its wrap and scroll. The output of a command is any text: however
it wraps or scrolls, it leaves the screen tidy (`PutcTidy`).

`VfsProofs`: `CompletedCallsLast` is not inductive: a failed read makes a call work on the
table in memory, a reboot writes that table, and a crash forgets it. `TablesAgree` says that
the two tables agree on every file without a call in progress, `JobRight` that the running
call works on the entry of its own file, has written what it no longer has to write, and
ends with the table. `CallKeeps` treats what all calls share: a new table that
differs from the one read only in the entry of the call's file. The theorems hold for any
number of failed transfers and restarts. They say nothing of cut names and of
the welcome file, for which they are not true, nor, until the next call on it, of
a file whose own call failed or was cut short.

`IsFileSystemHolds` shows that `Vfs` implements `VfsSpec`. The mapping reads a file from
the disk, or gives `Unknown` while a call works on it and after one that went wrong
(`Promised`). A call starts with a `Begin`; its sector writes are no steps of the abstract
system but the last, which is `Complete`, or `CutShort` if a transfer failed; a boot is
`CutShort`, `Lose`, or nothing. That no other file changes on the way is `PromisedRight`, which the
invariant gives in every state.

The only assumptions are the `ASSUME`s of the modules, which every run evaluates.
Each inductive invariant was an invariant of its run before it was proved; `PreemptInv`,
whose run is one that ends in a violation, and `BlocksKept` were checked on the instances of
`preempt_wait` (with two exit codes) and `heap_overlap`.

Two remarks on the prover. tlapm 1.4.5 translates `Len` for its SMT solver with an
axiom that gives every value a length and is false of functions that are not
sequences. All leaves have also been checked with that axiom taken out, so none
of the proofs rests on it. And a sequence operator that a proof meets is written out in
the module (`Unlinked`, `Begins`), which keeps the obligations small.

Only model-checked: the liveness properties `NoStarvation`, `WaitReturns`,
`WaitsAreServed` and `SleepEnds`, since TLAPS does not handle fairness and ENABLED here.
Every other property of a passing run is a theorem.

## Not modelled, and why

* A timer interrupt inside `scheduler_yield_impl` when the yield was not made behind a
  gate: `irq0_stub` would save the old stack as the new process's. `SchedulerPreempt`
  splits wait and exit, and takes the yield in them as one step.
* A process switch inside one `kmalloc` or `kfree`. The list is then walked while
  another process changes it, and what the compiler keeps in registers decides.
* The bytes of loaded segments and the checks on their offsets; addresses that wrap.
* A drive that fails to store a sector after it has taken the data: the driver cannot
  tell, and `Vfs` has transfers that fail unnoticed.
* The user library. No program of the tree calls it, its string routines hold no state,
  and its wrappers do not use the numbers of `include/syscall.h`: getpid, yield, exit,
  malloc and write are 1, 2, 3, 4 and 6 in `libc.c`, and 4, 0, 1, 3 and 2 in the kernel.
* The commands of the shell other than the calls of `Vfs` and `elf_run`; the dispatch on
  the call number; descriptor encodings; serial, CPUID and boot code.

The contents of saved frames, colours, log text and port protocols stay out: no
property depends on them.
