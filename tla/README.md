# PhoeniX OS: TLA+ models of the kernel

PhoeniX OS is an x86-64 kernel in C++. This directory holds models of the parts
of it whose correctness depends on order: locks, the scheduler, the page
allocator, the heap, the way their locks nest, the boot of all CPUs, and the
module loader with the ELF reader, the kernel linker, the memory of processes and
the PCI driver it starts. TLC checks the models on small instances; TLAPS proves
the central results for all instances.

## The system

`boot/bootstrap.s` (`x64_entry`) calls, in this order: the serial console, the
page tables, ACPI, interrupts, the scheduler, SMP bring-up, system calls, the
module loader; the boot CPU (BSP) then falls into `Scheduler::process_loop()`.
The other CPUs (APs) reach `process_loop()` from SMP bring-up, long before the
loader has finished, and run modules from then on. From the moment the interrupt
vectors are loaded, the BSP runs with interrupts enabled.

| Part | State | Operations | Talks to | Hard behaviour |
|---|---|---|---|---|
| Locks (`lock`) | one word per lock | lock, release, reader and writer forms, critical sections | everyone | word shared by bit fields, release without the lock prefix, retries |
| Scheduler (`scheduler`) | `nextThread`, `lastThread`, links, `cpuThreads`, list of processes, `m_pid` | timer, fault, exit, register, current process | interrupts, heap, processes | pointer surgery on several CPUs, deletes in and out of the lock |
| Page allocator (`pagetable`) | page tables, reserve ring, `last_page`, `max_page` | boot mapping, alloc, lowalloc, halloc, map, free | everyone | tables needed while mapping tables, a reserve that must not run dry |
| Heap (`heap`) | table of huge pages, table of allocations | alloc, free | page allocator | search by jumps, page boundaries, lack of memory |
| Interrupts (`interrupts`) | vectors, callback lists, fault barrier | handle, addCallback, mask | scheduler, console | nesting on kernel code, fault on one CPU while others run |
| SMP (`smp`) | boot pages, count of active CPUs | init (BSP), setup (AP) | ACPI, interrupts, system calls | waits on other CPUs, frees what they boot from |
| ACPI (`acpi`) | CPU list, id maps, APIC addresses | table walk, start of CPUs | SMP, interrupts | loops driven by firmware data |
| Processes (`process`) | page table and sections of a process | add page, section, read, write, destroy | page allocator | partial tables, shared kernel tables |
| System calls (`syscall`) | MSRs, table of names | puts, exit, kread, ioprovide | scheduler, console | run with interrupts off |
| Loader, ELF, linker (`moduleloader`, `readelf`, `kernlink`) | image under construction | parse, bind, link, start | processes, scheduler | runs with interrupts on beside running modules |
| Lists (`dynlist`) | chunked array | insert, remove, index | page allocator | chunk boundaries |
| PCI driver (`modules/driver.pci`) | word of scanned buses, stack of calls | scan of buses, devices, functions | system calls, port bitmap | recursion over data of the machine, marks that wrap around |
| Others | | formatting, SHA-2, CPUID, random numbers, port I/O, boot structures, ACPI driver | | none that concerns order |

What has to be right: a writer is alone and readers are counted; a thread is on
one CPU or queued once, never lost, and its node is never used after it is
freed; a fault of user code ends that process and nothing else; a page or a
byte has one owner; the page allocator always has a table page when it needs
one; CPUs never wait for one another in a circle; a module that runs has the
image, the stack and the ports its file asks for and nothing else, and what it
had is free once it is gone; the PCI driver announces every device once; the boot
ends.

## Modules

| Module | Models | Reads as |
|---|---|---|
| `RWLock` | what a reader/writer lock promises | abstract specification |
| `RWMutex` | `RWMutex` of `mutex.hpp`, one action per memory access | `raw` is the word; `tmp[c]` the register of CPU c in a read-modify-write; `pc`, `op` the place in the function |
| `RunQueue` | a FIFO queue of threads and the CPUs that run them | abstract specification |
| `Scheduler`, `MCScheduler` | `scheduler.cpp` at the level of pointers; one action per stretch of code under one holding of the lock, `exitProcess()` one per turn of its loop | `next[n]` keeps stale links, `nodes` is what is not deleted, `Garbage` what a freed node reads as |
| `Pagetable`, `MCPagetable` | the allocator of `pagetable.cpp` | `pt` holds present entries, tables with their pages, the reserve ring; a call is one action, as page_mutex makes it |
| `Heap` | `Heap::alloc()`, `Heap::free()` | one action per label of the function |
| `KernelLocks` | the composition: which path takes which locks, and where it can be interrupted | `stack[c]` the paths CPU c is on |
| `Boot`, `MCBoot` | from ACPI to `process_loop()` on every CPU: `acpi.cpp`, `smp.cpp`, `smp_init.s`, the timer and fault paths of `interrupts.cpp` | `pc[c]` the place of CPU c, named by its APIC id; `root`, `entry`, `item` the place in the ACPI tables, `ParseApic` one entry of the MADT; `vectors`, `timer`, `ready` the CPUs set up so far |
| `ChunkList` | `List` of `dynlist`: pages of items chained to one another | a list is a sequence of chunks, each with its page and its items |
| `ProcessMemory` | `process.cpp`: page tables, sections, reading and writing, port bitmaps, what `~Process()` frees and in which order | operators on `sys`: physical memory, and for each process the tables and pages it has |
| `Loader` | `modules.cpp`, `readelf.cpp`, `kernlink.cpp`: one action per stage of a file (header, segments, fixing, dynamic table, symbols, relocations, requirements, linking, stack, registration) and per way out | `pc` the stage, `job` the local variables, `obj[q]` the Process objects, `linker` the KernelLinker |
| `PciScan` | `driver.pci/main.cpp` | `calls` the recursion as a stack, `checked` the word of marks, `provided` what was announced |
| `Modules`, `MCModules` | the composition: the loader on the boot CPU beside CPUs on which modules scan, exit, fault and are destroyed page by page; files and machines for TLC | |
| `RWMutexProofs`, `SchedulerInv`, `SchedulerProofs`, `HeapProofs`, `KernelLocksProofs`, `BootInv`, `BootProofs`, `PciScanProofs` | theorems | |

`PROJECT.json` maps each definition to source lines. Definitions introduced by
"A mistake:" are variants with a plausible bug, each of which violates the
property it is listed with.

**The stray flag.** `SwitchProcess()` puts the outgoing thread at the tail of the
queue but keeps the `next` link of its earlier place. Once a CPU takes a node
that a stale link led to, the queue is no longer a queue. `Scheduler` sets
`stray` in the step in which this first happens (`LeavesQueue`); the invariants
of the scheduler are stated for the states before it, and the run `sched_boot`
shows where it leads. On one CPU without exits or faults it cannot happen, and
`sched_up` checks the unconditional properties.

**The odd flag.** `Pagetable` sets `odd` when a small page is mapped inside a
huge one, in which case `_map()` takes the huge page for a table.

**What the properties of modules leave out.** Some files make the loader do what
nobody can have meant, and the properties name them. `ImageRight` is stated for
files in which no symbol's value is also the offset of a segment that is mapped
elsewhere (`OffsetsRight`: the reader takes the value for an offset in the file
first, `readelf.cpp:249`)
and in which no segment ends exactly where another's first page begins
(`EndsApart`: `addSection()` takes one page more than the size asks for and looks
for a gap at the first page only, `process.cpp:131`). `LoaderEnds` leaves out a
module that asks for all 65536 ports: the loop at `process.cpp:230` counts in 16
bits and never ends. `AllProvided` promises completeness on machines whose host
controller has one function and whose buses have bits of their own in the word of
marks (`PlainMachine`): `1llu << bus` gives bus 64 the bit of bus 0
(`driver.pci/main.cpp:159`), and the loop over the functions of the host ends at
the first one that *is* there (`:171`). That no device is announced twice holds
on every machine. The instances contain such files and machines, and the other
properties hold with them.

## Runs

| Run | Instance | Shows |
|---|---|---|
| `rwmutex` | 3 CPUs | exclusion, agreement of the word with who is inside, refinement of `RWLock`, progress |
| `sched_smp` | 2 CPUs, 3 processes, faults and exits | threads run alone, no dangling pointer, none lost, ids unique, user faults contained, FIFO until stray |
| `sched_up` | 1 CPU, 4 processes | refinement of `RunQueue`, everyone runs, boot completes |
| `sched_boot` | 2 CPUs, 3 processes, one exits | violated: the boot need not end (finding 1) |
| `pagetable` | tables of 16 entries, reserve of 8, 6 calls | the reserve is never found empty nor handed out unready, a page has one use and none is lost, nothing clobbered, only free unmaps |
| `pagetable_boot` | reserve of 16 as in the code, 8 far areas | violated: memory initialisation need not end (finding 2) |
| `heap` | 4 huge pages in two groups, sizes below and above a page | disjoint, contained, returns while there is memory |
| `locks` | 3 CPUs, all paths but exit | no circle of waiting CPUs, the loader ends |
| `locks_boot` | 2 CPUs, exit | violated: circle through heap and scheduler locks (finding 3) |
| `boot` | 3 CPUs with ids that are not contiguous, 4 kinds of firmware, 2 modules, faults on 2 CPUs | own stack and slots per CPU, startup page held while in use, user code only on CPUs that are set up, the boot ends, a kernel fault stops all CPUs |
| `modules` | 17 files in 5 boots, 5 machines, one CPU beside the boot CPU | a page has one owner and is free again in the end, the list of processes is right, a process has the ports it asked for and no others, a running module has its image, devices are announced once and none is left out, the loader ends |
| `boot_xsdt` | the same CPUs, tables listed in an XSDT | violated: the boot need not end (finding 4) |

Bounds. Three CPUs are enough for a reader, a writer and a third that retries.
Two CPUs and three processes give a queue with an inner node while both CPUs are
busy; the stale link needs that and no more. In `Pagetable` a table has 16
entries in place of 512 and the reserve 8 in place of 16, which keeps the ratio
that matters (a refill must not need more tables than the ring holds); `MaxCalls`
bounds the calls that change what is mapped. `Heap` uses pages of 4 bytes with 2
bytes in place of 4 KB; the huge pages 4, 8 and 16, 20 form two runs, so that
blocks cross a boundary both where the next page is there and where it is not.
`MaxTicks` bounds interrupts in `KernelLocks` and `MaxWork` the operations of
the loader; each operation is independent of the ones before it.
In `Boot` two application CPUs are in the startup code at once while the boot CPU
waits; `Width` is 6 in place of 256, above the number of entries of the MADT,
which names the boot CPU twice since `SMP::init()` provides for it. All listed
CPUs exist and answer: the code has no time limit for one that does not.
`MayFault` says which CPUs may fault in kernel code. In a root pointer's tables
there is one MADT, which names the boot CPU and has fewer entries than the counter
has values (`MadtOk`); `ParseApic()` does not look at the flag that marks a CPU as
disabled.
In `Modules` a page has 8 words, a table 4 entries, a page of a list 2 items and a
page of stubs 2 stubs, so that segments, tables, lists and stubs all cross page
boundaries; a process has 16 ports in two bitmap pages; the word of marks has 2
bits for 4 buses. The files are two modules that run, one for each order of the
dynamic table, files with one defect each for every refusal of the reader, the
linker and the requirements, and the special files named above; the blobs put a
file that is refused before, between and after good ones. `Turns` bounds the
interleaving: the other CPUs go on while the loader is at one of five stages of a
file (before it is read, linked, given its stack, while its scraps are freed, and
when all is done), where between them it holds or has just released everything it
ever does; page_mutex makes each allocation one step. `Others` = 1 process is
destroyed at a time, page by page. Machines have up to 4 buses of 2 devices with 2
functions, with a bridge that leads back.

Fairness. A CPU that can take a step takes it in the end (weak fairness): each
CPU runs on its own. Taking a spin lock needs strong fairness, for the bus
arbitrates among CPUs that try at once; with weak fairness alone, a writer in
`wlock()` could keep a leaving reader from the spin bit for ever (its pre-check
requires readers *and* a writer to give up). User code owes nothing: exits and
faults are never assumed to happen. In `Boot` the timer of a CPU ticks again and
again once it is started, as it is programmed to be periodic. In `Modules` the
boot CPU keeps executing the loader (`LoaderRuns`), which is the weak fairness of
its step written out; modules owe nothing.

## Proofs

* `RWMutexProofs`: type correctness, agreement of the word, exclusion and the
  refinement of `RWLock`, for every set of CPUs. The invariant adds that at most
  one CPU is between `slock()` and `srelease()`, that the word it holds in its
  register is the word in memory, and that the counts in the word are those of
  the CPUs inside, adjusted by the update under way.
* `SchedulerProofs` (with lemmas in `SchedulerInv`): type correctness, threads run
  alone, no dangling pointer, no thread lost, containment of user faults, unique
  ids, for all CPUs and processes. The inductive invariant says that until `stray`
  there is a sequence of distinct live nodes which the links follow from
  `nextThread` to `lastThread`, disjoint from the nodes on CPUs and from those
  about to be deleted; that every registered node is in it, on a CPU or about to
  be deleted (`NoneMissing`); and that the walk of `exitProcess()` is inside it.
  Ids need no `stray`: a new id exceeds all that are read, because a finite
  set of numbers has a bound that the search for the maximum reaches.
* `HeapProofs`: types are kept, blocks are disjoint and contained, for all page sizes and
  requests. The invariant adds that past the check of pages, every page the loop
  visits is the heap's; the arithmetic is that steps of 2 MB from the 4 KB page
  of the first byte leave no byte out.

* `KernelLocksProofs`: a CPU releases only what it holds, for any set of CPUs,
  system calls and devices; and no circle of waiting CPUs, for any set of CPUs, as
  long as no process exits and no device interrupts (`Quiet`; finding 3 and the
  last section say what happens otherwise). Every path is shown to match a table
  (`Has`) of the locks it holds at each step, by composing the tables of its parts;
  the invariant says that a lock's holder is the CPU one of whose paths has it in
  the table, and that a path that was interrupted holds at most the lock of the
  heap or of the console. A CPU that holds a lock then waits only for one of lower
  rank (page_mutex below processSwitchMutex below the other two), and ranks cannot
  go down for ever.
* `BootProofs` (with lemmas in `BootInv`): the types, own stacks and slots, the
  startup page and the set-up before user code, for every set of CPUs, every width
  of the counter and all firmware that `BootAssumption` allows. The invariant says
  for each CPU what its place implies, and what the walk over the tables has
  counted and mapped so far; that the count of active CPUs never exceeds the CPUs
  that have counted themselves is what keeps the boot CPU from freeing the startup
  page early.
* `PciScanProofs`: what the driver announces, for any numbers of buses, devices,
  functions and marks, on every machine. `OnceInv` says that the calls under way are
  of different buses, all marked, and that an announced function is behind the
  position of its bus; `AllInv` adds that a function of a marked bus is announced,
  followed, or still to come in a call under way. Completeness follows since the
  marked buses are then closed under bridges, and the reachable ones are the least
  such set.

Assumptions are the named ASSUMEs of the modules. Liveness, the refinement of
`RunQueue`, and everything about `Pagetable`, `ProcessMemory` and `Loader`, which
are built on recursive operators, and about `ChunkList`, whose operators `Loader`
uses, is only model-checked.

## Findings

1. A stale link in the run queue (`scheduler.cpp:66`): a thread can be on two
   CPUs, or `exitProcess()` loops with the lock held.
2. The page-table reserve (`pagetable.cpp:424`) is refilled too late.
3. Lock order (`heap.cpp:32`, `scheduler.cpp:50`, `:224`): interrupts in the
   heap's critical section and deletes in the scheduler's.
4. The loop over the XSDT (`acpi.cpp:166`) does not advance.

`docs/boot.md` also lists SMP before the interrupts manager; `x64_entry` calls
them in the other order, which SMP bring-up needs: its `hlt` is ended by the
timer.

## Not modelled

* Device interrupts that print, in the runs of `KernelLocks`. The model has them
  (`Devices`), and the proof of `ReleasesOwn` covers them. With them a handler that
  prints about an interrupt nobody handles (`interrupts.cpp`) can stop the loader
  inside the console's `write()` and wait for its mutex (`puts.cpp:18`): the CPU
  waits for itself. Nothing in the repository says that it does not, so that no
  run states it; `NoCircle` and `LoaderEnds` are stated without such devices.
* `Mutex::try_lock()`, `queueThread()`, `dequeueThread()`: nobody calls them.
* Access rights of pages, the relocation of the kernel and the EFI start in
  `pagetable.cpp`: what is mapped where does not depend on them, or is decided
  before the first call the model has.
* The callback lists of `interrupts.cpp`: callbacks are only added, during the boot.
* `print_stacktrace()` and the names of processes: only read.
* Text formatting, SHA-2, CPUID, random numbers, port I/O, byte loops, the layouts
  of firmware and ELF records, the ACPI driver, and the assembly that switches CPU
  modes: they have no order of events to get wrong.
* Translation caches and the two-byte accesses of `Mutex` to a one-byte field: they
  depend on the hardware and on the build.
