------------------------------- MODULE Loader -------------------------------
(***************************************************************************)
(* The module loader (moduleloader/modules.cpp) with the ELF reader        *)
(* (readelf/readelf.cpp) and the kernel linker (kernlink/kernlink.cpp), up *)
(* to registerProcess(), beside CPUs on which modules that were started    *)
(* exit or fault and are destroyed.                                        *)
(*                                                                         *)
(* A file is a sequence of words; its headers, its dynamic table and its   *)
(* symbols are also given as records, and what the reader rewrites of them *)
(* in the process is kept in `job'.  Names are strings; the text of the    *)
(* requirements is a sequence of the characters below.                     *)
(***************************************************************************)
EXTENDS ProcessMemory, ChunkList

CONSTANTS
  Files,        \* the files, by name
  Boots,        \* what may be there to load: sequences of blobs, sequences of names
  Memory,       \* the pages of physical memory,
  KernelPages,  \* those the kernel has,
  Shared,       \* those mapped into every process: descriptor tables, entry code
  TssPages,     \* the page of each TSS, in their order; two pages for the bitmaps of
                \* ports follow the last of them
  IstPages,     \* the page of the interrupt stack of each TSS
  InfoNames,    \* the symbols that describe a module
  Syscalls,     \* names of system calls
  StubWords,    \* words of a SyscallEntry (35 bytes)
  StubsPerPage, \* and how many a page has room for (117)
  Features      \* the processor features that CPUID reports

ASSUME LoaderAssumption ==
  /\ KernelPages \subseteq Memory /\ 0 \notin Memory
  /\ Range(Shared) \cup Range(TssPages) \cup Range(IstPages) \subseteq KernelPages
  /\ \A q \in Memory : q < StackBase
  /\ DOMAIN IstPages = DOMAIN TssPages
  /\ StubWords * StubsPerPage < PageWords

VARIABLES
  sys,        \* physical memory and the page tables of the processes
  boot,       \* what there is to load
  obj,        \* obj[q]: the Process object: file, entry, list of threads, state, and
              \* what its destructor has left to free
  processes,  \* Scheduler::processes
  pc,         \* where the loader is
  at,         \* the blob and the file in it
  job,        \* the local variables of the loader
  linker,     \* the KernelLinker: symbols, page of stubs, stubs in it
  started     \* history: the names of the files that were started

loaderVars == <<sys, boot, obj, processes, pc, at, job, linker, started>>

NoJob == [file |-> <<>>, k |-> 1, paddr |-> <<>>, dyn |-> <<>>, rels |-> <<>>, reqs |-> <<>>,
          min |-> 0, max |-> 0, i |-> 0, scrap |-> <<>>, then |-> ""]
NoLinker == [symbols |-> EmptyList, page |-> 0, num |-> 0]

LoaderInit ==
  /\ boot \in Boots
  /\ sys = [free |-> Memory \ KernelPages, mem |-> <<>>, proc |-> <<>>]
  /\ obj = <<>> /\ processes = EmptyList
  /\ pc = "next" /\ at = <<1, 1>> /\ job = NoJob /\ linker = NoLinker
  /\ started = <<>>

cur == Len(obj)         \* the process that is being built
FileOf(q) == Files[obj[q].file]
file == job.file
Base == CodeBase * PageWords

Goto(label) == pc' = label /\ UNCHANGED <<boot, at>>

\* What ~KernelLinker() frees: the list of symbols.
LinkerPages == <<[i \in DOMAIN linker.symbols |-> {linker.symbols[i].page}]>>

\* The file is given up: loadMemory() leaves the blob or goes on to its next file.
GiveUp(label) ==
  /\ Goto("drop") /\ job' = [job EXCEPT !.then = label]
  /\ UNCHANGED <<sys, obj, processes, linker, started>>

(* ~KernelLinker() and then ~Process(): the end of a turn of loadMemory(). *)
DropProcess ==
  /\ pc = "drop"
  /\ Goto("free")
  /\ job' = [NoJob EXCEPT !.then = job.then,
                          !.scrap = LinkerPages \o FreeOrder(sys.proc[cur], <<>>)]
  /\ linker' = NoLinker
  /\ obj' = [obj EXCEPT ![cur].state = "dropped"]
  /\ UNCHANGED <<sys, processes, started>>

-----------------------------------------------------------------------------
(* loadMemory(): the next file of the blob, ...                            *)
NewProcess ==
  /\ pc = "next" /\ at[1] <= Len(boot) /\ at[2] <= Len(boot[at[1]])
  /\ obj' = Append(obj, [file |-> boot[at[1]][at[2]], entry |-> 0, threads |-> EmptyList,
                         state |-> "new", todo |-> <<>>])
  /\ sys' = [sys EXCEPT !.proc = Append(@, Process)]
  /\ job' = [NoJob EXCEPT !.file = Files[boot[at[1]][at[2]]]]
  /\ linker' = NoLinker
  /\ pc' = "header"
  /\ UNCHANGED <<boot, processes, at, started>>

(* or the next blob: the modules of the kernel's image, then those that    *)
(* the boot loader brought along.                                          *)
NextBlob ==
  /\ pc = "next" /\ at[1] <= Len(boot) /\ at[2] > Len(boot[at[1]])
  /\ at' = <<at[1] + 1, 1>>
  /\ UNCHANGED <<sys, boot, obj, processes, pc, job, linker, started>>

AllLoaded ==
  /\ pc = "next" /\ at[1] > Len(boot)
  /\ pc' = "done"
  /\ UNCHANGED <<sys, boot, obj, processes, at, job, linker, started>>

(* readelf(): the checks of the ELF header.                                *)
ReadHeader ==
  /\ pc = "header"
  /\ IF file.elf
       THEN /\ Goto("progs")
            /\ job' = [job EXCEPT !.paddr = [k \in DOMAIN file.progs |-> file.progs[k].paddr],
                                  !.dyn = file.dyn]
            /\ UNCHANGED <<sys, obj, processes, linker, started>>
       ELSE GiveUp("break")

\* A program header of a type, or a segment with access rights, that is refused.
Refused(prog) == prog.type = "other" \/ (prog.type = "load" /\ prog.flags = "wx")

(* A segment is put at its page of the process and its words are copied.   *)
LoadSegment(prog) ==
  LET palign == prog.offset % PageWords
      words == SubSeq(file.words, prog.offset + 1, prog.offset + prog.filesz)
      section == AddSection(sys, cur, CodeBase + prog.vaddr \div PageWords, prog.memsz + palign)
  IN  sys' = WriteData(section.s, cur, section.addr + palign, words)

(* One program header; after the last, the headers are copied to the base. *)
ReadProg ==
  /\ pc = "progs"
  /\ IF job.k > Len(file.progs)
       THEN /\ sys' = WriteData(sys, cur, Base, SubSeq(file.words, 1, file.headers))
            /\ Goto("phdr") /\ job' = [job EXCEPT !.k = 1]
            /\ UNCHANGED <<obj, processes, linker, started>>
     ELSE IF Refused(file.progs[job.k]) THEN GiveUp("break")
     ELSE /\ IF file.progs[job.k].type = "load" THEN LoadSegment(file.progs[job.k])
                                                ELSE UNCHANGED sys
          /\ job' = [job EXCEPT !.k = @ + 1]
          /\ UNCHANGED <<boot, obj, processes, pc, at, linker, started>>

-----------------------------------------------------------------------------
(* readelf_find_load_addr(): where an offset in the file was loaded to,     *)
(* with the physical addresses as they are now.                             *)
FindLoadAddr(paddr, offset) ==
  LET fit == {k \in DOMAIN file.progs :
                LET g == file.progs[k]
                IN  g.type = "load" /\ g.offset <= offset /\ offset < g.offset + g.filesz}
  IN  IF fit = {} THEN 0 ELSE offset + paddr[Min(fit)] - file.progs[Min(fit)].offset

(* readelf_find_load_offset(): the offset in the file of an address.        *)
FindLoadOffset(vaddr) ==
  LET fit == {k \in DOMAIN file.progs :
                LET g == file.progs[k]
                IN  g.type = "load" /\ g.vaddr <= vaddr /\ vaddr < g.vaddr + g.filesz}
  IN  IF fit = {} THEN 0 ELSE vaddr + file.progs[Min(fit)].offset - file.progs[Min(fit)].vaddr

Loaded(vaddr) == FindLoadAddr(job.paddr, FindLoadOffset(vaddr))

\* A mistake: the base is not added.
FixPhdrFlat(paddr, k) ==
  IF file.progs[k].type = "load" THEN paddr[k] ELSE FindLoadAddr(paddr, file.progs[k].offset)

(* readelf_dylink_fix_phdr() for program header k: its address in the       *)
(* process; headers other than those of segments look it up.                *)
FixPhdr(paddr, k) ==
  IF file.progs[k].type = "load" THEN paddr[k] + Base
  ELSE FindLoadAddr(paddr, file.progs[k].offset)

ReadPhdr ==
  /\ pc = "phdr"
  /\ IF job.k > Len(file.progs)
       THEN /\ Goto("entry") /\ job' = [job EXCEPT !.k = 1]
            /\ UNCHANGED <<sys, obj, processes, linker, started>>
     ELSE IF \/ GetPhysicalAddress(sys.proc[cur], Base) = 0    \* readData() fails
             \/ file.progs[job.k].type # "null" /\ FixPhdr(job.paddr, job.k) = 0
       THEN GiveUp("break")
     ELSE /\ job' = [job EXCEPT !.k = @ + 1,
                                !.paddr[job.k] = IF file.progs[job.k].type = "null"
                                                   THEN @ ELSE FixPhdr(job.paddr, job.k)]
          /\ UNCHANGED <<sys, boot, obj, processes, pc, at, linker, started>>

(* readelf_dylink_fix_entry()                                              *)
FixEntry ==
  /\ pc = "entry"
  /\ IF Loaded(file.entry) = 0 THEN GiveUp("break")
     ELSE /\ obj' = [obj EXCEPT ![cur].entry = Loaded(file.entry)]
          /\ Goto("dynamic")
          /\ UNCHANGED <<sys, processes, job, linker, started>>

Dynamic == {k \in DOMAIN file.progs : file.progs[k].type = "dynamic"}

(* readelf_dylink_fix_dynamic_table(): the addresses in the dynamic table   *)
(* become those of the process.  The table is read where its program header *)
(* says; if that is not where it was loaded, nothing usable is read.        *)
FixDynamic ==
  /\ pc = "dynamic"
  /\ IF Dynamic = {}
       THEN Goto("info") /\ UNCHANGED <<sys, obj, processes, job, linker, started>>
     ELSE IF \/ \E k \in Dynamic : job.paddr[k] # Base + file.progs[k].vaddr
             \/ \E k \in DOMAIN job.dyn : job.dyn[k].addr /\ Loaded(job.dyn[k].val) = 0
       THEN GiveUp("break")
     ELSE /\ job' = [job EXCEPT !.dyn = [k \in DOMAIN @ |->
                       IF @[k].addr THEN [@[k] EXCEPT !.val = Loaded(@)] ELSE @[k]]]
          /\ Goto("table")
          /\ UNCHANGED <<sys, obj, processes, linker, started>>

Has(tag) == \E k \in DOMAIN job.dyn : job.dyn[k].tag = tag /\ job.dyn[k].val # 0

-----------------------------------------------------------------------------
(* KernelLinker::getSymbolByName(): the first of that name, or null.       *)
GetSymbolByName(symbols, name) ==
  LET fit == {i \in 0..(GetCount(symbols) - 1) : ItemAt(symbols, i).name = name}
  IN  IF fit = {} THEN 0 ELSE ItemAt(symbols, Min(fit)).ptr

\* An item is put into a list, and takes a page if it needs one.
Insert(s, list, item) ==
  [s |-> IF IsFull(list) THEN [s EXCEPT !.free = @ \ {Lowest(s)}] ELSE s,
   list |-> InsertItem(list, item, IF IsFull(list) THEN Lowest(s) ELSE 0)]

(* addSymbol(), in a state t of memory and linker.                          *)
AddSymbol(t, name, ptr) ==
  LET r == Insert(t.s, t.linker.symbols, [name |-> name, ptr |-> ptr])
  IN  [s |-> r.s, linker |-> [t.linker EXCEPT !.symbols = r.list], addr |-> ptr]

\* What stands for the random number and for the code of a stub.
Guard == 1000
Stub(name) == IF name = "__stack_chk_fail" THEN 2000
              ELSE 2000 + CHOOSE i \in DOMAIN Syscalls : Syscalls[i] = name

\* A mistake: a page of stubs is never full.
StubPageEndless(t) ==
  IF t.linker.page # 0 THEN t
  ELSE LET r == AddSection(t.s, cur, CodeBase, StubWords * StubsPerPage)
       IN  [t EXCEPT !.s = r.s, !.linker.page = r.addr, !.linker.num = 0]

\* The page of stubs, a new one if there is none or it is full.
StubPage(t) ==
  IF t.linker.page # 0 /\ t.linker.num # StubsPerPage THEN t
  ELSE LET r == AddSection(t.s, cur, CodeBase, StubWords * StubsPerPage)
       IN  [t EXCEPT !.s = r.s, !.linker.page = r.addr, !.linker.num = 0]

(* linkLibrary(): the address of what the kernel provides by that name.    *)
LinkLibrary(t, name) ==
  IF name = "kptr_acpi_rsdp" THEN [t EXCEPT !.addr = Shared[1] * PageWords]
  ELSE IF GetSymbolByName(t.linker.symbols, name) # 0
    THEN [t EXCEPT !.addr = GetSymbolByName(t.linker.symbols, name)]
  ELSE IF name = "__stack_chk_guard"
    THEN LET r == AddSection(t.s, cur, CodeBase, 1)
         IN  AddSymbol([t EXCEPT !.s = WriteData(r.s, cur, r.addr, <<Guard>>)], name, r.addr)
  ELSE IF name \in Range(Syscalls) \cup {"__stack_chk_fail"}
    THEN LET u == StubPage(t)
             ptr == u.linker.page + u.linker.num * StubWords
         IN  AddSymbol([u EXCEPT !.s = WriteData(u.s, cur, ptr, <<Stub(name)>>),
                                 !.linker.num = @ + 1], name, ptr)
  ELSE [t EXCEPT !.addr = 0]

(* The module's own definition of a symbol.                                *)
OwnSymbol(sym) ==
  IF FindLoadOffset(sym.value) = 0 THEN 0 ELSE Loaded(sym.value)

(* readelf_dylink_process_reloc(): the symbol is looked up in the linker,   *)
(* then in the kernel, then in the module; the slot gets its address.       *)
ProcessReloc(rel) ==
  LET sym == file.syms[rel.sym]
      known == GetSymbolByName(linker.symbols, sym.name)
      t == [s |-> sys, linker |-> linker, addr |-> known]
      link == IF known # 0 THEN t ELSE LinkLibrary(t, sym.name)
      addr == IF link.addr # 0 THEN link.addr ELSE OwnSymbol(sym)
  IN  IF rel.sym = 0 \/ (addr = 0 /\ ~sym.weak) \/ rel.type = "other" THEN GiveUp("break")
      ELSE /\ sys' = WriteData(link.s, cur, Loaded(rel.addr), <<addr + rel.add>>)
           /\ linker' = link.linker
           /\ job' = [job EXCEPT !.rels = Tail(@)]
           /\ UNCHANGED <<boot, obj, processes, pc, at, started>>

Reloc ==
  /\ pc = "reloc"
  /\ IF job.rels = <<>> THEN /\ Goto("table")
                             /\ UNCHANGED <<sys, obj, processes, job, linker, started>>
                        ELSE ProcessReloc(Head(job.rels))

\* Symbols with a name and a value are added at the place that their value, taken
\* for an offset in the file, was loaded to.
RECURSIVE AddSymbols(_, _)
AddSymbols(t, syms) ==
  IF syms = <<>> THEN t
  ELSE LET ptr == FindLoadAddr(job.paddr, Head(syms).value)
       IN  AddSymbols(IF Head(syms).value = 0 \/ ptr = 0 THEN t ELSE AddSymbol(t, Head(syms).name, ptr),
                      Tail(syms))

\* What the handlers of the dynamic table insist on.
Complete(tag) ==
  /\ tag = "symtab" => Has("syment") /\ Has("strtab") /\ Has("hash")
  /\ tag = "jmprel" => Has("symtab") /\ Has("pltrel")
  /\ tag \in {"rel", "rela"} => file.rels[tag] # <<>>

(* readelf_dylink_handle_dynamic_table(), one entry; the handlers of        *)
(* relocations go on in Reloc.                                              *)
HandleDyn ==
  /\ pc = "table"
  /\ IF job.k > Len(job.dyn)
       THEN Goto("info") /\ UNCHANGED <<sys, obj, processes, job, linker, started>>
     ELSE LET tag == job.dyn[job.k].tag
          IN  IF ~Complete(tag) THEN GiveUp("break")
              ELSE /\ job' = [job EXCEPT !.k = @ + 1,
                                !.rels = IF tag \in DOMAIN file.rels THEN file.rels[tag] ELSE <<>>]
                   /\ LET t == IF tag # "symtab" THEN [s |-> sys, linker |-> linker]
                               ELSE AddSymbols([s |-> sys, linker |-> linker, addr |-> 0], file.syms)
                      IN  sys' = t.s /\ linker' = t.linker
                   /\ Goto(IF tag \in DOMAIN file.rels THEN "reloc" ELSE "table")
                   /\ UNCHANGED <<obj, processes, started>>

-----------------------------------------------------------------------------
\* The characters of a requirement: hexadecimal digits and what they are worth, -, ;
\* the words "port/" and "cpuid/", and any other.
Digit(c) == c \in 1..16
Value(c) == c - 1
Dash == 17
Semicolon == 18
PortWord == 19
CpuWord == 20

NumPorts == 2 * PageWords
Shift(n, c) == (16 * n + Value(c)) % NumPorts    \* readHexChar()

(* parsePort(): one port, or two with a dash between them.                 *)
ParsePort(text) ==
  LET Char(r, c) ==
        IF c = Dash /\ ~r.second THEN [r EXCEPT !.second = TRUE]
        ELSE IF ~Digit(c) THEN [r EXCEPT !.ok = FALSE]
        ELSE IF r.second THEN [r EXCEPT !.max = Shift(@, c)] ELSE [r EXCEPT !.min = Shift(@, c)]
      r == FoldLeft(Char, [min |-> 0, max |-> 0, second |-> FALSE, ok |-> TRUE], text)
      max == IF r.second THEN r.max ELSE r.min
  IN  [min |-> r.min, max |-> max, ok |-> r.ok /\ max >= r.min]

(* parseCPUID() and the test of the bit: a number stands for the function,  *)
(* the register and the bit.                                                *)
HasFeature(text) ==
  /\ \A i \in DOMAIN text : Digit(text[i])
  /\ FoldLeft(Shift, 0, text) \in Features

(* parseModuleInfo(): all symbols must be there; the text of the            *)
(* requirements is read, nothing being the same as none.                    *)
ParseModuleInfo ==
  /\ pc = "info"
  /\ IF \E name \in InfoNames : GetSymbolByName(linker.symbols, name) = 0
       THEN GiveUp("break")
     ELSE /\ job' = [job EXCEPT !.reqs =
                       ReadString(sys, cur, GetSymbolByName(linker.symbols, "module_requirements"))]
          /\ Goto("bind")
          /\ UNCHANGED <<sys, obj, processes, linker, started>>

\* The first requirement of the text, and the rest.
First(text) == SelectInSeq(text, LAMBDA c : c = Semicolon)
Requirement(text) == IF First(text) = 0 THEN text ELSE SubSeq(text, 1, First(text) - 1)
Rest(text) == SubSeq(text, Len(Requirement(text)) + 1, Len(text))

(* bindRequirements(), one requirement.                                     *)
BindRequirement ==
  /\ pc = "bind"
  /\ IF job.reqs = <<>>
       THEN Goto("prepare") /\ UNCHANGED <<sys, obj, processes, job, linker, started>>
     ELSE IF Head(job.reqs) = Semicolon
       THEN /\ job' = [job EXCEPT !.reqs = Tail(@)]
            /\ UNCHANGED <<sys, boot, obj, processes, pc, at, linker, started>>
     ELSE LET req == Requirement(job.reqs)
              range == ParsePort(Tail(req))
          IN  IF \/ Head(req) = PortWord /\ range.ok
                 \/ Head(req) = CpuWord /\ HasFeature(Tail(req))
                THEN /\ job' = [job EXCEPT !.reqs = Rest(@), !.min = range.min,
                                           !.max = range.max, !.i = 0]
                     /\ Goto(IF Head(req) = PortWord THEN "ports" ELSE "bind")
                     /\ UNCHANGED <<sys, obj, processes, linker, started>>
                ELSE GiveUp("next")

\* The condition of the loop, over 16-bit numbers.
InRange(i, min, max) == i <= max - min

(* allowIOPorts(), one port.                                                *)
AllowIOPorts ==
  /\ pc = "ports"
  /\ IF InRange(job.i, job.min, job.max)
       THEN /\ sys' = AllowIOPort(sys, cur, (job.min + job.i) % NumPorts)
            /\ job' = [job EXCEPT !.i = (@ + 1) % NumPorts]
            /\ UNCHANGED <<boot, obj, processes, pc, at, linker, started>>
       ELSE Goto("bind") /\ UNCHANGED <<sys, obj, processes, job, linker, started>>

-----------------------------------------------------------------------------
Same(pages) == [i \in DOMAIN pages |-> Small(pages[i], pages[i])]

\* A mistake: the task state segments are gone through from the last to the first.
TssMapBack(iomap, k) ==
  LET i == Len(TssPages) + 1 - k
      q == TssPages[i]
  IN  Same(<<q>>) \o <<Small(q + 1, iomap[1]), Small(q + 2, iomap[2])>> \o Same(<<IstPages[i]>>)

(* What is mapped for task state segment k: its page, the bitmaps after     *)
(* that page, and the page of its interrupt stack.  It replaces what an     *)
(* earlier segment put in its place.                                        *)
TssMap(iomap, k) ==
  LET q == TssPages[k]
  IN  Same(<<q>>) \o <<Small(q + 1, iomap[1]), Small(q + 2, iomap[2])>> \o Same(<<IstPages[k]>>)

(* prepareToStart(): what the CPU needs on the way into the kernel, ...     *)
PrepareToStart ==
  /\ pc = "prepare"
  /\ sys' = NeedIomap(NeedIomap(AddPages(sys, cur, Same(Shared)), cur, 1), cur, 2)
  /\ Goto("tss") /\ job' = [job EXCEPT !.k = 1]
  /\ UNCHANGED <<obj, processes, linker, started>>

(* and one turn of its loop over the task state segments.                   *)
PrepareTss ==
  /\ pc = "tss"
  /\ IF job.k <= Len(TssPages)
       THEN /\ sys' = AddPages(sys, cur, TssMap(sys.proc[cur].iomap, job.k))
            /\ job' = [job EXCEPT !.k = @ + 1]
            /\ UNCHANGED <<boot, obj, processes, pc, at, linker, started>>
       ELSE Goto("stack") /\ UNCHANGED <<sys, obj, processes, job, linker, started>>

(* registerProcess(): the stack, before the lock is taken, ...              *)
AddStack ==
  /\ pc = "stack"
  /\ sys' = AddSection(sys, cur, StackBase, Fan * PageWords - 1).s
  /\ Goto("register")
  /\ UNCHANGED <<obj, processes, job, linker, started>>

(* and the lists, under it.  The linker is destroyed next.                  *)
RegisterProcess ==
  /\ pc = "register"
  /\ LET r == Insert(sys, processes, cur)
         u == Insert(r.s, obj[cur].threads, cur)
     IN  /\ sys' = u.s /\ processes' = r.list
         /\ obj' = [obj EXCEPT ![cur].threads = u.list, ![cur].state = "live"]
  /\ started' = Append(started, obj[cur].file)
  /\ job' = [NoJob EXCEPT !.then = "next",
                          !.scrap = LinkerPages]
  /\ linker' = NoLinker
  /\ Goto("free")

(* The destructors give back what is left.                                  *)
FreeScrap ==
  /\ pc = "free"
  /\ IF job.scrap # <<>>
       THEN /\ sys' = Release(sys, Head(job.scrap))
            /\ job' = [job EXCEPT !.scrap = Tail(@)]
            /\ UNCHANGED <<boot, obj, processes, pc, at, linker, started>>
       ELSE /\ pc' = "next"
            /\ at' = IF job.then = "break" THEN <<at[1] + 1, 1>> ELSE <<at[1], at[2] + 1>>
            /\ job' = NoJob
            /\ sys' = IF obj[cur].state = "dropped" THEN [sys EXCEPT !.proc[cur] = Process] ELSE sys
            /\ UNCHANGED <<boot, obj, processes, linker, started>>

LoaderStep ==
  \/ NewProcess \/ NextBlob \/ AllLoaded \/ ReadHeader \/ ReadProg
  \/ ReadPhdr \/ FixEntry \/ FixDynamic \/ HandleDyn \/ Reloc
  \/ ParseModuleInfo \/ BindRequirement \/ AllowIOPorts
  \/ PrepareToStart \/ PrepareTss \/ AddStack \/ RegisterProcess \/ DropProcess \/ FreeScrap

-----------------------------------------------------------------------------
(* The loop of exitProcess() over the list of processes, from the last.     *)
RECURSIVE RemoveProcess(_, _, _)
RemoveProcess(list, q, i) ==
  IF i = 0 THEN list
  ELSE RemoveProcess(IF ItemAt(list, i - 1) = q THEN RemoveIndex(list, i - 1) ELSE list, q, i - 1)

\* ~Process() begins.
Destroy(q, state) ==
  obj' = [obj EXCEPT ![q].state = state,
                     ![q].todo = FreeOrder(sys.proc[q], ListPages(obj[q].threads))]

(* exitProcess() takes the process from the list and deletes it.            *)
ExitProcess(q) ==
  /\ obj[q].state = "live"
  /\ processes' = RemoveProcess(processes, q, GetCount(processes))
  /\ Destroy(q, "exiting")
  /\ UNCHANGED <<sys, boot, pc, at, job, linker, started>>

(* HandleFault() deletes it and leaves it in the list.                      *)
HandleFault(q) ==
  /\ obj[q].state = "live"
  /\ Destroy(q, "faulting")
  /\ UNCHANGED <<sys, boot, processes, pc, at, job, linker, started>>

Dying(q) == obj[q].state \in {"exiting", "faulting"}

(* A step of ~Process(); after the last the object is gone.                  *)
FreeNext(q) ==
  /\ Dying(q)
  /\ IF obj[q].todo # <<>>
       THEN /\ sys' = Release(sys, Head(obj[q].todo))
            /\ obj' = [obj EXCEPT ![q].todo = Tail(@)]
       ELSE /\ sys' = [sys EXCEPT !.proc[q] = Process]
            /\ obj' = [obj EXCEPT ![q].state = IF @ = "exiting" THEN "gone" ELSE "lost",
                               ![q].threads = EmptyList]
  /\ UNCHANGED <<boot, processes, pc, at, job, linker, started>>

-----------------------------------------------------------------------------
Procs == DOMAIN obj
Live(q) == obj[q].state = "live"
Built(q) == obj[q].state \in {"new", "live"}

(* The uses of pages: <<page, what for>>.                                   *)
TableUses(q) == {<<sys.proc[q].tab[t], <<q, "table", t>>>> : t \in DOMAIN sys.proc[q].tab}
LeafUses(q) ==
  LET proc == sys.proc[q]
  IN  {<<proc.leaf[v], <<q, "page", <<v>>>>>> :
         v \in {w \in DOMAIN proc.leaf : FreedHere(proc, w, proc.leaf[w])}}
HugeUses(q) == UNION {{<<sys.proc[q].huge[h] + i, <<q, "huge", h>>>> : i \in 0..(Fan - 1)} :
                        h \in DOMAIN sys.proc[q].huge}
IomapUses(q) == {<<sys.proc[q].iomap[k], <<q, "iomap", <<k>>>>>> : k \in {j \in 1..2 : sys.proc[q].iomap[j] # 0}}
ListUses(list, q) == {<<list[i].page, <<q, "list", <<i>>>>>> : i \in DOMAIN list}
LeftUses(todo, q) ==
  LET left == FlattenSeq(todo)
  IN  UNION {{<<x, <<q, "left", <<i>>>>>> : x \in left[i]} : i \in DOMAIN left}

Uses ==
  UNION ({TableUses(q) \cup LeafUses(q) \cup HugeUses(q) \cup IomapUses(q)
            \cup ListUses(obj[q].threads, q) : q \in {r \in Procs : Built(r)}}
         \cup {LeftUses(obj[q].todo, q) : q \in {r \in Procs : Dying(r)}}
         \cup {ListUses(linker.symbols, 0), LeftUses(job.scrap, 0), ListUses(processes, 100)})
Used == {u[1] : u \in Uses}

(* Types; the places of the loader.                                         *)
TypeOK ==
  /\ sys.free \subseteq Memory /\ DOMAIN sys.proc = Procs
  /\ \A q \in Procs :
       /\ obj[q].state \in {"new", "dropped", "live", "exiting", "faulting", "gone", "lost"}
       /\ obj[q].state = "new" => q = cur
       /\ Range(sys.proc[q].tab) \cup Range(sys.proc[q].leaf) \subseteq Memory
       /\ \A t \in DOMAIN sys.proc[q].tab : t[1] \in 0..3 /\ t[2] \in 0..(Fan^t[1] - 1)
  /\ job.min \in 0..(NumPorts - 1) /\ job.max \in 0..(NumPorts - 1) /\ job.i \in 0..(NumPorts - 1)
  /\ linker.num \in 0..StubsPerPage

(* A page of memory is free, or the kernel's, or has one use in one process *)
(* or list: addPage(), the loader and the destructors, whose frees mix with *)
(* the loader's allocations, lose none, free none twice and none that is    *)
(* the kernel's, and write to no page that is not in use.  ~Process() frees *)
(* a table after all that it reaches through it.                            *)
OneOwner ==
  /\ Cardinality(Uses) = Cardinality(Used)
  /\ Used \cap sys.free = {} /\ KernelPages \cap (Used \cup sys.free) = {}
  /\ Used \cup sys.free \cup KernelPages = Memory
  /\ DOMAIN sys.mem \subseteq WordsOf(Used)
  /\ \A q \in {r \in Procs : Dying(r)} :
       LET left == FlattenSeq(obj[q].todo)
           tab == sys.proc[q].tab
       IN  \A t, u \in DOMAIN tab : t[1] + 1 = u[1] /\ u[2] \div Fan = t[2] =>
             \A i \in DOMAIN left : left[i] = {tab[u]} => \E j \in DOMAIN left : i < j /\ left[j] = {tab[t]}

(* The list of processes has every process that runs once, although its     *)
(* pages are filled and emptied in any order; else only processes that      *)
(* HandleFault() deleted.                                                   *)
ListAgrees ==
  \A q \in Procs :
    Cardinality({i \in DOMAIN Items(processes) : Items(processes)[i] = q})
      = IF obj[q].state \in {"live", "faulting", "lost"} THEN 1 ELSE 0

\* What the CPU reads at an address of process q.
Seen(q, a) == Word(sys, GetPhysicalAddress(sys.proc[q], a))

(* The bitmap of ports is behind the last task state segment.               *)
Permitted(q) ==
  {port \in 0..(NumPorts - 1) : Seen(q, (Last(TssPages) + 1) * PageWords + port) = 0}

(* A module that runs may use the ports its requirements name and no other, *)
(* on every CPU, and finds the kernel's entry code, tables and stacks at    *)
(* their own addresses, however the segments share pages.                   *)
PortsRight ==
  \A q \in {r \in Procs : Live(r)} :
    /\ Permitted(q) = FileOf(q).asks
    /\ \A x \in Range(Shared \o TssPages \o IstPages) : Entry(sys.proc[q], x) = x

\* Files the loader reads as they are meant: no segment ends with its page where
\* another begins, and an exported symbol has its offset in the file for its value.
Segments(f) == {k \in DOMAIN f.progs : f.progs[k].type = "load"}
EndsApart(f) ==
  \A j, k \in Segments(f) :
    LET end == f.progs[j].vaddr + f.progs[j].memsz
    IN  end % PageWords = 0 => f.progs[k].vaddr \div PageWords # end \div PageWords
OffsetsRight(f) ==
  \A i \in DOMAIN f.syms : \A k \in Segments(f) :
    LET g == f.progs[k]
    IN  f.syms[i].value \in g.offset..(g.offset + g.filesz - 1) => g.vaddr = g.offset

(* What a relocation is to put into its slot.                               *)
LinkedRight(q, rel, word) ==
  LET sym == FileOf(q).syms[rel.sym]
  IN  IF sym.value # 0 THEN word = Base + sym.value + rel.add
      ELSE IF sym.name = "kptr_acpi_rsdp" THEN word = Shared[1] * PageWords
      ELSE IF sym.name = "__stack_chk_guard" THEN Seen(q, word) = Guard
      ELSE IF sym.name \in Range(Syscalls) \cup {"__stack_chk_fail"} THEN Seen(q, word) = Stub(sym.name)
      ELSE word = 0

(* A module that runs has its segments at their addresses, word by word,    *)
(* zeros after what the file holds, every slot linked to the module's own   *)
(* symbol or to a stub of that very call, whatever the order of the dynamic *)
(* table, and starts at its entry.                                          *)
ImageRight ==
  \A q \in {r \in Procs : Live(r) /\ EndsApart(FileOf(r)) /\ OffsetsRight(FileOf(r))} :
    LET f == FileOf(q)
        rels == UNION {Range(f.rels[tag]) : tag \in DOMAIN f.rels}
    IN  /\ obj[q].entry = Base + f.entry
        /\ \A rel \in rels : LinkedRight(q, rel, Seen(q, Base + rel.addr))
        /\ \A k \in Segments(f) : \A i \in 0..(f.progs[k].memsz - 1) :
             LET g == f.progs[k]
             IN  \/ g.offset + i < f.headers
                 \/ \E rel \in rels : rel.addr = g.vaddr + i
                 \/ Seen(q, Base + g.vaddr + i)
                      = IF i < g.filesz THEN f.words[g.offset + i + 1] ELSE 0

\* What is to be started: of each blob the files before the first that is no
\* module, as far as the machine has what they require.
Expected ==
  FlattenSeq([b \in DOMAIN boot |->
    LET bad == SelectInSeq(boot[b], LAMBDA f : ~Files[f].loads)
        good == IF bad = 0 THEN boot[b] ELSE SubSeq(boot[b], 1, bad - 1)
    IN  SelectSeq(good, LAMBDA f : Files[f].fits)])

(* ModuleManager::init() ends, and has started every module that the        *)
(* machine can run; unless one requires all ports, for which the loop of    *)
(* allowIOPorts() does not end.                                             *)
LoaderEnds ==
  (\A b \in DOMAIN boot : \A i \in DOMAIN boot[b] : Files[boot[b][i]].asks # 0..(NumPorts - 1))
    => <>(pc = "done" /\ started = Expected)
=============================================================================
