----------------------------- MODULE MCModules ------------------------------
(***************************************************************************)
(* Files and machines for Modules.                                         *)
(***************************************************************************)
EXTENDS Modules

Segment(offset, vaddr, filesz, memsz, flags) ==
  [type |-> "load", offset |-> offset, vaddr |-> vaddr, paddr |-> vaddr,
   filesz |-> filesz, memsz |-> memsz, flags |-> flags]
Header(type, offset, vaddr) ==
  [type |-> type, offset |-> offset, vaddr |-> vaddr, paddr |-> vaddr,
   filesz |-> 1, memsz |-> 1, flags |-> "r"]

Tag(tag, val) == [tag |-> tag, val |-> val, addr |-> TRUE]
Size(tag) == [tag |-> tag, val |-> 1, addr |-> FALSE]
Sym(name, value) == [name |-> name, value |-> value, weak |-> FALSE]
Slot(addr, sym, add) == [addr |-> addr, sym |-> sym, add |-> add, type |-> "slot"]

\* Headers, the requirements at word 2, code at word 8, data after it.
Words(req) == <<70, 71>> \o req \o [i \in 1..(6 - Len(req)) |-> 0] \o <<72, 73, 74, 75>>

\* The order of the dynamic table of two linkers.
SymbolsFirst == <<Tag("hash", 1), Tag("strtab", 1), Tag("symtab", 1), Size("syment"),
                  Size("pltrel"), Tag("jmprel", 1), Tag("rela", 1)>>
SymbolsLast == <<Tag("rela", 1), Size("pltrel"), Tag("jmprel", 1), Tag("symtab", 1),
                 Size("syment"), Tag("strtab", 1), Tag("hash", 1)>>

Info == <<Sym("module_name", 2), Sym("module_requirements", 2)>>

\* The PCI driver: ports 7 to 8, system calls and a symbol of its own.
Pci == [elf |-> TRUE, words |-> Words(<<PortWord, 8, Dash, 9>>), headers |-> 2, entry |-> 16,
        progs |-> <<Header("phdr", 1, 1), Segment(0, 0, 7, 7, "r"), Segment(8, 16, 1, 1, "rx"),
                    Segment(9, 25, 3, 5, "rw"), Header("dynamic", 11, 27)>>,
        dyn |-> SymbolsFirst,
        syms |-> Info \o <<Sym("ioprovide", 0), Sym("exit", 0), Sym("buffer", 27)>>,
        rels |-> [jmprel |-> <<Slot(25, 3, 0), Slot(26, 4, 0)>>, rela |-> <<Slot(27, 5, 1)>>],
        loads |-> TRUE, fits |-> TRUE, asks |-> {7, 8}]

\* The ACPI driver: no requirement, more stubs than fit in a page, data of the kernel.
Got == <<76, 77, 78>>
Acpi == [Pci EXCEPT !.words = Words(<<>>) \o Got, !.dyn = SymbolsLast, !.asks = {},
           !.progs[4].filesz = 6, !.progs[4].memsz = 6,
           !.syms = Info \o <<Sym("puts", 0), Sym("exit", 0), Sym("__stack_chk_fail", 0),
                              Sym("__stack_chk_guard", 0), Sym("kptr_acpi_rsdp", 0)>>,
           !.rels = [jmprel |-> <<Slot(25, 3, 0), Slot(26, 4, 0), Slot(27, 5, 0)>>,
                     rela |-> <<Slot(28, 6, 0), Slot(29, 7, 0), Slot(30, 2, 0)>>]]

\* Not an ELF file; a segment both writable and executable; the dynamic table before
\* the segments, or not in one; none; an entry outside of the segments; no hash table; a
\* symbol that nobody has; no description.
Text == [Pci EXCEPT !.elf = FALSE, !.loads = FALSE]
Wx == [Pci EXCEPT !.progs[3].flags = "wx", !.loads = FALSE]
Early == [Pci EXCEPT !.progs = <<Last(@)>> \o Front(@), !.loads = FALSE]
Apart == [Pci EXCEPT !.progs[5].offset = 7, !.loads = FALSE]
Bare == [Pci EXCEPT !.progs = Front(@), !.loads = FALSE]
Astray == [Pci EXCEPT !.progs[2] = Segment(1, 1, 6, 6, "r"), !.entry = 20, !.loads = FALSE]
Hashless == [Pci EXCEPT !.dyn = Tail(@), !.loads = FALSE]
Unlinked == [Acpi EXCEPT !.syms[3].name = "sleep", !.loads = FALSE]
Nameless == [Pci EXCEPT !.syms[1].name = "name", !.loads = FALSE]

\* A processor feature that is there and one that is not; a range turned round.
Simd == [Acpi EXCEPT !.words = Words(<<CpuWord, 4, Semicolon, PortWord, 3>>) \o Got, !.asks = {2}]
Unfit == [Acpi EXCEPT !.words = Words(<<CpuWord, 5>>) \o Got, !.fits = FALSE]
Turned == [Acpi EXCEPT !.words = Words(<<PortWord, 9, Dash, 8>>) \o Got, !.fits = FALSE]

\* A segment that fills its page before another; a symbol whose value is also an
\* offset in the file; a module that asks for all ports.
Exact == [Acpi EXCEPT !.progs[2].memsz = 8, !.progs[3] = Segment(8, 8, 1, 1, "rx"), !.entry = 8]
Skew == [Pci EXCEPT !.words = Words(<<>>) \o <<0, 0, 0, 0, 76, 77>>, !.syms[5].value = 9, !.asks = {},
                    !.progs[3] = Segment(16, 8, 2, 2, "rx"), !.entry = 8]
Greedy == [Pci EXCEPT !.words = Words(<<PortWord, 1, Dash, 16>>), !.asks = 0..15]

MCFiles == [pci |-> Pci, acpi |-> Acpi, text |-> Text, wx |-> Wx, early |-> Early,
            apart |-> Apart, bare |-> Bare, astray |-> Astray, hashless |-> Hashless,
            unlinked |-> Unlinked, nameless |-> Nameless, simd |-> Simd, unfit |-> Unfit,
            turned |-> Turned, exact |-> Exact, skew |-> Skew, greedy |-> Greedy]

MCBoots == {
  <<<<"pci", "acpi">>>>,
  <<<<"simd">>>>,
  <<<<"unfit", "text">>, <<"turned", "early">>, <<"unlinked">>, <<"nameless">>, <<"wx", "acpi">>,
    <<"apart">>, <<"bare">>, <<"astray">>, <<"hashless">>>>,
  <<<<"acpi", "exact", "skew">>>>,
  <<<<"greedy">>>> }

\* One function, a bridge to bus 1, a device of two functions behind it and a bridge back;
\* a host of several functions, or without the first, or none; a bus whose bit is taken.
Function(multi) == [multi |-> multi, bridge |-> 0, bus |-> 0]
Bridge(bus) == [multi |-> 0, bridge |-> 1, bus |-> bus]
MCMachines == {
  (<<0, 0, 0>> :> Function(0)) @@ (<<0, 1, 0>> :> Bridge(1))
    @@ (<<1, 0, 0>> :> Function(1)) @@ (<<1, 0, 1>> :> Function(0)) @@ (<<1, 1, 0>> :> Bridge(0)),
  (<<0, 0, 0>> :> Function(1)) @@ (<<0, 0, 1>> :> Function(0)),
  (<<0, 0, 1>> :> Function(0)),
  (<<0, 1, 0>> :> Bridge(1)),
  (<<0, 0, 0>> :> Function(0)) @@ (<<0, 1, 0>> :> Bridge(2)) @@ (<<2, 0, 0>> :> Function(0)) }

\* Before a file is read, before it is linked, before its stack is there, while its
\* scraps are freed, and after the last; with three modules only then.
MCTurns == [b \in MCBoots |->
  IF Len(b[1]) > 2 THEN {"done"} ELSE {"header", "dynamic", "stack", "free", "done"}]

MCShared == <<1, 2>>
MCTss == <<4, 4, 5>>
MCIst == <<3, 8, 9>>
MCSyscalls == <<"puts", "exit", "kread", "ioprovide">>
MCMemory == 1..140
=============================================================================
