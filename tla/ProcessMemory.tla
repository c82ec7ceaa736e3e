--------------------------- MODULE ProcessMemory ----------------------------
(***************************************************************************)
(* The address space of a process (process/process.cpp): page tables built *)
(* on demand and mapped into the process themselves, sections, copies in   *)
(* and out, the bitmap of I/O ports, and the order in which the destructor *)
(* frees all of it.                                                        *)
(*                                                                         *)
(* The operators take the memory of the machine as a record s:             *)
(*   s.free     the pages that Pagetable::alloc() may hand out             *)
(*   s.mem      the words of physical memory that are not zero             *)
(*   s.proc[p]  process p: tab, its tables by <<level, number>>; leaf and  *)
(*              huge, its entries for pages and huge pages; iomap          *)
(* Addresses count words, PageWords to a page; page 0 is the null pointer. *)
(***************************************************************************)
EXTENDS Naturals, Sequences, FiniteSets, FiniteSetsExt, SequencesExt, Functions, TLC

CONSTANTS
  Fan,        \* entries of a table, and pages of a huge page (512)
  PageWords,  \* words of a page (4096 bytes); an iomap page has a port to a word
  CodeBase,   \* _aslrCode and
  StackBase   \* _aslrStack, as page numbers

ASSUME ProcessMemoryAssumption ==
  /\ Fan \in Nat \ {0, 1} /\ PageWords \in Nat \ {0, 1}
  /\ CodeBase \in Nat /\ StackBase \in Nat
  /\ CodeBase % Fan = 0 /\ StackBase % Fan = 0
  /\ StackBase + Fan <= CodeBase /\ CodeBase < Fan^4

Process == [tab |-> <<>>, leaf |-> <<>>, huge |-> <<>>, iomap |-> <<0, 0>>]

WordsOf(pages) == UNION {(q * PageWords)..(q * PageWords + PageWords - 1) : q \in pages}

(* Pagetable::alloc(1) hands out the lowest free page, zeroed.             *)
Lowest(s) == Min(s.free)

(* Pagetable::halloc(1); only the first small page of it is zeroed.        *)
HugeRun(s) ==
  LET base == Min({q \in s.free : q % Fan = 0 /\ q..(q + Fan - 1) \subseteq s.free})
  IN  base..(base + Fan - 1)

(* Pagetable::free() of the pages and huge pages of a sequence.            *)
Release(s, turn) ==
  LET pages == UNION Range(turn)
  IN  [s EXCEPT !.free = @ \cup pages, !.mem = Restrict(@, DOMAIN @ \ WordsOf(pages))]

-----------------------------------------------------------------------------
(* PTE::find() and getPhysicalAddress(); 0 is the null pointer.            *)
Entry(proc, v) ==
  IF <<3, v \div Fan>> \in DOMAIN proc.huge THEN proc.huge[<<3, v \div Fan>>] + (v % Fan)
  ELSE IF v \in DOMAIN proc.leaf THEN proc.leaf[v] ELSE 0

GetPhysicalAddress(proc, a) ==
  LET page == Entry(proc, a \div PageWords)
  IN  IF page = 0 THEN 0 ELSE page * PageWords + (a % PageWords)

\* An entry to be made: for a small page, or for a huge one.
Small(v, page) == [v |-> v, page |-> page, last |-> 3]
Huge(v, base) == [v |-> v, page |-> base, last |-> 2]

\* The table of a level that virtual page v belongs to.
TableOf(v, level) == <<level, v \div Fan^(4 - level)>>

(* addPage() and addHPage() for the entries of a sequence.  A table that is *)
(* missing is allocated and entered, and first mapped at its own address by *)
(* addPage(), which may need tables in turn.  An entry that was there is    *)
(* overwritten.                                                             *)
RECURSIVE AddPages(_, _, _)
AddPages(s, p, entries) ==
  IF entries = <<>> THEN s
  ELSE LET e == Head(entries)
           missing == {l \in 0..e.last : TableOf(e.v, l) \notin DOMAIN s.proc[p].tab}
           new == Lowest(s)
       IN  IF missing # {}
             THEN AddPages([s EXCEPT !.free = @ \ {new},
                                     !.proc[p].tab = @ @@ (TableOf(e.v, Min(missing)) :> new)],
                           p, <<Small(new, new)>> \o entries)
           ELSE IF e.last = 3
             THEN AddPages([s EXCEPT !.proc[p].leaf = (e.v :> e.page) @@ @], p, Tail(entries))
             ELSE AddPages([s EXCEPT !.proc[p].huge = (TableOf(e.v, 3) :> e.page) @@ @], p, Tail(entries))

(* The loop of addSection() over the pages of the section.                 *)
RECURSIVE FillSection(_, _, _, _)
FillSection(s, p, v, pages) ==
  IF pages = 0 THEN s
  ELSE IF v % Fan = 0 /\ pages >= Fan
    THEN LET run == HugeRun(s)
         IN  FillSection(AddPages([s EXCEPT !.free = @ \ run], p, <<Huge(v, Min(run))>>),
                         p, v + Fan, pages - Fan)
    ELSE LET page == Lowest(s)
         IN  FillSection(AddPages([s EXCEPT !.free = @ \ {page}], p, <<Small(v, page)>>),
                         p, v + 1, pages - 1)

\* A mistake: a section is put where it is asked for, mapped or not.
FirstUnmappedAny(proc, v) == v

(* The search of addSection() moves on while its first page is mapped; the *)
(* pages after the first are not looked at.                                *)
FirstUnmapped(proc, v) ==
  v + Min({n \in 0..(Cardinality(DOMAIN proc.leaf) + Cardinality(DOMAIN proc.huge) * Fan) :
             Entry(proc, v + n) = 0})

(* A section that fills its last page takes one page more.                 *)
PagesFor(size) == size \div PageWords + 1

(* addSection(): the memory after it, and the address of the section.      *)
AddSection(s, p, v, size) ==
  IF size = 0 THEN [s |-> s, addr |-> 0]
  ELSE LET at == FirstUnmapped(s.proc[p], v)
       IN  [s |-> FillSection(s, p, at, PagesFor(size)), addr |-> at * PageWords]

(* writeData(), page by page; address 0 is written to where none is mapped. *)
WriteData(s, p, a, words) ==
  LET to == [i \in 1..Len(words) |-> GetPhysicalAddress(s.proc[p], a + i - 1)]
      new == [w \in Range(to) |-> words[CHOOSE i \in DOMAIN to : to[i] = w]]
  IN  [s EXCEPT !.mem = new @@ @]

Word(s, a) == IF a \in DOMAIN s.mem THEN s.mem[a] ELSE 0

(* readString(), for strings that end in the page they begin in (what the  *)
(* code reads of others depends on the heap); empty for a null pointer.    *)
ReadString(s, p, a) ==
  LET at(n) == Word(s, GetPhysicalAddress(s.proc[p], a + n))
      length == Min({n \in 0..PageWords : at(n) = 0})
  IN  [n \in 1..length |-> at(n - 1)]

-----------------------------------------------------------------------------
(* A bitmap of I/O ports is allocated with all bits set: nothing allowed.  *)
NewIomap(s, p, space) ==
  LET page == Lowest(s)
  IN  [s EXCEPT !.free = @ \ {page}, !.proc[p].iomap[space] = page,
                !.mem = [w \in WordsOf({page}) |-> 1] @@ @]

NeedIomap(s, p, space) ==
  IF s.proc[p].iomap[space] # 0 THEN s ELSE NewIomap(s, p, space)

(* One turn of the loop of allowIOPorts().                                 *)
AllowIOPort(s, p, port) ==
  LET space == port \div PageWords + 1
      t == NeedIomap(s, p, space)
  IN  [t EXCEPT !.mem = (t.proc[p].iomap[space] * PageWords + (port % PageWords) :> 0) @@ @]

-----------------------------------------------------------------------------
\* A mistake: pages that are mapped at their own address are freed as well.
FreedHereAll(proc, v, page) == page \notin Range(proc.iomap)

(* ~Process() leaves out the bitmaps, which it freed before, and what is    *)
(* mapped at its own address: tables, and pages of the kernel.              *)
FreedHere(proc, v, page) == page \notin Range(proc.iomap) /\ page # v

(* What is freed for entry i of a table: the page, or the table below it     *)
(* after all that its entries lead to.                                      *)
RECURSIVE Walk(_, _, _, _)
Walk(proc, level, number, i) ==
  LET v == number * Fan + i
  IN  IF level = 3
        THEN IF v \in DOMAIN proc.leaf /\ FreedHere(proc, v, proc.leaf[v])
               THEN <<{proc.leaf[v]}>> ELSE <<>>
      ELSE IF level = 2 /\ <<3, v>> \in DOMAIN proc.huge
        THEN LET base == proc.huge[<<3, v>>]
             IN  IF base # v * Fan THEN <<base..(base + Fan - 1)>> ELSE <<>>
      ELSE IF <<level + 1, v>> \in DOMAIN proc.tab
        THEN FlattenSeq([k \in 1..Fan |-> Walk(proc, level + 1, v, k - 1)])
               \o <<{proc.tab[<<level + 1, v>>]}>>
      ELSE <<>>

(* ~Process(), as the pages freed in each of its steps: the bitmaps, a turn *)
(* of the outer loop for each entry of the root, the root, the list of      *)
(* threads.                                                                 *)
FreeOrder(proc, threads) ==
  LET bitmaps == SelectSeq(<<{proc.iomap[1]}, {proc.iomap[2]}>>, LAMBDA pages : pages # {0})
      turns == [k \in 1..Fan |-> Walk(proc, 0, 0, k - 1)]
      rest == (IF <<0, 0>> \in DOMAIN proc.tab THEN <<{proc.tab[<<0, 0>>]}>> ELSE <<>>)
                \o [i \in DOMAIN threads |-> {threads[i]}]
  IN  SelectSeq(<<bitmaps>> \o turns \o <<rest>>, LAMBDA turn : turn # <<>>)
=============================================================================
