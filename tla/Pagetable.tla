----------------------------- MODULE Pagetable ------------------------------
(***************************************************************************)
(* The kernel's page allocator and its page tables                         *)
(* (pagetable/pagetable.cpp).  Memory is mapped one to one, so a page that *)
(* is mapped is a page in use, and building a mapping may itself need      *)
(* pages for new tables.  Those come from a ring of pages kept in reserve, *)
(* which is refilled by allocating, that is, by mapping.                   *)
(*                                                                         *)
(* Addresses are page numbers; page 0 is the null pointer.  Every public   *)
(* function runs with page_mutex held and interrupts disabled, so each is  *)
(* one action.                                                             *)
(***************************************************************************)
EXTENDS Naturals, Sequences, FiniteSets, FiniteSetsExt, Functions, TLC

CONSTANTS
  Fan,        \* entries of a table (512)
  RsvdNum,    \* slots of the reserve (16)
  Preset,     \* lowest-level tables that initMB() builds itself (64)
  PtBase,     \* where initMB() puts them (random)
  LowLimit,   \* the first page that alloc() hands out (0x1000)
  MaxPage,    \* the end of memory
  BootAreas,  \* what init() maps: reserved areas of the memory map, the kernel
  MapAreas,   \* what map() is called for later: devices, ACPI tables
  Counts,     \* the numbers of pages that alloc() is called for
  MaxCalls    \* bound: calls after init() that change what is mapped

ASSUME PagetableAssumption ==
  /\ Fan \in Nat \ {0, 1} /\ RsvdNum \in Nat \ {0} /\ Preset \in Nat \ {0}
  /\ PtBase \in Nat \ {0} /\ LowLimit \in Nat \ {0} /\ MaxPage \in Nat
  /\ PtBase + 3 + Preset + RsvdNum <= Preset * Fan /\ 3 + Preset + RsvdNum < Fan
  /\ LowLimit < Preset * Fan
  /\ Counts \subseteq 1..(Fan - 1)
  /\ \A k \in DOMAIN BootAreas : BootAreas[k] \in Nat \X Nat
  /\ MapAreas \subseteq Nat \X Nat

VARIABLES
  pt,      \* the page table, the reserve and last_page (a record); history: odd
           \* when memory ran out during a refill, or halloc() passed its end
  boot,    \* how many of BootAreas init() has mapped; one more when it is done
  owned,   \* the blocks <<base, length>> handed out and not freed
  claimed, \* pages mapped by init() and map()
  calls    \* how many such calls were made

vars == <<pt, boot, owned, claimed, calls>>

(* The tables a walk for page i goes through below the root.               *)
Tables(i) == <<<<1, i \div Fan^3>>, <<2, i \div Fan^2>>, <<3, i \div Fan>>>>

(* Entry::find() && present: page i is mapped, alone or in a huge page.    *)
Present(s, i) == i \div Fan \in s.huge \/ i \in s.leaf

Span(low, top) == low..(top - 1)

\* Op(v), with v evaluated once.
With(v, Op(_)) == CHOOSE result \in {Op(x) : x \in {v}} : TRUE

-----------------------------------------------------------------------------
(* _getRsvd(), for the table that is missing; without a page in reserve it *)
(* loops forever, and page_mutex stays locked.                             *)
GetRsvd(s, table) ==
  IF s.r = s.w
    THEN [s EXCEPT !.out = TRUE]
    ELSE [s EXCEPT !.tab = @ @@ (table :> s.rsvd[s.r]),
                   !.rsvd[s.r] = 0,
                   !.r = (@ + 1) % RsvdNum]

Need(s, table) ==
  IF s.out \/ table \in DOMAIN s.tab THEN s ELSE GetRsvd(s, table)

(* A 2 MB entry: it replaces a table, whose page nobody refers to any more. *)
SetHuge(s, i) ==
  LET table == Tables(i)[3] IN
  [s EXCEPT !.huge = @ \cup {i \div Fan},
            !.leaf = @ \ Span(i, i + Fan),
            !.tab = [t \in DOMAIN @ \ {table} |-> @[t]]]

(* A 4 KB entry; inside a huge page it is written over the page's contents. *)
SetLeaf(s, i) ==
  IF i \div Fan \in s.huge
    THEN [s EXCEPT !.clobbered = @ \cup {i \div Fan}]
    ELSE LET t == Need(s, Tables(i)[3])
         IN  IF t.out THEN t ELSE [t EXCEPT !.leaf = @ \cup {i}]

\* A mistake: only the first page of the run is looked at.
FirstFreeOverlap(s, from, count) ==
  LET fit == {i \in from..MaxPage : i + count < MaxPage /\ ~Present(s, i)}
  IN  IF fit = {} THEN 0 ELSE Min(fit)

\* A mistake: only 4 KB entries are looked at.
FirstFreeLeafOnly(s, from, count) ==
  LET fit == {i \in from..MaxPage :
                i + count < MaxPage /\ Span(i, i + count) \cap s.leaf = {}}
  IN  IF fit = {} THEN 0 ELSE Min(fit)

(* The search of _alloc(): the first run of count free pages, or null.     *)
FirstFree(s, from, count) ==
  LET fit == {i \in from..MaxPage :
                i + count < MaxPage /\ \A p \in Span(i, i + count) : ~Present(s, p)}
  IN  IF fit = {} THEN 0 ELSE Min(fit)

RECURSIVE MapRange(_, _, _)
RECURSIVE Refill(_, _)

(* _alloc(): last_page moves to the pages found before they are mapped.    *)
AllocRun(s, low, count) ==
  LET i == FirstFree(s, IF low THEN 1 ELSE s.last, count)
  IN  IF i = 0 THEN [pt |-> s, page |-> 0]
      ELSE [pt |-> MapRange([s EXCEPT !.last = IF low THEN @ ELSE i], i, i + count),
            page |-> i]

(* The loop of _renewRsvd(): rsvd_w advances before its slot is filled, so *)
(* the page the slot before holds becomes available to the allocation.     *)
Refill(s, target_w) ==
  IF s.out \/ s.w = target_w THEN s
  ELSE LET Fill(a) == [a.pt EXCEPT !.rsvd[a.pt.w] = a.page, !.odd = @ \/ a.page = 0]
           Rest(t) == Refill(t, target_w)
       IN  With(With(AllocRun([s EXCEPT !.w = (@ + 1) % RsvdNum], FALSE, 1), Fill), Rest)

\* A mistake: the reserve is refilled up to the slot that is read next.
RenewRsvdFull(s) == Refill(s, s.r)

RenewRsvd(s) == Refill(s, (s.r + RsvdNum - 1) % RsvdNum)

(* _map() from page i up to top: tables that are missing come from the     *)
(* reserve, which is refilled when it is empty after an entry is written.  *)
MapRange(s, i, top) ==
  IF s.out \/ i >= top THEN s
  ELSE LET huge == i % Fan = 0 /\ top - i >= Fan
           Write(t) == IF t.out THEN t ELSE IF huge THEN SetHuge(t, i) ELSE SetLeaf(t, i)
           Check(t) == IF t.r = t.w THEN RenewRsvd(t) ELSE t
           Rest(t) == With(IF huge THEN i + Fan ELSE i + 1, LAMBDA n : MapRange(t, n, top))
       IN  With(With(With(Need(Need(s, Tables(i)[1]), Tables(i)[2]), Write), Check), Rest)

(* The search of _halloc(): i counts huge pages, the skip counts pages.    *)
RECURSIVE HugeFree(_, _)
HugeFree(s, i) ==
  LET busy == {ii \in 0..(Fan - 1) : Present(s, i * Fan + ii)}
  IN  IF i + 1 >= MaxPage THEN 0
      ELSE IF busy = {} THEN i * Fan
      ELSE HugeFree(s, i + Min(busy) + 1)

-----------------------------------------------------------------------------
(* Pages of the tables that initMB() builds, and the reserve after them.   *)
BootTables == [t \in {<<1, 0>>, <<2, 0>>} \cup ({3} \X (0..(Preset - 1))) |->
                 IF t[1] = 3 THEN PtBase + 3 + t[2] ELSE PtBase + t[1]]

Init ==
  /\ pt = [leaf |-> {}, huge |-> {}, tab |-> BootTables,
           rsvd |-> [k \in 0..(RsvdNum - 1) |-> PtBase + 3 + Preset + k],
           r |-> 0, w |-> RsvdNum - 1, last |-> LowLimit,
           out |-> FALSE, odd |-> FALSE, clobbered |-> {}]
  /\ boot = 0 /\ owned = {} /\ claimed = {} /\ calls = 0

\* The first area of initMB() is that of the tables and the reserve.
Areas == <<<<PtBase, PtBase + 3 + Preset + RsvdNum>>>> \o BootAreas

(* init(): one _map() after the other, ...                                 *)
BootMap ==
  /\ boot < Len(Areas) /\ ~pt.out
  /\ LET area == Areas[boot + 1]
     IN  /\ pt' = MapRange(pt, area[1], area[2])
         /\ claimed' = claimed \cup (IF boot = 0 THEN {PtBase} ELSE Span(area[1], area[2]))
  /\ boot' = boot + 1
  /\ UNCHANGED <<owned, calls>>

(* and the reserve is filled at the end.                                   *)
BootDone ==
  /\ boot = Len(Areas) /\ ~pt.out
  /\ pt' = RenewRsvd(pt)
  /\ boot' = boot + 1
  /\ UNCHANGED <<owned, claimed, calls>>

Running == boot > Len(Areas) /\ ~pt.out
Call == Running /\ calls < MaxCalls /\ calls' = calls + 1

\* What the caller of alloc(), halloc() or lowalloc() gets; null is no block.
Blocks(page, number, length) ==
  IF page = 0 THEN {} ELSE {<<page + k * length, length>> : k \in 0..(number - 1)}

Alloc(count) ==
  LET a == AllocRun(pt, FALSE, count) IN
  /\ Call
  /\ pt' = RenewRsvd(a.pt)
  /\ owned' = owned \cup Blocks(a.page, count, 1)
  /\ UNCHANGED <<boot, claimed>>

LowAlloc ==
  LET a == AllocRun(pt, TRUE, 1) IN
  /\ Call
  /\ pt' = RenewRsvd(a.pt)
  /\ owned' = owned \cup Blocks(a.page, 1, 1)
  /\ UNCHANGED <<boot, claimed>>

(* halloc(1), the only use of it (alloc() calls it for 512 pages and more). *)
Halloc ==
  LET i == HugeFree(pt, (pt.last + Fan - 1) \div Fan) IN
  /\ Call
  /\ pt' = RenewRsvd(IF i = 0 THEN pt
                     ELSE MapRange([pt EXCEPT !.odd = @ \/ i >= MaxPage], i, i + Fan))
  /\ owned' = owned \cup Blocks(i, 1, Fan)
  /\ UNCHANGED <<boot, claimed>>

(* map(); mapping a page again (another type) is no call that counts.       *)
MapArea(area) ==
  /\ IF Span(area[1], area[2]) \subseteq claimed THEN Running /\ UNCHANGED calls ELSE Call
  /\ pt' = RenewRsvd(MapRange(pt, area[1], area[2]))
  /\ claimed' = claimed \cup Span(area[1], area[2])
  /\ UNCHANGED <<boot, owned>>

\* A mistake: last_page moves back to every page that is freed.
LowerLastAny(last, page) == IF page < last THEN page ELSE last

(* alloc() searches from the lowest page freed, the first 16 MB excepted.  *)
LowerLast(last, page) == IF page < last /\ page >= LowLimit THEN page ELSE last

\* A mistake: the entry of the whole table is cleared.
UnmapTable(s, page) ==
  [s EXCEPT !.huge = @ \ {page \div Fan},
            !.leaf = {p \in @ : p \div Fan # page \div Fan}]

(* The entry that find() returns is the huge page's if there is one.       *)
Unmap(s, page) ==
  IF page \div Fan \in s.huge THEN [s EXCEPT !.huge = @ \ {page \div Fan}]
                              ELSE [s EXCEPT !.leaf = @ \ {page}]

Free(block) ==
  /\ Call
  /\ pt' = IF Present(pt, block[1])
             THEN [Unmap(pt, block[1]) EXCEPT !.last = LowerLast(@, block[1])]
             ELSE pt
  /\ owned' = owned \ {block}
  /\ UNCHANGED <<boot, claimed>>

Next ==
  \/ BootMap \/ BootDone
  \/ \E count \in Counts : Alloc(count)
  \/ LowAlloc \/ Halloc
  \/ \E area \in MapAreas : MapArea(area)
  \/ \E block \in owned : Free(block)

Spec == Init /\ [][Next]_vars

(* The boot CPU keeps executing init().                                    *)
FairSpec == Spec /\ WF_vars(BootMap) /\ WF_vars(BootDone)

-----------------------------------------------------------------------------
OwnedPages == UNION {Span(b[1], b[1] + b[2]) : b \in owned}
TablePages == Range(pt.tab)
RsvdPages == Range(pt.rsvd) \ {0}

(* Types; tables hang below tables, pages below tables.                    *)
TypeOK ==
  /\ pt.leaf \cup pt.huge \cup TablePages \cup Range(pt.rsvd) \subseteq Nat
  /\ pt.r \in 0..(RsvdNum - 1) /\ pt.w \in 0..(RsvdNum - 1) /\ pt.last >= LowLimit
  /\ \A p \in pt.leaf : Range(Tables(p)) \subseteq DOMAIN pt.tab
  /\ \A h \in pt.huge : {Tables(h * Fan)[1], Tables(h * Fan)[2]} \subseteq DOMAIN pt.tab

Reserved == (pt.w + RsvdNum - pt.r) % RsvdNum

(* The reserve never runs out: no call finds it empty when it needs a table *)
(* ("OUT OF RSVD" is printed with page_mutex locked, for good).  Between    *)
(* calls every slot from rsvd_r to rsvd_w has a page, unless memory ran     *)
(* out, and at most the three tables that the refill itself needed are      *)
(* missing: enough for the next call.                                       *)
NeverOut ==
  /\ ~pt.out
  /\ Running => /\ Reserved + 3 >= RsvdNum - 1
                /\ ~pt.odd => \A k \in 0..Reserved : pt.rsvd[(pt.r + k) % RsvdNum] # 0

(* No page has two uses: blocks handed out, tables, the reserve and what    *)
(* init() and map() claimed are disjoint, no table or slot of the reserve   *)
(* shares its page with another, and all of them are mapped (as long as     *)
(* memory does not run out and halloc() stays inside it).  No page is lost: *)
(* a mapped page of memory has one of those uses; in particular no slot of  *)
(* the reserve is overwritten while it holds a page, and no huge page       *)
(* replaces a table.                                                        *)
OneUse ==
  LET used == OwnedPages \cup TablePages \cup RsvdPages \cup claimed
  IN  Running =>
        /\ ~pt.odd =>
             /\ Cardinality(used) = Cardinality(OwnedPages) + Cardinality(DOMAIN pt.tab)
                                       + (Reserved + 1) + Cardinality(claimed)
             /\ \A p \in used : Present(pt, p)
             /\ \A b, c \in owned : b # c => Span(b[1], b[1] + b[2]) \cap Span(c[1], c[1] + c[2]) = {}
        /\ \A p \in 0..(MaxPage - 1) : Present(pt, p) => p \in used

(* Only free() unmaps a page.                                               *)
OnlyFreeUnmaps ==
  [][\A p \in OwnedPages \cup TablePages \cup claimed :
       Present(pt, p) => Present(pt', p) \/ \E b \in owned \ owned' : p \in Span(b[1], b[1] + b[2])]_vars

(* No 4 KB entry is written into the contents of a huge page, unless        *)
(* halloc() handed out memory beyond the end.                               *)
NoClobber == ~pt.odd => pt.clobbered = {}

(* The boot CPU gets through Pagetable::init(): the step "Initialize        *)
(* [memory subsystem]" of the boot process ends.                            *)
MemoryReady == <>(boot > Len(Areas))
=============================================================================
