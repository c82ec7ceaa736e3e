-------------------------------- MODULE Heap --------------------------------
(***************************************************************************)
(* Heap::alloc() and Heap::free(): the search for a place among the huge   *)
(* pages the heap has taken.  Every call holds heap_mutex, so one call at  *)
(* a time is under way; its steps are the labels of the function.  The     *)
(* table of huge pages keeps its order, which the search depends on; the   *)
(* table of allocations is the set of its used entries.                    *)
(***************************************************************************)
EXTENDS Integers, Sequences, FiniteSets

CONSTANTS
  Small,       \* bytes of a 4 KB page, the granularity of the mask in alloc()
  Huge,        \* bytes of a 2 MB page, the unit the heap takes memory in
  HugePages,   \* addresses of the huge pages Pagetable::halloc() may return
  Sizes,       \* the sizes and
  Aligns,      \* alignments callers ask for
  MaxAllocs    \* bound: blocks allocated at a time

ASSUME HeapAssumption ==
  /\ Small \in Nat \ {0} /\ Huge \in Nat \ {0} /\ Small <= Huge
  /\ HugePages \subseteq Nat \ {0}
  /\ Sizes \subseteq Nat \ {0} /\ Aligns \subseteq Nat \ {0} /\ MaxAllocs \in Nat

VARIABLES
  pages,    \* heap_pages: the huge pages of the heap, in the order of their slots
  allocs,   \* the used entries of the allocation table
  pc, ptr, page, size, align   \* of the call that holds heap_mutex

vars == <<pages, allocs, pc, ptr, page, size, align>>

Init ==
  /\ pages = <<>> /\ allocs = {}
  /\ pc = "idle" /\ ptr = 0 /\ page = 0 /\ size = 1 /\ align = 1

Taken == {pages[i] : i \in 1..Len(pages)}

(* alloc() of a nonzero size enters with the lock.                         *)
Alloc ==
  /\ pc = "idle" /\ Cardinality(allocs) < MaxAllocs
  /\ \E s \in Sizes, a \in Aligns : size' = s /\ align' = a
  /\ ptr' = 0 /\ pc' = "find"
  /\ UNCHANGED <<pages, allocs, page>>

(* find_page: ptr is 0, so the first slot is taken, if there is one.       *)
FindPage ==
  /\ pc = "find"
  /\ IF pages = <<>> THEN pc' = "new" /\ UNCHANGED page
                     ELSE pc' = "check" /\ page' = pages[1]
  /\ UNCHANGED <<pages, allocs, ptr, size, align>>

\* A mistake: the null that halloc() returns for want of memory is kept.
NewPageNull ==
  /\ pc = "new"
  /\ \/ \E p \in HugePages \ Taken : pages' = Append(pages, p)
     \/ HugePages \subseteq Taken /\ pages' = Append(pages, 0)
  /\ ptr' = 0 /\ pc' = "find"
  /\ UNCHANGED <<allocs, page, size, align>>

(* new_page: halloc() fills the next slot; when it has no page to give the  *)
(* slot stays empty, the search starts over and comes back here.            *)
NewPage ==
  /\ pc = "new"
  /\ \/ \E p \in HugePages \ Taken : pages' = Append(pages, p)
     \/ HugePages \subseteq Taken /\ UNCHANGED pages
  /\ ptr' = 0 /\ pc' = "find"
  /\ UNCHANGED <<allocs, page, size, align>>

-----------------------------------------------------------------------------
AlignUp(x) == IF x % align = 0 THEN x ELSE x + (align - (x % align))

Start == AlignUp(IF ptr < page THEN page ELSE ptr)

\* A mistake: the last byte of the block is not looked at.
CoveredShort(a) == \A k \in 0..size :
  LET pg == a - (a % Small) + k * Huge IN pg < a + size - 1 => pg \in Taken

(* Every page the loop over the block visits, from the 4 KB page of its     *)
(* first byte in steps of 2 MB, is a page of the heap.                      *)
Covered(a) == \A k \in 0..size :
  LET pg == a - (a % Small) + k * Huge IN pg < a + size => pg \in Taken

\* A mistake: a page at the place already tried is tried again.
FurtherSame(a) == {i \in 1..Len(pages) : pages[i] >= a}

Further(a) == {i \in 1..Len(pages) : pages[i] > a}

(* check_ptr, the part about pages: the block lies in pages of the heap; or *)
(* a page further on is tried, the first in the order of the slots; or the  *)
(* heap takes another page.                                                 *)
CheckPages ==
  /\ pc = "check"
  /\ IF Covered(Start)
       THEN ptr' = Start /\ pc' = "scan"
       ELSE IF Further(Start) = {}
              THEN ptr' = Start /\ pc' = "new"
              ELSE /\ \E i \in Further(Start) :
                        /\ \A j \in Further(Start) : i <= j
                        /\ ptr' = pages[i]
                   /\ pc' = "check"
  /\ UNCHANGED <<pages, allocs, page, size, align>>

\* A mistake: only a block around the first byte is noticed.
HitsFirst(b) == b.addr <= ptr /\ ptr < b.addr + b.size

(* A block that touches the new one at its end counts as in the way.       *)
Hits(b) == ~(ptr >= b.addr + b.size \/ ptr + size < b.addr)

(* check_ptr, the part about allocations: past one that is in the way.     *)
Skip ==
  /\ pc = "scan"
  /\ \E b \in allocs : Hits(b) /\ ptr' = b.addr + b.size
  /\ pc' = "check"
  /\ UNCHANGED <<pages, allocs, page, size, align>>

(* Save the allocation and return.                                         *)
Save ==
  /\ pc = "scan" /\ \A b \in allocs : ~Hits(b)
  /\ allocs' = allocs \cup {[addr |-> ptr, size |-> size]}
  /\ pc' = "idle" /\ ptr' = 0 /\ page' = 0 /\ size' = 1 /\ align' = 1
  /\ UNCHANGED pages

(* free() of a block.                                                      *)
Free ==
  /\ pc = "idle"
  /\ \E b \in allocs : allocs' = allocs \ {b}
  /\ UNCHANGED <<pages, pc, ptr, page, size, align>>

Next == Alloc \/ FindPage \/ NewPage \/ CheckPages \/ Skip \/ Save \/ Free

Spec == Init /\ [][Next]_vars

FairSpec == Spec /\ WF_vars(FindPage \/ NewPage \/ CheckPages \/ Skip \/ Save)

-----------------------------------------------------------------------------
(* Types: a slot that is used holds a page, a block has a byte at least.    *)
TypeOK ==
  /\ pages \in Seq(HugePages) /\ allocs \subseteq [addr : Nat, size : Nat \ {0}]
  /\ pc \in {"idle", "find", "new", "check", "scan"}
  /\ ptr \in Nat /\ page \in Nat /\ size \in Nat \ {0} /\ align \in Nat \ {0}

(* Two blocks that are allocated at a time have no byte in common.         *)
Disjoint == \A b, d \in allocs :
  b # d => b.addr + b.size <= d.addr \/ d.addr + d.size <= b.addr

(* Every byte of a block that is allocated lies in a huge page of the heap, *)
(* also where the block goes over the end of one.                           *)
Contained == \A b \in allocs : \A x \in b.addr..(b.addr + b.size - 1) :
  \E p \in Taken : p <= x /\ x < p + Huge

(* A call returns, unless the memory runs out of huge pages.               *)
Returns == pc = "find" ~> (pc = "idle" \/ Taken = HugePages)
=============================================================================
