----------------------------- MODULE HeapProofs -----------------------------
(***************************************************************************)
(* What Heap::alloc() hands out, for every size of pages, every request    *)
(* and every order in which Pagetable::halloc() returns huge pages.        *)
(***************************************************************************)
EXTENDS Heap, TLAPS

(* The inductive invariant: past the check of the pages, the place under    *)
(* consideration is covered by pages of the heap.                           *)
IInv == TypeOK /\ Disjoint /\ Contained /\ (pc = "scan" => Covered(ptr))

(* Division with remainder, for the pages a block spans.                   *)
LEMMA Division ==
  ASSUME NEW n \in Nat, NEW d \in Nat \ {0}
  PROVE  /\ n \div d \in Nat /\ (n \div d) * d <= n /\ n < (n \div d) * d + d
         /\ n % d \in Nat /\ n % d < d /\ n % d <= n
BY Z3

(* The loop of alloc() over the pages of a block, which starts at the 4 KB  *)
(* page of the first byte and goes in steps of 2 MB, reaches every byte.    *)
LEMMA CoveredBytes ==
  ASSUME TypeOK, Covered(ptr), NEW x \in ptr..(ptr + size - 1)
  PROVE  \E p \in Taken : p <= x /\ x < p + Huge
<1> DEFINE base == ptr - (ptr % Small)
           k == (x - base) \div Huge
<1>1. base \in Nat /\ base <= ptr /\ ptr < base + Small
  BY Division, HeapAssumption DEF TypeOK
<1>2. x \in Nat /\ x - base \in Nat /\ x < ptr + size
  BY <1>1 DEF TypeOK
<1>3. k \in Nat /\ k * Huge <= x - base /\ x - base < k * Huge + Huge
  BY <1>2, Division, HeapAssumption
<1> HIDE DEF base, k
<1>4. k * Huge \in Nat
  BY <1>3, HeapAssumption
<1>5. k * Huge < size + Huge - 1
  BY <1>1, <1>2, <1>3, <1>4, HeapAssumption DEF TypeOK
<1>6. k \in 0..size
  <2> SUFFICES ASSUME k > size PROVE FALSE
    BY <1>3 DEF TypeOK
  <2>1. k - 1 \in Nat /\ (k - 1) * Huge >= k - 1 /\ k * Huge = (k - 1) * Huge + Huge
    BY <1>3, HeapAssumption DEF TypeOK
  <2> QED  BY <2>1, <1>3, <1>4, <1>5, HeapAssumption DEF TypeOK
<1>7. base + k * Huge \in Taken
  BY <1>1, <1>2, <1>3, <1>4, <1>6, HeapAssumption DEF Covered, TypeOK, base
<1>8. base + k * Huge <= x /\ x < base + k * Huge + Huge
  BY <1>1, <1>2, <1>3, <1>4, HeapAssumption
<1> QED
  BY <1>7, <1>8

(* AlignUp() moves an address up, never down.                              *)
LEMMA AlignUpNat ==
  ASSUME TypeOK, NEW x \in Nat
  PROVE  AlignUp(x) \in Nat
<1>1. x % align \in Nat /\ x % align < align
  BY Division DEF TypeOK
<1> QED
  BY <1>1 DEF AlignUp, TypeOK

(* The slots of the table of huge pages hold addresses.                    *)
LEMMA PagesNat ==
  ASSUME TypeOK
  PROVE  /\ \A i \in 1..Len(pages) : pages[i] \in Nat
         /\ pages # <<>> => pages[1] \in Nat
<1>1. pages \in Seq(HugePages)
  BY DEF TypeOK
<1>2. \A i \in 1..Len(pages) : pages[i] \in HugePages
  BY <1>1
<1>3. pages # <<>> => 1 \in 1..Len(pages)
  BY <1>1
<1>4. HugePages \subseteq Nat
  BY HeapAssumption
<1> QED
  BY <1>2, <1>3, <1>4, Zenon

(* Every step of alloc() and free() keeps the invariant.                   *)
LEMMA HeapStep == IInv /\ [Next]_vars => IInv'
<1> SUFFICES ASSUME IInv, [Next]_vars PROVE IInv'
  OBVIOUS
<1> USE HeapAssumption
<1>1. CASE Alloc
  BY <1>1 DEF IInv, Alloc, TypeOK, Disjoint, Contained, Taken
<1>2. CASE FindPage
  <2>1. pages # <<>> => pages[1] \in Nat
    BY PagesNat DEF IInv
  <2> QED
    BY <1>2, <2>1 DEF IInv, FindPage, TypeOK, Disjoint, Contained, Taken
<1>3. CASE NewPage
  <2>1. TypeOK'
    BY <1>3, SMTT(60) DEF IInv, NewPage, TypeOK, Taken
  <2>2. Taken \subseteq Taken'
    BY <1>3, SMTT(60) DEF IInv, NewPage, TypeOK, Taken
  <2> QED
    BY <1>3, <2>1, <2>2 DEF IInv, NewPage, Disjoint, Contained
<1>4. CASE CheckPages
  <2>1. Start \in Nat
    BY AlignUpNat DEF IInv, TypeOK, Start
  <2>2. TypeOK'
    <3>1. \A i \in 1..Len(pages) : pages[i] \in Nat
      BY PagesNat DEF IInv
    <3>2. ptr' \in Nat /\ pc' \in {"new", "check", "scan"}
      BY <1>4, <2>1, <3>1 DEF CheckPages, Further
    <3> QED
      BY <1>4, <3>2 DEF IInv, CheckPages, TypeOK
  <2>3. pc' = "scan" => Covered(ptr)'
    BY <1>4 DEF CheckPages, Covered, Taken
  <2> QED
    BY <1>4, <2>2, <2>3 DEF IInv, CheckPages, Disjoint, Contained, Taken
<1>5. CASE Skip
  BY <1>5 DEF IInv, Skip, TypeOK, Disjoint, Contained, Taken
<1>6. CASE Save
  <2>1. TypeOK'
    BY <1>6 DEF IInv, Save, TypeOK
  <2>2. \A b \in allocs : b.addr + b.size <= ptr \/ ptr + size <= b.addr
    BY <1>6 DEF IInv, Save, TypeOK, Hits
  <2>3. Disjoint'
    BY <1>6, <2>2 DEF IInv, Save, TypeOK, Disjoint
  <2>4. \A x \in ptr..(ptr + size - 1) : \E p \in Taken : p <= x /\ x < p + Huge
    BY <1>6, CoveredBytes DEF IInv, Save
  <2>5. Contained'
    BY <1>6, <2>4 DEF IInv, Save, Contained, Taken
  <2> QED
    BY <1>6, <2>1, <2>3, <2>5 DEF IInv, Save
<1>7. CASE Free
  BY <1>7 DEF IInv, Free, TypeOK, Disjoint, Contained, Taken
<1>8. CASE UNCHANGED vars
  BY <1>8 DEF IInv, vars, TypeOK, Disjoint, Contained, Taken, Covered
<1> QED
  BY <1>1, <1>2, <1>3, <1>4, <1>5, <1>6, <1>7, <1>8 DEF Next

(* The invariant holds in every state of alloc() and free().               *)
THEOREM Inductive == Spec => []IInv
<1>1. Init => IInv
  BY DEF Init, IInv, TypeOK, Disjoint, Contained
<1> QED
  BY <1>1, HeapStep, PTL DEF Spec

(* The lists and counters of Heap keep their types, for every page size    *)
(* and every sequence of alloc() and free().                               *)
THEOREM TypeCorrect == Spec => []TypeOK
BY Inductive, PTL DEF IInv

(* No two live blocks of Heap::alloc() share a byte.                       *)
THEOREM BlocksDisjoint == Spec => []Disjoint
BY Inductive, PTL DEF IInv

(* Every live block of Heap::alloc() lies in huge pages the heap has taken. *)
THEOREM BlocksContained == Spec => []Contained
BY Inductive, PTL DEF IInv
=============================================================================
