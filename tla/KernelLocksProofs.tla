------------------------- MODULE KernelLocksProofs --------------------------
(***************************************************************************)
(* What KernelLocks promises for any number of CPUs and of interrupts: a   *)
(* path releases only what it holds, and, as long as no process exits and  *)
(* no device is there to print about, CPUs never wait in a circle.  Each   *)
(* path is first shown to match a table of the locks it holds at each of   *)
(* its steps; the invariant says that the holder of a lock is the CPU one  *)
(* of whose paths has it in the table, and that what an interrupt handler  *)
(* interrupted holds no more than the heap's or the console's lock.        *)
(***************************************************************************)
EXTENDS KernelLocks, SequenceTheorems, TLAPS

(* The locks a path holds when it comes to each of its steps.              *)
hasNew == <<{}, {"heap"}, {"heap", "page"}, {"heap"}>>
hasDelete == <<{}, {"heap"}>>
hasPage == <<{}, {"page"}>>
hasPrint == <<{}, {"console"}>>
hasCurrent == <<{}, {"sched"}>>
hasRegister == <<{}, {"sched"}, {"sched", "page"}, {"sched"}>>
hasInside == <<{"sched"}, {"sched", "heap"}>>

Has ==
  [new |-> hasNew, delete |-> hasDelete, page |-> hasPage, print |-> hasPrint,
   register |-> hasRegister, tick |-> hasCurrent, irq |-> hasPrint,
   puts |-> hasCurrent \o hasNew \o hasPrint \o hasDelete,
   kread |-> hasCurrent \o hasPage,
   fault |-> hasCurrent \o hasPrint \o hasPage \o hasDelete \o hasCurrent,
   exit |-> hasCurrent \o <<{}>> \o hasInside \o <<{"sched"}>> \o hasPage \o hasDelete]

(* The order in which the locks are taken: from the highest down.          *)
Rank == [page |-> 0, sched |-> 1, heap |-> 2, console |-> 2]

Op == {"lock", "release"} \X Lock

(* What step k of a path that ends with the locks b leaves it with.        *)
After(h, b, k) == IF k < Len(h) THEN h[k + 1] ELSE b

Takes(s, h, b, k, l) == s[k] = L(l) /\ l \notin h[k] /\ After(h, b, k) = h[k] \cup {l}
Drops(s, h, b, k, l) == s[k] = U(l) /\ l \in h[k] /\ After(h, b, k) = h[k] \ {l}

(* Path s holds what table h says, begins with the locks a, ends with b.   *)
Runs(s, h, a, b) ==
  /\ s \in Seq(Op) /\ h \in Seq(SUBSET Lock) /\ Len(s) = Len(h) /\ Len(s) > 0
  /\ h[1] = a
  /\ \A k \in 1..Len(s) : \E l \in Lock : Takes(s, h, b, k, l) \/ Drops(s, h, b, k, l)

(* Path s takes locks downwards only.                                      *)
Descends(s, h) ==
  \A k \in 1..Len(s) : \A l, m \in Lock : s[k] = L(l) /\ m \in h[k] => Rank[l] < Rank[m]

(* Where path s of the loader can be interrupted, it holds one of these.   *)
Leaves(s, h) ==
  \A k \in 1..Len(s) :
    s[k] # L("page") /\ "page" \notin h[k] => h[k] \subseteq {"heap", "console"}

-----------------------------------------------------------------------------
(* Two paths, the second of which begins with what the first ends with.    *)
LEMMA Compose ==
  ASSUME NEW s, NEW h, NEW t, NEW g, NEW a, NEW b, NEW d, Runs(s, h, a, b), Runs(t, g, b, d)
  PROVE  Runs(s \o t, h \o g, a, d)
<1>1. /\ s \o t \in Seq(Op) /\ Len(s \o t) = Len(s) + Len(t)
      /\ \A k \in 1..Len(s) : (s \o t)[k] = s[k]
      /\ \A k \in 1..Len(t) : (s \o t)[Len(s) + k] = t[k]
  <2>1. s \in Seq(Op) /\ t \in Seq(Op)
    BY DEF Runs
  <2> QED
    BY <2>1
<1>2. /\ h \o g \in Seq(SUBSET Lock) /\ Len(h \o g) = Len(s) + Len(t)
      /\ \A k \in 1..Len(s) : (h \o g)[k] = h[k]
      /\ \A k \in 1..Len(t) : (h \o g)[Len(s) + k] = g[k]
  BY DEF Runs
<1>3. PICK r : r = s \o t
  BY Zenon
<1>4. PICK f : f = h \o g
  BY Zenon
<1>5. /\ Len(s) \in Nat /\ Len(t) \in Nat /\ Len(s) > 0 /\ Len(t) > 0
      /\ Len(h) = Len(s) /\ Len(g) = Len(t) /\ g[1] = b /\ h[1] = a
  BY DEF Runs
<1>6. ASSUME NEW k \in 1..Len(r)
      PROVE  \E l \in Lock : Takes(r, f, d, k, l) \/ Drops(r, f, d, k, l)
  <2>1. CASE k \in 1..Len(s)
    <3>1. PICK l \in Lock : Takes(s, h, b, k, l) \/ Drops(s, h, b, k, l)
      BY <2>1 DEF Runs
    <3>2. r[k] = s[k] /\ f[k] = h[k]
      BY <1>1, <1>2, <1>3, <1>4, <2>1
    <3>3. k < Len(f) /\ f[k + 1] = IF k < Len(s) THEN h[k + 1] ELSE g[1]
      <4>1. k < Len(s) => k + 1 \in 1..Len(s)
        BY <1>5, <2>1
      <4>2. k = Len(s) => f[k + 1] = g[1]
        BY <1>2, <1>4, <1>5
      <4> QED
        BY <1>2, <1>4, <1>5, <2>1, <4>1, <4>2
    <3>4. After(f, d, k) = After(h, b, k)
      BY <1>5, <3>3 DEF After
    <3> QED
      BY <3>1, <3>2, <3>4 DEF Takes, Drops
  <2>2. CASE k \notin 1..Len(s)
    <3>1. PICK j \in 1..Len(t) : k = Len(s) + j
      <4>1. k - Len(s) \in 1..Len(t) /\ k = Len(s) + (k - Len(s))
        BY <1>1, <1>3, <1>5, <2>2
      <4> QED
        BY <4>1, Zenon
    <3>2. PICK l \in Lock : Takes(t, g, d, j, l) \/ Drops(t, g, d, j, l)
      BY <3>1 DEF Runs
    <3>3. r[k] = t[j] /\ f[k] = g[j]
      BY <1>1, <1>2, <1>3, <1>4, <3>1
    <3>4. j < Len(t) => f[k + 1] = g[j + 1]
      <4>1. j < Len(t) => j + 1 \in 1..Len(t) /\ k + 1 = Len(s) + (j + 1)
        BY <1>5, <3>1
      <4> QED
        BY <1>2, <1>4, <4>1, SMTT(60)
    <3>5. After(f, d, k) = After(g, d, j)
      BY <1>2, <1>4, <1>5, <3>1, <3>4 DEF After
    <3> QED
      BY <3>2, <3>3, <3>5 DEF Takes, Drops
  <2> QED
    BY <2>1, <2>2
<1>7. f[1] = a
  BY <1>2, <1>4, <1>5
<1> QED
  BY <1>1, <1>2, <1>3, <1>4, <1>5, <1>6, <1>7 DEF Runs

(* Two paths that take locks downwards do so one after the other.          *)
LEMMA ComposeDescends ==
  ASSUME NEW s, NEW h, NEW t, NEW g, NEW a, NEW b, NEW d, Runs(s, h, a, b), Runs(t, g, b, d),
         Descends(s, h), Descends(t, g)
  PROVE  Descends(s \o t, h \o g)
<1>1. /\ Len(s \o t) = Len(s) + Len(t) /\ Len(s) \in Nat /\ Len(t) \in Nat
      /\ \A k \in 1..Len(s) : (s \o t)[k] = s[k] /\ (h \o g)[k] = h[k]
      /\ \A k \in 1..Len(t) : (s \o t)[Len(s) + k] = t[k] /\ (h \o g)[Len(s) + k] = g[k]
  BY SMTT(60) DEF Runs
<1>2. PICK r : r = s \o t
  BY Zenon
<1>3. PICK f : f = h \o g
  BY Zenon
<1>4. SUFFICES ASSUME NEW k \in 1..Len(r), NEW l \in Lock, NEW m \in Lock,
                      r[k] = L(l), m \in f[k]
               PROVE  Rank[l] < Rank[m]
  BY <1>2, <1>3, Zenon DEF Descends
<1>5. CASE k \in 1..Len(s)
  BY <1>1, <1>2, <1>3, <1>4, <1>5, Zenon DEF Descends
<1>6. CASE k \notin 1..Len(s)
  <2>1. k - Len(s) \in 1..Len(t) /\ k = Len(s) + (k - Len(s))
    BY <1>1, <1>2, <1>6
  <2>2. PICK j \in 1..Len(t) : k = Len(s) + j
    BY <2>1, Zenon
  <2>3. r[k] = t[j] /\ f[k] = g[j]
    BY <1>1, <1>2, <1>3, <2>2, Zenon
  <2> QED
    BY <1>4, <2>3, Zenon DEF Descends
<1> QED
  BY <1>5, <1>6

(* The parts that paths are made of.                                       *)
LEMMA Parts ==
  /\ Runs(new, hasNew, {}, {}) /\ Descends(new, hasNew)
  /\ Runs(delete, hasDelete, {}, {}) /\ Descends(delete, hasDelete)
  /\ Runs(page, hasPage, {}, {}) /\ Descends(page, hasPage)
  /\ Runs(kprint, hasPrint, {}, {}) /\ Descends(kprint, hasPrint)
  /\ Runs(current, hasCurrent, {}, {}) /\ Descends(current, hasCurrent)
  /\ Runs(register, hasRegister, {}, {}) /\ Descends(register, hasRegister)
<1>1. Runs(new, hasNew, {}, {}) /\ Descends(new, hasNew)
  BY DEF new, hasNew, Runs, Takes, Drops, After, Descends, Rank, Op, L, U, Lock
<1>2. Runs(delete, hasDelete, {}, {}) /\ Descends(delete, hasDelete)
  BY DEF delete, hasDelete, Runs, Takes, Drops, After, Descends, Rank, Op, L, U, Lock
<1>3. Runs(page, hasPage, {}, {}) /\ Descends(page, hasPage)
  BY DEF page, hasPage, Runs, Takes, Drops, After, Descends, Rank, Op, L, U, Lock
<1>4. Runs(kprint, hasPrint, {}, {}) /\ Descends(kprint, hasPrint)
  BY DEF kprint, hasPrint, Runs, Takes, Drops, After, Descends, Rank, Op, L, U, Lock
<1>5. Runs(current, hasCurrent, {}, {}) /\ Descends(current, hasCurrent)
  BY DEF current, hasCurrent, Runs, Takes, Drops, After, Descends, Rank, Op, L, U, Lock
<1>6. Runs(register, hasRegister, {}, {}) /\ Descends(register, hasRegister)
  BY DEF register, hasRegister, Runs, Takes, Drops, After, Descends, Rank, Op, L, U, Lock
<1> QED
  BY <1>1, <1>2, <1>3, <1>4, <1>5, <1>6, Zenon

(* exitProcess() frees the node under the lock.                            *)
LEMMA InsideParts ==
  /\ Runs(<<L("sched")>>, <<{}>>, {}, {"sched"})
  /\ Runs(delete, hasInside, {"sched"}, {"sched"})
  /\ Runs(<<U("sched")>>, <<{"sched"}>>, {"sched"}, {})
<1>1. Runs(<<L("sched")>>, <<{}>>, {}, {"sched"})
  BY DEF Runs, Takes, Drops, After, Op, L, U, Lock
<1>2. Runs(delete, hasInside, {"sched"}, {"sched"})
  BY DEF delete, hasInside, Runs, Takes, Drops, After, Op, L, U, Lock
<1>3. Runs(<<U("sched")>>, <<{"sched"}>>, {"sched"}, {})
  BY DEF Runs, Takes, Drops, After, Op, L, U, Lock
<1> QED
  BY <1>1, <1>2, <1>3, Zenon

(* The names of the paths.                                                 *)
LEMMA Names ==
  /\ DOMAIN Path = Loader \cup {"tick", "irq", "puts", "kread", "fault", "exit"}
  /\ Path["new"] = new /\ Path["delete"] = delete /\ Path["page"] = page
  /\ Path["print"] = kprint /\ Path["register"] = register /\ Path["tick"] = current
  /\ Path["irq"] = kprint /\ Path["puts"] = puts /\ Path["kread"] = kread
  /\ Path["fault"] = fault /\ Path["exit"] = exit
BY DEF Path, Loader

(* Every path holds what the table says, and nothing at its end; all but   *)
(* exitProcess() take locks downwards: page_mutex inside any other,        *)
(* processSwitchMutex inside those of the heap and the console.            *)
LEMMA Paths ==
  /\ \A p \in DOMAIN Path : Runs(Path[p], Has[p], {}, {})
  /\ \A p \in DOMAIN Path \ {"exit"} : Descends(Path[p], Has[p])
<1> DEFINE Good(s, h) == Runs(s, h, {}, {}) /\ Descends(s, h)
<1>1. ASSUME NEW s, NEW h, NEW t, NEW g, Good(s, h), Good(t, g)
      PROVE  Good(s \o t, h \o g)
  BY <1>1, Compose, ComposeDescends, Zenon
<1>2. /\ Good(new, hasNew) /\ Good(delete, hasDelete) /\ Good(page, hasPage)
      /\ Good(kprint, hasPrint) /\ Good(current, hasCurrent) /\ Good(register, hasRegister)
  BY Parts, Zenon
<1> HIDE DEF Good
<1>3. Good(puts, hasCurrent \o hasNew \o hasPrint \o hasDelete)
  <2>1. Good(current \o new, hasCurrent \o hasNew)
    BY <1>1, <1>2, Zenon
  <2>2. Good(current \o new \o kprint, hasCurrent \o hasNew \o hasPrint)
    BY <1>1, <1>2, <2>1, Zenon
  <2> QED
    BY <1>1, <1>2, <2>2, Zenon DEF puts
<1>4. Good(kread, hasCurrent \o hasPage)
  BY <1>1, <1>2, Zenon DEF kread
<1>5. Good(fault, hasCurrent \o hasPrint \o hasPage \o hasDelete \o hasCurrent)
  <2>1. Good(current \o kprint, hasCurrent \o hasPrint)
    BY <1>1, <1>2, Zenon
  <2>2. Good(current \o kprint \o page, hasCurrent \o hasPrint \o hasPage)
    BY <1>1, <1>2, <2>1, Zenon
  <2>3. Good(current \o kprint \o page \o delete, hasCurrent \o hasPrint \o hasPage \o hasDelete)
    BY <1>1, <1>2, <2>2, Zenon
  <2> QED
    BY <1>1, <1>2, <2>3, Zenon DEF fault
<1>6. Runs(exit, hasCurrent \o <<{}>> \o hasInside \o <<{"sched"}>> \o hasPage \o hasDelete,
           {}, {})
  <2>1. Runs(current \o <<L("sched")>>, hasCurrent \o <<{}>>, {}, {"sched"})
    BY Compose, Parts, InsideParts, Zenon
  <2>2. Runs(current \o <<L("sched")>> \o delete, hasCurrent \o <<{}>> \o hasInside,
             {}, {"sched"})
    BY <2>1, Compose, InsideParts, Zenon
  <2>3. Runs(current \o <<L("sched")>> \o delete \o <<U("sched")>>,
             hasCurrent \o <<{}>> \o hasInside \o <<{"sched"}>>, {}, {})
    BY <2>2, Compose, InsideParts, Zenon
  <2>4. Runs(current \o <<L("sched")>> \o delete \o <<U("sched")>> \o page,
             hasCurrent \o <<{}>> \o hasInside \o <<{"sched"}>> \o hasPage, {}, {})
    BY <2>3, Compose, Parts, Zenon
  <2> QED
    BY <2>4, Compose, Parts, Zenon DEF exit
<1>7. /\ Has["new"] = hasNew /\ Has["delete"] = hasDelete /\ Has["page"] = hasPage
      /\ Has["print"] = hasPrint /\ Has["register"] = hasRegister
      /\ Has["tick"] = hasCurrent /\ Has["irq"] = hasPrint
      /\ Has["puts"] = hasCurrent \o hasNew \o hasPrint \o hasDelete
      /\ Has["kread"] = hasCurrent \o hasPage
      /\ Has["fault"] = hasCurrent \o hasPrint \o hasPage \o hasDelete \o hasCurrent
      /\ Has["exit"] = hasCurrent \o <<{}>> \o hasInside \o <<{"sched"}>> \o hasPage \o hasDelete
  BY Zenon DEF Has
<1>8. /\ Good(Path["new"], Has["new"]) /\ Good(Path["delete"], Has["delete"])
      /\ Good(Path["page"], Has["page"]) /\ Good(Path["print"], Has["print"])
      /\ Good(Path["register"], Has["register"]) /\ Good(Path["tick"], Has["tick"])
      /\ Good(Path["irq"], Has["irq"]) /\ Good(Path["puts"], Has["puts"])
      /\ Good(Path["kread"], Has["kread"]) /\ Good(Path["fault"], Has["fault"])
  BY <1>2, <1>3, <1>4, <1>5, <1>7, Names, Zenon
<1>9. \A p \in DOMAIN Path \ {"exit"} : Good(Path[p], Has[p])
  BY <1>8, Names, Zenon DEF Loader
<1>10. Runs(Path["exit"], Has["exit"], {}, {})
  BY <1>6, <1>7, Names, Zenon
<1> QED
  BY <1>9, <1>10, Zenon DEF Good

(* The loader is interrupted with the heap's lock, the console's or none.  *)
LEMMA PathsLeave ==
  \A p \in Loader \ {"register"} : Leaves(Path[p], Has[p])
<1>1. Leaves(Path["new"], Has["new"])
  BY DEF new, hasNew, Path, Has, Leaves, L, U
<1>2. Leaves(Path["delete"], Has["delete"])
  BY DEF delete, hasDelete, Path, Has, Leaves, L, U
<1>3. Leaves(Path["page"], Has["page"])
  BY DEF page, hasPage, Path, Has, Leaves, L, U
<1>4. Leaves(Path["print"], Has["print"])
  BY DEF kprint, hasPrint, Path, Has, Leaves, L, U
<1> QED
  BY <1>1, <1>2, <1>3, <1>4, Zenon DEF Loader

-----------------------------------------------------------------------------
Name == DOMAIN Path
Frame == Name \X Nat
Fits(f) == f[2] \in 1..Len(Path[f[1]])
Locks(f) == Has[f[1]][f[2]]

(* The locks CPU c holds for the path it is on, and for the one that was   *)
(* interrupted.                                                            *)
Mine(c) == IF stack[c] = <<>> THEN {} ELSE Locks(stack[c][1])
Under(c) == IF Len(stack[c]) = 2 THEN Locks(stack[c][2]) ELSE {}

(* What the loader, user code and interrupts can be on.                    *)
Kinds == Loader \cup {"tick"} \cup Calls \cup Devices

Base == holder \in [Lock -> CPU \cup {Null}] /\ work \in 0..MaxWork /\ ticks \in 0..MaxTicks

Stacks ==
  /\ stack \in [CPU -> Seq(Frame)]
  /\ \A c \in CPU : Len(stack[c]) <= 2
  /\ \A c \in CPU : \A i \in 1..Len(stack[c]) :
       Fits(stack[c][i]) /\ stack[c][i][1] \in Kinds

(* Only a handler interrupts, and never a path with another lock.          *)
Nested ==
  \A c \in CPU : Len(stack[c]) = 2 =>
    /\ stack[c][1][1] \in {"tick"} \cup Devices
    /\ Under(c) \subseteq {"heap", "console"}
    /\ Mine(c) \cap Under(c) = {}

Holding ==
  \A c \in CPU, l \in Lock : holder[l] = c <=> l \in Mine(c) \cup Under(c)

IInv == Base /\ Stacks /\ Nested /\ Holding

(* Sequences with an element put before them, and without their first.     *)
LEMMA Cons ==
  ASSUME NEW S, NEW x \in S, NEW s \in Seq(S)
  PROVE  /\ <<x>> \o s \in Seq(S) /\ Len(<<x>> \o s) = Len(s) + 1 /\ (<<x>> \o s)[1] = x
         /\ \A i \in 1..Len(s) : (<<x>> \o s)[i + 1] = s[i]
         /\ <<x>> \o s # <<>>
OBVIOUS

(* A sequence without its first element.                                   *)
LEMMA Rest ==
  ASSUME NEW S, NEW s \in Seq(S), s # <<>>
  PROVE  /\ Tail(s) \in Seq(S) /\ Len(Tail(s)) = Len(s) - 1 /\ Len(s) > 0
         /\ Head(s) = s[1] /\ s[1] \in S
         /\ \A i \in 1..Len(Tail(s)) : Tail(s)[i] = s[i + 1]
         /\ Tail(s) = <<>> <=> Len(s) = 1
<1>1. /\ Tail(s) \in Seq(S) /\ Len(Tail(s)) = Len(s) - 1 /\ Len(s) > 0
      /\ Head(s) = s[1] /\ s[1] \in S
  OBVIOUS
<1>2. \A i \in 1..Len(Tail(s)) : Tail(s)[i] = s[i + 1]
  OBVIOUS
<1>3. Tail(s) = <<>> <=> Len(Tail(s)) = 0
  BY <1>1, SMTT(60)
<1> QED
  BY <1>1, <1>2, <1>3

(* A path and a position of it.                                            *)
LEMMA FrameAt ==
  ASSUME NEW p \in DOMAIN Path, NEW k \in 1..Len(Path[p])
  PROVE  /\ <<p, k>> \in Frame /\ <<p, k>>[1] = p /\ <<p, k>>[2] = k
         /\ Fits(<<p, k>>) /\ Locks(<<p, k>>) = Has[p][k]
<1>1. Len(Path[p]) \in Nat
  BY Paths DEF Runs
<1>2. k \in Nat
  BY <1>1
<1>3. <<p, k>>[1] = p /\ <<p, k>>[2] = k
  OBVIOUS
<1>4. <<p, k>> \in Frame
  <2>1. p \in Name
    BY DEF Name
  <2> QED
    BY <1>2, <2>1 DEF Frame
<1> QED
  BY <1>3, <1>4 DEF Fits, Locks

(* Where CPU c may enter a path.                                           *)
Enters(c, path) ==
  \/ stack[c] = <<>>
  \/ /\ Len(stack[c]) = 1 /\ path \in {"tick"} \cup Devices
     /\ Mine(c) \subseteq {"heap", "console"}

(* A CPU enters a path: from user code or from nothing, or by an interrupt *)
(* of a path that holds no more than the heap's or the console's lock.     *)
LEMMA PushStep ==
  ASSUME IInv, Base', holder' = holder, NEW c \in CPU,
         NEW path \in Kinds, Push(c, path), Enters(c, path)
  PROVE  IInv'
<1>1. path \in DOMAIN Path
  BY KernelLocksAssumption, Names, Zenon DEF Loader, Kinds
<1>2. PICK x : x = <<path, 1>>
  BY Zenon
<1>3. stack \in [CPU -> Seq(Frame)] /\ stack[c] \in Seq(Frame)
  BY DEF IInv, Stacks
<1>4. /\ x \in Frame /\ Fits(x) /\ Locks(x) = {} /\ x[1] = path
  <2>1. Len(Path[path]) \in Nat /\ Len(Path[path]) > 0 /\ Has[path][1] = {}
    BY <1>1, Paths DEF Runs
  <2>2. 1 \in 1..Len(Path[path])
    BY <2>1
  <2> QED
    BY <1>1, <1>2, <2>1, <2>2, FrameAt
<1>5. PICK t : t = <<x>> \o stack[c]
  BY Zenon
<1>6. stack' = [stack EXCEPT ![c] = t]
  BY <1>2, <1>5 DEF Push
<1>7. /\ t \in Seq(Frame) /\ Len(t) = Len(stack[c]) + 1 /\ t[1] = x /\ t # <<>>
      /\ \A i \in 1..Len(stack[c]) : t[i + 1] = stack[c][i]
  BY <1>3, <1>4, <1>5, Cons
<1>8. /\ stack' \in [CPU -> Seq(Frame)] /\ stack'[c] = t
      /\ \A d \in CPU : d # c => stack'[d] = stack[d]
  BY <1>3, <1>6, <1>7
<1>9. \/ stack[c] = <<>> /\ Len(stack[c]) = 0 /\ Len(t) = 1
      \/ stack[c] # <<>> /\ Len(stack[c]) = 1 /\ Len(t) = 2
  <2>1. CASE stack[c] = <<>>
    BY <1>7, <2>1
  <2>2. CASE stack[c] # <<>>
    <3>1. Len(stack[c]) = 1
      BY <2>2, Zenon DEF Enters
    <3> QED
      BY <1>7, <2>2, <3>1
  <2> QED
    BY <2>1, <2>2
<1>10. Stacks'
  <2>1. \A i \in 1..Len(t) : i = 1 \/ (i - 1 \in 1..Len(stack[c]) /\ i = (i - 1) + 1)
    BY <1>7, <1>9
  <2>2. \A i \in 1..Len(t) : i = 1 \/ (i - 1 \in 1..Len(stack[c]) /\ t[i] = stack[c][i - 1])
    BY <1>7, <2>1
  <2>3. \A i \in 1..Len(t) :
          Fits(t[i]) /\ t[i][1] \in Kinds
    BY <1>4, <1>7, <2>2, Zenon DEF IInv, Stacks
  <2>4. \A d \in CPU : Len(stack'[d]) <= 2
    <3>1. 1 <= 2 /\ 2 <= 2
      OBVIOUS
    <3>2. \A d \in CPU : Len(stack[d]) <= 2
      BY DEF IInv, Stacks
    <3>3. Len(t) <= 2
      BY <1>9, <3>1, Zenon
    <3> QED
      BY <1>8, <3>2, <3>3, Zenon
  <2>5. \A d \in CPU : \A i \in 1..Len(stack'[d]) :
          Fits(stack'[d][i]) /\ stack'[d][i][1] \in Kinds
    BY <1>8, <2>3, Zenon DEF IInv, Stacks
  <2> QED
    BY <1>8, <2>4, <2>5 DEF Stacks
<1>11. \A d \in CPU : d # c => Mine(d)' = Mine(d) /\ Under(d)' = Under(d)
  BY <1>8 DEF Mine, Under
<1>12. Mine(c)' = {}
  BY <1>4, <1>7, <1>8 DEF Mine
<1>13. Under(c)' = Mine(c) /\ Under(c) = {}
  <2>1. CASE Len(stack[c]) = 0
    BY <1>7, <1>8, <1>9, <2>1 DEF Mine, Under
  <2>2. CASE Len(stack[c]) = 1
    <3>1. Len(t) = 2 /\ t[2] = stack[c][1]
      BY <1>7, <2>2
    <3> QED
      BY <1>8, <1>9, <2>2, <3>1 DEF Mine, Under
  <2> QED
    BY <1>9, <2>1, <2>2
<1>14. Nested'
  <2>1. Len(stack'[c]) = 2 =>
          stack'[c][1][1] \in {"tick"} \cup Devices /\ Mine(c) \subseteq {"heap", "console"}
    <3>1. Len(t) = 2 => Len(stack[c]) = 1
      <4>1. 1 # 2
        OBVIOUS
      <4> QED
        BY <1>9, <4>1, Zenon
    <3>2. Len(t) = 2 => path \in {"tick"} \cup Devices /\ Mine(c) \subseteq {"heap", "console"}
      BY <1>9, <3>1 DEF Enters
    <3> QED
      BY <1>4, <1>7, <1>8, <3>2, Zenon
  <2> QED
    BY <1>8, <1>11, <1>12, <1>13, <2>1 DEF IInv, Nested
<1>15. Holding'
  BY <1>11, <1>12, <1>13, SMTT(60) DEF IInv, Holding
<1> QED
  BY <1>10, <1>14, <1>15 DEF IInv

(* CPU c goes on to hold the locks n for the path it is on; what it held   *)
(* for the interrupted path it still holds.                                *)
GoesOn(c, n) ==
  /\ \A d \in CPU : d # c => Mine(d)' = Mine(d) /\ Under(d)' = Under(d)
  /\ Mine(c)' \cup Under(c)' = n \cup Under(c)
  /\ \A d \in CPU : Len(stack'[d]) = 2 =>
       Len(stack[d]) = 2 /\ stack'[d][1][1] = stack[d][1][1] /\ Under(d)' = Under(d)
  /\ Len(stack'[c]) = 2 => Mine(c)' = n

(* The step that CPU c is at, by the table.                                *)
LEMMA StepAt ==
  ASSUME IInv, NEW c \in CPU, stack[c] # <<>>
  PROVE  /\ Top(c) = stack[c][1] /\ Top(c)[1] \in Name /\ Top(c)[2] \in 1..Len(Path[Top(c)[1]])
         /\ \E l \in Lock :
              \/ Takes(Path[Top(c)[1]], Has[Top(c)[1]], {}, Top(c)[2], l)
              \/ Drops(Path[Top(c)[1]], Has[Top(c)[1]], {}, Top(c)[2], l)
<1>1. stack[c] \in Seq(Frame)
  BY DEF IInv, Stacks
<1>2. Top(c) = stack[c][1] /\ stack[c][1] \in Frame /\ 1 \in 1..Len(stack[c])
  BY <1>1, Rest DEF Top
<1>3. Top(c)[1] \in Name
  BY <1>2 DEF Frame
<1>4. Fits(Top(c))
  BY <1>2 DEF IInv, Stacks
<1>5. Top(c)[2] \in 1..Len(Path[Top(c)[1]])
  BY <1>4 DEF Fits
<1>6. Runs(Path[Top(c)[1]], Has[Top(c)[1]], {}, {})
  BY <1>3, Paths DEF Name
<1> QED
  BY <1>2, <1>3, <1>5, <1>6 DEF Runs

(* A path goes on, or ends and lets the interrupted one go on.             *)
LEMMA PassStep ==
  ASSUME IInv, NEW c \in CPU, stack[c] # <<>>, stack' = [stack EXCEPT ![c] = Passed(c)]
  PROVE  Stacks' /\ GoesOn(c, After(Has[Top(c)[1]], {}, Top(c)[2]))
<1>1. PICK p, k : p \in Name /\ p = Top(c)[1] /\ k = Top(c)[2] /\ k \in 1..Len(Path[p])
  BY StepAt
<1>2. PICK s \in Seq(Frame) : s = stack[c]
  BY DEF IInv, Stacks
<1>3. /\ s # <<>> /\ Tail(s) \in Seq(Frame) /\ Len(Tail(s)) = Len(s) - 1 /\ Len(s) \in {1, 2}
      /\ \A i \in 1..Len(Tail(s)) : Tail(s)[i] = s[i + 1]
      /\ Tail(s) = <<>> <=> Len(s) = 1
      /\ s[1][1] = p /\ Locks(s[1]) = Has[p][k]
  <2>1. Len(s) <= 2
    BY <1>2 DEF IInv, Stacks
  <2>2. Top(c) = s[1]
    BY <1>2, StepAt
  <2>3. s # <<>>
    BY <1>2
  <2>4. /\ Tail(s) \in Seq(Frame) /\ Len(Tail(s)) = Len(s) - 1 /\ Len(s) > 0
        /\ \A i \in 1..Len(Tail(s)) : Tail(s)[i] = s[i + 1]
        /\ Tail(s) = <<>> <=> Len(s) = 1
    BY <2>3, Rest
  <2>5. s[1][1] = p /\ Locks(s[1]) = Has[p][k]
    BY <1>1, <2>2 DEF Locks
  <2> QED
    BY <2>1, <2>3, <2>4, <2>5
<1>4. Len(Has[p]) = Len(Path[p]) /\ Len(Path[p]) \in Nat
  BY <1>1, Paths DEF Runs, Name
<1>5. \A i \in 1..Len(s) : Fits(s[i]) /\ s[i][1] \in Kinds
  BY <1>2 DEF IInv, Stacks
<1>6. PICK n : n = After(Has[p], {}, k)
  OBVIOUS
<1>7. PICK t : t = Passed(c)
  OBVIOUS
<1> DEFINE Top1 == IF t = <<>> THEN {} ELSE Locks(t[1])
           Top2 == IF Len(t) = 2 THEN Locks(t[2]) ELSE {}
<1>8. /\ t \in Seq(Frame) /\ Len(t) <= 2
      /\ \A i \in 1..Len(t) : Fits(t[i]) /\ t[i][1] \in Kinds
      /\ Top1 \cup Top2 = n \cup Under(c)
      /\ Len(t) = 2 => Len(s) = 2 /\ t[1][1] = p /\ Top2 = Under(c) /\ Top1 = n
  <2>1. CASE k = Len(Path[p])
    <3>1. t = Tail(s)
      BY <1>1, <1>2, <1>7, <2>1 DEF Passed
    <3>2. n = {}
      BY <1>4, <1>6, <2>1 DEF After
    <3>3. Len(t) < 2 /\ \A i \in 1..Len(t) : i + 1 \in 1..Len(s) /\ t[i] = s[i + 1]
      BY <1>3, <3>1
    <3>4. CASE Len(s) = 1
      <4>1. t = <<>> /\ Under(c) = {} /\ Len(t) = 0
        BY <1>2, <1>3, <3>1, <3>4 DEF Under
      <4> QED
        BY <1>3, <3>1, <3>2, <4>1
    <3>5. CASE Len(s) = 2
      <4>1. t # <<>> /\ Len(t) = 1 /\ t[1] = s[2] /\ Under(c) = Locks(s[2])
        BY <1>2, <1>3, <3>1, <3>5 DEF Under
      <4>2. Fits(t[1]) /\ t[1][1] \in Kinds
        BY <1>5, <3>5, <4>1
      <4>3. \A i \in 1..Len(t) : i = 1
        BY <4>1
      <4> QED
        BY <1>3, <3>1, <3>2, <4>1, <4>2, <4>3, SMTT(60)
    <3> QED
      BY <1>3, <3>4, <3>5
  <2>2. CASE k # Len(Path[p])
    <3>1. k + 1 \in 1..Len(Path[p]) /\ n = Has[p][k + 1]
      BY <1>1, <1>4, <1>6, <2>2, SMTT(60) DEF After
    <3>2. PICK g \in Frame : g = <<p, k + 1>>
      BY <1>1, <3>1, FrameAt, Zenon DEF Name
    <3>3. Fits(g) /\ g[1] = p /\ Locks(g) = n
      BY <1>1, <3>1, <3>2, FrameAt DEF Name
    <3>4. t = <<g>> \o Tail(s)
      BY <1>1, <1>2, <1>7, <2>2, <3>2 DEF Passed
    <3>5. /\ t \in Seq(Frame) /\ Len(t) = Len(s) /\ t[1] = g /\ t # <<>>
          /\ \A i \in 1..Len(Tail(s)) : t[i + 1] = Tail(s)[i]
      BY <1>3, <3>4, Cons
    <3>6. Len(s) = 2 => t[2] = s[2] /\ Under(c) = Locks(s[2])
      BY <1>2, <1>3, <3>5, SMTT(60) DEF Under
    <3>7. Len(s) # 2 => Under(c) = {}
      BY <1>2 DEF Under
    <3>8. p \in Kinds
      BY <1>3, <1>5
    <3>9. \A i \in 1..Len(t) : i = 1 \/ (i = 2 /\ Len(s) = 2)
      BY <1>3, <3>5
    <3>10. \A i \in 1..Len(t) : Fits(t[i]) /\ t[i][1] \in Kinds
      BY <1>5, <3>3, <3>5, <3>6, <3>8, <3>9
    <3>11. Top1 = n
      BY <3>3, <3>5
    <3>12. Top2 = Under(c)
      BY <3>5, <3>6, <3>7
    <3> HIDE DEF Top1, Top2
    <3> QED
      BY <1>3, <3>3, <3>5, <3>10, <3>11, <3>12, SMTT(60)
  <2> QED
    BY <2>1, <2>2
<1>9. /\ stack' \in [CPU -> Seq(Frame)] /\ stack'[c] = t
      /\ \A d \in CPU : d # c => stack'[d] = stack[d]
  BY <1>7, <1>8 DEF IInv, Stacks
<1>10. Stacks'
  <2>1. \A d \in CPU : Len(stack'[d]) <= 2
    BY <1>8, <1>9 DEF IInv, Stacks
  <2>2. \A d \in CPU : \A i \in 1..Len(stack'[d]) :
          Fits(stack'[d][i]) /\ stack'[d][i][1] \in Kinds
    BY <1>8, <1>9 DEF IInv, Stacks
  <2> QED
    BY <1>9, <2>1, <2>2 DEF Stacks
<1>11. Mine(c)' = Top1 /\ Under(c)' = Top2
  BY <1>9 DEF Mine, Under
<1>12. \A d \in CPU : d # c => Mine(d)' = Mine(d) /\ Under(d)' = Under(d)
  BY <1>9 DEF Mine, Under
<1> HIDE DEF Top1, Top2
<1>13. GoesOn(c, n)
  BY <1>2, <1>3, <1>8, <1>9, <1>11, <1>12, SMTT(60) DEF GoesOn
<1> QED
  BY <1>1, <1>6, <1>10, <1>13

(* A lock that nobody holds is taken.                                      *)
LEMMA AcquireStep ==
  ASSUME IInv, NEW c \in CPU, Acquire(c)
  PROVE  IInv'
<1>1. /\ stack[c] # <<>> /\ stack' = [stack EXCEPT ![c] = Passed(c)]
      /\ NextOf(c)[1] = "lock" /\ holder[NextOf(c)[2]] = Null
      /\ holder' = [holder EXCEPT ![NextOf(c)[2]] = c] /\ UNCHANGED <<work, ticks>>
  BY DEF Acquire
<1>2. PICK n : n = After(Has[Top(c)[1]], {}, Top(c)[2])
  OBVIOUS
<1>3. Stacks' /\ GoesOn(c, n)
  BY <1>1, <1>2, PassStep, Zenon
<1>4. Mine(c) = Has[Top(c)[1]][Top(c)[2]]
  BY <1>1, StepAt, SMTT(60) DEF Mine, Locks
<1>5. PICK l \in Lock : NextOf(c) = L(l) /\ n = Mine(c) \cup {l}
  <2>1. PICK l \in Lock :
          \/ Takes(Path[Top(c)[1]], Has[Top(c)[1]], {}, Top(c)[2], l)
          \/ Drops(Path[Top(c)[1]], Has[Top(c)[1]], {}, Top(c)[2], l)
    BY <1>1, StepAt, Zenon
  <2>2. NextOf(c) # U(l)
    BY <1>1 DEF U
  <2> QED
    BY <1>2, <1>4, <2>1, <2>2 DEF Takes, Drops, NextOf
<1>6. /\ holder[l] = Null /\ holder' = [holder EXCEPT ![l] = c]
      /\ holder \in [Lock -> CPU \cup {Null}]
  BY <1>1, <1>5 DEF L, IInv, Base
<1>7. \A d \in CPU : l \notin Mine(d) \cup Under(d)
  BY <1>6, KernelLocksAssumption DEF IInv, Holding
<1>8. Base'
  BY <1>1, <1>6, Zenon DEF IInv, Base
<1>9. Nested'
  <2>1. \A d \in CPU : Len(stack'[d]) = 2 => Mine(d)' \cap Under(d)' = {}
    BY <1>3, <1>5, <1>7 DEF GoesOn, IInv, Nested
  <2> QED
    BY <1>3, <2>1 DEF GoesOn, IInv, Nested
<1>10. Holding'
  <2>1. \A d \in CPU, m \in Lock : m # l => holder'[m] = holder[m]
    BY <1>6
  <2>2. holder'[l] = c
    BY <1>6
  <2>3. \A d \in CPU : d # c => Mine(d)' \cup Under(d)' = Mine(d) \cup Under(d)
    BY <1>3 DEF GoesOn
  <2>4. Mine(c)' \cup Under(c)' = Mine(c) \cup Under(c) \cup {l}
    BY <1>3, <1>5 DEF GoesOn
  <2> QED
    BY <1>7, <2>1, <2>2, <2>3, <2>4 DEF IInv, Holding
<1> QED
  BY <1>3, <1>8, <1>9, <1>10 DEF IInv

(* A lock that the path holds is released.                                 *)
LEMMA ReleaseStep ==
  ASSUME IInv, NEW c \in CPU, Release(c)
  PROVE  IInv'
<1>1. /\ stack[c] # <<>> /\ stack' = [stack EXCEPT ![c] = Passed(c)]
      /\ NextOf(c)[1] = "release"
      /\ holder' = [holder EXCEPT ![NextOf(c)[2]] = Null] /\ UNCHANGED <<work, ticks>>
  BY DEF Release
<1>2. PICK n : n = After(Has[Top(c)[1]], {}, Top(c)[2])
  OBVIOUS
<1>3. Stacks' /\ GoesOn(c, n)
  BY <1>1, <1>2, PassStep, Zenon
<1>4. Mine(c) = Has[Top(c)[1]][Top(c)[2]]
  BY <1>1, StepAt, SMTT(60) DEF Mine, Locks
<1>5. PICK l \in Lock : NextOf(c) = U(l) /\ l \in Mine(c) /\ n = Mine(c) \ {l}
  <2>1. PICK l \in Lock :
          \/ Takes(Path[Top(c)[1]], Has[Top(c)[1]], {}, Top(c)[2], l)
          \/ Drops(Path[Top(c)[1]], Has[Top(c)[1]], {}, Top(c)[2], l)
    BY <1>1, StepAt, Zenon
  <2>2. NextOf(c) # L(l)
    BY <1>1 DEF L
  <2> QED
    BY <1>2, <1>4, <2>1, <2>2 DEF Takes, Drops, NextOf
<1>6. holder' = [holder EXCEPT ![l] = Null] /\ holder \in [Lock -> CPU \cup {Null}]
  BY <1>1, <1>5 DEF U, IInv, Base
<1>7. l \notin Under(c)
  BY <1>5 DEF Under, IInv, Nested
<1>8. \A d \in CPU : d # c => l \notin Mine(d) \cup Under(d)
  <2>1. holder[l] = c
    BY <1>5 DEF IInv, Holding
  <2> QED
    BY <2>1 DEF IInv, Holding
<1>9. Base'
  BY <1>1, <1>6, Zenon DEF IInv, Base
<1>10. Nested'
  <2>1. \A d \in CPU : Len(stack'[d]) = 2 => Mine(d)' \cap Under(d)' = {}
    BY <1>3, <1>5 DEF GoesOn, IInv, Nested
  <2> QED
    BY <1>3, <2>1 DEF GoesOn, IInv, Nested
<1>11. Holding'
  <2>1. \A d \in CPU, m \in Lock : m # l => holder'[m] = holder[m]
    BY <1>6
  <2>2. holder'[l] = Null
    BY <1>6
  <2>3. \A d \in CPU : d # c => Mine(d)' \cup Under(d)' = Mine(d) \cup Under(d)
    BY <1>3 DEF GoesOn
  <2>4. Mine(c)' \cup Under(c)' = (Mine(c) \cup Under(c)) \ {l}
    BY <1>3, <1>5, <1>7 DEF GoesOn
  <2> QED
    BY <1>8, <2>1, <2>2, <2>3, <2>4, KernelLocksAssumption DEF IInv, Holding
<1> QED
  BY <1>3, <1>9, <1>10, <1>11 DEF IInv

(* Where an interrupt can come, the path it comes upon is the loader's and *)
(* holds no more than the heap's or the console's lock.                    *)
LEMMA InterruptEnters ==
  ASSUME IInv, NEW c \in CPU, Interruptible(c), NEW path \in {"tick"} \cup Devices
  PROVE  Enters(c, path)
<1>1. CASE stack[c] = <<>>
  BY <1>1 DEF Enters
<1>2. CASE stack[c] # <<>>
  <2>1. /\ Top(c)[1] \in Loader \ {"register"}
        /\ holder["page"] # c /\ NextOf(c) # L("page")
    BY <1>2 DEF Interruptible, Disabled
  <2>2. /\ Top(c) = stack[c][1] /\ Top(c)[2] \in 1..Len(Path[Top(c)[1]])
    BY <1>2, StepAt
  <2>3. Mine(c) = Has[Top(c)[1]][Top(c)[2]]
    BY <1>2, <2>2 DEF Mine, Locks
  <2>4. "page" \notin Mine(c)
    BY <2>1, SMTT(60) DEF IInv, Holding, Lock
  <2>5. Mine(c) \subseteq {"heap", "console"}
    BY <2>1, <2>2, <2>3, <2>4, PathsLeave DEF Leaves, NextOf
  <2>6. Len(stack[c]) = 1
    <3>1. Len(stack[c]) # 2
      BY <2>1, <2>2, KernelLocksAssumption DEF IInv, Nested, Loader
    <3>2. stack[c] \in Seq(Frame) /\ Len(stack[c]) <= 2
      BY DEF IInv, Stacks
    <3>3. PICK n \in Nat \ {0} : n = Len(stack[c])
      BY <1>2, <3>2, EmptySeq
    <3>4. n <= 2 /\ n # 2 => n = 1
      OBVIOUS
    <3> QED
      BY <3>1, <3>2, <3>3, <3>4, Zenon
  <2> QED
    BY <2>5, <2>6 DEF Enters
<1> QED
  BY <1>1, <1>2

(* Nobody holds a lock at the start.                                       *)
LEMMA InitInv == Init => IInv
<1> SUFFICES ASSUME Init PROVE IInv
  OBVIOUS
<1>1. Base
  BY KernelLocksAssumption DEF Init, Base
<1>2. \A c \in CPU : stack[c] = <<>> /\ Len(stack[c]) = 0
  BY Zenon DEF Init
<1>3. Stacks
  <2>1. stack \in [CPU -> Seq(Frame)]
    BY DEF Init
  <2> QED
    BY <1>2, <2>1 DEF Stacks
<1>4. \A c \in CPU : Mine(c) = {} /\ Under(c) = {}
  <2>1. \A c \in CPU : Len(stack[c]) # 2
    <3>1. 0 # 2
      OBVIOUS
    <3> QED
      BY <1>2, <3>1, Zenon
  <2> QED
    BY <1>2, <2>1, Zenon DEF Mine, Under
<1>5. Holding
  BY <1>4, KernelLocksAssumption DEF Init, Holding
<1>6. Nested
  BY <1>2 DEF Nested
<1> QED
  BY <1>1, <1>3, <1>5, <1>6 DEF IInv

(* Every step keeps the invariant.                                         *)
LEMMA NextInv == IInv /\ [Next]_vars => IInv'
<1> SUFFICES ASSUME IInv, [Next]_vars PROVE IInv'
  OBVIOUS
<1>1. ASSUME NEW c \in CPU, Load(c) PROVE IInv'
  <2>1. PICK path \in Loader : Push(c, path)
    BY <1>1 DEF Load
  <2>2. Base' /\ holder' = holder
    BY <1>1, KernelLocksAssumption DEF Load, IInv, Base
  <2>3. Enters(c, path) /\ path \in Kinds
    BY <1>1 DEF Load, Enters, Kinds
  <2> QED
    BY <2>1, <2>2, <2>3, PushStep
<1>2. ASSUME NEW c \in CPU, Enter(c) PROVE IInv'
  <2>1. PICK path \in Calls : Push(c, path)
    BY <1>2 DEF Enter
  <2>2. Base' /\ holder' = holder
    BY <1>2 DEF Enter, IInv, Base
  <2>3. Enters(c, path) /\ path \in Kinds
    BY <1>2 DEF Enter, Enters, Kinds
  <2> QED
    BY <2>1, <2>2, <2>3, PushStep
<1>3. ASSUME NEW c \in CPU, Interrupt(c) PROVE IInv'
  <2>1. PICK path \in {"tick"} \cup Devices : Push(c, path)
    BY <1>3 DEF Interrupt
  <2>2. Base' /\ holder' = holder
    BY <1>3, KernelLocksAssumption DEF Interrupt, IInv, Base
  <2>3. Enters(c, path)
    BY <1>3, InterruptEnters DEF Interrupt
  <2>4. path \in Kinds
    BY DEF Kinds
  <2> QED
    BY <2>1, <2>2, <2>3, <2>4, PushStep
<1>4. ASSUME NEW c \in CPU, Acquire(c) PROVE IInv'
  BY <1>4, AcquireStep
<1>5. ASSUME NEW c \in CPU, Release(c) PROVE IInv'
  BY <1>5, ReleaseStep
<1>6. CASE UNCHANGED vars
  BY <1>6, Zenon DEF vars, IInv, Base, Stacks, Nested, Holding, Mine, Under
<1> QED
  BY <1>1, <1>2, <1>3, <1>4, <1>5, <1>6 DEF Next

(* The locks are held as the table says, on any number of CPUs.            *)
THEOREM LockInvariant == Spec => []IInv
BY InitInv, NextInv, PTL DEF Spec

-----------------------------------------------------------------------------
(* A CPU releases only a lock that it holds, whatever system calls and     *)
(* devices there are: the lock() and release() of every path pair up.      *)
THEOREM ReleasesOwn == Spec => []TypeOK
<1>1. IInv => TypeOK
  <2> SUFFICES ASSUME IInv PROVE TypeOK
    OBVIOUS
  <2>1. ASSUME NEW c \in CPU, NEW i \in 1..Len(stack[c])
        PROVE  /\ stack[c][i][1] \in DOMAIN Path
               /\ stack[c][i][2] \in 1..Len(Path[stack[c][i][1]])
    <3>1. stack[c][i] \in Frame /\ Fits(stack[c][i])
      BY <2>1 DEF IInv, Stacks
    <3>2. stack[c][i][1] \in Name
      BY <3>1 DEF Frame
    <3> QED
      BY <3>1, <3>2 DEF Fits, Name
  <2>2. ASSUME NEW c \in CPU, stack[c] # <<>>, NextOf(c)[1] = "release"
        PROVE  holder[NextOf(c)[2]] = c
    <3>1. PICK l \in Lock :
            \/ Takes(Path[Top(c)[1]], Has[Top(c)[1]], {}, Top(c)[2], l)
            \/ Drops(Path[Top(c)[1]], Has[Top(c)[1]], {}, Top(c)[2], l)
      BY <2>2, StepAt, Zenon
    <3>2. NextOf(c) # L(l)
      BY <2>2, SMTT(60) DEF L
    <3>3. NextOf(c) = U(l) /\ l \in Has[Top(c)[1]][Top(c)[2]]
      BY <3>1, <3>2, SMTT(60) DEF Takes, Drops, NextOf
    <3>4. l \in Mine(c)
      BY <2>2, <3>3, StepAt DEF Mine, Locks
    <3>5. NextOf(c)[2] = l
      BY <3>3 DEF U
    <3> QED
      BY <3>4, <3>5 DEF IInv, Holding
  <2> QED
    BY <2>1, <2>2, Zenon DEF TypeOK, IInv, Base
<1> QED
  BY <1>1, LockInvariant, PTL

(* While no process exits and no device interrupts, a CPU that holds a     *)
(* lock waits only for a lock of a lower rank.                             *)
LEMMA WaitsBelow ==
  ASSUME IInv, "exit" \notin Calls, Devices = {},
         NEW c \in CPU, NEW d, NEW l \in Lock, holder[l] = c, WaitsFor(c, d)
  PROVE  \E m \in Lock : NextOf(c) = L(m) /\ holder[m] = d /\ Rank[m] < Rank[l]
<1>1. stack[c] # <<>> /\ NextOf(c)[1] = "lock" /\ holder[NextOf(c)[2]] = d
  BY DEF WaitsFor
<1>2. PICK p, k : p = Top(c)[1] /\ k = Top(c)[2]
  BY SMTT(60)
<1>3. p \in Name /\ k \in 1..Len(Path[p]) /\ p = stack[c][1][1] /\ Mine(c) = Has[p][k]
  BY <1>1, <1>2, StepAt, SMTT(60) DEF Mine, Locks
<1>4. PICK m \in Lock : NextOf(c) = L(m)
  <2>1. PICK m \in Lock : Takes(Path[p], Has[p], {}, k, m) \/ Drops(Path[p], Has[p], {}, k, m)
    BY <1>1, <1>2, StepAt, Zenon
  <2>2. NextOf(c) # U(m)
    BY <1>1 DEF U
  <2> QED
    BY <1>2, <2>1, <2>2 DEF Takes, Drops, NextOf
<1>5. holder[m] = d
  BY <1>1, <1>4 DEF L
<1>6. CASE l \in Mine(c)
  <2>1. p # "exit"
    <3>1. stack[c] \in Seq(Frame) /\ Len(stack[c]) > 0
      BY <1>1, EmptySeq DEF IInv, Stacks
    <3>2. p \in Kinds
      BY <1>3, <3>1 DEF IInv, Stacks
    <3> QED
      BY <3>2 DEF Kinds, Loader
  <2>2. Descends(Path[p], Has[p])
    BY <1>3, <2>1, Paths DEF Name
  <2>3. Path[p][k] = L(m)
    BY <1>2, <1>4 DEF NextOf
  <2> QED
    BY <1>3, <1>4, <1>5, <1>6, <2>2, <2>3 DEF Descends
<1>7. CASE l \notin Mine(c)
  <2>1. l \in Under(c)
    BY <1>7 DEF IInv, Holding
  <2>2. Len(stack[c]) = 2 /\ l \in {"heap", "console"} /\ p = "tick"
    BY <1>3, <2>1, SMTT(60) DEF Under, IInv, Nested
  <2>3. m = "sched"
    <3>1. Path["tick"][k] = L(m) /\ k \in 1..Len(Path["tick"])
      BY <1>2, <1>3, <1>4, <2>2 DEF NextOf
    <3> QED
      BY <3>1, Names DEF current, L, U
  <2> QED
    BY <1>4, <1>5, <2>2, <2>3 DEF Rank
<1> QED
  BY <1>6, <1>7

(* No exit and no device: what is assumed of the system for NoCircle.      *)
Quiet == "exit" \notin Calls /\ Devices = {}

(* While no process exits and no device interrupts, no CPUs wait for one   *)
(* another in a circle, on any number of CPUs: along a chain of waiting    *)
(* CPUs the rank of the lock waited for goes down, and there are three.    *)
THEOREM CircleFree == Quiet /\ Spec => []NoCircle
<1>1. Quiet /\ IInv => NoCircle
  <2> SUFFICES ASSUME Quiet, IInv, NEW S \in SUBSET CPU, S # {},
                      \A c \in S : \E d \in S : WaitsFor(c, d)
               PROVE  FALSE
    BY DEF NoCircle
  <2>1. ASSUME NEW c \in S, NEW l \in Lock, holder[l] = c
        PROVE  \E m \in Lock, d \in S : holder[m] = d /\ Rank[m] < Rank[l]
    <3>1. PICK d \in S : WaitsFor(c, d)
      OBVIOUS
    <3> QED
      BY <2>1, <3>1, WaitsBelow DEF Quiet
  <2>2. PICK l \in Lock, c \in S : holder[l] = c
    <3>1. PICK b \in S, c \in S : WaitsFor(b, c)
      BY SMTT(60)
    <3>2. PICK l \in Lock : NextOf(b) = L(l)
      <4>1. stack[b] # <<>> /\ NextOf(b)[1] = "lock"
        BY <3>1 DEF WaitsFor
      <4>2. PICK l \in Lock :
              \/ Takes(Path[Top(b)[1]], Has[Top(b)[1]], {}, Top(b)[2], l)
              \/ Drops(Path[Top(b)[1]], Has[Top(b)[1]], {}, Top(b)[2], l)
        BY <4>1, StepAt, Zenon
      <4>3. NextOf(b) # U(l)
        BY <4>1 DEF U
      <4> QED
        BY <4>2, <4>3 DEF Takes, Drops, NextOf
    <3> QED
      BY <3>1, <3>2 DEF WaitsFor, L
  <2>3. PICK l1 \in Lock, c1 \in S : holder[l1] = c1 /\ Rank[l1] < Rank[l]
    BY <2>1, <2>2
  <2>4. PICK l2 \in Lock, c2 \in S : holder[l2] = c2 /\ Rank[l2] < Rank[l1]
    BY <2>1, <2>3
  <2>5. PICK l3 \in Lock, c3 \in S : holder[l3] = c3 /\ Rank[l3] < Rank[l2]
    BY <2>1, <2>4
  <2>6. \A m \in Lock : Rank[m] \in {0, 1, 2}
    BY DEF Lock, Rank
  <2> QED
    BY <2>3, <2>4, <2>5, <2>6
<1>2. Quiet => Quiet'
  BY DEF Quiet
<1> QED
  BY <1>1, <1>2, LockInvariant, PTL DEF Spec
=============================================================================
