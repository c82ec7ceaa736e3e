---------------------------- MODULE KernelLocks -----------------------------
(***************************************************************************)
(* Which locks of the kernel are taken inside which, and by what code they *)
(* can be interrupted: the paths of the module loader on the boot CPU,     *)
(* which run with interrupts enabled, those of system calls and faults on  *)
(* the other CPUs, and those of interrupt handlers.  Only the order of     *)
(* lock() and release() on a path is kept; a Mutex is a spinning test and  *)
(* set with one holder.  The locks are heap_mutex, processSwitchMutex      *)
(* ("sched"), page_mutex and the mutex of the serial console.              *)
(***************************************************************************)
EXTENDS Naturals, Sequences

CONSTANTS
  CPU,
  BSP,        \* the CPU that loads the modules
  Calls,      \* what user code does: system calls and faults
  Devices,    \* {"irq"} if a device may raise interrupts (keyboard), or {}
  MaxWork,    \* bound: operations of the module loader
  MaxTicks,   \* bound: interrupts
  Null

ASSUME KernelLocksAssumption ==
  /\ BSP \in CPU /\ Calls \subseteq {"puts", "kread", "exit", "fault"}
  /\ Devices \subseteq {"irq"} /\ MaxWork \in Nat /\ MaxTicks \in Nat /\ Null \notin CPU

VARIABLES
  holder,   \* holder[l]: the CPU that holds lock l, or Null
  stack,    \* stack[c]: the paths CPU c is on, innermost first: <<path, position>>
  work,     \* what the module loader has left to do
  ticks     \* the interrupts so far

vars == <<holder, stack, work, ticks>>

Lock == {"heap", "sched", "page", "console"}

L(l) == <<"lock", l>>
U(l) == <<"release", l>>

new == <<L("heap"), L("page"), U("page"), U("heap")>>      \* Heap::alloc()
delete == <<L("heap"), U("heap")>>                         \* Heap::free()
page == <<L("page"), U("page")>>                           \* Pagetable::alloc(), free()
kprint == <<L("console"), U("console")>>
current == <<L("sched"), U("sched")>>                      \* currentProcess(), SwitchProcess()

\* registerProcess(): the lists it adds to take pages.
register == <<L("sched"), L("page"), U("page"), U("sched")>>

\* syscall_puts(): readString() allocates, ~ptr() frees.
puts == current \o new \o kprint \o delete

\* syscall_kread(): Pagetable::map().
kread == current \o page

\* A mistake: the process is deleted before the lock is dropped.
faultLocked == <<L("sched")>> \o kprint \o page \o delete \o <<U("sched")>>

\* HandleFault(): print, delete the process and the node, switch.
fault == current \o kprint \o page \o delete \o current

\* exitProcess(): the node is deleted under the lock, the process after it.
exit == current \o <<L("sched")>> \o delete \o <<U("sched")>> \o page \o delete

Path == [new |-> new, delete |-> delete, page |-> page, print |-> kprint,
         register |-> register, tick |-> current, irq |-> kprint,
         puts |-> puts, kread |-> kread, fault |-> fault, exit |-> exit]

Loader == {"new", "delete", "page", "print", "register"}

Init ==
  /\ holder = [l \in Lock |-> Null]
  /\ stack = [c \in CPU |-> <<>>]
  /\ work = MaxWork /\ ticks = 0

-----------------------------------------------------------------------------
Top(c) == Head(stack[c])
NextOf(c) == Path[Top(c)[1]][Top(c)[2]]

\* A mistake: registerProcess() takes its lock with interrupts enabled.
DisabledLate(c) ==
  \/ Top(c)[1] \notin Loader
  \/ holder["page"] = c \/ NextOf(c) = L("page")

(* Interrupts are disabled in handlers and system calls, and where the     *)
(* loader waits for or holds a lock by way of CriticalLock.                *)
Disabled(c) ==
  \/ Top(c)[1] \notin Loader
  \/ Top(c)[1] = "register"
  \/ holder["page"] = c \/ NextOf(c) = L("page")

Interruptible(c) == stack[c] # <<>> => ~Disabled(c)

Push(c, path) == stack' = [stack EXCEPT ![c] = <<<<path, 1>>>> \o @]

(* The next operation of the module loader.                                *)
Load(c) ==
  /\ c = BSP /\ stack[c] = <<>> /\ work > 0
  /\ \E path \in Loader : Push(c, path)
  /\ work' = work - 1
  /\ UNCHANGED <<holder, ticks>>

(* User code of another CPU enters the kernel.                             *)
Enter(c) ==
  /\ c # BSP /\ stack[c] = <<>>
  /\ \E path \in Calls : Push(c, path)
  /\ UNCHANGED <<holder, work, ticks>>

(* The timer, or a device that the kernel only prints about.               *)
Interrupt(c) ==
  /\ Interruptible(c) = TRUE /\ ticks < MaxTicks
  /\ ticks' = ticks + 1
  /\ \E path \in {"tick"} \cup Devices : Push(c, path)
  /\ UNCHANGED <<holder, work>>

(* The path goes on; at its end the interrupted one does.                  *)
Passed(c) ==
  IF Top(c)[2] = Len(Path[Top(c)[1]])
    THEN Tail(stack[c])
    ELSE <<<<Top(c)[1], Top(c)[2] + 1>>>> \o Tail(stack[c])

\* A mistake: the lock is set without a look at what it was.
AcquireUntested(c) ==
  /\ stack[c] # <<>> /\ NextOf(c)[1] = "lock"
  /\ holder' = [holder EXCEPT ![NextOf(c)[2]] = c]
  /\ stack' = [stack EXCEPT ![c] = Passed(c)]
  /\ UNCHANGED <<work, ticks>>

(* lock() gets the mutex; while another holds it, the CPU spins.           *)
Acquire(c) ==
  /\ stack[c] # <<>> /\ NextOf(c)[1] = "lock"
  /\ holder[NextOf(c)[2]] = Null
  /\ holder' = [holder EXCEPT ![NextOf(c)[2]] = c]
  /\ stack' = [stack EXCEPT ![c] = Passed(c)]
  /\ UNCHANGED <<work, ticks>>

Release(c) ==
  /\ stack[c] # <<>> /\ NextOf(c)[1] = "release"
  /\ holder' = [holder EXCEPT ![NextOf(c)[2]] = Null]
  /\ stack' = [stack EXCEPT ![c] = Passed(c)]
  /\ UNCHANGED <<work, ticks>>

Next == \E c \in CPU :
  Load(c) \/ Enter(c) \/ Interrupt(c) \/ Acquire(c) \/ Release(c)

Spec == Init /\ [][Next]_vars

(* A CPU that finds a lock free again and again gets it, and code goes on   *)
(* between interrupts, of which a run has finitely many.                    *)
FairSpec ==
  /\ Spec
  /\ \A c \in CPU : WF_vars(Load(c)) /\ SF_vars(Acquire(c)) /\ WF_vars(Release(c))

-----------------------------------------------------------------------------
(* Types; a path that releases a lock holds it.                            *)
TypeOK ==
  /\ holder \in [Lock -> CPU \cup {Null}] /\ work \in 0..MaxWork /\ ticks \in 0..MaxTicks
  /\ \A c \in CPU : \A i \in 1..Len(stack[c]) :
       /\ stack[c][i][1] \in DOMAIN Path
       /\ stack[c][i][2] \in 1..Len(Path[stack[c][i][1]])
  /\ \A c \in CPU : stack[c] # <<>> /\ NextOf(c)[1] = "release" => holder[NextOf(c)[2]] = c

(* CPU c waits for a lock that CPU d holds.                                *)
WaitsFor(c, d) ==
  stack[c] # <<>> /\ NextOf(c)[1] = "lock" /\ holder[NextOf(c)[2]] = d

(* No CPUs wait for one another in a circle; in particular no handler waits *)
(* for a lock that the code it interrupted holds.                           *)
NoCircle ==
  \A S \in SUBSET CPU : S # {} => \E c \in S : \A d \in S : ~WaitsFor(c, d)

(* The boot CPU gets through the module loader and reaches process_loop().  *)
LoaderEnds == <>(work = 0 /\ stack[BSP] = <<>>)
=============================================================================
