-------------------------------- MODULE Boot --------------------------------
(***************************************************************************)
(* From x64_entry to process_loop() on every CPU: the walk over the ACPI   *)
(* tables, the interrupt vectors, the start of the application CPUs from a *)
(* page in low memory, and the barrier by which a CPU that meets a fault   *)
(* in the kernel stops the others.  A CPU is named by the id of its local  *)
(* APIC.                                                                   *)
(***************************************************************************)
EXTENDS Naturals, Sequences, FiniteSets

CONSTANTS
  Cpus,      \* APIC ids of the CPUs of the machine
  BSP,       \* the id of the boot CPU
  Machines,  \* what the firmware may offer: [apic: CPUID's bit for a local APIC,
             \* roots: the root pointers in the order they are tried], a root pointer
             \* [sum: of its bytes, rev: revision, rsdt, xsdt: tables; xsdt = <<>> if null]
  Width,     \* values of the counters of CPUs, 256 in the code
  Modules,   \* bound: modules to load
  MayFault   \* CPUs that may meet a fault in kernel code

Id == 0..(Width - 1)

\* A table is <<"other">>, or <<"apic", ids>> with the APIC ids a MADT names.
Table == {<<"other">>} \cup ({"apic"} \X Seq(Id))
IsMadt(table) == table[1] = "apic"
RootPointer == [sum : Nat, rev : Nat, rsdt : Seq(Table), xsdt : Seq(Table)]

(* The tables of a root pointer: none for a revision that is not known.    *)
TablesOf(r) ==
  IF r.rev = 0 \/ (r.rev = 2 /\ r.xsdt = <<>>) THEN r.rsdt
  ELSE IF r.rev = 2 THEN r.xsdt ELSE <<>>

UsesXsdt(r) == r.rev = 2 /\ r.xsdt # <<>>

\* There is one MADT at most.  It names the boot CPU, and fewer CPUs than there are numbers.
MadtOk(tables) ==
  \A i \in 1..Len(tables) : IsMadt(tables[i]) =>
    /\ Len(tables[i][2]) < Width
    /\ \E k \in 1..Len(tables[i][2]) : tables[i][2][k] = BSP
    /\ \A j \in 1..Len(tables) : IsMadt(tables[j]) => i = j

ASSUME BootAssumption ==
  /\ BSP \in Cpus /\ IsFiniteSet(Cpus) /\ Cpus \subseteq Id /\ MayFault \subseteq Cpus
  /\ Width \in Nat \ {0, 1} /\ Modules \in Nat
  /\ \A m \in Machines :
       /\ m \in [apic : 0..1, roots : Seq(RootPointer)]
       /\ \A i \in 1..Len(m.roots) : MadtOk(TablesOf(m.roots[i]))

VARIABLES
  machine,     \* the machine, which never changes
  pc,          \* pc[c]: where CPU c is
  root, entry, \* the root pointer and the entry of its table that is looked at
  item,        \* the entry of the MADT that is looked at
  lapic,       \* 1 once localApicAddr is known, else 0
  cpuIds,      \* acpiCpuLapicIds
  lapicIds,    \* acpiLapicCpuIds
  cpuCount,    \* acpiCpuCount
  active,      \* activeCpuCount
  vectors,     \* CPUs whose vectors are loaded and whose interrupts are enabled
  timer,       \* CPUs whose timer is running
  callbacks,   \* 1 once Scheduler::setup() is done, else 0
  bootPages,   \* 1 while the startup page and its arrays are allocated, else 0
  stack,       \* stack[c]: the stack CPU c runs on, by its index in stacks[]
  ready,       \* CPUs that can take system calls
  queued,      \* threads that wait for a CPU
  modules,     \* modules that are still to be loaded
  fault        \* the CPU that holds Interrupts::fault for writing, or Width

vars == <<machine, pc, root, entry, item, lapic, cpuIds, lapicIds, cpuCount, active, vectors, timer,
          callbacks, bootPages, stack, ready, queued, modules, fault>>

acpiVars == <<machine, root, entry, item, lapic, cpuIds, lapicIds, cpuCount>>
intrVars == <<vectors, timer>>
smpVars == <<active, bootPages, stack>>
runVars == <<callbacks, ready, queued, modules, fault>>

None == Width

Init ==
  /\ machine \in Machines
  /\ pc = [c \in Cpus |-> IF c = BSP THEN "root" ELSE "off"]
  /\ root = 1 /\ entry = 1 /\ item = 1 /\ lapic = 0
  /\ cpuIds = [i \in Id |-> 0] /\ lapicIds = [i \in Id |-> 0] /\ cpuCount = 0
  /\ active = 1 /\ vectors = {} /\ timer = {} /\ callbacks = 0 /\ bootPages = 0
  /\ stack = [c \in Cpus |-> None] /\ ready = {} /\ queued = 0 /\ modules = Modules
  /\ fault = None

Roots == machine.roots

Goto(c, l) == pc' = [pc EXCEPT ![c] = l]

-----------------------------------------------------------------------------
(* ACPI::init() tries the root pointers until the checksum of one is right. *)
FindRoot ==
  /\ pc[BSP] = "root"
  /\ IF root > Len(Roots) THEN Goto(BSP, "apic") /\ UNCHANGED root
     ELSE IF Roots[root].sum = 0 THEN Goto(BSP, "tables") /\ UNCHANGED root
     ELSE root' = root + 1 /\ UNCHANGED pc
  /\ UNCHANGED <<machine, entry, item, lapic, cpuIds, lapicIds, cpuCount, intrVars, smpVars, runVars>>

Tables == TablesOf(Roots[root])

(* ParseRsdt() goes on to the next entry, ParseXsdt() does not.            *)
NextEntry == IF UsesXsdt(Roots[root]) THEN entry ELSE entry + 1

(* ParseDT(): of a MADT ParseApic() takes the address of the local APIC, ... *)
ParseTable ==
  /\ pc[BSP] = "tables"
  /\ IF entry > Len(Tables) THEN Goto(BSP, "apic") /\ UNCHANGED <<entry, item, lapic>>
     ELSE IF IsMadt(Tables[entry])
       THEN Goto(BSP, "madt") /\ item' = 1 /\ lapic' = 1 /\ UNCHANGED entry
       ELSE entry' = NextEntry /\ UNCHANGED <<pc, item, lapic>>
  /\ UNCHANGED <<machine, root, cpuIds, lapicIds, cpuCount, intrVars, smpVars, runVars>>

(* ... and of the entries that describe a CPU its id; the counter is a byte. *)
ParseApic ==
  /\ pc[BSP] = "madt"
  /\ LET ids == Tables[entry][2] IN
     IF item > Len(ids)
       THEN entry' = NextEntry /\ Goto(BSP, "tables") /\ UNCHANGED <<item, cpuIds, lapicIds, cpuCount>>
       ELSE /\ lapicIds' = [lapicIds EXCEPT ![ids[item]] = cpuCount]
            /\ cpuIds' = [cpuIds EXCEPT ![cpuCount] = ids[item]]
            /\ cpuCount' = (cpuCount + 1) % Width
            /\ item' = item + 1
            /\ UNCHANGED <<pc, entry>>
  /\ UNCHANGED <<machine, root, lapic, intrVars, smpVars, runVars>>

(* Without a MADT the APIC is taken from its MSR, and the CPU is alone.    *)
FindApic ==
  /\ pc[BSP] = "apic"
  /\ IF machine.apic = 1 /\ lapic = 0
       THEN /\ lapic' = 1 /\ cpuCount' = 1
            /\ cpuIds' = [cpuIds EXCEPT ![0] = BSP]
            /\ lapicIds' = [lapicIds EXCEPT ![BSP] = 0]
       ELSE /\ cpuCount' = IF lapic = 1 THEN cpuCount ELSE 1
            /\ UNCHANGED <<lapic, cpuIds, lapicIds>>
  /\ Goto(BSP, "vectors")
  /\ UNCHANGED <<machine, root, entry, item, intrVars, smpVars, runVars>>

GetCPUID(c) == IF lapic = 1 THEN lapicIds[c] ELSE 0

-----------------------------------------------------------------------------
(* Interrupts::init(): loadVector() and the timer of the APIC or the PIT.  *)
InitInterrupts ==
  /\ pc[BSP] = "vectors"
  /\ vectors' = vectors \cup {BSP} /\ timer' = timer \cup {BSP}
  /\ Goto(BSP, "sched")
  /\ UNCHANGED <<acpiVars, smpVars, runVars>>

(* Scheduler::setup() registers the callbacks of the timer and the faults. *)
SetupScheduler ==
  /\ pc[BSP] = "sched"
  /\ callbacks' = 1
  /\ Goto(BSP, "smp")
  /\ UNCHANGED <<acpiVars, intrVars, smpVars, ready, queued, modules, fault>>

Slots == 0..(cpuCount - 1)
Others == {i \in Slots : cpuIds[i] # BSP}

(* SMP::init(): the startup page is prepared and INIT is sent.             *)
InitSmp ==
  /\ pc[BSP] = "smp"
  /\ IF lapic = 0 \/ cpuCount < 2
       THEN Goto(BSP, "syscall") /\ UNCHANGED bootPages
       ELSE /\ bootPages' = 1
            /\ pc' = [c \in Cpus |-> IF c = BSP THEN "startup"
                        ELSE IF \E i \in Others : cpuIds[i] = c THEN "wait" ELSE pc[c]]
  /\ UNCHANGED <<acpiVars, intrVars, active, stack, runVars>>

\* A mistake: entries that name the boot CPU once more are expected to start.
ExpectedAll == cpuCount

\* A mistake: the boot CPU is not among the active ones.
ExpectedOthers == Cardinality(Others)

(* cpuCount - nullcpus: all entries, those of the boot CPU counted once.   *)
Expected == LET null == cpuCount - Cardinality(Others)
            IN cpuCount - (IF null > 0 THEN null - 1 ELSE null)

(* The loop of SMP::init(): STARTUP starts the CPUs that wait for it, and is *)
(* lost on the others; then the CPU waits for an interrupt.                  *)
SendStartup ==
  /\ pc[BSP] = "startup" /\ active # Expected
  /\ pc' = [c \in Cpus |-> IF c = BSP THEN "hlt"
              ELSE IF pc[c] = "wait" THEN "entry" ELSE pc[c]]
  /\ UNCHANGED <<acpiVars, intrVars, smpVars, runVars>>

AllStarted ==
  /\ pc[BSP] = "startup" /\ active = Expected
  /\ bootPages' = 0
  /\ Goto(BSP, "syscall")
  /\ UNCHANGED <<acpiVars, intrVars, active, stack, runVars>>

-----------------------------------------------------------------------------
\* A mistake: the stack is looked up by the number of CPUs that are active.
FindStackActive(c) == {active % Width}

(* _smp_init: the first slot with the id of this CPU.                      *)
FindStack(c) == {i \in Slots : cpuIds[i] = c /\ \A j \in Slots : cpuIds[j] = c => i <= j}

ApEntry(c) ==
  /\ pc[c] = "entry"
  /\ \E i \in FindStack(c) : stack' = [stack EXCEPT ![c] = i]
  /\ Goto(c, "vector")
  /\ UNCHANGED <<acpiVars, intrVars, active, bootPages, runVars>>

(* SMP::setup(): loadVector(); activateCPU() starts the timer by initCPU(), *)
(* then counts the CPU.                                                      *)
ApLoadVector(c) ==
  /\ pc[c] = "vector"
  /\ vectors' = vectors \cup {c}
  /\ Goto(c, "timer")
  /\ UNCHANGED <<acpiVars, timer, smpVars, runVars>>

ApInitCPU(c) ==
  /\ pc[c] = "timer"
  /\ timer' = timer \cup {c}
  /\ Goto(c, "count")
  /\ UNCHANGED <<acpiVars, vectors, smpVars, runVars>>

ApActivate(c) ==
  /\ pc[c] = "count"
  /\ active' = (active + 1) % Width
  /\ Goto(c, "syscall")
  /\ UNCHANGED <<acpiVars, intrVars, bootPages, stack, runVars>>

(* Syscall::setup(); the boot CPU goes on to the modules.                  *)
SetupSyscall(c) ==
  /\ pc[c] = "syscall"
  /\ ready' = ready \cup {c}
  /\ Goto(c, IF c = BSP THEN "modules" ELSE "loop")
  /\ UNCHANGED <<acpiVars, intrVars, smpVars, callbacks, queued, modules, fault>>

LoadModule ==
  /\ pc[BSP] = "modules"
  /\ IF modules = 0 THEN Goto(BSP, "loop") /\ UNCHANGED <<queued, modules>>
                    ELSE queued' = queued + 1 /\ modules' = modules - 1 /\ UNCHANGED pc
  /\ UNCHANGED <<acpiVars, intrVars, smpVars, callbacks, ready, fault>>

-----------------------------------------------------------------------------
\* A mistake: the queue may be empty.
MaySwitchEmpty(c) == callbacks = 1 /\ pc[c] \in {"loop", "user"}

\* A mistake: any code of the kernel is switched away.
MaySwitchAny(c) == callbacks = 1 /\ queued > 0 /\ pc[c] # "hlt"

(* SwitchProcess() leaves kernel code alone, but for process_loop().       *)
MaySwitch(c) == callbacks = 1 /\ queued > 0 /\ pc[c] \in {"loop", "user"}

Stopped == {"barrier", "halted"}

\* A mistake: the handler does not wait at the barrier.
TickPassing(c) ==
  /\ c \in timer /\ pc[c] \notin Stopped \cup {"fault"}
  /\ IF MaySwitch(c) THEN Goto(c, "user") /\ queued' = queued - (IF pc[c] = "loop" THEN 1 ELSE 0)
     ELSE Goto(c, IF pc[c] = "hlt" THEN "startup" ELSE pc[c]) /\ UNCHANGED queued
  /\ UNCHANGED <<acpiVars, intrVars, smpVars, callbacks, ready, modules, fault>>

(* Interrupts::handle() for the timer: wait while another CPU has stopped   *)
(* the kernel, call back, return (from hlt, to the loop around it).  The    *)
(* thread a CPU leaves goes back to the queue.                              *)
Tick(c) ==
  /\ c \in timer /\ pc[c] \notin Stopped \cup {"fault"}
  /\ IF fault # None THEN Goto(c, "barrier") /\ UNCHANGED queued
     ELSE IF MaySwitch(c) THEN Goto(c, "user") /\ queued' = queued - (IF pc[c] = "loop" THEN 1 ELSE 0)
     ELSE Goto(c, IF pc[c] = "hlt" THEN "startup" ELSE pc[c]) /\ UNCHANGED queued
  /\ UNCHANGED <<acpiVars, intrVars, smpVars, callbacks, ready, modules, fault>>

(* A fault in kernel code that no callback handles: handle() passes the     *)
(* barrier, ...                                                             *)
Fault(c) ==
  /\ c \in MayFault \cap vectors /\ pc[c] \notin Stopped \cup {"fault", "user"}
  /\ Goto(c, IF fault # None THEN "barrier" ELSE "fault")
  /\ UNCHANGED <<acpiVars, intrVars, smpVars, runVars>>

(* ... then takes the lock for good; of two CPUs the second waits for it.   *)
Halt(c) ==
  /\ pc[c] = "fault" /\ fault = None
  /\ fault' = c
  /\ Goto(c, "halted")
  /\ UNCHANGED <<acpiVars, intrVars, smpVars, callbacks, ready, queued, modules>>

BootStep ==
  \/ FindRoot \/ ParseTable \/ ParseApic \/ FindApic \/ InitInterrupts \/ SetupScheduler
  \/ InitSmp \/ SendStartup \/ AllStarted \/ LoadModule

CpuStep(c) == ApEntry(c) \/ ApLoadVector(c) \/ ApInitCPU(c) \/ ApActivate(c) \/ SetupSyscall(c) \/ Halt(c)

Next == BootStep \/ \E c \in Cpus : CpuStep(c) \/ Tick(c) \/ Fault(c)

Spec == Init /\ [][Next]_vars

(* Every CPU runs and its timer ticks; faults need not happen.             *)
FairSpec ==
  /\ Spec /\ WF_vars(BootStep)
  /\ \A c \in Cpus : WF_vars(CpuStep(c)) /\ WF_vars(Tick(c))

-----------------------------------------------------------------------------
Place == {"root", "tables", "madt", "apic", "vectors", "sched", "smp", "startup", "hlt", "syscall",
          "modules", "loop", "user", "off", "wait", "entry", "vector", "timer", "count",
          "barrier", "fault", "halted"}

(* Types, with the bounds of the queue and of the counters of CPUs.        *)
TypeOK ==
  /\ pc \in [Cpus -> Place] /\ root \in 1..(Len(Roots) + 1) /\ entry \in Nat /\ item \in Nat
  /\ cpuIds \in [Id -> Id] /\ lapicIds \in [Id -> Id] /\ cpuCount \in Id
  /\ lapic \in 0..1 /\ callbacks \in 0..1 /\ bootPages \in 0..1
  /\ timer \subseteq vectors /\ vectors \subseteq Cpus /\ ready \subseteq Cpus /\ stack \in [Cpus -> Id \cup {None}]
  /\ queued \in 0..Modules /\ modules \in 0..Modules /\ fault \in Cpus \cup {None}
  /\ active \in 1..Cardinality(timer \cup {BSP})

Up == {c \in Cpus : stack[c] # None \/ c = BSP}

(* No two CPUs that are up run on one stack or use one slot of the tables   *)
(* indexed by getCPUID() (cpuThreads, task state, system call stack).       *)
OwnSlots == \A c, d \in Up : c # d =>
  /\ stack[c] # stack[d]
  /\ pc[BSP] \notin {"root", "tables", "madt", "apic"} => GetCPUID(c) # GetCPUID(d)

(* The startup page and its arrays are there as long as a CPU may be in     *)
(* them: SMP::init() frees them when all CPUs are past.                     *)
PagesHeld == \A c \in Cpus : pc[c] \in {"wait", "entry"} => bootPages = 1

(* A CPU enters user code only when it is set up: its timer runs and it     *)
(* takes system calls.                                                      *)
UserReady == \A c \in Cpus : pc[c] = "user" => c \in ready \cap timer

\* The CPUs the kernel knows of.
Listed == {BSP} \cup (IF lapic = 1 THEN {cpuIds[i] : i \in Slots} ELSE {})

(* Unless a CPU faults, all modules are loaded and every CPU that the       *)
(* firmware lists gets to run threads.                                      *)
BootEnds == <>(\/ fault # None
               \/ modules = 0 /\ \A c \in Listed : pc[c] \in {"loop", "user"})

(* A fault in the kernel stops every CPU that has its timer running, for    *)
(* good.                                                                    *)
FaultStops == fault # None ~> [](\A c \in timer : pc[c] \in Stopped \cup {"fault"})
=============================================================================
