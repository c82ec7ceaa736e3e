------------------------------ MODULE BootInv -------------------------------
(***************************************************************************)
(* The inductive invariant of Boot, and its parts about the types and the  *)
(* walk over the ACPI tables.                                              *)
(***************************************************************************)
EXTENDS Boot, TLAPS

Early == {"root", "tables", "madt", "apic"}
Alone == Early \cup {"vectors", "sched", "smp"}
BspPlace == Place \ {"off", "wait", "entry", "vector", "timer", "count"}
ApPlace == {"off", "wait", "entry", "vector", "timer", "count", "syscall", "loop", "user",
            "barrier", "fault", "halted"}

\* TypeOK but for the count of active CPUs.
Typed ==
  /\ machine \in Machines
  /\ pc \in [Cpus -> Place] /\ pc[BSP] \in BspPlace /\ \A c \in Cpus \ {BSP} : pc[c] \in ApPlace
  /\ root \in 1..(Len(Roots) + 1) /\ entry \in Nat \ {0} /\ item \in Nat \ {0}
  /\ cpuIds \in [Id -> Id] /\ lapicIds \in [Id -> Id] /\ cpuCount \in Id
  /\ lapic \in 0..1 /\ callbacks \in 0..1 /\ bootPages \in 0..1
  /\ timer \subseteq vectors /\ vectors \subseteq Cpus /\ ready \subseteq Cpus
  /\ stack \in [Cpus -> Id \cup {None}]
  /\ queued \in Nat /\ modules \in Nat /\ queued + modules <= Modules
  /\ fault \in Cpus \cup {None}

\* The two maps of ids agree on the slots in use, and the boot CPU has one.
Named == \A i \in Slots : lapicIds[cpuIds[i]] \in Slots /\ cpuIds[lapicIds[cpuIds[i]]] = cpuIds[i]
HasBsp == \E i \in Slots : cpuIds[i] = BSP

\* How far the walk over the tables has got.  In an XSDT it stays at its start.
Walk ==
  /\ pc[BSP] = "root" => lapic = 0 /\ cpuCount = 0 /\ entry = 1
  /\ pc[BSP] \in {"tables", "madt"} =>
       root <= Len(Roots) /\ (UsesXsdt(Roots[root]) => entry = 1)
  /\ pc[BSP] = "tables" /\ ~UsesXsdt(Roots[root]) =>
       \/ /\ lapic = 1 /\ Named /\ HasBsp
          /\ \A j \in 1..Len(Tables) : IsMadt(Tables[j]) => j < entry
       \/ lapic = 0 /\ cpuCount = 0
  /\ pc[BSP] = "madt" =>
       /\ lapic = 1 /\ entry <= Len(Tables) /\ IsMadt(Tables[entry]) /\ item <= Len(Tables[entry][2]) + 1
       /\ ~UsesXsdt(Roots[root]) =>
            /\ cpuCount = item - 1 /\ Named
            /\ \A k \in 1..(item - 1) : cpuIds[k - 1] = Tables[entry][2][k]
  /\ pc[BSP] \notin {"root", "tables", "madt"} /\ lapic = 1 => Named /\ HasBsp
  /\ pc[BSP] \in Early => vectors = {}

\* What holds of a CPU other than the boot CPU, and of the boot CPU.
ApInv(c) ==
  /\ pc[c] # "off" => lapic = 1 /\ pc[BSP] \notin Alone /\ \E i \in Slots : cpuIds[i] = c
  /\ pc[c] \in {"off", "wait", "entry", "vector", "timer"} => c \notin timer
  /\ pc[c] \in {"off", "wait", "entry"} => stack[c] = None /\ c \notin vectors
  /\ pc[c] = "timer" => c \in vectors
  /\ pc[c] = "count" => c \in timer
  /\ stack[c] # None => stack[c] \in Slots /\ cpuIds[stack[c]] = c

CpuInv ==
  /\ \A c \in Cpus \ {BSP} : ApInv(c)
  /\ stack[BSP] = None
  /\ pc[BSP] \in {"startup", "hlt"} => lapic = 1
  /\ \A c \in Cpus : /\ pc[c] \in {"modules", "loop", "user"} => c \in ready
                     /\ pc[c] = "user" => c \in timer

\* CPUs that may have counted themselves.
Counted == {c \in timer \ {BSP} : pc[c] # "count"}

(* The inductive invariant.                                                 *)
IInv ==
  /\ Typed /\ Walk /\ CpuInv /\ PagesHeld
  /\ active \in 1..(Cardinality(Counted) + 1)

-----------------------------------------------------------------------------
(* What the actions need of the constants.                                  *)
LEMMA ConstantFacts ==
  /\ BSP \in Cpus /\ Cpus \subseteq Id /\ IsFiniteSet(Cpus) /\ Width \in Nat \ {0, 1}
  /\ Modules \in Nat /\ BSP \in Id /\ 0 \in Id /\ 1 \in Id /\ None \notin Id
BY BootAssumption DEF Id, None

(* A number of CPUs plus one, in the width of the counter.                  *)
LEMMA CountWraps ==
  ASSUME NEW n \in Id
  PROVE  (n + 1) % Width \in Id /\ (n + 1 < Width => (n + 1) % Width = n + 1)
BY BootAssumption, Z3 DEF Id

(* The tables that are walked over.                                         *)
LEMMA TablesTyped ==
  ASSUME Typed, root <= Len(Roots)
  PROVE  /\ Roots[root] \in RootPointer /\ Tables \in Seq(Table) /\ MadtOk(Tables)
         /\ UsesXsdt(Roots[root]) => Len(Tables) > 0
<1>1. /\ Roots \in Seq(RootPointer) /\ root \in 1..Len(Roots)
      /\ \A i \in 1..Len(Roots) : MadtOk(TablesOf(Roots[i]))
  BY BootAssumption DEF Typed, Roots
<1>2. Roots[root] \in RootPointer /\ MadtOk(Tables)
  BY <1>1 DEF Tables
<1>3. Tables \in Seq(Table) /\ (UsesXsdt(Roots[root]) => Tables = Roots[root].xsdt)
  BY <1>2 DEF Tables, TablesOf, RootPointer, UsesXsdt
<1>4. UsesXsdt(Roots[root]) => Len(Tables) > 0
  BY <1>3 DEF UsesXsdt
<1> QED
  BY <1>2, <1>3, <1>4

(* The ids that a MADT names.                                               *)
LEMMA MadtTyped ==
  ASSUME Typed, root <= Len(Roots), entry <= Len(Tables), IsMadt(Tables[entry])
  PROVE  /\ Tables[entry][2] \in Seq(Id) /\ Len(Tables[entry][2]) < Width
         /\ Len(Tables[entry][2]) \in Nat
         /\ \E k \in 1..Len(Tables[entry][2]) : Tables[entry][2][k] = BSP
         /\ \A j \in 1..Len(Tables) : IsMadt(Tables[j]) => j = entry
<1>1. Tables \in Seq(Table) /\ MadtOk(Tables) /\ entry \in 1..Len(Tables)
  BY TablesTyped DEF Typed
<1>2. Tables[entry] \in Table
  BY <1>1
<1>3. Tables[entry][2] \in Seq(Id)
  BY <1>2 DEF Table, IsMadt
<1> QED
  BY <1>1, <1>3 DEF MadtOk

(* The actions before the interrupts are enabled keep the types, ...        *)
LEMMA EarlyTyped ==
  ASSUME IInv, FindRoot \/ ParseTable \/ ParseApic \/ FindApic
  PROVE  Typed'
<1> USE ConstantFacts DEF IInv, Typed, BspPlace, ApPlace, Place
<1>1. CASE FindRoot
  BY <1>1 DEF FindRoot, Goto, intrVars, smpVars, runVars, Roots
<1>2. CASE ParseTable
  <2>1. entry' \in Nat \ {0} /\ item' \in Nat \ {0} /\ lapic' \in 0..1
    BY <1>2 DEF ParseTable, NextEntry
  <2>2. /\ pc' \in [Cpus -> Place] /\ pc'[BSP] \in BspPlace
        /\ \A c \in Cpus \ {BSP} : pc'[c] \in ApPlace
    BY <1>2 DEF ParseTable, Goto
  <2> QED  BY <2>1, <2>2, <1>2 DEF ParseTable, intrVars, smpVars, runVars, Roots
<1>3. CASE ParseApic
  <2> DEFINE ids == Tables[entry][2]
  <2>1. ids \in Seq(Id) /\ Len(ids) \in Nat
    BY <1>3, MadtTyped, Zenon DEF ParseApic, Walk
  <2> HIDE DEF ids
  <2>2. item <= Len(ids) => ids[item] \in Id
    BY <2>1
  <2>3. (cpuCount + 1) % Width \in Id
    BY CountWraps
  <2>4. /\ cpuIds' \in [Id -> Id] /\ lapicIds' \in [Id -> Id] /\ cpuCount' \in Id
        /\ entry' \in Nat \ {0} /\ item' \in Nat \ {0}
    <3>1. CASE item > Len(ids)
      BY <1>3, <3>1 DEF ParseApic, NextEntry, ids
    <3>2. CASE ~(item > Len(ids))
      <4>1. /\ lapicIds' = [lapicIds EXCEPT ![ids[item]] = cpuCount]
            /\ cpuIds' = [cpuIds EXCEPT ![cpuCount] = ids[item]]
            /\ cpuCount' = (cpuCount + 1) % Width /\ item' = item + 1 /\ entry' = entry
        BY <1>3, <3>2 DEF ParseApic, ids
      <4>2. ids[item] \in Id
        BY <2>1, <2>2, <3>2
      <4> QED  BY <4>1, <4>2, <2>3
    <3> QED  BY <3>1, <3>2
  <2>5. /\ pc' \in [Cpus -> Place] /\ pc'[BSP] \in BspPlace
        /\ \A c \in Cpus \ {BSP} : pc'[c] \in ApPlace
    BY <1>3 DEF ParseApic, Goto
  <2> QED  BY <2>4, <2>5, <1>3 DEF ParseApic, intrVars, smpVars, runVars, Roots
<1>4. CASE FindApic
  <2>1. cpuIds' \in [Id -> Id] /\ lapicIds' \in [Id -> Id] /\ cpuCount' \in Id /\ lapic' \in 0..1
    BY <1>4 DEF FindApic
  <2>2. /\ pc' \in [Cpus -> Place] /\ pc'[BSP] \in BspPlace
        /\ \A c \in Cpus \ {BSP} : pc'[c] \in ApPlace
    BY <1>4, SMTT(60) DEF FindApic, Goto
  <2> QED  BY <2>1, <2>2, <1>4 DEF FindApic, intrVars, smpVars, runVars, Roots
<1> QED
  BY <1>1, <1>2, <1>3, <1>4, SMTT(60)

(* ... those of the boot CPU after that, ...                                *)
LEMMA BspTyped ==
  ASSUME IInv, InitInterrupts \/ SetupScheduler \/ InitSmp \/ SendStartup \/ AllStarted \/ LoadModule
  PROVE  Typed'
<1> USE ConstantFacts DEF IInv, Typed, BspPlace, ApPlace, Place, Roots, acpiVars
<1>1. CASE InitInterrupts
  BY <1>1 DEF InitInterrupts, Goto, smpVars, runVars
<1>2. CASE SetupScheduler
  BY <1>2 DEF SetupScheduler, Goto, intrVars, smpVars
<1>3. CASE InitSmp
  BY <1>3 DEF InitSmp, Goto, intrVars, runVars
<1>4. CASE SendStartup
  BY <1>4 DEF SendStartup, intrVars, smpVars, runVars
<1>5. CASE AllStarted
  BY <1>5 DEF AllStarted, Goto, intrVars, runVars
<1>6. CASE LoadModule
  BY <1>6, SMTT(60) DEF LoadModule, Goto, intrVars, smpVars
<1> QED
  BY <1>1, <1>2, <1>3, <1>4, <1>5, <1>6, SMTT(60)

(* ... and those of any CPU.                                                *)
LEMMA CpuTyped ==
  ASSUME IInv, NEW c \in Cpus, CpuStep(c) \/ Tick(c) \/ Fault(c)
  PROVE  Typed'
<1> USE ConstantFacts DEF IInv, Typed, BspPlace, ApPlace, Place, Roots, acpiVars, Goto
<1>1. CASE ApEntry(c)
  <2>1. FindStack(c) \subseteq Id
    BY DEF FindStack, Slots, Id
  <2>2. stack' \in [Cpus -> Id \cup {None}]
    BY <1>1, <2>1 DEF ApEntry
  <2> QED  BY <2>2, <1>1 DEF ApEntry, intrVars, runVars
<1>2. CASE ApLoadVector(c)
  BY <1>2 DEF ApLoadVector, smpVars, runVars
<1>3. CASE ApInitCPU(c)
  <2>1. c \in vectors
    BY <1>3 DEF ApInitCPU, CpuInv, ApInv
  <2> QED  BY <2>1, <1>3 DEF ApInitCPU, smpVars, runVars
<1>4. CASE ApActivate(c)
  BY <1>4, SMTT(60) DEF ApActivate, intrVars, runVars
<1>5. CASE SetupSyscall(c)
  BY <1>5 DEF SetupSyscall, intrVars, smpVars
<1>6. CASE Halt(c)
  BY <1>6, SMTT(60) DEF Halt, intrVars, smpVars
<1>7. CASE Tick(c)
  <2>1. /\ pc' \in [Cpus -> Place] /\ pc'[BSP] \in BspPlace
        /\ \A d \in Cpus \ {BSP} : pc'[d] \in ApPlace
    BY <1>7 DEF Tick, MaySwitch, Stopped
  <2>2. queued' \in Nat /\ queued' + modules <= Modules
    BY <1>7, SMTT(60) DEF Tick, MaySwitch
  <2> QED  BY <2>1, <2>2, <1>7, Zenon DEF Tick, intrVars, smpVars
<1>8. CASE Fault(c)
  BY <1>8 DEF Fault, intrVars, smpVars, runVars
<1> QED
  BY <1>1, <1>2, <1>3, <1>4, <1>5, <1>6, <1>7, <1>8, Zenon DEF CpuStep

-----------------------------------------------------------------------------
(* A CPU acts when the walk over the tables is over.                        *)
LEMMA CpuLate ==
  ASSUME IInv, NEW c \in Cpus, CpuStep(c) \/ Tick(c) \/ Fault(c)
  PROVE  /\ c # BSP => pc[c] # "off" /\ pc'[BSP] = pc[BSP] /\ pc[BSP] \notin Alone
         /\ pc[BSP] \notin Early /\ pc'[BSP] \notin Early
         /\ UNCHANGED acpiVars
<1> USE ConstantFacts DEF IInv, Typed
<1>1. pc[c] # "off" \/ c = BSP
  BY SMTT(60) DEF CpuStep, ApEntry, ApLoadVector, ApInitCPU, ApActivate, SetupSyscall, Halt,
                  Tick, Fault, CpuInv, ApInv
<1>2. \E l \in Place \ Early : pc' = [pc EXCEPT ![c] = l] \/ pc' = [pc EXCEPT ![c] = pc[c]]
  BY SMTT(60) DEF CpuStep, ApEntry, ApLoadVector, ApInitCPU, ApActivate, SetupSyscall, Halt,
                  Tick, Fault, Goto, Place, Early
<1>5. UNCHANGED acpiVars
  BY DEF CpuStep, ApEntry, ApLoadVector, ApInitCPU, ApActivate, SetupSyscall, Halt, Tick, Fault
<1>3. CASE c # BSP
  <2>1. pc[BSP] \notin Alone
    BY <1>1, <1>3 DEF CpuInv, ApInv
  <2>2. pc'[BSP] = pc[BSP]
    BY <1>2, <1>3
  <2> QED  BY <2>1, <2>2, <1>1, <1>3, <1>5 DEF Alone
<1>4. CASE c = BSP
  <2>1. pc[BSP] \notin Early
    BY <1>4, Zenon DEF CpuStep, ApEntry, ApLoadVector, ApInitCPU, ApActivate, SetupSyscall,
                Halt, Tick, Fault, Walk, Early
  <2>2. PICK l \in Place \ Early : pc' = [pc EXCEPT ![c] = l] \/ pc' = [pc EXCEPT ![c] = pc[c]]
    BY <1>2
  <2>3. pc'[BSP] = l \/ pc'[BSP] = pc[BSP]
    BY <2>2, <1>4, SMTT(60)
  <2> QED  BY <2>1, <2>3, <1>4, <1>5, SMTT(60)
<1> QED
  BY <1>3, <1>4, SMTT(60)

(* The maps of ids are complete from then on.                               *)
LEMMA LateWalk ==
  ASSUME IInv, UNCHANGED acpiVars, pc[BSP] \notin Early, pc'[BSP] \notin Early
  PROVE  Walk'
BY DEF IInv, Walk, acpiVars, Early, Named, HasBsp, Slots

(* One more CPU of the MADT.                                                *)
LEMMA AddNamed ==
  ASSUME Typed, Named, NEW id \in Id, cpuCount + 1 < Width,
         lapicIds' = [lapicIds EXCEPT ![id] = cpuCount],
         cpuIds' = [cpuIds EXCEPT ![cpuCount] = id],
         cpuCount' = cpuCount + 1
  PROVE  Named'
<1>1. cpuCount \in Id /\ Slots' = 0..cpuCount /\ cpuIds \in [Id -> Id] /\ lapicIds \in [Id -> Id]
  BY DEF Typed, Slots, Id
<1>2. \A i \in Slots' : i \in Id /\ (i # cpuCount => i \in Slots)
  <2>1. cpuCount \in Nat /\ cpuCount < Width /\ Width \in Nat
    BY <1>1, ConstantFacts DEF Id
  <2> SUFFICES ASSUME NEW i \in Slots' PROVE i \in Id /\ (i # cpuCount => i \in Slots)
    OBVIOUS
  <2>2. i \in Nat /\ i <= cpuCount
    BY <2>1, <1>1
  <2>3. i \in 0..(Width - 1) /\ (i # cpuCount => i \in 0..(cpuCount - 1))
    BY <2>1, <2>2
  <2> QED  BY <2>3 DEF Slots, Id
<1> SUFFICES ASSUME NEW i \in Slots'
             PROVE  lapicIds'[cpuIds'[i]] \in Slots' /\ cpuIds'[lapicIds'[cpuIds'[i]]] = cpuIds'[i]
  BY DEF Named
<1>3. cpuIds'[i] \in Id
  BY <1>1, <1>2
<1>4. CASE cpuIds'[i] = id
  <2>1. lapicIds'[id] = cpuCount /\ cpuIds'[cpuCount] = id /\ cpuCount \in Slots'
    BY <1>1, ConstantFacts DEF Id
  <2> QED  BY <2>1, <1>4
<1>5. CASE cpuIds'[i] # id
  <2>1. i \in Slots /\ cpuIds'[i] = cpuIds[i]
    BY <1>1, <1>2, <1>5
  <2>2. lapicIds'[cpuIds[i]] = lapicIds[cpuIds[i]] /\ lapicIds[cpuIds[i]] \in Slots
        /\ cpuIds[lapicIds[cpuIds[i]]] = cpuIds[i]
    BY <2>1, <1>1, <1>3, <1>5 DEF Named
  <2>3. \A j \in Slots : j \in Slots' /\ j # cpuCount /\ j \in Id
    BY <1>1, ConstantFacts DEF Slots, Id
  <2> QED  BY <2>1, <2>2, <2>3, <1>1, Zenon
<1> QED
  BY <1>4, <1>5

(* The walk over the tables.                                                *)
LEMMA EarlyWalk ==
  ASSUME IInv, FindRoot \/ ParseTable \/ ParseApic \/ FindApic
  PROVE  Walk'
<1> USE ConstantFacts DEF IInv
<1> DEFINE ids == Tables[entry][2]
<1>1. CASE FindRoot
  <2>1. /\ pc[BSP] = "root" /\ lapic = 0 /\ cpuCount = 0 /\ entry = 1 /\ vectors = {}
        /\ lapic' = 0 /\ cpuCount' = 0 /\ entry' = 1 /\ vectors' = {}
    BY <1>1 DEF FindRoot, Walk, Early, intrVars
  <2>2. CASE root > Len(Roots)
    <3>1. pc'[BSP] = "apic"
      BY <1>1, <2>2, SMTT(60) DEF FindRoot, Goto, Typed
    <3> QED  BY <3>1, <2>1 DEF Walk, Early
  <2>3. CASE root <= Len(Roots) /\ Roots[root].sum = 0
    <3>1. pc'[BSP] = "tables" /\ root' = root /\ Roots' = Roots
      BY <1>1, <2>3, SMTT(60) DEF FindRoot, Goto, Typed, Roots
    <3> QED  BY <3>1, <2>1, <2>3, SMTT(60) DEF Walk, Early
  <2>4. CASE root <= Len(Roots) /\ Roots[root].sum # 0
    <3>1. pc'[BSP] = "root"
      BY <1>1, <2>1, <2>4 DEF FindRoot, Typed
    <3> QED  BY <3>1, <2>1 DEF Walk, Early
  <2> QED  BY <2>2, <2>3, <2>4 DEF Typed
<1>2. CASE ParseTable
  <2>1. /\ pc[BSP] = "tables" /\ root <= Len(Roots) /\ (UsesXsdt(Roots[root]) => entry = 1)
        /\ vectors = {} /\ vectors' = {}
        /\ UNCHANGED <<machine, root, Roots, Tables, cpuIds, lapicIds, cpuCount, Slots>>
    BY <1>2 DEF ParseTable, Walk, Early, intrVars, Roots, Tables, Slots
  <2>2. Tables \in Seq(Table) /\ Len(Tables) \in Nat /\ (UsesXsdt(Roots[root]) => Len(Tables) > 0)
    BY <2>1, TablesTyped
  <2>a. entry \in Nat \ {0}
    BY SMTT(60) DEF Typed
  <2>b. ~UsesXsdt(Roots[root]) =>
          \/ /\ lapic = 1 /\ Named /\ HasBsp
             /\ \A j \in 1..Len(Tables) : IsMadt(Tables[j]) => j < entry
          \/ lapic = 0 /\ cpuCount = 0
    BY <2>1 DEF Walk
  <2>c. pc \in [Cpus -> Place]
    BY SMTT(60) DEF Typed
  <2> HIDE DEF IInv
  <2>3. CASE entry > Len(Tables)
    <3>1. pc'[BSP] = "apic" /\ lapic' = lapic /\ ~UsesXsdt(Roots[root])
      BY <1>2, <2>1, <2>2, <2>3, <2>a, <2>c, SMTT(60) DEF ParseTable, Goto
    <3> QED  BY <3>1, <2>1, <2>b DEF Walk, Early, Named, HasBsp
  <2>4. CASE entry <= Len(Tables) /\ IsMadt(Tables[entry])
    <3>1. pc'[BSP] = "madt" /\ lapic' = 1 /\ item' = 1 /\ entry' = entry
      BY <1>2, <2>2, <2>4, <2>a, <2>c, SMTT(60) DEF ParseTable, Goto
    <3>2. entry \in 1..Len(Tables) /\ Len(ids) \in Nat
      <4>1. entry \in 1..Len(Tables)
        BY <2>2, <2>4, <2>a
      <4> QED  BY <4>1, <2>1, <2>4, MadtTyped DEF IInv
    <3>3. ~UsesXsdt(Roots[root]) => cpuCount = 0
      BY <3>2, <2>4, <2>a, <2>b
    <3>4. ~UsesXsdt(Roots[root]) => Slots = {}
      BY <3>3, SMTT(60) DEF Slots
    <3>5. ~UsesXsdt(Roots[root])' => cpuCount' = item' - 1 /\ Named'
      BY <3>1, <3>3, <3>4, <2>1 DEF Named
    <3>6. item' <= Len(Tables[entry][2])' + 1
      BY <3>1, <3>2, <2>1
    <3> QED  BY <3>1, <3>5, <3>6, <2>1, <2>4 DEF Walk, Early
  <2>5. CASE entry <= Len(Tables) /\ ~IsMadt(Tables[entry])
    <3>1. pc'[BSP] = "tables" /\ lapic' = lapic /\ entry' = NextEntry
      BY <1>2, <2>1, <2>2, <2>5, <2>a, SMTT(60) DEF ParseTable
    <3>2. CASE UsesXsdt(Roots[root])
      BY <3>1, <3>2, <2>1 DEF Walk, Early, NextEntry
    <3>3. CASE ~UsesXsdt(Roots[root])
      <4>1. entry' = entry + 1 /\ entry \in Nat
        BY <3>1, <3>3, <2>a, SMTT(60) DEF NextEntry
      <4>2. \/ /\ lapic' = 1 /\ Named' /\ HasBsp'
               /\ \A j \in 1..Len(Tables) : IsMadt(Tables[j]) => j < entry'
            \/ lapic' = 0 /\ cpuCount' = 0
        <5>1. \A j \in 1..Len(Tables) : j < entry => j < entry'
          BY <4>1
        <5> QED  BY <5>1, <3>1, <3>3, <2>1, <2>b, Zenon DEF Named, HasBsp
      <4> QED  BY <4>2, <3>1, <3>3, <2>1 DEF Walk, Early
    <3> QED  BY <3>2, <3>3
  <2> QED  BY <2>2, <2>3, <2>4, <2>5, <2>a, SMTT(60)
<1>3. CASE ParseApic
  <2>1. /\ pc[BSP] = "madt" /\ lapic = 1 /\ lapic' = 1 /\ root <= Len(Roots)
        /\ (UsesXsdt(Roots[root]) => entry = 1) /\ vectors = {} /\ vectors' = {}
        /\ entry <= Len(Tables) /\ IsMadt(Tables[entry]) /\ item <= Len(ids) + 1
        /\ UNCHANGED <<machine, root, Roots, Tables>>
    BY <1>3, ZenonT(40) DEF ParseApic, Walk, Early, intrVars, Roots, Tables
  <2>2. /\ ids \in Seq(Id) /\ Len(ids) < Width /\ Len(ids) \in Nat
        /\ \E k \in 1..Len(ids) : ids[k] = BSP
        /\ \A j \in 1..Len(Tables) : IsMadt(Tables[j]) => j = entry
    BY <2>1, MadtTyped, SMTT(60)
  <2> HIDE DEF ids
  <2>0. /\ item \in Nat \ {0} /\ entry \in Nat \ {0} /\ cpuCount \in Id /\ Width \in Nat
        /\ cpuIds \in [Id -> Id] /\ lapicIds \in [Id -> Id]
    BY DEF Typed
  <2> HIDE DEF IInv
  <2>3. ~UsesXsdt(Roots[root]) =>
          /\ cpuCount = item - 1 /\ Named /\ \A k \in 1..(item - 1) : cpuIds[k - 1] = ids[k]
    BY <2>1, Zenon DEF Walk, IInv, ids
  <2>4. CASE item > Len(ids)
    <3>1. /\ pc'[BSP] = "tables" /\ entry' = NextEntry
          /\ UNCHANGED <<cpuIds, lapicIds, cpuCount, Slots>>
      BY <1>3, <2>4, SMTT(60) DEF ParseApic, Goto, IInv, Typed, Slots, ids
    <3>2. CASE UsesXsdt(Roots[root])
      BY <3>1, <3>2, <2>1, ZenonT(40) DEF Walk, Early, NextEntry
    <3>3. CASE ~UsesXsdt(Roots[root])
      <4>1. entry' = entry + 1 /\ entry \in Nat
        BY <3>1, <3>3, <2>0 DEF NextEntry
      <4>2. PICK k \in 1..Len(ids) : ids[k] = BSP
        BY <2>2
      <4>3. cpuIds[k - 1] = BSP /\ k - 1 \in Slots
        <5>1. item = Len(ids) + 1 /\ cpuCount = Len(ids)
          <6>1. item \in Nat /\ Len(ids) \in Nat /\ item <= Len(ids) + 1 /\ item > Len(ids)
            BY <2>0, <2>1, <2>2, <2>4
          <6>2. cpuCount = item - 1
            BY <3>3, <2>3
          <6> QED  BY <6>1, <6>2
        <5> QED  BY <5>1, <4>2, <3>3, <2>2, <2>3 DEF Slots
      <4>4. Named' /\ HasBsp'
        BY <4>3, <3>1, <3>3, <2>3 DEF Named, HasBsp
      <4>5. \A j \in 1..Len(Tables) : IsMadt(Tables[j]) => j < entry'
        BY <4>1, <2>2, SMTT(60)
      <4> QED  BY <4>4, <4>5, <3>1, <3>3, <2>1, Zenon DEF Walk, Early
    <3> QED  BY <3>2, <3>3
  <2>5. CASE item <= Len(ids)
    <3>1. /\ lapicIds' = [lapicIds EXCEPT ![ids[item]] = cpuCount]
          /\ cpuIds' = [cpuIds EXCEPT ![cpuCount] = ids[item]]
          /\ cpuCount' = (cpuCount + 1) % Width /\ item' = item + 1 /\ entry' = entry
          /\ pc'[BSP] = "madt" /\ ids[item] \in Id
      <4>1. ids[item] \in Id
        BY <2>0, <2>2, <2>5
      <4>2. ~(item > Len(ids))
        BY <2>0, <2>2, <2>5
      <4> QED  BY <4>1, <4>2, <1>3, <2>1 DEF ParseApic, ids
    <3>2. item' <= Len(ids) + 1
      BY <3>1, <2>0, <2>2, <2>5, SMTT(60)
    <3>3. CASE UsesXsdt(Roots[root])
      BY <3>1, <3>2, <3>3, <2>1, ZenonT(40) DEF Walk, Early, ids
    <3>4. CASE ~UsesXsdt(Roots[root])
      <4>1. cpuCount = item - 1 /\ cpuCount + 1 < Width /\ cpuCount' = cpuCount + 1
        <5>1. cpuCount = item - 1 /\ cpuCount + 1 < Width
          BY <3>4, <2>0, <2>2, <2>3, <2>5
        <5> QED  BY <5>1, <3>1, <2>0, CountWraps
      <4>2. Named'
        BY <4>1, <3>1, <3>4, <2>3, AddNamed, Zenon DEF IInv
      <4>3. \A k \in 1..(item' - 1) : cpuIds'[k - 1] = ids[k]
        <5> SUFFICES ASSUME NEW k \in 1..(item' - 1) PROVE cpuIds'[k - 1] = ids[k]
          OBVIOUS
        <5>1. k - 1 \in Id /\ (k = item \/ k \in 1..(item - 1))
          <6>1. item' = item + 1 /\ item \in Nat /\ Width \in Nat /\ cpuCount = item - 1 /\ cpuCount + 1 < Width
            BY <4>1, <3>1, <2>0
          <6>2. k \in Nat /\ k >= 1 /\ k <= item
            BY <6>1
          <6>3. item < Width
            BY <6>1
          <6>4. k - 1 \in 0..(Width - 1) /\ (k = item \/ k \in 1..(item - 1))
            BY <6>1, <6>2, <6>3
          <6> QED  BY <6>4 DEF Id
        <5> QED  BY <5>1, <4>1, <3>1, <3>4, <2>0, <2>3
      <4>4. cpuCount' = item' - 1
        BY <4>1, <3>1, <2>0
      <4> QED  BY <4>2, <4>3, <4>4, <3>1, <3>2, <3>4, <2>1 DEF Walk, Early, ids
    <3> QED  BY <3>3, <3>4
  <2> QED  BY <2>0, <2>2, <2>4, <2>5, SMTT(60)
<1>4. CASE FindApic
  <2>1. pc[BSP] = "apic" /\ pc'[BSP] = "vectors"
    BY <1>4, SMTT(60) DEF FindApic, Goto, Typed
  <2>2. CASE machine.apic = 1 /\ lapic = 0
    <3>1. /\ cpuCount' = 1 /\ cpuIds' = [cpuIds EXCEPT ![0] = BSP]
          /\ lapicIds' = [lapicIds EXCEPT ![BSP] = 0]
      BY <1>4, <2>2 DEF FindApic
    <3>2. Slots' = {0} /\ cpuIds'[0] = BSP /\ lapicIds'[BSP] = 0
      BY <3>1, SMTT(60) DEF Slots, Typed
    <3> QED  BY <3>2, <2>1, Zenon DEF Walk, Early, Named, HasBsp
  <2>3. CASE ~(machine.apic = 1 /\ lapic = 0)
    <3>1. UNCHANGED <<lapic, cpuIds, lapicIds>> /\ (lapic = 1 => cpuCount' = cpuCount)
      BY <1>4, <2>3 DEF FindApic
    <3>2. lapic = 1 => Slots' = Slots /\ Named /\ HasBsp
      BY <3>1, <2>1 DEF Slots, Walk
    <3> QED  BY <3>1, <3>2, <2>1, Zenon DEF Walk, Early, Named, HasBsp
  <2> QED  BY <2>2, <2>3, SMTT(60)
<1> QED
  BY <1>1, <1>2, <1>3, <1>4
=============================================================================
