----------------------------- MODULE BootProofs -----------------------------
(***************************************************************************)
(* The start of the CPUs, for any number of them, any firmware whose MADT  *)
(* names the boot CPU, and faults of any CPU at any time.                  *)
(***************************************************************************)
EXTENDS BootInv, FiniteSetTheorems

-----------------------------------------------------------------------------
(* Until SMP::init() the other CPUs are off.                                *)
LEMMA AloneOff ==
  ASSUME IInv, pc[BSP] \in Alone
  PROVE  /\ \A c \in Cpus \ {BSP} : pc[c] = "off" /\ stack[c] = None /\ c \notin timer /\ c \notin vectors
         /\ Counted = {}
<1>1. \A c \in Cpus \ {BSP} : pc[c] = "off" /\ stack[c] = None /\ c \notin timer /\ c \notin vectors
  BY DEF IInv, CpuInv, ApInv
<1> QED
  BY <1>1 DEF Counted, IInv, Typed

(* The steps of the boot CPU before that.                                   *)
LEMMA AloneStep ==
  ASSUME IInv, pc[BSP] \in Alone, NEW l \in Alone, pc' = [pc EXCEPT ![BSP] = l],
         stack' = stack, ready' = ready, active' = active,
         timer \subseteq timer', timer' \subseteq timer \cup {BSP}, vectors' \subseteq vectors \cup {BSP}
  PROVE  CpuInv' /\ PagesHeld' /\ active' \in 1..(Cardinality(Counted)' + 1)
<1>1. pc'[BSP] = l /\ \A c \in Cpus \ {BSP} : pc'[c] = "off"
  BY AloneOff, ConstantFacts DEF IInv, Typed
<1>2. \A c \in Cpus \ {BSP} : ApInv(c)'
  BY <1>1, AloneOff DEF ApInv
<1>3. CpuInv'
  BY <1>1, <1>2 DEF CpuInv, IInv, Alone, Early
<1>4. PagesHeld'
  BY <1>1 DEF PagesHeld, Alone, Early
<1>5. Counted' = Counted
  BY <1>1, AloneOff DEF Counted, IInv, Typed
<1> QED
  BY <1>3, <1>4, <1>5 DEF IInv

(* CPUs that run at all have slots of their own.                            *)
LEMMA FewerThanSlots ==
  ASSUME IInv, pc[BSP] \notin Alone, NEW W \in SUBSET (Cpus \ {BSP}),
         \A c \in W : pc[c] # "off", lapic = 1
  PROVE  /\ IsFiniteSet(W) /\ Cardinality(W) \in Nat /\ Cardinality(Others) \in Nat
         /\ Cardinality(W) <= Cardinality(Others)
         /\ Cardinality(Others) < cpuCount /\ cpuCount \in Id
<1>1. Named /\ HasBsp /\ cpuCount \in Id
  BY DEF IInv, Walk, Alone, Early, Typed
<1>2. IsFiniteSet(Slots) /\ Cardinality(Slots) = cpuCount
  <2>1. cpuCount \in Nat /\ Slots = 0..(cpuCount - 1)
    BY <1>1, ConstantFacts DEF Id, Slots
  <2> QED  BY <2>1, FS_Interval
<1>3. IsFiniteSet(Others) /\ Cardinality(Others) \in Nat /\ Others \in SUBSET Slots
  BY <1>2, FS_Subset, FS_CardinalityType DEF Others
<1>4. Cardinality(Others) < cpuCount
  <2>1. Others # Slots
    BY <1>1 DEF HasBsp, Others
  <2>2. Cardinality(Others) <= Cardinality(Slots) /\ Cardinality(Others) # Cardinality(Slots)
    BY <2>1, <1>2, <1>3, FS_Subset
  <2>3. cpuCount \in Nat
    BY <1>1, ConstantFacts DEF Id
  <2> QED  BY <2>2, <2>3, <1>2, <1>3
<1> DEFINE f == [c \in W |-> lapicIds[c]]
<1>5. \A c \in W : lapicIds[c] \in Others /\ cpuIds[lapicIds[c]] = c
  BY <1>1 DEF IInv, CpuInv, ApInv, Named, Others
<1>6. f \in Injection(W, Others)
  BY <1>5 DEF Injection, IsInjective
<1>7. IsFiniteSet(W) /\ Cardinality(W) <= Cardinality(Others)
  BY <1>3, <1>6, FS_Injection
<1>8. Cardinality(W) \in Nat
  BY <1>7, FS_CardinalityType
<1> QED
  BY <1>1, <1>3, <1>4, <1>7, <1>8

(* The CPUs that may have counted themselves are finitely many, and run.    *)
LEMMA CountedFinite ==
  ASSUME IInv
  PROVE  /\ IsFiniteSet(Counted) /\ Cardinality(Counted) \in Nat
         /\ Counted \in SUBSET (Cpus \ {BSP}) /\ \A c \in Counted : pc[c] # "off"
<1>1. Counted \in SUBSET (Cpus \ {BSP}) /\ \A c \in Counted : pc[c] # "off"
  BY DEF Counted, IInv, Typed, CpuInv, ApInv
<1>2. IsFiniteSet(Cpus \ {BSP})
  BY ConstantFacts, FS_RemoveElement
<1> QED
  BY <1>1, <1>2, FS_Subset, FS_CardinalityType

(* When the counts agree no CPU is left in the startup page.                *)
LEMMA StartedPast ==
  ASSUME IInv, AllStarted
  PROVE  \A c \in Cpus : pc[c] \notin {"wait", "entry"}
<1>1. pc[BSP] = "startup" /\ lapic = 1 /\ active = Expected
  BY DEF AllStarted, IInv, CpuInv
<1>2. pc[BSP] \notin Alone
  BY <1>1 DEF Alone, Early
<1> SUFFICES ASSUME NEW c \in Cpus, pc[c] \in {"wait", "entry"} PROVE FALSE
  OBVIOUS
<1>3. c # BSP /\ c \notin timer
  BY <1>1 DEF IInv, CpuInv, ApInv
<1>4. IsFiniteSet(Counted) /\ Cardinality(Counted) \in Nat /\ c \notin Counted
  BY <1>3, CountedFinite DEF Counted
<1>5. Cardinality(Counted \cup {c}) = Cardinality(Counted) + 1
  BY <1>4, FS_AddElement, Zenon
<1>6. Counted \cup {c} \in SUBSET (Cpus \ {BSP}) /\ \A d \in Counted \cup {c} : pc[d] # "off"
  BY <1>3, CountedFinite
<1>7. /\ Cardinality(Counted) + 1 <= Cardinality(Others) /\ Cardinality(Others) < cpuCount
      /\ Cardinality(Others) \in Nat /\ cpuCount \in Nat
  BY <1>1, <1>2, <1>5, <1>6, FewerThanSlots, ConstantFacts DEF Id
<1>8. Expected = Cardinality(Others) + 1
  BY <1>7 DEF Expected
<1> QED
  BY <1>1, <1>4, <1>7, <1>8 DEF IInv

-----------------------------------------------------------------------------
(* What a step leaves of the count when no CPU leaves Counted.              *)
LEMMA CountKept ==
  ASSUME IInv, Counted \subseteq Counted', Counted' \subseteq Cpus, active' = active
  PROVE  active' \in 1..(Cardinality(Counted)' + 1)
<1>1. IsFiniteSet(Counted')
  BY ConstantFacts, FS_Subset
<1>2. Cardinality(Counted') \in Nat /\ Cardinality(Counted) <= Cardinality(Counted')
  BY <1>1, FS_Subset, FS_CardinalityType, SMTT(60)
<1> QED
  BY <1>2, CountedFinite DEF IInv

(* The steps of the boot CPU from SMP::init() on.                           *)
LEMMA BspStep ==
  ASSUME IInv, InitSmp \/ SendStartup \/ AllStarted \/ LoadModule
  PROVE  /\ CpuInv' /\ PagesHeld' /\ active' \in 1..(Cardinality(Counted)' + 1)
         /\ pc[BSP] \notin Early /\ pc'[BSP] \notin Early /\ UNCHANGED acpiVars
<1> USE ConstantFacts
<1>0. /\ pc \in [Cpus -> Place] /\ pc[BSP] \in BspPlace /\ timer \subseteq Cpus
      /\ CpuInv /\ PagesHeld /\ stack[BSP] = None
      /\ \A c \in Cpus \ {BSP} : ApInv(c) /\ pc[c] \in ApPlace
  BY DEF IInv, Typed, CpuInv
<1>1. CASE InitSmp
  <2>0. pc[BSP] = "smp" /\ UNCHANGED <<acpiVars, vectors, timer, active, stack, ready>>
    BY <1>1 DEF InitSmp, intrVars, runVars
  <2>1. \A c \in Cpus \ {BSP} : pc[c] = "off" /\ stack[c] = None /\ c \notin timer /\ c \notin vectors
    BY <2>0, AloneOff DEF Alone
  <2>2. CASE lapic = 0 \/ cpuCount < 2
    <3>1. pc'[BSP] = "syscall" /\ (\A c \in Cpus \ {BSP} : pc'[c] = "off") /\ pc' \in [Cpus -> Place]
      BY <1>0, <1>1, <2>1, <2>2 DEF InitSmp, Goto, Place
    <3>2. \A c \in Cpus \ {BSP} : ApInv(c)'
      BY <3>1, <2>0, <2>1 DEF ApInv
    <3>3. CpuInv' /\ PagesHeld'
      BY <3>1, <3>2, <2>0, <1>0 DEF CpuInv, PagesHeld
    <3>4. Counted' = Counted
      BY <3>1, <2>0, <2>1, <1>0 DEF Counted
    <3> QED  BY <3>1, <3>3, <3>4, <2>0, <1>0, SMTT(60) DEF IInv, Early
  <2>3. CASE ~(lapic = 0 \/ cpuCount < 2)
    <3>1. /\ bootPages' = 1 /\ pc'[BSP] = "startup" /\ lapic = 1
          /\ \A c \in Cpus \ {BSP} :
               pc'[c] = "off" \/ (pc'[c] = "wait" /\ \E i \in Slots : cpuIds[i] = c)
      BY <1>1, <2>1, <2>3, SMTT(60) DEF InitSmp, Others, IInv, Typed
    <3>2. \A c \in Cpus \ {BSP} : ApInv(c)'
      BY <3>1, <2>0, <2>1 DEF ApInv, acpiVars, Slots, Alone, Early
    <3>3. CpuInv' /\ PagesHeld'
      BY <3>1, <3>2, <2>0, <1>0 DEF CpuInv, PagesHeld, acpiVars
    <3>4. Counted' = Counted
      BY <3>1, <2>0, <2>1, <1>0, SMTT(60) DEF Counted
    <3> QED  BY <3>1, <3>3, <3>4, <2>0, SMTT(60) DEF IInv, Early
  <2> QED  BY <2>2, <2>3
<1>2. CASE SendStartup
  <2>0. /\ pc[BSP] = "startup" /\ lapic = 1
        /\ UNCHANGED <<acpiVars, vectors, timer, active, stack, ready, bootPages>>
    BY <1>2, <1>0 DEF SendStartup, intrVars, smpVars, runVars, CpuInv
  <2>1. /\ pc'[BSP] = "hlt"
        /\ \A c \in Cpus \ {BSP} : pc'[c] = pc[c] \/ (pc[c] = "wait" /\ pc'[c] = "entry")
    BY <1>2 DEF SendStartup
  <2>2. \A c \in Cpus \ {BSP} : ApInv(c)'
    BY <2>0, <2>1, <1>0 DEF ApInv, acpiVars, Slots, Alone, Early
  <2>3. CpuInv'
    BY <2>0, <2>1, <2>2, <1>0 DEF CpuInv, acpiVars
  <2>4. PagesHeld'
    BY <2>0, <2>1, <1>0 DEF PagesHeld
  <2>5. Counted \subseteq Counted' /\ Counted' \subseteq Cpus
    BY <2>0, <2>1, <1>0 DEF Counted
  <2> QED  BY <2>0, <2>1, <2>3, <2>4, <2>5, CountKept, SMTT(60) DEF Early
<1>3. CASE AllStarted
  <2>0. /\ pc[BSP] = "startup" /\ UNCHANGED <<acpiVars, vectors, timer, active, stack, ready>>
        /\ pc'[BSP] = "syscall" /\ \A c \in Cpus \ {BSP} : pc'[c] = pc[c]
    BY <1>0, <1>3 DEF AllStarted, intrVars, runVars, Goto
  <2>2. \A c \in Cpus \ {BSP} : ApInv(c)'
    BY <2>0, <1>0 DEF ApInv, acpiVars, Slots, Alone, Early
  <2>3. CpuInv'
    BY <2>0, <2>2, <1>0 DEF CpuInv, acpiVars
  <2>4. PagesHeld'
    BY <2>0, <1>3, StartedPast DEF PagesHeld
  <2>5. Counted \subseteq Counted' /\ Counted' \subseteq Cpus
    BY <2>0, <1>0 DEF Counted
  <2> QED  BY <2>0, <2>3, <2>4, <2>5, CountKept DEF Early
<1>4. CASE LoadModule
  <2>0. /\ pc[BSP] = "modules" /\ UNCHANGED <<acpiVars, vectors, timer, active, stack, ready, bootPages>>
        /\ pc'[BSP] \in {"modules", "loop"} /\ \A c \in Cpus \ {BSP} : pc'[c] = pc[c]
    BY <1>0, <1>4 DEF LoadModule, intrVars, smpVars, Goto
  <2>2. \A c \in Cpus \ {BSP} : ApInv(c)'
    BY <2>0, <1>0 DEF ApInv, acpiVars, Slots, Alone, Early
  <2>3. CpuInv'
    BY <2>0, <2>2, <1>0 DEF CpuInv, acpiVars
  <2>4. PagesHeld'
    BY <2>0, <1>0 DEF PagesHeld
  <2>5. Counted \subseteq Counted' /\ Counted' \subseteq Cpus
    BY <2>0, <1>0 DEF Counted
  <2> QED  BY <2>0, <2>3, <2>4, <2>5, CountKept DEF Early
<1> QED
  BY <1>1, <1>2, <1>3, <1>4, SMTT(60)

(* A CPU's own step concerns the facts about that CPU.                      *)
LEMMA CpuFrame ==
  ASSUME IInv, NEW c \in Cpus, UNCHANGED acpiVars, c # BSP => pc[BSP] \notin Alone /\ pc[c] # "off",
         NEW l \in Place \ ({"off"} \cup Alone), pc' = [pc EXCEPT ![c] = l],
         \A d \in Cpus \ {c} : stack'[d] = stack[d] /\ (d \in timer' <=> d \in timer)
                               /\ (d \in vectors' <=> d \in vectors) /\ (d \in ready => d \in ready'),
         timer \subseteq timer',
         c # BSP => ApInv(c)',
         stack'[BSP] = None,
         l \in {"startup", "hlt"} => lapic = 1,
         l \in {"modules", "loop", "user"} => c \in ready',
         l = "user" => c \in timer',
         bootPages' = bootPages, l \notin {"wait", "entry"}
  PROVE  CpuInv' /\ PagesHeld'
<1> USE ConstantFacts
<1>1. pc'[c] = l /\ \A d \in Cpus \ {c} : pc'[d] = pc[d]
  BY DEF IInv, Typed
<1>2. ASSUME NEW d \in Cpus \ {BSP} PROVE ApInv(d)'
  <2>1. CASE d = c
    BY <2>1, <1>2, SMTT(60)
  <2>2. CASE d # c
    <3>1. ApInv(d) /\ pc'[d] = pc[d] /\ stack'[d] = stack[d] /\ (d \in timer' <=> d \in timer)
          /\ (d \in vectors' <=> d \in vectors)
      BY <2>2, <1>1, <1>2 DEF IInv, CpuInv
    <3>2. pc[BSP] \notin Alone => pc'[BSP] \notin Alone
      BY <1>1
    <3>3. UNCHANGED <<lapic, cpuIds, Slots>>
      BY DEF acpiVars, Slots
    <3> QED  BY <3>1, <3>2, <3>3, SMTT(60) DEF ApInv
  <2> QED  BY <2>1, <2>2
<1>3. pc'[BSP] \in {"startup", "hlt"} => lapic' = 1
  BY <1>1 DEF IInv, CpuInv, acpiVars
<1>4. ASSUME NEW d \in Cpus
      PROVE  (pc'[d] \in {"modules", "loop", "user"} => d \in ready') /\ (pc'[d] = "user" => d \in timer')
  BY <1>1 DEF IInv, CpuInv
<1>5. CpuInv'
  BY <1>2, <1>3, <1>4, SMTT(60) DEF CpuInv
<1>6. PagesHeld'
  BY <1>1 DEF PagesHeld, IInv
<1> QED
  BY <1>5, <1>6

(* The steps of an application CPU on its way up.                           *)
LEMMA ApStep ==
  ASSUME IInv, NEW c \in Cpus, ApEntry(c) \/ ApLoadVector(c) \/ ApInitCPU(c) \/ ApActivate(c)
  PROVE  CpuInv' /\ PagesHeld' /\ active' \in 1..(Cardinality(Counted)' + 1)
<1> USE ConstantFacts
<1>0. c # BSP
  BY DEF ApEntry, ApLoadVector, ApInitCPU, ApActivate, IInv, Typed, BspPlace
<1>1. /\ pc[BSP] \notin Alone /\ pc[c] # "off" /\ UNCHANGED <<acpiVars, lapic, cpuIds, Slots>>
      /\ pc'[BSP] = pc[BSP]
  <2>1. CpuStep(c)
    BY SMTT(60) DEF CpuStep
  <2> QED  BY <2>1, <1>0, CpuLate, SMTT(60) DEF acpiVars, Slots
<1>2. /\ pc \in [Cpus -> Place] /\ timer \subseteq Cpus /\ stack \in [Cpus -> Id \cup {None}]
      /\ ApInv(c) /\ stack[BSP] = None /\ lapic = 1 /\ \E i \in Slots : cpuIds[i] = c
  BY <1>0, <1>1 DEF IInv, Typed, CpuInv, ApInv
<1> DEFINE OnTheWay(l) == l \in Place \ ({"off"} \cup Alone) /\ l \notin {"wait", "entry"}
             /\ l \notin {"startup", "hlt", "modules", "loop", "user"}
<1>a. OnTheWay("vector") /\ OnTheWay("timer") /\ OnTheWay("count") /\ OnTheWay("syscall")
  BY DEF Place, Alone, Early
<1>b. stack[BSP] = None /\ c \in DOMAIN stack /\ BSP \in DOMAIN stack
  BY <1>2
<1>3. CASE ApEntry(c)
  <2>1. pc' = [pc EXCEPT ![c] = "vector"] /\ pc[c] = "entry" /\ UNCHANGED <<vectors, timer, active, bootPages, ready>>
    BY <1>3 DEF ApEntry, Goto, intrVars, runVars
  <2>2. PICK i \in FindStack(c) : stack' = [stack EXCEPT ![c] = i]
    BY <1>3, Zenon DEF ApEntry
  <2>3. i \in Slots /\ cpuIds[i] = c
    BY <2>2 DEF FindStack
  <2>4. ApInv(c)'
    BY <2>1, <2>2, <2>3, <1>1, <1>2 DEF ApInv
  <2>5. CpuInv' /\ PagesHeld'
    <3>1. stack'[BSP] = None /\ \A d \in Cpus \ {c} : stack'[d] = stack[d]
      BY <2>2, <1>0, <1>2
    <3> QED  BY <3>1, <2>1, <2>4, <1>a, <1>0, <1>1, CpuFrame, Zenon
  <2>6. Counted \subseteq Counted' /\ Counted' \subseteq Cpus
    BY <2>1, <1>2 DEF Counted
  <2> QED  BY <2>1, <2>5, <2>6, CountKept, SMTT(60)
<1>4. CASE ApLoadVector(c)
  <2>1. /\ pc' = [pc EXCEPT ![c] = "timer"] /\ pc[c] = "vector" /\ vectors' = vectors \cup {c}
        /\ UNCHANGED <<timer, active, bootPages, ready, stack>>
    BY <1>4, SMTT(60) DEF ApLoadVector, Goto, smpVars, runVars
  <2>2. ApInv(c)'
    BY <2>1, <1>1, <1>2, SMTT(60) DEF ApInv
  <2>3. CpuInv' /\ PagesHeld'
    <3>1. stack'[BSP] = None /\ \A d \in Cpus \ {c} : d \in timer' <=> d \in timer
      BY <2>1, <1>b
    <3> QED  BY <3>1, <2>1, <2>2, <1>a, <1>0, <1>1, CpuFrame, Zenon
  <2>4. Counted \subseteq Counted' /\ Counted' \subseteq Cpus
    BY <2>1, <1>2 DEF Counted
  <2> QED  BY <2>1, <2>3, <2>4, CountKept
<1>5. CASE ApInitCPU(c)
  <2>1. /\ pc' = [pc EXCEPT ![c] = "count"] /\ pc[c] = "timer" /\ timer' = timer \cup {c}
        /\ UNCHANGED <<vectors, active, bootPages, ready, stack>>
    BY <1>5 DEF ApInitCPU, Goto, smpVars, runVars
  <2>2. ApInv(c)'
    BY <2>1, <1>1, <1>2, SMTT(60) DEF ApInv
  <2>3. CpuInv' /\ PagesHeld'
    <3>1. stack'[BSP] = None /\ \A d \in Cpus \ {c} : d \in timer' <=> d \in timer
      BY <2>1, <1>b
    <3> QED  BY <3>1, <2>1, <2>2, <1>a, <1>0, <1>1, CpuFrame, Zenon
  <2>4. Counted \subseteq Counted' /\ Counted' \subseteq Cpus
    BY <2>1, <1>2 DEF Counted, ApInv
  <2> QED  BY <2>1, <2>3, <2>4, CountKept
<1>6. CASE ApActivate(c)
  <2>1. /\ pc' = [pc EXCEPT ![c] = "syscall"] /\ pc[c] = "count" /\ active' = (active + 1) % Width
        /\ UNCHANGED <<vectors, timer, bootPages, ready, stack>>
    BY <1>6 DEF ApActivate, Goto, intrVars, runVars
  <2>2. ApInv(c)'
    BY <2>1, <1>1, <1>2, SMTT(60) DEF ApInv
  <2>3. CpuInv' /\ PagesHeld'
    <3>1. stack'[BSP] = None /\ \A d \in Cpus \ {c} : d \in timer' <=> d \in timer
      BY <2>1, <1>b
    <3> QED  BY <3>1, <2>1, <2>2, <1>a, <1>0, <1>1, CpuFrame, Zenon
  <2> DEFINE W == Counted \cup {c}
  <2>4. IsFiniteSet(Counted) /\ Cardinality(Counted) \in Nat /\ c \notin Counted
    BY <2>1, CountedFinite DEF Counted
  <2>5. Cardinality(W) = Cardinality(Counted) + 1
    BY <2>4, FS_AddElement, Zenon
  <2>6. W \in SUBSET (Cpus \ {BSP}) /\ \A d \in W : pc[d] # "off"
    BY <1>0, <1>1, CountedFinite
  <2>7. /\ Cardinality(W) <= Cardinality(Others) /\ Cardinality(Others) < cpuCount
        /\ Cardinality(Others) \in Nat /\ cpuCount \in Nat /\ cpuCount < Width /\ Width \in Nat
    BY <2>6, <1>1, <1>2, FewerThanSlots, SMTT(60) DEF Id
  <2>8. active \in 1..(Cardinality(Counted) + 1)
    BY DEF IInv
  <2>9. active \in Id /\ active + 1 < Width
    <3>1. active \in Nat /\ active + 1 < Width
      BY <2>4, <2>5, <2>7, <2>8
    <3> QED  BY <3>1, <2>7 DEF Id
  <2>10. active' = active + 1
    BY <2>9, <2>1, CountWraps
  <2>11. W \subseteq Counted' \cup {c} /\ Counted' \subseteq Cpus /\ Counted \subseteq Counted'
    BY <2>1, <1>2 DEF Counted
  <2>12. CASE c \in timer
    <3>1. W \in SUBSET Counted' /\ IsFiniteSet(Counted')
      BY <2>1, <2>11, <2>12, <1>0, <1>2, FS_Subset, SMTT(60) DEF Counted
    <3>2. Cardinality(Counted') \in Nat /\ Cardinality(W) <= Cardinality(Counted')
      BY <3>1, FS_Subset, FS_CardinalityType
    <3>3. active' \in 1..(Cardinality(Counted') + 1)
      BY <3>2, <2>4, <2>5, <2>8, <2>10, SMTT(60)
    <3> QED  BY <3>3, <2>3
  <2> QED  BY <2>12, <2>1, <1>2 DEF ApInv
<1> QED
  BY <1>3, <1>4, <1>5, <1>6, SMTT(60)

(* System calls, the timer and faults on any CPU.                           *)
LEMMA RunStep ==
  ASSUME IInv, NEW c \in Cpus, SetupSyscall(c) \/ Halt(c) \/ Tick(c) \/ Fault(c)
  PROVE  CpuInv' /\ PagesHeld' /\ active' \in 1..(Cardinality(Counted)' + 1)
<1> USE ConstantFacts
<1>1. /\ UNCHANGED <<acpiVars, lapic, cpuIds, Slots, vectors, timer, stack, active, bootPages>>
      /\ ready \subseteq ready'
  BY DEF SetupSyscall, Halt, Tick, Fault, acpiVars, intrVars, smpVars, runVars, Slots
<1>2. c # BSP => pc[BSP] \notin Alone /\ pc[c] # "off"
  BY CpuLate, SMTT(60) DEF CpuStep
<1>3. /\ pc \in [Cpus -> Place] /\ timer \subseteq Cpus /\ stack[BSP] = None
      /\ \A d \in Cpus \ {BSP} : ApInv(d) /\ pc[d] \in ApPlace
      /\ \A d \in Cpus : /\ pc[d] \in {"modules", "loop", "user"} => d \in ready
                         /\ pc[d] = "user" => d \in timer
      /\ pc[BSP] \in {"startup", "hlt"} => lapic = 1
      /\ pc[BSP] \in BspPlace
  BY Zenon DEF IInv, Typed, CpuInv
<1> DEFINE Settles(l) ==
      /\ l \in Place \ ({"off"} \cup Alone)
      /\ l \notin {"wait", "entry", "vector", "timer", "count", "hlt"}
      /\ l = "startup" => c = BSP /\ lapic = 1
      /\ l \in {"modules", "loop", "user"} => c \in ready'
      /\ l = "user" => c \in timer
<1>4. ASSUME NEW l, Settles(l), pc' = [pc EXCEPT ![c] = l]
      PROVE  CpuInv' /\ PagesHeld' /\ active' \in 1..(Cardinality(Counted)' + 1)
  <2>1. pc'[c] = l /\ (c # BSP => pc'[BSP] = pc[BSP]) /\ \A d \in Cpus \ {c} : pc'[d] = pc[d]
    BY <1>3, <1>4, SMTT(60)
  <2>2. c # BSP => ApInv(c)'
    BY <2>1, <1>1, <1>2, <1>3, <1>4, SMTT(60) DEF ApInv
  <2>3. CpuInv' /\ PagesHeld'
    BY <2>2, <1>1, <1>2, <1>3, <1>4, CpuFrame, Zenon
  <2>4. Counted \subseteq Counted' /\ Counted' \subseteq Cpus
    BY <2>1, <1>1, <1>3, <1>4 DEF Counted
  <2> QED  BY <2>3, <2>4, <1>1, CountKept, SMTT(60)
<1>5. ASSUME pc' = pc, ready' = ready
      PROVE  CpuInv' /\ PagesHeld' /\ active' \in 1..(Cardinality(Counted)' + 1)
  <2>1. CpuInv'
    BY <1>1, <1>5 DEF IInv, CpuInv, ApInv
  <2>2. PagesHeld' /\ Counted' = Counted
    BY <1>1, <1>5, SMTT(60) DEF IInv, PagesHeld, Counted
  <2> QED  BY <2>1, <2>2, <1>1 DEF IInv
<1>6. Settles("barrier") /\ Settles("fault") /\ Settles("halted")
  BY DEF Place, Alone, Early
<1> HIDE DEF Settles
<1>7. CASE SetupSyscall(c)
  <2>1. Settles(IF c = BSP THEN "modules" ELSE "loop")
    BY <1>7 DEF Settles, SetupSyscall, Place, Alone, Early
  <2> QED  BY <2>1, <1>4, <1>7, Zenon DEF SetupSyscall, Goto
<1>8. CASE Halt(c)
  BY <1>4, <1>6, <1>8, Zenon DEF Halt, Goto
<1>9. CASE Tick(c)
  <2>1. ready' = ready /\ c \in timer
    BY <1>9, SMTT(60) DEF Tick
  <2>2. CASE fault # None
    BY <2>2, <1>4, <1>6, <1>9, SMTT(60) DEF Tick, Goto
  <2>3. CASE fault = None /\ MaySwitch(c)
    <3>1. Settles("user")
      BY <2>1, <2>3, <1>3, SMTT(60) DEF Settles, MaySwitch, Place, Alone, Early
    <3> QED  BY <3>1, <2>3, <1>4, <1>9, SMTT(60) DEF Tick, Goto
  <2>4. CASE fault = None /\ ~MaySwitch(c) /\ pc[c] = "hlt"
    <3>1. c = BSP
      BY <2>4, <1>3 DEF ApPlace
    <3>2. Settles("startup")
      BY <3>1, <2>4, <1>3 DEF Settles, Place, Alone, Early
    <3> QED  BY <3>2, <2>4, <1>4, <1>9, SMTT(60) DEF Tick, Goto
  <2>5. CASE fault = None /\ ~MaySwitch(c) /\ pc[c] # "hlt"
    <3>1. pc' = pc
      BY <2>5, <1>3, <1>9, SMTT(60) DEF Tick, Goto
    <3> QED  BY <3>1, <2>1, <1>5, SMTT(60)
  <2> QED  BY <2>2, <2>3, <2>4, <2>5
<1>10. CASE Fault(c)
  BY <1>4, <1>6, <1>10, Zenon DEF Fault, Goto
<1> QED
  BY <1>7, <1>8, <1>9, <1>10, SMTT(60)

-----------------------------------------------------------------------------
(* IInv holds at the start.                                              *)
LEMMA BootStart == Init => IInv
<1> SUFFICES ASSUME Init PROVE IInv
  OBVIOUS
<1> USE ConstantFacts
<1>1. pc[BSP] = "root" /\ \A c \in Cpus \ {BSP} : pc[c] = "off"
  BY DEF Init
<1>2. Len(Roots) \in Nat
  BY BootAssumption DEF Init, Roots
<1>3. Typed
  BY <1>1, <1>2, SMTT(60) DEF Init, Typed, BspPlace, ApPlace, Place
<1>4. Walk
  BY <1>1 DEF Init, Walk, Early
<1>5. CpuInv /\ PagesHeld
  BY <1>1 DEF Init, CpuInv, ApInv, PagesHeld
<1>6. Counted = {}
  BY DEF Init, Counted
<1> QED
  BY <1>3, <1>4, <1>5, <1>6, FS_EmptySet DEF IInv, Init

(* Every step preserves it.                                                 *)
LEMMA BootInvStep ==
  ASSUME IInv, Next
  PROVE  IInv'
<1> USE ConstantFacts
<1>1. CASE FindRoot \/ ParseTable \/ ParseApic \/ FindApic
  <2>1. /\ pc[BSP] \in Alone /\ \E l \in Alone : pc' = [pc EXCEPT ![BSP] = l]
        /\ UNCHANGED <<stack, ready, active, timer, vectors>>
    BY <1>1, SMTT(60) DEF FindRoot, ParseTable, ParseApic, FindApic, Goto, intrVars, smpVars,
                runVars, Alone, Early, IInv, Typed
  <2> QED  BY <2>1, <1>1, EarlyTyped, EarlyWalk, AloneStep, ZenonT(40) DEF IInv
<1>2. CASE InitInterrupts \/ SetupScheduler
  <2>1. /\ pc[BSP] \in Alone /\ \E l \in Alone : pc' = [pc EXCEPT ![BSP] = l]
        /\ UNCHANGED <<stack, ready, active>> /\ timer \subseteq timer'
        /\ timer' \subseteq timer \cup {BSP} /\ vectors' \subseteq vectors \cup {BSP}
        /\ UNCHANGED acpiVars /\ pc[BSP] \notin Early
    BY <1>2 DEF InitInterrupts, SetupScheduler, Goto, intrVars, smpVars, runVars, Alone, Early
  <2>2. pc'[BSP] \notin Early
    BY <1>2, SMTT(60) DEF InitInterrupts, SetupScheduler, Goto, Early, IInv, Typed
  <2> QED  BY <2>1, <2>2, <1>2, BspTyped, LateWalk, AloneStep, Zenon DEF IInv
<1>3. CASE InitSmp \/ SendStartup \/ AllStarted \/ LoadModule
  BY <1>3, BspTyped, BspStep, LateWalk DEF IInv
<1>4. ASSUME NEW c \in Cpus, CpuStep(c) \/ Tick(c) \/ Fault(c) PROVE IInv'
  <2>1. Typed' /\ Walk'
    BY <1>4, CpuTyped, CpuLate, LateWalk
  <2>2. CpuInv' /\ PagesHeld' /\ active' \in 1..(Cardinality(Counted)' + 1)
    BY <1>4, ApStep, RunStep DEF CpuStep
  <2> QED  BY <2>1, <2>2 DEF IInv
<1> QED
  BY <1>1, <1>2, <1>3, <1>4, SMTT(60) DEF Next, BootStep

(* So it always holds.                                                      *)
THEOREM BootInvariant == Spec => []IInv
<1>1. ASSUME IInv, UNCHANGED vars PROVE IInv'
  <2>1. Typed'
    BY <1>1 DEF vars, IInv, Typed, Roots
  <2>2. UNCHANGED <<Slots, Roots, Tables>>
    BY <1>1, SMTT(60) DEF vars, Slots, Roots, Tables
  <2>3. Walk'
    BY <1>1, <2>2, SMTT(60) DEF vars, IInv, Walk, Named, HasBsp
  <2>4. CpuInv'
    BY <1>1, <2>2, Zenon DEF vars, IInv, CpuInv, ApInv
  <2>5. PagesHeld' /\ Counted' = Counted /\ active' = active
    BY <1>1 DEF vars, IInv, PagesHeld, Counted
  <2> QED  BY <1>1, <2>1, <2>3, <2>4, <2>5, SMTT(60) DEF IInv
<1>2. IInv /\ [Next]_vars => IInv'
  BY <1>1, BootInvStep
<1> QED
  BY <1>2, BootStart, PTL DEF Spec

(* Types, and the bounds of the queue and of the counters of CPUs.          *)
THEOREM TypeCorrect == Spec => []TypeOK
<1>1. IInv => TypeOK
  <2> SUFFICES ASSUME IInv PROVE TypeOK
    BY SMTT(60)
  <2> USE ConstantFacts
  <2>1. timer \in SUBSET Cpus /\ IsFiniteSet(timer) /\ IsFiniteSet(timer \cup {BSP})
    BY FS_Subset, FS_AddElement DEF IInv, Typed
  <2>2. Counted \cup {BSP} \in SUBSET (timer \cup {BSP}) /\ BSP \notin Counted
    BY DEF Counted
  <2>3. Cardinality(Counted \cup {BSP}) = Cardinality(Counted) + 1
    BY <2>2, CountedFinite, FS_AddElement, Zenon
  <2>4. /\ Cardinality(timer \cup {BSP}) \in Nat
        /\ Cardinality(Counted) + 1 <= Cardinality(timer \cup {BSP})
    BY <2>1, <2>2, <2>3, FS_Subset, FS_CardinalityType
  <2>5. active \in 1..Cardinality(timer \cup {BSP})
    BY <2>4, CountedFinite DEF IInv
  <2>6. queued \in 0..Modules /\ modules \in 0..Modules
    BY DEF IInv, Typed
  <2> QED  BY <2>5, <2>6 DEF IInv, Typed, TypeOK
<1> QED
  BY <1>1, BootInvariant, PTL

(* No two CPUs that are up share a stack or a slot of the tables indexed by *)
(* getCPUID().                                                              *)
THEOREM SlotsOwned == Spec => []OwnSlots
<1>1. IInv => OwnSlots
  <2> SUFFICES ASSUME IInv, NEW c \in Up, NEW d \in Up, c # d
               PROVE  /\ stack[c] # stack[d]
                      /\ pc[BSP] \notin Early => GetCPUID(c) # GetCPUID(d)
    BY SMTT(60) DEF OwnSlots, Early
  <2> USE ConstantFacts
  <2>1. \A x \in Up : x # BSP => /\ stack[x] \in Slots /\ cpuIds[stack[x]] = x
                                 /\ lapic = 1 /\ stack[x] # None
    BY DEF Up, IInv, CpuInv, ApInv
  <2>2. stack[c] # stack[d]
    BY <2>1 DEF IInv, CpuInv
  <2>3. ASSUME pc[BSP] \notin Early PROVE GetCPUID(c) # GetCPUID(d)
    <3>1. lapic = 1
      BY <2>1, SMTT(60)
    <3>2. Named /\ HasBsp
      BY <3>1, <2>3, SMTT(60) DEF IInv, Walk, Early
    <3>3. \A x \in Up : cpuIds[lapicIds[x]] = x
      BY <2>1, <3>2 DEF Named, HasBsp, Up
    <3> QED  BY <3>1, <3>3 DEF GetCPUID
  <2> QED  BY <2>2, <2>3
<1> QED
  BY <1>1, BootInvariant, PTL

(* The startup page is held as long as a CPU may run in it.                 *)
THEOREM StartupPageHeld == Spec => []PagesHeld
BY BootInvariant, PTL DEF IInv

(* User code runs only on CPUs that are set up.                             *)
THEOREM UserWaits == Spec => []UserReady
<1>1. IInv => UserReady
  BY DEF IInv, CpuInv, UserReady
<1> QED
  BY <1>1, BootInvariant, PTL
=============================================================================
