-------------------------- MODULE SchedulerProofs --------------------------
(***************************************************************************)
(* SwitchProcess() keeps the invariant of SchedulerInv, and the theorems   *)
(* about Scheduler that follow, for any number of CPUs and processes.      *)
(***************************************************************************)
EXTENDS SchedulerInv, FiniteSetTheorems, WellFoundedInduction

(* SwitchProcess() on an idle CPU drops the head, on a busy one it rotates  *)
(* the queue.  The stale link of the tail is harmless in the second case,   *)
(* and in the first when another node is left in the queue.                 *)
LEMMA SwitchStep ==
  ASSUME TypeOK, Good, ~stray', NEW c \in CPU, nextThread # Null, mutex = Null,
         Switch(c), Goto(c, "user"),
         pc[c] \in {"tick", "faultsw"},
         UNCHANGED <<mutex, nodes, procs, processes, ret, cur>>
  PROVE  Good'
<1> USE SchedulerAssumption
<1>0. CpusOK
  BY DEF Good
<1>1. PICK n \in Nat : \E q \in [1..n -> Proc] : QueueOK(n, q)
  BY DEF Good
<1>2. PICK q \in [1..n -> Proc] : QueueOK(n, q)
  BY <1>1
<1>3. n > 0 /\ nextThread = q[1] /\ lastThread = q[n]
  BY <1>2 DEF QueueOK, Chain
<1>4. PICK h \in Proc : h = q[1]
  BY <1>2, <1>3
<1>5. /\ cpuThreads'[c] = h /\ ctx'[c] = h /\ h # Null /\ h \in nodes
      /\ \A d \in CPU : d # c => cpuThreads'[d] = cpuThreads[d] /\ ctx'[d] = ctx[d]
      /\ \A d \in CPU : cpuThreads[d] # h
      /\ \A d \in CPU : Owns(d) => cur[d] # h
  <2>1. cpuThreads' = [cpuThreads EXCEPT ![c] = h] /\ ctx' = [ctx EXCEPT ![c] = h]
    BY <1>3, <1>4 DEF Switch
  <2>2. DOMAIN cpuThreads = CPU /\ DOMAIN ctx = CPU
    BY DEF TypeOK
  <2>3. 1 \in 1..n
    BY <1>3
  <2>4. /\ h \in nodes
        /\ \A d \in CPU : cpuThreads[d] # h
        /\ \A d \in CPU : Owns(d) => cur[d] # h
    BY <1>2, <1>4, <2>3 DEF QueueOK
  <2>5. QED
    BY <2>1, <2>2, <2>4
<1>6. /\ pc'[c] = "user" /\ \A d \in CPU : d # c => pc'[d] = pc[d]
  BY DEF TypeOK, Goto
<1>7. /\ \A d \in CPU : d # c => /\ InUser(d)' <=> InUser(d)
                                 /\ Leaving(d)' <=> Leaving(d)
                                 /\ Owns(d)' <=> Owns(d)
      /\ InUser(c)' /\ ~Leaving(c)' /\ ~Owns(c)'
      /\ ~Owns(c)
  BY <1>6 DEF InUser, Leaving, Owns
<1>8. CpusOK'
  <2>1. \A d \in CPU : Owns(d)' =>
          /\ cur'[d] \in procs'
          /\ \A e \in CPU : cpuThreads'[e] # cur'[d]
          /\ \A e \in CPU : e # d /\ Owns(e)' => cur'[e] # cur'[d]
    BY <1>0, <1>5, <1>7 DEF CpusOK
  <2>2. \A d, e \in CPU : d # e /\ cpuThreads'[d] # Null => cpuThreads'[d] # cpuThreads'[e]
    BY <1>0, <1>5 DEF CpusOK
  <2>3. QED
    BY <1>0, <1>5, <1>6, <1>7, <2>1, <2>2 DEF CpusOK
<1>9. \A i \in 1..n : q[i] = h => i = 1
  BY <1>2, <1>3, <1>4 DEF QueueOK, Chain
<1>kept. \A x \in processes' \cap nodes' : x # h /\ x # cpuThreads[c] =>
           (\E i \in 1..n : q[i] = x) \/ OnCpu(x)'
  <2> SUFFICES ASSUME NEW x \in processes \cap nodes, x # cpuThreads[c], OnCpu(x)
               PROVE  OnCpu(x)'
    BY <1>2 DEF QueueOK, NoneMissing
  <2>1. QED
    BY <1>5, <1>6 DEF OnCpu
<1>head. OnCpu(h)'
  BY <1>5 DEF OnCpu
<1>10. CASE cpuThreads[c] = Null
  <2>1. PICK m \in Nat : m = n - 1
    BY <1>3
  <2>2. PICK r \in [1..m -> Proc] : \A i \in 1..m : r[i] = q[i + 1]
    <3> DEFINE f == [i \in 1..m |-> q[i + 1]]
    <3>1. f \in [1..m -> Proc]
      BY <1>2, <2>1
    <3>2. QED
      BY <3>1, Zenon
  <2>3. UNCHANGED next /\ nextThread' = next[h]
    BY <1>3, <1>4, <1>10 DEF Switch
  <2>4. nextThread' = (IF m = 0 THEN Null ELSE r[1])
    <3>1. CASE n = 1
      <4>1. ~LeavesQueue(nextThread)
        BY <1>10, Zenon DEF Switch
      <4>2. next[nextThread] = Null
        BY <1>3, <3>1, <4>1 DEF LeavesQueue
      <4>3. QED
        BY <1>3, <1>4, <2>1, <2>3, <3>1, <4>2
    <3>2. CASE n > 1
      BY <1>2, <1>4, <2>1, <2>2, <2>3, <3>2 DEF QueueOK, Chain
    <3>3. QED
      BY <1>3, <3>1, <3>2
  <2>5. lastThread' = (IF m = 0 THEN Null ELSE r[m])
    <3>1. CASE n = 1
      BY <1>3, <1>4, <1>10, <2>1, <3>1 DEF Switch
    <3>2. CASE n > 1
      <4>1. q[n] # h
        BY <1>9, <3>2
      <4>2. lastThread' = q[n]
        BY <1>3, <1>4, <1>10, <4>1 DEF Switch
      <4>3. QED
        BY <2>1, <2>2, <3>2, <4>2
    <3>3. QED
      BY <1>3, <3>1, <3>2
  <2>6. \A i \in 1..m : i < m => next'[r[i]] = r[i + 1]
    BY <1>2, <2>1, <2>2, <2>3 DEF QueueOK, Chain
  <2>7. \A i, j \in 1..m : r[i] = r[j] => i = j
    BY <1>2, <2>1, <2>2 DEF QueueOK, Chain
  <2>8. /\ \A i \in 1..m : r[i] \in nodes'
        /\ \A i \in 1..m, d \in CPU : r[i] # cpuThreads'[d]
        /\ \A i \in 1..m, d \in CPU : Owns(d)' => r[i] # cur'[d]
    <3>1. \A i \in 1..m : i + 1 \in 1..n /\ r[i] = q[i + 1] /\ r[i] # h
      BY <1>9, <2>1, <2>2
    <3>2. QED
      BY <1>2, <1>5, <1>7, <3>1 DEF QueueOK
  <2>9. NoneMissing(m, r)'
    <3> SUFFICES ASSUME NEW x \in processes' \cap nodes', x # h, NEW i \in 1..n, q[i] = x
                 PROVE  \E j \in 1..m : r[j] = x
      BY <1>kept, <1>head, <1>10, SMTT(60) DEF NoneMissing, TypeOK
    <3>1. i # 1
      BY <1>4
    <3>2. i - 1 \in 1..m /\ q[(i - 1) + 1] = x
      BY <2>1, <3>1
    <3>3. r[i - 1] = x
      BY <2>2, <3>2
    <3>4. QED
      BY <3>2, <3>3
  <2>10. QueueOK(m, r)'
    BY <2>4, <2>5, <2>6, <2>7, <2>8, <2>9 DEF QueueOK, Chain
  <2>11. QED
    BY <1>8, <2>10 DEF Good
<1>11. CASE cpuThreads[c] # Null
  <2>1. PICK t \in Proc : t = cpuThreads[c]
    BY <1>11 DEF TypeOK
  <2>2. /\ t \in nodes /\ t # h
        /\ \A i \in 1..n : q[i] # t
        /\ \A d \in CPU : d # c => cpuThreads[d] # t
        /\ \A d \in CPU : Owns(d) => cur[d] # t
    BY <1>0, <1>2, <1>5, <1>11, <2>1 DEF CpusOK, QueueOK
  <2>3. PICK r \in [1..n -> Proc] :
          \A i \in 1..n : r[i] = IF i = n THEN t ELSE q[i + 1]
    <3> DEFINE f == [i \in 1..n |-> IF i = n THEN t ELSE q[i + 1]]
    <3>1. f \in [1..n -> Proc]
      BY <1>2, <2>1
    <3>2. QED
      BY <3>1, Zenon
  <2>4. lastThread' = r[n]
    <3>1. lastThread' = t
      BY <1>11, <2>1 DEF Switch
    <3>2. n \in 1..n
      BY <1>3
    <3>3. QED
      BY <2>3, <3>1, <3>2
  <2>full. NoneMissing(n, r)'
    <3>1. n \in 1..n /\ r[n] = t
      BY <1>3, <2>3
    <3> SUFFICES ASSUME NEW x \in processes' \cap nodes', x # h, x # t, NEW i \in 1..n, q[i] = x
                 PROVE  \E j \in 1..n : r[j] = x
      BY <1>kept, <1>head, <2>1, <3>1 DEF NoneMissing
    <3>2. i # 1
      BY <1>4
    <3>3. i - 1 \in 1..n /\ i - 1 # n /\ q[(i - 1) + 1] = x
      BY <1>3, <3>2
    <3>4. r[i - 1] = x
      BY <2>3, <3>3
    <3>5. QED
      BY <3>3, <3>4
  <2>5. CASE n = 1
    <3>1. nextThread' = t /\ UNCHANGED next
      BY <1>3, <1>11, <2>1, <2>5 DEF Switch
    <3>2. Chain(n, r)'
      BY <2>3, <2>4, <2>5, <3>1 DEF Chain
    <3>3. QueueOK(n, r)'
      BY <1>5, <1>7, <2>2, <2>3, <2>5, <2>full, <3>2 DEF QueueOK
    <3>4. QED
      BY <1>8, <3>3 DEF Good
  <2>6. CASE n > 1
    <3>1. q[n] # h
      BY <1>9, <2>6
    <3>2. /\ nextThread' = next[h] /\ next' = [next EXCEPT ![q[n]] = t]
      <4>1. q[n] # Null /\ nextThread = h /\ nextThread # lastThread /\ lastThread = q[n]
        <5>1. q[n] \in Proc
          BY <1>2, <2>6
        <5>2. QED
          BY <1>3, <1>4, <3>1, <5>1
      <4>2. QED
        BY <1>11, <2>1, <4>1 DEF Switch
    <3>3. nextThread' = r[1]
      <4>1. 1 \in 1..n /\ 1 < n /\ 1 # n
        BY <2>6
      <4>2. next[q[1]] = q[2] /\ r[1] = q[2]
        BY <1>2, <2>3, <4>1 DEF QueueOK, Chain
      <4>3. QED
        BY <1>4, <3>2, <4>2
    <3>4. ASSUME NEW i \in 1..n, i < n PROVE next'[r[i]] = r[i + 1]
      <4>1. r[i] = q[i + 1] /\ i + 1 \in 1..n
        BY <2>3, <3>4
      <4>2. CASE i + 1 = n
        BY <1>2, <2>3, <2>6, <3>2, <4>1, <4>2 DEF TypeOK
      <4>3. CASE i + 1 < n
        <5>1. next[q[i + 1]] = q[i + 2] /\ q[i + 1] # q[n] /\ r[i + 1] = q[i + 2]
          BY <1>2, <2>3, <4>1, <4>3 DEF QueueOK, Chain
        <5>2. QED
          BY <1>2, <3>2, <4>1, <5>1 DEF TypeOK
      <4>4. QED
        BY <3>4, <4>2, <4>3
    <3>5. \A i, j \in 1..n : r[i] = r[j] => i = j
      BY <1>2, <2>2, <2>3 DEF QueueOK, Chain
    <3>6. Chain(n, r)'
      BY <2>4, <2>6, <3>3, <3>4, <3>5 DEF Chain
    <3>7. \A i \in 1..n : r[i] = t \/ \E j \in 1..n : r[i] = q[j] /\ q[j] # h
      BY <1>9, <2>3
    <3>8. QueueOK(n, r)'
      BY <1>2, <1>5, <1>7, <2>2, <2>full, <3>6, <3>7 DEF QueueOK
    <3>9. QED
      BY <1>8, <3>8 DEF Good
  <2>7. QED
    BY <1>3, <2>5, <2>6
<1>12. QED
  BY <1>10, <1>11

(* When SwitchProcess() declines, the CPU returns to what it did.          *)
LEMMA DeclineStep ==
  ASSUME TypeOK, Good, NEW c \in CPU,
         \/ pc[c] = "tick" /\ Goto(c, ret[c])
         \/ pc[c] = "faultsw" /\ Goto(c, "faultidle"),
         UNCHANGED <<mutex, nextThread, lastThread, next, cpuThreads, nodes, procs,
                     processes, ret, ctx, cur, wnext>>
  PROVE  Good'
<1> USE SchedulerAssumption
<1>0. CpusOK
  BY DEF Good
<1>1. /\ \A d \in CPU : InUser(d)' <=> InUser(d)
      /\ \A d \in CPU : Leaving(d)' <=> Leaving(d)
      /\ \A d \in CPU : Owns(d)' <=> Owns(d)
      /\ \A d \in CPU : pc'[d] \in {"reg", "free", "delete", "halted"} => pc'[d] = pc[d]
  BY DEF TypeOK, Goto, InUser, Leaving, Owns, Kernel
<1>2. CpusOK'
  BY <1>0, <1>1 DEF CpusOK
<1>3. PICK n \in Nat : \E q \in [1..n -> Proc] : QueueOK(n, q)
  BY DEF Good
<1>4. PICK q \in [1..n -> Proc] : QueueOK(n, q)
  BY <1>3
<1>5. \A x : OnCpu(x) => OnCpu(x)'
  BY DEF TypeOK, Goto, OnCpu
<1>6. NoneMissing(n, q)'
  BY <1>4, <1>5 DEF QueueOK, NoneMissing
<1>7. QueueOK(n, q)'
  BY <1>1, <1>4, <1>6 DEF QueueOK, Chain
<1>8. QED
  BY <1>2, <1>7 DEF Good

(* Every step that follows no link out of the queue keeps it a queue.      *)
LEMMA GoodStep ==
  ASSUME TypeOK, ~stray, Good, ~stray', NEW c \in CPU, Step(c)
  PROVE  Good'
<1>1. CASE SetupDone(c) \/ LoadDone(c) \/ Timer(c) \/ Fault(c) \/ Exit(c) \/ FaultIdle(c)
  BY <1>1, ControlSteps
<1>2. ASSUME NEW p \in Proc, Load(c, p) PROVE Good'
  BY <1>2, LoadStep
<1>3. CASE Register(c)
  BY <1>3, RegisterStep
<1>4. CASE HandleFault(c)
  BY <1>4, HandleFaultStep
<1>5. CASE FaultDelete(c) \/ ExitDelete(c)
  BY <1>5, DeleteStep
<1>6. CASE CurrentProcess(c) \/ ExitProcess(c)
  BY <1>6, EnterExitStep
<1>7. CASE ExitSkip(c) \/ ExitUnlink(c)
  BY <1>7, WalkStep
<1>8. CASE ExitCpus(c)
  BY <1>8, ExitCpusStep
<1>9. CASE TimerHandler(c)
  <2>1. CASE MaySwitch(c)
    <3>1. Switch(c) /\ Goto(c, "user") /\ nextThread # Null
      BY <1>9, <2>1 DEF TimerHandler, MaySwitch
    <3>2. pc[c] = "tick" /\ mutex = Null /\ UNCHANGED <<mutex, nodes, procs, processes, ret, cur>>
      BY <1>9 DEF TimerHandler, memVars, idVars
    <3>3. QED
      BY <3>1, <3>2, SwitchStep
  <2>2. CASE ~MaySwitch(c)
    <3>1. /\ pc[c] = "tick" /\ Goto(c, ret[c])
          /\ UNCHANGED <<mutex, nextThread, lastThread, next, cpuThreads, nodes,
                         procs, processes, ret, ctx, cur, wnext>>
      BY <1>9, <2>2 DEF TimerHandler, queueVars, memVars, idVars, walkVars
    <3>2. QED
      BY <3>1, DeclineStep
  <2>3. QED
    BY <2>1, <2>2
<1>10. CASE FaultSwitch(c)
  <2>1. CASE nextThread # Null
    <3>1. Switch(c) /\ Goto(c, "user")
      BY <1>10, <2>1 DEF FaultSwitch
    <3>2. pc[c] = "faultsw" /\ mutex = Null /\ UNCHANGED <<mutex, nodes, procs, processes, ret, cur>>
      BY <1>10 DEF FaultSwitch, memVars, idVars
    <3>3. QED
      BY <2>1, <3>1, <3>2, SwitchStep
  <2>2. CASE nextThread = Null
    <3>1. /\ pc[c] = "faultsw" /\ Goto(c, "faultidle")
          /\ UNCHANGED <<mutex, nextThread, lastThread, next, cpuThreads, nodes,
                         procs, processes, ret, ctx, cur, wnext>>
      BY <1>10, <2>2 DEF FaultSwitch, queueVars, memVars, idVars, walkVars
    <3>2. QED
      BY <3>1, DeclineStep
  <2>3. QED
    BY <2>1, <2>2
<1>11. QED
  BY <1>1, <1>2, <1>3, <1>4, <1>5, <1>6, <1>7, <1>8, <1>9, <1>10
  DEF Step, Loader, Handler, User

(* The history variable stray is never reset.                              *)
LEMMA StrayStays ==
  ASSUME TypeOK, stray, NEW c \in CPU, Step(c)
  PROVE  stray'
<1>1. CASE Loader(c) \/ Timer(c) \/ User(c)
  BY <1>1, Zenon DEF Loader, SetupDone, Load, LoadDone, Timer, User, Fault, Exit
<1>2. CASE Register(c) \/ TimerHandler(c) \/ FaultSwitch(c)
  BY <1>2, Zenon DEF Register, TimerHandler, FaultSwitch, Switch
<1>3. CASE HandleFault(c) \/ FaultDelete(c) \/ FaultIdle(c)
  BY <1>3, Zenon DEF HandleFault, FaultDelete, FaultIdle
<1>4. CASE CurrentProcess(c) \/ ExitProcess(c) \/ ExitSkip(c) \/ ExitUnlink(c)
  BY <1>4, Zenon DEF CurrentProcess, ExitProcess, ExitSkip, ExitUnlink
<1>5. CASE ExitCpus(c) \/ ExitDelete(c)
  BY <1>5, Zenon DEF ExitCpus, ExitDelete
<1>6. QED
  BY <1>1, <1>2, <1>3, <1>4, <1>5 DEF Step, Handler

-----------------------------------------------------------------------------
(* The values of f up to n have a bound.                                   *)
Bounded(f, n) == \E b \in Nat : \A i \in 1..n : f[i] <= b

(* One more value leaves them bounded.                                     *)
LEMMA OneMore ==
  ASSUME NEW m \in Nat, NEW f \in [1..(m + 1) -> Nat], Bounded(f, m)
  PROVE  Bounded(f, m + 1)
<1>1. PICK b \in Nat : \A i \in 1..m : f[i] <= b
  BY DEF Bounded
<1>2. f[m + 1] \in Nat /\ b + f[m + 1] \in Nat
  OBVIOUS
<1>3. ASSUME NEW i \in 1..(m + 1) PROVE f[i] <= b + f[m + 1]
  <2>1. CASE i = m + 1
    BY <1>2, <2>1
  <2>2. CASE i # m + 1
    <3>1. i \in 1..m /\ f[i] \in Nat
      BY <2>2
    <3>2. f[i] <= b
      BY <1>1, <3>1
    <3>3. QED
      BY <1>2, <3>1, <3>2
  <2>3. QED
    BY <2>1, <2>2
<1>4. QED
  BY <1>2, <1>3 DEF Bounded

(* Every sequence of naturals has a bound: a shortest one without would be *)
(* bounded up to its last element.                                         *)
LEMMA SequenceBounded ==
  ASSUME NEW n \in Nat, NEW f \in [1..n -> Nat]
  PROVE  Bounded(f, n)
<1> DEFINE T == {m \in Nat : \E g \in [1..m -> Nat] : ~Bounded(g, m)}
<1> SUFFICES ASSUME ~Bounded(f, n) PROVE FALSE
  OBVIOUS
<1>1. n \in T
  OBVIOUS
<1>2. T \subseteq Nat
  OBVIOUS
<1>3. PICK m : m \in T /\ \A k \in T : ~ (<<k, m>> \in OpToRel(<, Nat))
  <2> HIDE DEF T
  <2>1. QED
    BY <1>1, <1>2, WFMin, NatLessThanWellFounded, Zenon
<1>4. m \in Nat /\ \E g \in [1..m -> Nat] : ~Bounded(g, m)
  BY <1>3, Zenon
<1>5. PICK g \in [1..m -> Nat] : ~Bounded(g, m)
  BY <1>4
<1>6. m # 0
  BY <1>4, <1>5 DEF Bounded
<1>7. PICK k \in Nat : m = k + 1
  <2>1. m - 1 \in Nat /\ m = (m - 1) + 1
    BY <1>4, <1>6
  <2>2. QED
    BY <2>1
<1>8. k \notin T
  <2>1. <<k, m>> \in OpToRel(<, Nat)
    BY <1>4, <1>7 DEF OpToRel
  <2>2. QED
    BY <1>3, <2>1, Zenon
<1>9. \A h \in [1..k -> Nat] : Bounded(h, k)
  BY <1>8
<1> DEFINE h == [i \in 1..k |-> g[i]]
<1>10. h \in [1..k -> Nat] /\ \A i \in 1..k : h[i] = g[i]
  BY <1>5, <1>7
<1>11. Bounded(g, k)
  BY <1>9, <1>10, Zenon DEF Bounded
<1>12. QED
  BY <1>5, <1>7, <1>11, OneMore

(* So have the values of a function on a finite set.                       *)
LEMMA FiniteBounded ==
  ASSUME NEW S, IsFiniteSet(S), NEW f \in [S -> Nat]
  PROVE  \E b \in Nat : \A s \in S : f[s] <= b
<1>1. PICK n \in Nat : ExistsBijection(1..n, S)
  BY FS_CardinalityType
<1>2. PICK e \in [1..n -> S] : \A s \in S : \E i \in 1..n : e[i] = s
  BY <1>1 DEF ExistsBijection, Bijection, Surjection, Injection
<1>3. [i \in 1..n |-> f[e[i]]] \in [1..n -> Nat]
  BY <1>2
<1> DEFINE g == [i \in 1..n |-> f[e[i]]]
<1>4. PICK b \in Nat : \A i \in 1..n : g[i] <= b
  BY <1>3, SequenceBounded, Zenon DEF Bounded
<1>5. \A i \in 1..n : g[i] = f[e[i]]
  OBVIOUS
<1>6. QED
  BY <1>2, <1>4, <1>5, SMTT(60)

(* A set of naturals with a bound has a maximum.                           *)
LEMMA MaxIsBound ==
  ASSUME NEW S \in SUBSET Nat, S # {}, NEW b \in Nat, \A x \in S : x <= b
  PROVE  Max(S) \in S /\ \A x \in S : x <= Max(S)
<1> DEFINE U == {u \in Nat : \A x \in S : x <= u}
<1>1. U \subseteq Nat /\ U # {}
  OBVIOUS
<1>2. PICK u \in U : \A k \in U : ~ (<<k, u>> \in OpToRel(<, Nat))
  <2> HIDE DEF U
  <2>1. QED
    BY <1>1, WFMin, NatLessThanWellFounded, Zenon
<1>3. u \in Nat /\ \A x \in S : x <= u
  OBVIOUS
<1>4. u \in S
  <2> SUFFICES ASSUME u \notin S PROVE FALSE
    OBVIOUS
  <2>1. \A x \in S : x \in Nat /\ x < u
    BY <1>3
  <2>2. u - 1 \in Nat
    <3>1. PICK x \in S : x \in Nat /\ x < u
      BY <2>1, Zenon
    <3>2. QED
      BY <1>3, <3>1
  <2>3. u - 1 \in U
    BY <1>3, <2>1, <2>2
  <2>4. <<u - 1, u>> \in OpToRel(<, Nat)
    BY <1>3, <2>2 DEF OpToRel
  <2>5. QED
    BY <1>2, <2>3, <2>4, Zenon
<1>5. \E x \in S : \A y \in S : x >= y
  BY <1>3, <1>4
<1>6. QED
  BY <1>5, Zenon DEF Max

(* The id loop of registerProcess() ends on an id that no process of the    *)
(* list has, whatever is read from the freed ones.                          *)
LEMMA FreshIdNew ==
  ASSUME NEW S, IsFiniteSet(S), NEW f \in [S -> Nat], m_pid \in Nat
  PROVE  LET id == FreshId({f[s] : s \in S})
         IN  id \in Nat /\ \A s \in S : id # f[s]
<1> DEFINE ids == {f[s] : s \in S}
           M == {m_pid + 1} \cup {i + 1 : i \in ids}
<1>1. PICK b \in Nat : \A s \in S : f[s] <= b
  BY FiniteBounded
<1>2. M \in SUBSET Nat /\ M # {} /\ m_pid + 1 + b \in Nat
  OBVIOUS
<1>3. \A x \in M : x <= m_pid + 1 + b
  BY <1>1
<1>4. \A s \in S : f[s] \in Nat /\ f[s] + 1 \in M
  OBVIOUS
<1> HIDE DEF M
<1>5. Max(M) \in M /\ \A x \in M : x <= Max(M)
  BY <1>2, <1>3, MaxIsBound, Zenon
<1>6. Max(M) \in Nat
  BY <1>2, <1>5, Zenon
<1>7. ASSUME NEW s \in S PROVE Max(M) # f[s]
  <2>1. f[s] \in Nat /\ f[s] + 1 <= Max(M)
    BY <1>4, <1>5
  <2>2. QED
    BY <1>6, <2>1
<1>8. FreshId(ids) = Max(M)
  BY DEF FreshId, M
<1>9. QED
  BY <1>6, <1>7, <1>8

(* Ids are numbers, and those of the registered processes differ.          *)
PidInv == TypeOK /\ (\A p \in Proc : pid[p] \in Nat) /\ PidsUnique

(* registerProcess() gives a process an id of its own.                     *)
LEMMA RegisterPid ==
  ASSUME PidInv, NEW c \in CPU, Register(c)
  PROVE  (\A p \in Proc : pid'[p] \in Nat) /\ PidsUnique'
<1> USE SchedulerAssumption
<1>1. PICK p \in Proc : p = cur[c]
  BY DEF PidInv, TypeOK, Register
<1>2. PICK g \in [processes \ procs -> Garbage] :
        pid' = [pid EXCEPT ![p] = FreshId(
                  {pid[q] : q \in processes \cap procs} \cup {g[q] : q \in processes \ procs})]
  BY <1>1, Zenon DEF Register
<1>3. processes' = processes \cup {p} /\ procs' = procs
  BY <1>1 DEF Register, memVars
<1> DEFINE f == [q \in processes |-> IF q \in procs THEN pid[q] ELSE g[q]]
<1>4. f \in [processes -> Nat] /\ \A q \in processes \cap procs : f[q] = pid[q]
  BY <1>2, Zenon DEF PidInv, TypeOK
<1>5. {f[q] : q \in processes}
        = {pid[q] : q \in processes \cap procs} \cup {g[q] : q \in processes \ procs}
  OBVIOUS
<1>6. IsFiniteSet(processes) /\ m_pid \in Nat
  BY FS_Subset DEF PidInv, TypeOK
<1>7. PICK id \in Nat : pid' = [pid EXCEPT ![p] = id] /\ \A q \in processes : id # f[q]
  <2> DEFINE id == FreshId({f[q] : q \in processes})
  <2>1. pid' = [pid EXCEPT ![p] = id]
    BY <1>2, <1>5, Zenon
  <2>2. id \in Nat /\ \A q \in processes : id # f[q]
    <3> HIDE DEF f
    <3>1. QED
      BY <1>4, <1>6, FreshIdNew
  <2> HIDE DEF f, id
  <2>3. QED
    BY <2>1, <2>2, Zenon
<1>8. pid'[p] = id /\ \A q \in Proc : q # p => pid'[q] = pid[q]
  BY <1>7 DEF PidInv, TypeOK
<1>9. \A q \in processes \cap procs : q # p => pid'[q] # pid'[p]
  BY <1>4, <1>7, <1>8, SMTT(60) DEF PidInv, TypeOK
<1>10. PidsUnique'
  BY <1>3, <1>8, <1>9 DEF PidInv, PidsUnique, TypeOK
<1>11. QED
  BY <1>7, <1>8, <1>10, SMTT(60) DEF PidInv

(* Every other step registers nothing and leaves the ids alone.            *)
LEMMA OtherPid ==
  ASSUME PidInv, NEW c \in CPU, Step(c), ~Register(c)
  PROVE  pid' = pid /\ processes' \cap procs' \subseteq processes \cap procs
<1>1. CASE Loader(c)
  BY <1>1, SMTT(60) DEF Loader, SetupDone, Load, LoadDone, memVars, idVars
<1>2. CASE Timer(c) \/ User(c)
  BY <1>2 DEF Timer, User, Fault, Exit, memVars, idVars
<1>3. CASE TimerHandler(c) \/ FaultSwitch(c) \/ FaultIdle(c) \/ HandleFault(c) \/ FaultDelete(c)
  BY <1>3, Zenon DEF TimerHandler, FaultSwitch, FaultIdle, HandleFault, FaultDelete, memVars, idVars
<1>4. CASE CurrentProcess(c) \/ ExitProcess(c) \/ ExitSkip(c) \/ ExitUnlink(c)
  BY <1>4, Zenon DEF CurrentProcess, ExitProcess, ExitSkip, ExitUnlink, memVars, idVars
<1>5. CASE ExitCpus(c) \/ ExitDelete(c)
  BY <1>5, Zenon DEF ExitCpus, ExitDelete, idVars
<1>6. QED
  BY <1>1, <1>2, <1>3, <1>4, <1>5, SMTT(60) DEF Step, Handler

-----------------------------------------------------------------------------
(* The inductive invariant: the list stays a queue of allocated nodes that  *)
(* no CPU runs until scheduler.cpp follows a link out of it.                *)
THEOREM Inductive == Spec => []IInv
<1> USE SchedulerAssumption
<1>1. Init => IInv
  <2> SUFFICES ASSUME Init PROVE IInv
    OBVIOUS
  <2>1. TypeOK
    BY Zenon DEF Init, TypeOK, PC, Kernel
  <2>2. CpusOK
    BY DEF Init, CpusOK, InUser, Leaving, Owns
  <2>3. PICK q \in [1..0 -> Proc] : TRUE
    <3> DEFINE f == [i \in 1..0 |-> BSP]
    <3>1. f \in [1..0 -> Proc]
      OBVIOUS
    <3>2. QED
      BY <3>1, Zenon
  <2>4. QueueOK(0, q)
    BY <2>3 DEF Init, QueueOK, Chain, NoneMissing
  <2>5. QED
    BY <2>1, <2>2, <2>4, Zenon DEF IInv, Good
<1>2. IInv /\ [Next]_vars => IInv'
  <2> SUFFICES ASSUME IInv, [Next]_vars PROVE IInv'
    OBVIOUS
  <2>1. ASSUME NEW c \in CPU, Step(c) PROVE IInv'
    BY <2>1, TypeStep, GoodStep, StrayStays DEF IInv
  <2>2. CASE UNCHANGED vars
    <3>1. TypeOK'
      BY <2>2 DEF IInv, TypeOK, vars, queueVars, memVars, idVars, walkVars
    <3>2. ASSUME ~stray PROVE Good'
      <4>1. PICK n \in Nat : \E q \in [1..n -> Proc] : QueueOK(n, q)
        BY <3>2 DEF IInv, Good
      <4>2. PICK q \in [1..n -> Proc] : QueueOK(n, q)
        BY <4>1, SMTT(60)
      <4>3. QueueOK(n, q)'
        BY <2>2, <4>2, SMTT(60) DEF QueueOK, Chain, NoneMissing, OnCpu, Owns, vars, queueVars,
                          memVars, idVars, walkVars
      <4>4. CpusOK'
        BY <2>2, <3>2 DEF IInv, Good, CpusOK, InUser, Leaving, Owns, vars, queueVars,
                          memVars, walkVars
      <4>5. QED
        BY <4>3, <4>4 DEF Good
    <3>3. QED
      BY <2>2, <3>1, <3>2, SMTT(60) DEF IInv, vars
  <2>3. QED
    BY <2>1, <2>2 DEF Next
<1>3. QED
  BY <1>1, <1>2, PTL DEF Spec

(* The scheduler's variables keep their types, and processSwitchMutex is    *)
(* held across steps exactly by the CPU that walks the list in exitProcess(). *)
THEOREM TypeCorrect == Spec => []TypeOK
<1>1. IInv => TypeOK
  BY DEF IInv
<1>2. QED
  BY <1>1, Inductive, PTL

(* For any number of CPUs and processes: no thread runs on two CPUs and no  *)
(* CPU runs a process it does not own, until a link out of the queue is     *)
(* followed.                                                                *)
THEOREM ThreadsRunAlone == Spec => []RunsAlone
<1>1. IInv => RunsAlone
  BY DEF IInv, Good, CpusOK, RunsAlone, InUser
<1>2. QED
  BY <1>1, Inductive, PTL

(* nextThread, lastThread and cpuThreads never point to a freed node until  *)
(* a link out of the queue is followed.                                     *)
THEOREM PointersValid == Spec => []NoDangling
<1> USE SchedulerAssumption
<1>1. IInv => NoDangling
  <2> SUFFICES ASSUME IInv, ~stray PROVE
        /\ {nextThread, lastThread} \subseteq nodes \cup {Null}
        /\ \A c \in CPU : cpuThreads[c] \in nodes \cup {Null}
    BY DEF NoDangling
  <2>1. PICK n \in Nat : \E q \in [1..n -> Proc] : QueueOK(n, q)
    BY DEF IInv, Good
  <2>2. PICK q \in [1..n -> Proc] : QueueOK(n, q)
    BY <2>1
  <2>3. n # 0 => 1 \in 1..n /\ n \in 1..n
    OBVIOUS
  <2>4. {nextThread, lastThread} \subseteq nodes \cup {Null}
    BY <2>2, <2>3, SMTT(60) DEF QueueOK, Chain
  <2>5. QED
    BY <2>4 DEF IInv, Good, CpusOK
<1>2. QED
  BY <1>1, Inductive, PTL

(* A fault of a user program is always attributed to its process, so        *)
(* Interrupts::handle() does not halt, until a link out of the queue is     *)
(* followed.                                                                *)
THEOREM FaultsContained == Spec => []UserFaultsContained
<1>1. IInv => UserFaultsContained
  BY DEF IInv, Good, CpusOK, UserFaultsContained
<1>2. QED
  BY <1>1, Inductive, PTL

(* No runnable thread is lost: until a link out of the queue is followed,   *)
(* every registered process is queued once, or runs on a CPU, or is being   *)
(* destroyed after a fault.                                                 *)
THEOREM ThreadsKept == Spec => []NoneLost
<1> USE SchedulerAssumption
<1>1. IInv => NoneLost
  <2> SUFFICES ASSUME IInv, ~stray PROVE NoneLost
    BY DEF NoneLost
  <2>1. PICK n \in Nat : \E q \in [1..n -> Proc] : QueueOK(n, q)
    BY DEF IInv, Good
  <2>2. PICK q \in [1..n -> Proc] : QueueOK(n, q)
    BY <2>1
  <2>3. q \in Queues
    <3>1. q \in Injection(1..n, Proc)
      BY <2>2 DEF QueueOK, Chain, Injection, IsInjective
    <3>2. Cardinality(1..n) <= Cardinality(Proc) /\ Cardinality(1..n) = n
      BY <3>1, FS_Injection, FS_Interval
    <3>3. n \in 0..Cardinality(Proc)
      BY <3>2, FS_CardinalityType
    <3>4. QED
      BY <3>3 DEF Queues
  <2>4. q \in Seq(Proc) /\ Len(q) = n
    OBVIOUS
  <2>5. IsQueue(q)
    BY <2>2, <2>4 DEF QueueOK, Chain, IsQueue
  <2>6. /\ \A p \in processes \cap nodes :
             \/ \E i \in 1..Len(q) : q[i] = p
             \/ \E c \in CPU : cpuThreads[c] = p
             \/ \E c \in CPU : pc[c] = "free" /\ cur[c] = p
        /\ \A i \in 1..Len(q), c \in CPU : q[i] # cpuThreads[c]
    BY <2>2, <2>4 DEF QueueOK, NoneMissing, OnCpu
  <2>7. QED
    BY <2>3, <2>5, <2>6 DEF NoneLost
<1>2. QED
  BY <1>1, Inductive, PTL

(* Live processes never share an id, for any number of CPUs and processes   *)
(* and whatever is read from the processes HandleFault() freed.             *)
THEOREM IdsUnique == Spec => []PidsUnique
<1>1. Init => PidInv
  <2> SUFFICES ASSUME Init PROVE PidInv
    OBVIOUS
  <2>1. TypeOK
    BY SchedulerAssumption, Zenon DEF Init, TypeOK, PC, Kernel
  <2>2. QED
    BY <2>1 DEF PidInv, PidsUnique, Init
<1>2. PidInv /\ [Next]_vars => PidInv'
  <2> SUFFICES ASSUME PidInv, [Next]_vars PROVE PidInv'
    OBVIOUS
  <2>1. ASSUME NEW c \in CPU, Step(c) PROVE PidInv'
    <3>1. TypeOK'
      BY <2>1, TypeStep DEF PidInv
    <3>2. CASE Register(c)
      BY <3>1, <3>2, RegisterPid DEF PidInv
    <3>3. CASE ~Register(c)
      BY <2>1, <3>1, <3>3, OtherPid, SMTT(60) DEF PidInv, PidsUnique
    <3>4. QED
      BY <3>2, <3>3
  <2>2. CASE UNCHANGED vars
    BY <2>2 DEF PidInv, TypeOK, PidsUnique, vars, queueVars, memVars, idVars, walkVars
  <2>3. QED
    BY <2>1, <2>2 DEF Next
<1>3. PidInv => PidsUnique
  BY DEF PidInv
<1>4. QED
  BY <1>1, <1>2, <1>3, PTL DEF Spec
=============================================================================
