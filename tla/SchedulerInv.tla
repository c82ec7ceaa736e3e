---------------------------- MODULE SchedulerInv ----------------------------
(***************************************************************************)
(* The inductive invariant of Scheduler, for any number of CPUs and        *)
(* processes: as long as no link out of the queue has been followed, the   *)
(* linked list is a queue of allocated nodes, every node is in one place   *)
(* only, and no thread runs on two CPUs.  Types are kept by every step;    *)
(* the invariant by those that leave the queue alone and by registration,  *)
(* faults and exits.                                                       *)
(***************************************************************************)
EXTENDS Scheduler, TLAPS

(* The CPU runs user code, or has just entered the kernel from it.         *)
InUser(c) == \/ pc[c] \in {"user", "fault", "sysexit"}
             \/ pc[c] = "tick" /\ ret[c] = "user"

(* exitProcess() works on the current thread of the CPU.                   *)
Leaving(c) == pc[c] \in {"exit", "walk"}

(* The CPU alone knows the process cur[c]: it is being created or destroyed. *)
Owns(c) == pc[c] \in {"reg", "free", "delete"}

(* The current threads of the CPUs and what each CPU owns.                 *)
CpusOK ==
  /\ nodes \subseteq procs
  /\ \A c \in CPU : cpuThreads[c] \in nodes \cup {Null}
  /\ \A c, d \in CPU : c # d /\ cpuThreads[c] # Null => cpuThreads[c] # cpuThreads[d]
  /\ \A c \in CPU : InUser(c) => ctx[c] = cpuThreads[c] /\ cpuThreads[c] # Null
  /\ \A c \in CPU : Leaving(c) => cur[c] = cpuThreads[c] /\ cpuThreads[c] # Null
  /\ \A c \in CPU : ~InUser(c) /\ ~Leaving(c) => cpuThreads[c] = Null
  /\ \A c \in CPU : Owns(c) => /\ cur[c] \in procs
                               /\ \A d \in CPU : cpuThreads[d] # cur[c]
                               /\ \A d \in CPU : d # c /\ Owns(d) => cur[d] # cur[c]
  /\ \A c \in CPU : pc[c] \in {"reg", "free"} => cur[c] \in nodes
  /\ \A c \in CPU : pc[c] = "delete" => cur[c] \notin nodes
  /\ \A c \in CPU : pc[c] # "halted"

(* The list from nextThread to lastThread is q[1], ..., q[n].              *)
Chain(n, q) ==
  /\ nextThread = IF n = 0 THEN Null ELSE q[1]
  /\ lastThread = IF n = 0 THEN Null ELSE q[n]
  /\ \A i \in 1..n : i < n => next[q[i]] = q[i + 1]
  /\ \A i, j \in 1..n : q[i] = q[j] => i = j

(* A CPU runs p, or destroys it after a fault.                             *)
OnCpu(p) == \E c \in CPU : cpuThreads[c] = p \/ (pc[c] = "free" /\ cur[c] = p)

(* Every registered process that has a node is queued or on a CPU.         *)
NoneMissing(n, q) == \A p \in processes \cap nodes : (\E i \in 1..n : q[i] = p) \/ OnCpu(p)

(* Its nodes are allocated and nowhere else, none is missing, and a walk is *)
(* inside it.                                                               *)
QueueOK(n, q) ==
  /\ Chain(n, q) /\ NoneMissing(n, q)
  /\ \A i \in 1..n : q[i] \in nodes
  /\ \A i \in 1..n, c \in CPU : q[i] # cpuThreads[c]
  /\ \A i \in 1..n, c \in CPU : Owns(c) => q[i] # cur[c]
  /\ mutex # Null => wnext = Null \/ \E i \in 1..n : wnext = q[i]

Good == CpusOK /\ \E n \in Nat : \E q \in [1..n -> Proc] : QueueOK(n, q)

IInv == TypeOK /\ (~stray => Good)

-----------------------------------------------------------------------------
(* What SwitchProcess() stores are pointers to nodes.                      *)
LEMMA SwitchTypes ==
  ASSUME TypeOK, NEW c \in CPU, nextThread # Null, Switch(c)
  PROVE  /\ nextThread' \in Proc \cup {Null} /\ lastThread' \in Proc \cup {Null}
         /\ next' \in [Proc -> Proc \cup {Null}]
         /\ cpuThreads' \in [CPU -> Proc \cup {Null}]
         /\ ctx' \in [CPU -> Proc \cup {Null}]
         /\ stray' \in BOOLEAN
<1>1. nextThread' \in Proc \cup {Null} /\ lastThread' \in Proc \cup {Null}
  BY DEF TypeOK, Switch
<1>2. next' \in [Proc -> Proc \cup {Null}]
  BY DEF TypeOK, Switch
<1>3. /\ cpuThreads' \in [CPU -> Proc \cup {Null}]
      /\ ctx' \in [CPU -> Proc \cup {Null}]
  BY DEF TypeOK, Switch
<1>4. stray' \in BOOLEAN
  BY DEF Switch
<1>5. QED
  BY <1>1, <1>2, <1>3, <1>4

(* Every step keeps the types.                                             *)
LEMMA TypeStep ==
  ASSUME TypeOK, NEW c \in CPU, Step(c)
  PROVE  TypeOK'
<1> USE SchedulerAssumption
<1>1. CASE SetupDone(c)
  BY <1>1 DEF TypeOK, SetupDone, Goto, PC, Kernel, queueVars, memVars, idVars, walkVars
<1>2. ASSUME NEW p \in Proc, Load(c, p) PROVE TypeOK'
  BY <1>2 DEF TypeOK, Load, Goto, PC, Kernel, queueVars, memVars, idVars, walkVars
<1>3. CASE LoadDone(c)
  BY <1>3 DEF TypeOK, LoadDone, Goto, PC, Kernel, queueVars, memVars, idVars, walkVars
<1>4. CASE Register(c)
  <2>1. /\ lastThread' = cur[c] /\ stray' \in BOOLEAN
        /\ nextThread' \in {nextThread, cur[c]}
        /\ \/ next' = [next EXCEPT ![lastThread] = cur[c]] 
           \/ next' = next
    <3>1. CASE lastThread # Null
      BY <1>4, <3>1 DEF Register
    <3>2. CASE lastThread = Null
      BY <1>4, <3>2 DEF Register, TypeOK
    <3>3. QED
      BY <3>1, <3>2
  <2>2. DOMAIN pid' = Proc
    BY <1>4 DEF TypeOK, Register
  <2>3. processes' \subseteq Proc /\ m_pid' \in Nat
    BY <1>4 DEF TypeOK, Register
  <2>4. /\ cur' \in [CPU -> Proc \cup {Null}] /\ pc' \in [CPU -> PC]
        /\ \A d \in CPU : mutex' = d <=> pc'[d] = "walk"
        /\ \A d \in CPU : pc'[d] = "reg" => cur'[d] # Null
    BY <1>4 DEF TypeOK, Register, Goto, PC, Kernel
  <2>5. UNCHANGED <<mutex, cpuThreads, nodes, procs, ret, ctx, wnext, wprev>>
    BY <1>4 DEF Register, memVars, walkVars
  <2>6. QED
    <3>1. next' \in [Proc -> Proc \cup {Null}]
      BY <2>1 DEF TypeOK
    <3>2. QED
      BY <2>1, <2>2, <2>3, <2>4, <2>5, <3>1 DEF TypeOK
<1>5. CASE Timer(c)
  BY <1>5 DEF TypeOK, Timer, Goto, PC, Kernel, queueVars, memVars, idVars, walkVars
<1>6. CASE TimerHandler(c)
  <2>1. /\ pc' \in [CPU -> PC]
        /\ \A d \in CPU : mutex' = d <=> pc'[d] = "walk"
        /\ \A d \in CPU : pc'[d] = "reg" => cur'[d] # Null
    BY <1>6 DEF TypeOK, TimerHandler, MaySwitch, Goto, PC, Kernel
  <2>2. UNCHANGED <<mutex, nodes, procs, processes, pid, m_pid, ret, cur, wnext, wprev>>
    BY <1>6 DEF TimerHandler, memVars, idVars, walkVars
  <2>3. CASE nextThread # Null /\ Switch(c)
    BY <2>1, <2>2, <2>3, SwitchTypes DEF TypeOK
  <2>4. CASE UNCHANGED <<nextThread, lastThread, next, cpuThreads, ctx, stray>>
    BY <2>1, <2>2, <2>4 DEF TypeOK
  <2>5. QED
    BY <1>6, <2>3, <2>4 DEF TimerHandler, MaySwitch, queueVars
<1>7. CASE Fault(c)
  BY <1>7 DEF TypeOK, Fault, Goto, PC, Kernel, queueVars, memVars, idVars, walkVars
<1>8. CASE HandleFault(c)
  BY <1>8 DEF TypeOK, HandleFault, Goto, PC, Kernel, queueVars, memVars, idVars, walkVars
<1>9. CASE FaultDelete(c)
  BY <1>9 DEF TypeOK, FaultDelete, Goto, PC, Kernel, queueVars, memVars, idVars, walkVars
<1>10. CASE FaultSwitch(c)
  <2>1. /\ pc' \in [CPU -> PC]
        /\ \A d \in CPU : mutex' = d <=> pc'[d] = "walk"
        /\ \A d \in CPU : pc'[d] = "reg" => cur'[d] # Null
    BY <1>10 DEF TypeOK, FaultSwitch, Goto, PC, Kernel
  <2>2. UNCHANGED <<mutex, nodes, procs, processes, pid, m_pid, ret, cur, wnext, wprev>>
    BY <1>10 DEF FaultSwitch, memVars, idVars, walkVars
  <2>3. CASE nextThread # Null /\ Switch(c)
    BY <2>1, <2>2, <2>3, SwitchTypes DEF TypeOK
  <2>4. CASE UNCHANGED <<nextThread, lastThread, next, cpuThreads, ctx, stray>>
    BY <2>1, <2>2, <2>4 DEF TypeOK
  <2>5. QED
    BY <1>10, <2>3, <2>4 DEF FaultSwitch, queueVars
<1>11. CASE FaultIdle(c)
  BY <1>11 DEF TypeOK, FaultIdle, Goto, PC, Kernel, queueVars, memVars, idVars, walkVars
<1>12. CASE Exit(c)
  BY <1>12 DEF TypeOK, Exit, Goto, PC, Kernel, queueVars, memVars, idVars, walkVars
<1>13. CASE CurrentProcess(c)
  BY <1>13 DEF TypeOK, CurrentProcess, Goto, PC, Kernel, queueVars, memVars, idVars, walkVars
<1>14. CASE ExitProcess(c)
  BY <1>14 DEF TypeOK, ExitProcess, Goto, PC, Kernel, queueVars, memVars, idVars, walkVars
<1>15. CASE ExitSkip(c)
  BY <1>15 DEF TypeOK, ExitSkip, Goto, PC, Kernel, queueVars, memVars, idVars, walkVars
<1>16. CASE ExitUnlink(c)
  BY <1>16 DEF TypeOK, ExitUnlink, Goto, PC, Kernel, queueVars, memVars, idVars, walkVars
<1>17. CASE ExitCpus(c)
  BY <1>17 DEF TypeOK, ExitCpus, Goto, PC, Kernel, queueVars, memVars, idVars, walkVars
<1>18. CASE ExitDelete(c)
  BY <1>18 DEF TypeOK, ExitDelete, Goto, PC, Kernel, queueVars, memVars, idVars, walkVars
<1>19. QED
  BY <1>1, <1>2, <1>3, <1>4, <1>5, <1>6, <1>7, <1>8, <1>9,
     <1>10, <1>11, <1>12, <1>13, <1>14, <1>15, <1>16, <1>17, <1>18
  DEF Step, Loader, Handler, User

-----------------------------------------------------------------------------
(* The queue survives a step that leaves the list alone, frees none of its  *)
(* nodes, makes none of them current or owned, and registers no process that *)
(* is not on a CPU.                                                         *)
LEMMA QueueKept ==
  ASSUME NEW n \in Nat, NEW q \in [1..n -> Proc], QueueOK(n, q),
         UNCHANGED <<nextThread, lastThread>>,
         \A i \in 1..n : next'[q[i]] = next[q[i]],
         \A i \in 1..n : q[i] \in nodes',
         processes' \cap nodes' \subseteq processes \cap nodes,
         \A p \in processes' \cap nodes' : OnCpu(p) => OnCpu(p)',
         \A i \in 1..n, c \in CPU : q[i] # cpuThreads'[c],
         \A i \in 1..n, c \in CPU : Owns(c)' => q[i] # cur'[c],
         mutex' # Null => wnext' = Null \/ \E i \in 1..n : wnext' = q[i]
  PROVE  QueueOK(n, q)'
<1>1. NoneMissing(n, q)'
  BY DEF QueueOK, NoneMissing
<1>2. QED
  BY <1>1, SMTT(60) DEF QueueOK, Chain

(* Steps that only move a CPU from one place to another.                   *)
LEMMA ControlSteps ==
  ASSUME TypeOK, Good, NEW c \in CPU,
         \/ SetupDone(c) \/ LoadDone(c) \/ Timer(c) \/ Fault(c) \/ Exit(c)
         \/ FaultIdle(c)
  PROVE  Good'
<1> USE SchedulerAssumption
<1>1. UNCHANGED <<mutex, nextThread, lastThread, next, cpuThreads, nodes, procs,
                  processes, ctx, cur, wnext, wprev>>
  BY DEF SetupDone, LoadDone, Timer, Fault, Exit, FaultIdle, queueVars, memVars,
         idVars, walkVars
<1>2. \A d \in CPU : d # c => pc'[d] = pc[d] /\ ret'[d] = ret[d]
  BY DEF TypeOK, SetupDone, LoadDone, Timer, Fault, Exit, FaultIdle, Goto
<1>3. /\ InUser(c)' <=> InUser(c)
      /\ ~Leaving(c) /\ ~Leaving(c)' /\ ~Owns(c)'
      /\ pc'[c] \notin {"reg", "free", "delete", "halted"} /\ pc[c] # "free"
  <2>1. CASE Timer(c)
    BY <2>1 DEF TypeOK, Timer, Goto, InUser, Leaving, Owns, Kernel
  <2>2. CASE SetupDone(c) \/ LoadDone(c) \/ FaultIdle(c)
    BY <2>2 DEF TypeOK, SetupDone, LoadDone, FaultIdle, Goto, InUser, Leaving, Owns
  <2>3. CASE Fault(c) \/ Exit(c)
    BY <2>3 DEF TypeOK, Fault, Exit, Goto, InUser, Leaving, Owns
  <2>4. QED
    BY <2>1, <2>2, <2>3
<1>4. \A d \in CPU : /\ InUser(d)' <=> InUser(d)
                     /\ Leaving(d)' <=> Leaving(d)
                     /\ Owns(d)' => Owns(d)
                     /\ pc'[d] \in {"reg", "free", "delete", "halted"} => pc'[d] = pc[d]
  BY <1>2, <1>3 DEF InUser, Leaving, Owns
<1>5. CpusOK'
  BY <1>1, <1>4 DEF Good, CpusOK
<1>6. PICK n \in Nat : \E q \in [1..n -> Proc] : QueueOK(n, q)
  BY DEF Good
<1>7. PICK q \in [1..n -> Proc] : QueueOK(n, q)
  BY <1>6
<1>8. \A p : OnCpu(p) => OnCpu(p)'
  BY <1>1, <1>2, <1>3 DEF OnCpu
<1>9. QueueOK(n, q)'
  BY <1>1, <1>4, <1>7, <1>8, QueueKept DEF QueueOK
<1>10. QED
  BY <1>5, <1>9 DEF Good

(* A process under construction is known to its loader only.               *)
LEMMA LoadStep ==
  ASSUME TypeOK, Good, NEW c \in CPU, NEW p \in Proc, Load(c, p)
  PROVE  Good'
<1> USE SchedulerAssumption
<1>0. CpusOK
  BY DEF Good
<1>1. /\ UNCHANGED <<mutex, nextThread, lastThread, cpuThreads, ret, ctx, wnext>>
      /\ procs' = procs \cup {p} /\ nodes' = nodes \cup {p} /\ p \notin procs
      /\ next' = [next EXCEPT ![p] = Null]
  BY DEF Load, walkVars
<1>2. /\ pc[c] = "load" /\ pc'[c] = "reg" /\ cur'[c] = p
      /\ \A d \in CPU : d # c => pc'[d] = pc[d] /\ cur'[d] = cur[d]
  BY DEF TypeOK, Load, Goto
<1>3. /\ \A d \in CPU : InUser(d)' <=> InUser(d)
      /\ \A d \in CPU : Leaving(d)' <=> Leaving(d)
      /\ \A d \in CPU : d # c => (Owns(d)' <=> Owns(d))
      /\ ~InUser(c) /\ ~Leaving(c)
  BY <1>1, <1>2 DEF InUser, Leaving, Owns
<1>4. CpusOK'
  <2>1. \A d \in CPU : pc'[d] = "delete" => cur'[d] \notin nodes'
    BY <1>0, <1>1, <1>2 DEF CpusOK, Owns
  <2>2. QED
    BY <1>0, <1>1, <1>2, <1>3, <2>1 DEF CpusOK
<1>6. PICK n \in Nat : \E q \in [1..n -> Proc] : QueueOK(n, q)
  BY DEF Good
<1>7. PICK q \in [1..n -> Proc] : QueueOK(n, q)
  BY <1>6
<1>8. \A i \in 1..n : q[i] \in nodes /\ q[i] # p
  BY <1>0, <1>1, <1>7 DEF QueueOK, CpusOK
<1>9. \A i \in 1..n : next'[q[i]] = next[q[i]]
  BY <1>1, <1>7, <1>8 DEF TypeOK
<1>10. \A i \in 1..n, d \in CPU : Owns(d)' => q[i] # cur'[d]
  BY <1>2, <1>3, <1>7, <1>8 DEF QueueOK
<1>11. processes' \cap nodes' \subseteq processes \cap nodes
  BY <1>1 DEF Load, idVars
<1>12. \A x : OnCpu(x) => OnCpu(x)'
  BY <1>1, <1>2 DEF OnCpu
<1>13. QueueOK(n, q)'
  BY <1>1, <1>7, <1>8, <1>9, <1>10, <1>11, <1>12, QueueKept DEF QueueOK
<1>14. QED
  BY <1>4, <1>13 DEF Good

-----------------------------------------------------------------------------
(* Registration appends the node behind the tail.                          *)
LEMMA RegisterStep ==
  ASSUME TypeOK, Good, ~stray, NEW c \in CPU, Register(c)
  PROVE  Good'
<1> USE SchedulerAssumption
<1>0. CpusOK
  BY DEF Good
<1>p. PICK p : p = cur[c]
  OBVIOUS
<1>1. /\ UNCHANGED <<mutex, cpuThreads, nodes, procs, ret, ctx>>
      /\ mutex = Null /\ lastThread' = p
  BY <1>p DEF Register, memVars
<1>2. /\ pc[c] = "reg" /\ pc'[c] = "load"
      /\ \A d \in CPU : d # c => pc'[d] = pc[d] /\ cur'[d] = cur[d]
  BY DEF TypeOK, Register, Goto
<1>3. /\ \A d \in CPU : InUser(d)' <=> InUser(d)
      /\ \A d \in CPU : Leaving(d)' <=> Leaving(d)
      /\ \A d \in CPU : d # c => (Owns(d)' <=> Owns(d))
      /\ ~InUser(c) /\ ~Leaving(c) /\ Owns(c) /\ ~Owns(c)'
  BY <1>1, <1>2 DEF InUser, Leaving, Owns
<1>4. CpusOK'
  BY <1>0, <1>1, <1>2, <1>3 DEF CpusOK
<1>5. /\ p \in nodes /\ p \in Proc
      /\ \A d \in CPU : cpuThreads[d] # p
      /\ \A d \in CPU : d # c /\ Owns(d) => cur[d] # p
  BY <1>p, <1>0, <1>2, <1>3 DEF CpusOK, TypeOK
<1>6. PICK n \in Nat : \E q \in [1..n -> Proc] : QueueOK(n, q)
  BY DEF Good
<1>7. PICK q \in [1..n -> Proc] : QueueOK(n, q)
  BY <1>6
<1>8. \A i \in 1..n : q[i] # p
  BY <1>p, <1>3, <1>7 DEF QueueOK
<1>9. PICK r \in [1..(n + 1) -> Proc] :
        \A i \in 1..(n + 1) : r[i] = IF i = n + 1 THEN p ELSE q[i]
  <2> DEFINE f == [i \in 1..(n + 1) |-> IF i = n + 1 THEN p ELSE q[i]]
  <2>1. f \in [1..(n + 1) -> Proc]
    BY <1>5, <1>7
  <2>2. QED
    BY <2>1, Zenon
<1>10. Chain(n + 1, r)'
  <2>1. nextThread' = r[1] /\ lastThread' = r[n + 1]
    <3>1. CASE n = 0
      BY <1>p, <1>1, <1>7, <1>9, <3>1 DEF QueueOK, Chain, Register
    <3>2. CASE n > 0
      BY <1>1, <1>7, <1>9, <3>2 DEF QueueOK, Chain, Register
    <3>3. QED
      BY <3>1, <3>2
  <2>2. ASSUME NEW i \in 1..(n + 1), i < n + 1
        PROVE  next'[r[i]] = r[i + 1]
    <3>1. n > 0 /\ lastThread = q[n] /\ lastThread # Null
      BY <1>7, <2>2 DEF QueueOK, Chain
    <3>2. next' = [next EXCEPT ![q[n]] = p]
      BY <1>p, <3>1 DEF Register
    <3>3. CASE i = n
      BY <1>7, <1>9, <3>1, <3>2, <3>3 DEF TypeOK
    <3>4. CASE i < n
      <4>1. q[i] # q[n] /\ next[q[i]] = q[i + 1]
        BY <1>7, <2>2, <3>1, <3>4 DEF QueueOK, Chain
      <4>2. QED
        BY <1>7, <1>9, <2>2, <3>2, <3>4, <4>1 DEF TypeOK
    <3>5. QED
      BY <2>2, <3>3, <3>4
  <2>3. ASSUME NEW i \in 1..(n + 1), NEW j \in 1..(n + 1), r[i] = r[j]
        PROVE  i = j
    BY <1>7, <1>8, <1>9, <2>3 DEF QueueOK, Chain
  <2>4. QED
    BY <2>1, <2>2, <2>3 DEF Chain
<1>11. /\ \A i \in 1..(n + 1) : r[i] \in nodes'
       /\ \A i \in 1..(n + 1), d \in CPU : r[i] # cpuThreads'[d]
       /\ \A i \in 1..(n + 1), d \in CPU : Owns(d)' => r[i] # cur'[d]
  BY <1>1, <1>2, <1>3, <1>5, <1>7, <1>9 DEF QueueOK
<1>12. NoneMissing(n + 1, r)'
  <2> SUFFICES ASSUME NEW x \in processes' \cap nodes', x # p
               PROVE  (\E i \in 1..(n + 1) : r[i] = x) \/ OnCpu(x)'
    BY <1>9 DEF NoneMissing
  <2>1. x \in processes \cap nodes
    BY <1>p, <1>1 DEF Register
  <2>2. CASE OnCpu(x)
    BY <1>1, <1>2, <2>2 DEF OnCpu
  <2>3. CASE \E i \in 1..n : q[i] = x
    BY <1>9, <2>3
  <2>4. QED
    BY <1>7, <2>1, <2>2, <2>3 DEF QueueOK, NoneMissing
<1>13. QueueOK(n + 1, r)'
  BY <1>1, <1>10, <1>11, <1>12 DEF QueueOK
<1>14. QED
  BY <1>4, <1>13 DEF Good

(* A fault turns the current thread of the CPU into one the CPU owns.      *)
LEMMA HandleFaultStep ==
  ASSUME TypeOK, Good, NEW c \in CPU, HandleFault(c)
  PROVE  Good'
<1> USE SchedulerAssumption
<1>0. CpusOK
  BY DEF Good
<1>1. /\ UNCHANGED <<mutex, nextThread, lastThread, next, nodes, procs, ret, ctx, wnext>>
      /\ mutex = Null /\ UNCHANGED processes
  BY DEF HandleFault, queueVars, memVars, idVars, walkVars
<1>2. InUser(c) /\ cpuThreads[c] # Null /\ pc[c] = "fault"
  BY <1>0 DEF HandleFault, InUser, CpusOK
<1>3. /\ pc'[c] = "free" /\ cur'[c] = cpuThreads[c] /\ cpuThreads'[c] = Null
      /\ \A d \in CPU : d # c => /\ pc'[d] = pc[d] /\ cur'[d] = cur[d]
                                 /\ cpuThreads'[d] = cpuThreads[d]
  BY <1>2 DEF TypeOK, HandleFault, Goto
<1>4. /\ \A d \in CPU : d # c => /\ InUser(d)' <=> InUser(d)
                                 /\ Leaving(d)' <=> Leaving(d)
                                 /\ Owns(d)' <=> Owns(d)
      /\ ~InUser(c)' /\ ~Leaving(c)' /\ Owns(c)' /\ ~Owns(c)
  BY <1>1, <1>2, <1>3 DEF InUser, Leaving, Owns
<1>5. CpusOK'
  <2>1. \A d \in CPU : pc'[d] = "delete" => cur'[d] \notin nodes'
    BY <1>0, <1>1, <1>2, <1>3 DEF CpusOK
  <2>2. \A d \in CPU : Owns(d)' =>
          /\ cur'[d] \in procs'
          /\ \A e \in CPU : cpuThreads'[e] # cur'[d]
          /\ \A e \in CPU : e # d /\ Owns(e)' => cur'[e] # cur'[d]
    <3>1. /\ cur'[c] \in procs'
          /\ \A e \in CPU : cpuThreads'[e] # cur'[c]
          /\ \A e \in CPU : e # c /\ Owns(e)' => cur'[e] # cur'[c]
      BY <1>0, <1>1, <1>2, <1>3, <1>4 DEF CpusOK
    <3>2. ASSUME NEW d \in CPU, d # c, Owns(d)'
          PROVE  /\ cur'[d] \in procs'
                 /\ \A e \in CPU : cpuThreads'[e] # cur'[d]
                 /\ \A e \in CPU : e # d /\ Owns(e)' => cur'[e] # cur'[d]
      <4>1. Owns(d) /\ cur'[d] = cur[d] /\ cur[d] \in procs
        BY <1>0, <1>3, <1>4, <3>2 DEF CpusOK
      <4>2. \A e \in CPU : cpuThreads[e] # cur[d]
        BY <1>0, <4>1 DEF CpusOK
      <4>3. cur[d] # Null
        BY <4>1 DEF TypeOK
      <4>4. QED
        BY <1>0, <1>1, <1>3, <1>4, <3>1, <3>2, <4>1, <4>2, <4>3 DEF CpusOK
    <3>3. QED
      BY <3>1, <3>2
  <2>3. \A d \in CPU : pc'[d] \in {"reg", "free"} => cur'[d] \in nodes'
    BY <1>0, <1>1, <1>2, <1>3, <1>4 DEF CpusOK, Owns
  <2>4. QED
    BY <1>0, <1>1, <1>2, <1>3, <1>4, <2>1, <2>2, <2>3 DEF CpusOK
<1>6. PICK n \in Nat : \E q \in [1..n -> Proc] : QueueOK(n, q)
  BY DEF Good
<1>7. PICK q \in [1..n -> Proc] : QueueOK(n, q)
  BY <1>6
<1>8. QueueOK(n, q)'
  <2>1. \A i \in 1..n, d \in CPU : q[i] # cpuThreads'[d]
    BY <1>3, <1>7 DEF QueueOK
  <2>2. \A i \in 1..n, d \in CPU : Owns(d)' => q[i] # cur'[d]
    BY <1>3, <1>4, <1>7 DEF QueueOK
  <2>3. \A x : OnCpu(x) => OnCpu(x)'
    BY <1>2, <1>3 DEF OnCpu
  <2>4. QED
    BY <1>1, <1>7, <2>1, <2>2, <2>3, QueueKept DEF QueueOK
<1>9. QED
  BY <1>5, <1>8 DEF Good

(* Freeing what the CPU owns frees nothing anybody else can reach.         *)
LEMMA DeleteStep ==
  ASSUME TypeOK, Good, NEW c \in CPU, FaultDelete(c) \/ ExitDelete(c)
  PROVE  Good'
<1> USE SchedulerAssumption
<1>0. CpusOK
  BY DEF Good
<1>1. /\ UNCHANGED <<mutex, nextThread, lastThread, next, cpuThreads, ret, wnext>>
      /\ procs' = procs \ {cur[c]} /\ processes' = processes
      /\ nodes' = nodes \/ nodes' = nodes \ {cur[c]}
  BY DEF FaultDelete, ExitDelete, queueVars, memVars, idVars, walkVars
<1>2. /\ pc[c] \in {"free", "delete"} /\ pc'[c] \in {"faultsw", "loop"}
      /\ \A d \in CPU : d # c => /\ pc'[d] = pc[d] /\ cur'[d] = cur[d]
                                 /\ ctx'[d] = ctx[d]
  BY SMTT(60) DEF TypeOK, FaultDelete, ExitDelete, Goto
<1>3. /\ \A d \in CPU : InUser(d)' <=> InUser(d)
      /\ \A d \in CPU : Leaving(d)' <=> Leaving(d)
      /\ \A d \in CPU : d # c => (Owns(d)' <=> Owns(d))
      /\ ~InUser(c) /\ ~Leaving(c) /\ Owns(c) /\ ~Owns(c)'
  BY <1>1, <1>2 DEF InUser, Leaving, Owns
<1>4. cur[c] \in nodes => nodes' = nodes \ {cur[c]}
  <2>1. CASE FaultDelete(c)
    BY <2>1 DEF FaultDelete
  <2>2. CASE ExitDelete(c)
    BY <1>0, <2>2 DEF ExitDelete, CpusOK
  <2>3. QED
    BY <2>1, <2>2
<1>5. CpusOK'
  <2>1. \A d \in CPU : pc'[d] = "delete" => cur'[d] \notin nodes'
    BY <1>0, <1>1, <1>2, <1>3 DEF CpusOK
  <2>2. \A d \in CPU : Owns(d)' =>
          /\ cur'[d] \in procs'
          /\ \A e \in CPU : cpuThreads'[e] # cur'[d]
          /\ \A e \in CPU : e # d /\ Owns(e)' => cur'[e] # cur'[d]
    BY <1>0, <1>1, <1>2, <1>3, <1>4 DEF CpusOK
  <2>3. \A d \in CPU : pc'[d] \in {"reg", "free"} => cur'[d] \in nodes'
    BY <1>0, <1>1, <1>2, <1>3, <1>4 DEF CpusOK, Owns
  <2>4. QED
    BY <1>0, <1>1, <1>2, <1>3, <1>4, <2>1, <2>2, <2>3 DEF CpusOK
<1>6. PICK n \in Nat : \E q \in [1..n -> Proc] : QueueOK(n, q)
  BY DEF Good
<1>7. PICK q \in [1..n -> Proc] : QueueOK(n, q)
  BY <1>6
<1>8. QueueOK(n, q)'
  <2>1. \A i \in 1..n : q[i] \in nodes'
    BY <1>1, <1>3, <1>7 DEF QueueOK
  <2>2. \A i \in 1..n, d \in CPU : Owns(d)' => q[i] # cur'[d]
    BY <1>2, <1>3, <1>7 DEF QueueOK
  <2>3. \A x \in nodes' : x # cur[c]
    BY <1>1, <1>4
  <2>4. \A x \in nodes' : OnCpu(x) => OnCpu(x)'
    BY <1>1, <1>2, <2>3 DEF OnCpu
  <2>5. processes' \cap nodes' \subseteq processes \cap nodes
    BY <1>1
  <2>6. QED
    BY <1>1, <1>7, <2>1, <2>2, <2>4, <2>5, QueueKept DEF QueueOK
<1>9. QED
  BY <1>5, <1>8 DEF Good

(* exit() finds the current process, then takes the lock at the head.      *)
LEMMA EnterExitStep ==
  ASSUME TypeOK, Good, NEW c \in CPU, CurrentProcess(c) \/ ExitProcess(c)
  PROVE  Good'
<1> USE SchedulerAssumption
<1>0. CpusOK
  BY DEF Good
<1>1. /\ UNCHANGED <<nextThread, lastThread, next, cpuThreads, nodes, procs, ret, ctx>>
      /\ mutex = Null /\ UNCHANGED processes
      /\ mutex' # Null => wnext' = nextThread
  BY DEF CurrentProcess, ExitProcess, queueVars, memVars, idVars, walkVars
<1>2. /\ pc[c] \in {"sysexit", "exit"} /\ pc'[c] \in {"exit", "walk"}
      /\ \A d \in CPU : d # c => pc'[d] = pc[d] /\ cur'[d] = cur[d]
  BY DEF TypeOK, CurrentProcess, ExitProcess, Goto
<1>3. cur'[c] = cpuThreads[c] /\ cpuThreads[c] # Null
  <2>1. CASE CurrentProcess(c)
    BY <1>0, <2>1 DEF TypeOK, CurrentProcess, CpusOK, InUser
  <2>2. CASE ExitProcess(c)
    BY <1>0, <2>2, SMTT(60) DEF TypeOK, ExitProcess, CpusOK, Leaving
  <2>3. QED
    BY <2>1, <2>2
<1>4. /\ \A d \in CPU : d # c => /\ InUser(d)' <=> InUser(d)
                                 /\ Leaving(d)' <=> Leaving(d)
                                 /\ Owns(d)' <=> Owns(d)
      /\ ~InUser(c)' /\ Leaving(c)' /\ ~Owns(c)'
  BY <1>1, <1>2, Zenon DEF InUser, Leaving, Owns
<1>5. CpusOK'
  BY <1>0, <1>1, <1>2, <1>3, <1>4 DEF CpusOK
<1>6. PICK n \in Nat : \E q \in [1..n -> Proc] : QueueOK(n, q)
  BY DEF Good
<1>7. PICK q \in [1..n -> Proc] : QueueOK(n, q)
  BY <1>6
<1>8. QueueOK(n, q)'
  <2>1. \A i \in 1..n, d \in CPU : Owns(d)' => q[i] # cur'[d]
    BY <1>2, <1>4, <1>7 DEF QueueOK
  <2>2. mutex' # Null => wnext' = Null \/ \E i \in 1..n : wnext' = q[i]
    BY <1>1, <1>7, SMTT(60) DEF QueueOK, Chain
  <2>3. \A x : OnCpu(x) => OnCpu(x)'
    BY <1>1, <1>2 DEF OnCpu
  <2>4. QED
    BY <1>1, <1>7, <2>1, <2>2, <2>3, QueueKept DEF QueueOK
<1>9. QED
  BY <1>5, <1>8 DEF Good

(* The walk of exitProcess() stays in the queue, and never meets the node   *)
(* of the exiting process, which is current and so not queued.              *)
LEMMA WalkStep ==
  ASSUME TypeOK, Good, ~stray', NEW c \in CPU, ExitSkip(c) \/ ExitUnlink(c)
  PROVE  Good'
<1> USE SchedulerAssumption
<1>0. CpusOK
  BY DEF Good
<1>1. PICK n \in Nat : \E q \in [1..n -> Proc] : QueueOK(n, q)
  BY DEF Good
<1>2. PICK q \in [1..n -> Proc] : QueueOK(n, q)
  BY <1>1
<1>3. /\ pc[c] = "walk" /\ wnext # Null /\ mutex = c /\ ~LeavesQueue(wnext)
  BY Zenon DEF TypeOK, ExitSkip, ExitUnlink
<1>4. PICK i \in 1..n : wnext = q[i]
  BY <1>2, <1>3 DEF QueueOK
<1>5. wnext # cur[c]
  BY <1>0, <1>2, <1>3, <1>4 DEF QueueOK, CpusOK, Leaving
<1>6. ExitSkip(c)
  BY <1>5 DEF ExitUnlink
<1>7. /\ UNCHANGED <<mutex, nextThread, lastThread, next, cpuThreads, nodes, procs,
                     processes, pc, ret, ctx, cur>>
      /\ wnext' = next[wnext]
  BY <1>6 DEF ExitSkip, queueVars, memVars, idVars
<1>8. wnext' = Null \/ \E j \in 1..n : wnext' = q[j]
  <2>1. CASE i = n
    BY <1>2, <1>3, <1>4, <1>7, <2>1 DEF QueueOK, Chain, LeavesQueue
  <2>2. CASE i < n
    BY <1>2, <1>4, <1>7, <2>2 DEF QueueOK, Chain
  <2>3. QED
    BY <2>1, <2>2
<1>9. CpusOK'
  BY <1>0, <1>7 DEF CpusOK, InUser, Leaving, Owns
<1>10. QueueOK(n, q)'
  BY <1>2, <1>7, <1>8 DEF QueueOK, Chain, NoneMissing, OnCpu, Owns
<1>11. QED
  BY <1>9, <1>10 DEF Good

(* The exiting thread is current on its own CPU only; afterwards the CPU    *)
(* owns the process alone.                                                  *)
LEMMA ExitCpusStep ==
  ASSUME TypeOK, Good, NEW c \in CPU, ExitCpus(c)
  PROVE  Good'
<1> USE SchedulerAssumption
<1>0. CpusOK
  BY DEF Good
<1>1. pc[c] = "walk" /\ cur[c] = cpuThreads[c] /\ cpuThreads[c] # Null
  BY <1>0 DEF ExitCpus, CpusOK, Leaving
<1>2. {d \in CPU : cpuThreads[d] # Null /\ cpuThreads[d] = cur[c]} = {c}
  BY <1>0, <1>1 DEF CpusOK
<1>3. /\ UNCHANGED <<nextThread, lastThread, next, procs, ret, ctx, cur>>
      /\ nodes' = nodes \ {cur[c]} /\ processes' = processes \ {cur[c]} /\ mutex' = Null
      /\ cpuThreads'[c] = Null
      /\ \A d \in CPU : d # c => cpuThreads'[d] = cpuThreads[d]
  BY <1>2 DEF ExitCpus, queueVars
<1>4. /\ pc'[c] = "delete"
      /\ \A d \in CPU : d # c => pc'[d] = pc[d]
  BY DEF TypeOK, ExitCpus, Goto
<1>5. /\ \A d \in CPU : d # c => /\ InUser(d)' <=> InUser(d)
                                 /\ Leaving(d)' <=> Leaving(d)
                                 /\ Owns(d)' <=> Owns(d)
      /\ ~InUser(c)' /\ ~Leaving(c)' /\ Owns(c)'
  BY <1>3, <1>4 DEF InUser, Leaving, Owns
<1>6. CpusOK'
  <2>1. \A d \in CPU : d # c => cpuThreads[d] # cur[c]
    BY <1>0, <1>1 DEF CpusOK
  <2>2. \A d \in CPU : Owns(d) => cur[d] # cur[c] /\ cur[d] # Null
    <3>1. \A d \in CPU : Owns(d) => cur[d] \in procs /\ cpuThreads[c] # cur[d]
      BY <1>0 DEF CpusOK
    <3>2. Null \notin procs
      BY DEF TypeOK
    <3>3. QED
      BY <1>1, <3>1, <3>2
  <2>3. \A d \in CPU : Owns(d)' =>
          /\ cur'[d] \in procs'
          /\ \A e \in CPU : cpuThreads'[e] # cur'[d]
          /\ \A e \in CPU : e # d /\ Owns(e)' => cur'[e] # cur'[d]
    BY <1>0, <1>1, <1>3, <1>5, <2>1, <2>2 DEF CpusOK
  <2>4. \A d \in CPU : pc'[d] \in {"reg", "free"} => cur'[d] \in nodes'
    BY <1>0, <1>3, <1>4, <2>2 DEF CpusOK, Owns
  <2>5. \A d \in CPU : pc'[d] = "delete" => cur'[d] \notin nodes'
    BY <1>0, <1>3, <1>4 DEF CpusOK
  <2>6. QED
    BY <1>0, <1>3, <1>4, <1>5, <2>1, <2>3, <2>4, <2>5 DEF CpusOK
<1>7. PICK n \in Nat : \E q \in [1..n -> Proc] : QueueOK(n, q)
  BY DEF Good
<1>8. PICK q \in [1..n -> Proc] : QueueOK(n, q)
  BY <1>7
<1>9. QueueOK(n, q)'
  <2>1. \A i \in 1..n : q[i] \in nodes'
    BY <1>1, <1>3, <1>8 DEF QueueOK
  <2>2. \A i \in 1..n, d \in CPU : Owns(d)' => q[i] # cur'[d]
    BY <1>1, <1>3, <1>5, <1>8 DEF QueueOK
  <2>3. \A i \in 1..n, d \in CPU : q[i] # cpuThreads'[d]
    BY <1>3, <1>8 DEF QueueOK
  <2>4. \A x \in nodes' : OnCpu(x) => OnCpu(x)'
    <3>1. \A x \in nodes' : x # cur[c]
      BY <1>3
    <3>2. QED
      BY <1>1, <1>3, <1>4, <3>1 DEF OnCpu
  <2>5. processes' \cap nodes' \subseteq processes \cap nodes
    BY <1>3
  <2>6. QED
    BY <1>3, <1>8, <2>1, <2>2, <2>3, <2>4, <2>5, QueueKept DEF QueueOK
<1>10. QED
  BY <1>6, <1>9 DEF Good
=============================================================================
