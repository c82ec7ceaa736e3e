----------------------------- MODULE Scheduler ------------------------------
(***************************************************************************)
(* The process scheduler of scheduler/scheduler.cpp on its linked list,    *)
(* with the CPUs that enter it: the boot CPU registers processes from the  *)
(* module loader while the others already run them, timers switch, and     *)
(* processes fault or exit.                                                *)
(*                                                                         *)
(* A process has one thread and one QueuedThread, created together by      *)
(* registerProcess() (queueThread() has no caller), so one name stands for *)
(* the three.  Names are never used twice, while the heap may hand out an  *)
(* address again; the properties show where that difference cannot be      *)
(* seen, because no freed node is touched.                                 *)
(***************************************************************************)
EXTENDS Naturals, FiniteSets, FiniteSetsExt, Sequences

CONSTANTS
  CPU,        \* the processors
  BSP,        \* the one that boots the kernel and loads the modules
  Proc,       \* the processes the module loader may register
  Faulty,     \* those whose code may raise a fault
  Exiting,    \* those whose code may call exit
  Garbage,    \* what may be read as the id of a Process already freed
  Null

ASSUME SchedulerAssumption ==
  /\ BSP \in CPU /\ IsFiniteSet(CPU) /\ IsFiniteSet(Proc)
  /\ Faulty \subseteq Proc /\ Exiting \subseteq Proc
  /\ Garbage \subseteq Nat /\ IsFiniteSet(Garbage)
  /\ Null \notin CPU \cup Proc

VARIABLES
  mutex,        \* who holds processSwitchMutex, or Null
  nextThread,   \* the head of the queue
  lastThread,   \* its tail
  next,         \* next[p]: QueuedThread::next of the node of p
  cpuThreads,   \* cpuThreads[c]: the node CPU c runs
  nodes,        \* the QueuedThreads that are allocated
  procs,        \* the Processes that are allocated
  processes,    \* the list of registered processes
  pid,          \* pid[p]: Process::id
  m_pid,        \* the last number tried as a process id
  pc,           \* pc[c]: what CPU c is executing
  ret,          \* ret[c]: what the timer interrupted on CPU c
  ctx,          \* ctx[c]: whose user code CPU c executes or was executing
  cur,          \* cur[c]: the local `thread' of HandleFault and `process' of
                \* exitProcess; the process being registered on the BSP
  wnext, wprev, \* the locals `next' and `prev' of exitProcess
  stray         \* history: has a link been followed that leaves the queue

queueVars == <<nextThread, lastThread, next>>
memVars == <<nodes, procs>>
idVars == <<processes, pid, m_pid>>
walkVars == <<wnext, wprev>>
vars == <<mutex, queueVars, cpuThreads, memVars, idVars, pc, ret, ctx, cur,
          walkVars, stray>>

Kernel == {"setup", "load"}            \* kernel code with interrupts enabled
PC == Kernel \cup {"loop", "user", "reg", "tick", "fault", "free", "faultsw",
        "faultidle", "sysexit", "exit", "walk", "delete", "halted"}

Init ==
  /\ mutex = Null
  /\ nextThread = Null /\ lastThread = Null
  /\ next = [p \in Proc |-> Null]
  /\ cpuThreads = [c \in CPU |-> Null]
  /\ nodes = {} /\ procs = {}
  /\ processes = {} /\ pid = [p \in Proc |-> 0] /\ m_pid = 0
  /\ pc = [c \in CPU |-> IF c = BSP THEN "load" ELSE "setup"]
  /\ ret = [c \in CPU |-> "loop"]
  /\ ctx = [c \in CPU |-> Null]
  /\ cur = [c \in CPU |-> Null]
  /\ wnext = Null /\ wprev = Null
  /\ stray = FALSE

Goto(c, l) == pc' = [pc EXCEPT ![c] = l]

(* Reading the link of n leaves the queue when n is freed memory, or when n *)
(* is the tail and its link was not cleared.                                *)
LeavesQueue(n) == n \notin nodes \/ (n = lastThread /\ next[n] # Null)

-----------------------------------------------------------------------------
(* SMP::setup() on the other CPUs, up to the jump to process_loop().       *)
SetupDone(c) ==
  /\ c # BSP /\ pc[c] = "setup"
  /\ Goto(c, "loop")
  /\ UNCHANGED <<mutex, queueVars, cpuThreads, memVars, idVars, ret, ctx, cur,
                 walkVars, stray>>

(* The module loader has built a process: registerProcess() allocates its  *)
(* thread and its node, link cleared, and disables interrupts.             *)
Load(c, p) ==
  /\ c = BSP /\ pc[c] = "load"
  /\ p \notin procs \cup processes /\ pid[p] = 0
  /\ procs' = procs \cup {p} /\ nodes' = nodes \cup {p}
  /\ next' = [next EXCEPT ![p] = Null]
  /\ cur' = [cur EXCEPT ![c] = p]
  /\ Goto(c, "reg")
  /\ UNCHANGED <<mutex, nextThread, lastThread, cpuThreads, idVars, ret, ctx,
                 walkVars, stray>>

\* A mistake: a collision moves the id onto the other process's id.
FreshIdOffByOne(ids) == Max({m_pid + 1} \cup ids)

(* The id loop: ids are those read from the registered processes.          *)
FreshId(ids) == Max({m_pid + 1} \cup {i + 1 : i \in ids})

(* registerProcess() under processSwitchMutex.  The list may still hold a  *)
(* process that HandleFault freed, whose id reads as anything.             *)
Register(c) ==
  LET p == cur[c] IN
  /\ pc[c] = "reg" /\ mutex = Null
  /\ m_pid' = m_pid + 1
  /\ \E g \in [processes \ procs -> Garbage] :
       pid' = [pid EXCEPT ![p] = FreshId(
                 {pid[q] : q \in processes \cap procs}
                   \cup {g[q] : q \in processes \ procs})]
  /\ processes' = processes \cup {p}
  /\ lastThread' = p
  /\ IF lastThread # Null
       THEN /\ next' = [next EXCEPT ![lastThread] = p]
            /\ UNCHANGED nextThread
            /\ stray' = (stray \/ lastThread \notin nodes)
       ELSE nextThread' = p /\ UNCHANGED <<next, stray>>
  /\ cur' = [cur EXCEPT ![c] = Null]
  /\ Goto(c, "load")
  /\ UNCHANGED <<mutex, cpuThreads, memVars, ret, ctx, walkVars>>

(* All modules are loaded: the boot CPU jumps to process_loop().           *)
LoadDone(c) ==
  /\ c = BSP /\ pc[c] = "load"
  /\ Goto(c, "loop")
  /\ UNCHANGED <<mutex, queueVars, cpuThreads, memVars, idVars, ret, ctx, cur,
                 walkVars, stray>>

-----------------------------------------------------------------------------
(* The timer interrupts code that runs with interrupts enabled.            *)
Timer(c) ==
  /\ pc[c] \in Kernel \cup {"loop", "user"}
  /\ ret' = [ret EXCEPT ![c] = pc[c]]
  /\ Goto(c, "tick")
  /\ UNCHANGED <<mutex, queueVars, cpuThreads, memVars, idVars, ctx, cur,
                 walkVars, stray>>

\* A mistake: the head is taken, the current thread is not put back.
SwitchLosing(c) ==
  LET thread == nextThread
  IN
  /\ nextThread' = next[thread]
  /\ lastThread' = IF thread = lastThread THEN Null ELSE lastThread
  /\ UNCHANGED next
  /\ cpuThreads' = [cpuThreads EXCEPT ![c] = thread]
  /\ ctx' = [ctx EXCEPT ![c] = thread]
  /\ stray' = (stray \/ (thread = lastThread /\ next[thread] # Null))

\* A mistake: taking the only node leaves lastThread behind.
SwitchKeepLast(c) ==
  LET thread == nextThread
      cth == cpuThreads[c]
  IN
  /\ nextThread' = next[thread]
  /\ lastThread' = IF cth # Null THEN cth ELSE lastThread
  /\ next' = IF cth # Null /\ lastThread # Null
             THEN [next EXCEPT ![lastThread] = cth] ELSE next
  /\ cpuThreads' = [cpuThreads EXCEPT ![c] = thread]
  /\ ctx' = [ctx EXCEPT ![c] = thread]
  /\ stray' = (stray \/ thread \notin nodes
                     \/ (thread = lastThread /\ cth = Null /\ next[thread] # Null))

\* A mistake: an idle CPU takes the head and leaves it in the queue.
SwitchKeepHead(c) ==
  LET thread == nextThread
      cth == cpuThreads[c]
  IN
  /\ nextThread' = IF cth # Null THEN next[thread] ELSE thread
  /\ UNCHANGED <<lastThread, next>>
  /\ cpuThreads' = [cpuThreads EXCEPT ![c] = thread]
  /\ ctx' = [ctx EXCEPT ![c] = thread]
  /\ stray' = (stray \/ thread \notin nodes)

\* A mistake: the thread is started and not recorded as the CPU's current one.
SwitchUnrecorded(c) ==
  /\ nextThread' = next[nextThread]
  /\ lastThread' = IF nextThread = lastThread THEN Null ELSE lastThread
  /\ ctx' = [ctx EXCEPT ![c] = nextThread]
  /\ stray' = (stray \/ LeavesQueue(nextThread))
  /\ UNCHANGED <<next, cpuThreads>>

(* SwitchProcess() when there is a thread to switch to: take the head, put *)
(* the current thread at the tail (its link is not cleared), make the head *)
(* the current thread and load its registers.                              *)
Switch(c) ==
  LET thread == nextThread
      cth == cpuThreads[c]
      last == IF thread = lastThread THEN Null ELSE lastThread
  IN
  /\ nextThread' = IF cth # Null /\ last = Null THEN cth ELSE next[thread]
  /\ lastThread' = IF cth # Null THEN cth ELSE last
  /\ next' = IF cth # Null /\ last # Null
             THEN [next EXCEPT ![last] = cth] ELSE next
  /\ cpuThreads' = [cpuThreads EXCEPT ![c] = thread]
  /\ ctx' = [ctx EXCEPT ![c] = thread]
  /\ stray' = (stray \/ thread \notin nodes \/ cth \notin nodes \cup {Null}
                     \/ (cth = Null /\ LeavesQueue(thread)))

\* A mistake: kernel code is switched away like user code.
MaySwitchAny(c) == nextThread # Null

(* SwitchProcess() declines when the timer interrupted kernel code other   *)
(* than process_loop(), and when no thread is waiting.                     *)
MaySwitch(c) == ret[c] \notin Kernel /\ nextThread # Null

TimerHandler(c) ==
  /\ pc[c] = "tick" /\ mutex = Null
  /\ IF MaySwitch(c)
       THEN Switch(c) /\ Goto(c, "user")
       ELSE Goto(c, ret[c]) /\ UNCHANGED <<queueVars, cpuThreads, ctx, stray>>
  /\ UNCHANGED <<mutex, memVars, idVars, ret, cur, walkVars>>

-----------------------------------------------------------------------------
(* A fault in user code.  HandleFault() detaches the thread of the CPU, ... *)
Fault(c) ==
  /\ pc[c] = "user" /\ ctx[c] \in Faulty
  /\ Goto(c, "fault")
  /\ UNCHANGED <<mutex, queueVars, cpuThreads, memVars, idVars, ret, ctx, cur,
                 walkVars, stray>>

\* A mistake: the thread stays current while it is being destroyed.
HandleFaultKeeps(c) ==
  /\ pc[c] = "fault" /\ mutex = Null
  /\ cur' = [cur EXCEPT ![c] = cpuThreads[c]]
  /\ Goto(c, IF cpuThreads[c] = Null THEN "halted" ELSE "free")
  /\ UNCHANGED <<mutex, queueVars, cpuThreads, memVars, idVars, ret, ctx,
                 walkVars, stray>>

(* (without a thread the fault is fatal: Interrupts::handle() halts), ...   *)
HandleFault(c) ==
  /\ pc[c] = "fault" /\ mutex = Null
  /\ cur' = [cur EXCEPT ![c] = cpuThreads[c]]
  /\ cpuThreads' = [cpuThreads EXCEPT ![c] = Null]
  /\ Goto(c, IF cpuThreads[c] = Null THEN "halted" ELSE "free")
  /\ UNCHANGED <<mutex, queueVars, memVars, idVars, ret, ctx, walkVars, stray>>

(* deletes its process and its node without the lock (the process stays in  *)
(* the list), ...                                                           *)
FaultDelete(c) ==
  /\ pc[c] = "free"
  /\ stray' = (stray \/ cur[c] \notin procs \cap nodes)
  /\ procs' = procs \ {cur[c]} /\ nodes' = nodes \ {cur[c]}
  /\ cur' = [cur EXCEPT ![c] = Null]
  /\ ctx' = [ctx EXCEPT ![c] = Null]
  /\ Goto(c, "faultsw")
  /\ UNCHANGED <<mutex, queueVars, cpuThreads, idVars, ret, walkVars>>

(* and switches to another thread, ...                                      *)
FaultSwitch(c) ==
  /\ pc[c] = "faultsw" /\ mutex = Null
  /\ IF nextThread # Null
       THEN Switch(c) /\ Goto(c, "user")
       ELSE Goto(c, "faultidle") /\ UNCHANGED <<queueVars, cpuThreads, ctx, stray>>
  /\ UNCHANGED <<mutex, memVars, idVars, ret, cur, walkVars>>

(* or sends the CPU to process_loop().                                      *)
FaultIdle(c) ==
  /\ pc[c] = "faultidle" /\ mutex = Null
  /\ Goto(c, "loop")
  /\ UNCHANGED <<mutex, queueVars, cpuThreads, memVars, idVars, ret, ctx, cur,
                 walkVars, stray>>

-----------------------------------------------------------------------------
(* The exit system call, which runs with interrupts disabled: the process  *)
(* is the one current on this CPU (currentProcess() takes and drops the    *)
(* lock), ...                                                              *)
Exit(c) ==
  /\ pc[c] = "user" /\ ctx[c] \in Exiting
  /\ Goto(c, "sysexit")
  /\ UNCHANGED <<mutex, queueVars, cpuThreads, memVars, idVars, ret, ctx, cur,
                 walkVars, stray>>

CurrentProcess(c) ==
  /\ pc[c] = "sysexit" /\ mutex = Null
  /\ cur' = [cur EXCEPT ![c] = cpuThreads[c]]
  /\ stray' = (stray \/ cpuThreads[c] \notin nodes \cup {Null})
  /\ Goto(c, "exit")
  /\ UNCHANGED <<mutex, queueVars, cpuThreads, memVars, idVars, ret, ctx,
                 walkVars>>

\* A mistake: the walk starts without the lock.
ExitProcessUnlocked(c) ==
  /\ pc[c] = "exit" /\ mutex = Null
  /\ wnext' = nextThread /\ wprev' = Null
  /\ Goto(c, "walk")
  /\ UNCHANGED <<mutex, queueVars, cpuThreads, memVars, idVars, ret, ctx, cur,
                 stray>>

(* exitProcess() takes the lock ...                                        *)
ExitProcess(c) ==
  /\ pc[c] = "exit" /\ mutex = Null
  /\ mutex' = c
  /\ wnext' = nextThread /\ wprev' = Null
  /\ Goto(c, "walk")
  /\ UNCHANGED <<queueVars, cpuThreads, memVars, idVars, ret, ctx, cur, stray>>

(* and walks the list to its end, deleting the nodes of the process.       *)
ExitSkip(c) ==
  /\ pc[c] = "walk" /\ wnext # Null /\ wnext # cur[c]
  /\ stray' = (stray \/ LeavesQueue(wnext))
  /\ wprev' = wnext /\ wnext' = next[wnext]
  /\ UNCHANGED <<mutex, queueVars, cpuThreads, memVars, idVars, pc, ret, ctx,
                 cur>>

ExitUnlink(c) ==
  LET after == next[wnext] IN
  /\ pc[c] = "walk" /\ wnext # Null /\ wnext = cur[c]
  /\ stray' = (stray \/ LeavesQueue(wnext))
  /\ nextThread' = IF wprev = Null THEN after ELSE nextThread
  /\ next' = IF wprev = Null THEN next ELSE [next EXCEPT ![wprev] = after]
  /\ lastThread' = IF lastThread = wnext THEN wprev ELSE lastThread
  /\ nodes' = nodes \ {wnext}
  /\ wnext' = after
  /\ UNCHANGED <<mutex, cpuThreads, procs, idVars, pc, ret, ctx, cur, wprev>>

\* A mistake: only the CPU that exits is looked at, and left as it is.
ExitCpusKeeps(c) ==
  /\ pc[c] = "walk" /\ wnext = Null
  /\ nodes' = nodes \ {cur[c]}
  /\ processes' = processes \ {cur[c]}
  /\ mutex' = Null /\ wprev' = Null
  /\ Goto(c, "delete")
  /\ UNCHANGED <<queueVars, cpuThreads, procs, pid, m_pid, ret, ctx, cur, wnext,
                 stray>>

(* Then it deletes the nodes of the process that are current on a CPU,     *)
(* removes the process from the list and drops the lock, ...               *)
ExitCpus(c) ==
  LET running == {d \in CPU : cpuThreads[d] # Null /\ cpuThreads[d] = cur[c]}
  IN
  /\ pc[c] = "walk" /\ wnext = Null
  /\ cpuThreads' = [d \in CPU |-> IF d \in running THEN Null ELSE cpuThreads[d]]
  /\ nodes' = IF running = {} THEN nodes ELSE nodes \ {cur[c]}
  /\ stray' = (stray \/ \E d \in CPU : cpuThreads[d] \notin nodes \cup {Null})
  /\ processes' = processes \ {cur[c]}
  /\ mutex' = Null /\ wprev' = Null
  /\ Goto(c, "delete")
  /\ UNCHANGED <<queueVars, procs, pid, m_pid, ret, ctx, cur, wnext>>

(* and deletes the process and idles.                                      *)
ExitDelete(c) ==
  /\ pc[c] = "delete"
  /\ stray' = (stray \/ cur[c] \notin procs \cup {Null})
  /\ procs' = procs \ {cur[c]}
  /\ cur' = [cur EXCEPT ![c] = Null]
  /\ ctx' = [ctx EXCEPT ![c] = Null]
  /\ Goto(c, "loop")
  /\ UNCHANGED <<mutex, queueVars, cpuThreads, nodes, idVars, ret, walkVars>>

-----------------------------------------------------------------------------
Loader(c) == SetupDone(c) \/ (\E p \in Proc : Load(c, p)) \/ LoadDone(c)

Handler(c) ==
  \/ Register(c) \/ TimerHandler(c)
  \/ HandleFault(c) \/ FaultDelete(c) \/ FaultSwitch(c) \/ FaultIdle(c)
  \/ CurrentProcess(c) \/ ExitProcess(c) \/ ExitSkip(c) \/ ExitUnlink(c)
  \/ ExitCpus(c) \/ ExitDelete(c)

User(c) == Fault(c) \/ Exit(c)

Step(c) == Loader(c) \/ Handler(c) \/ Timer(c) \/ User(c)

Next == \E c \in CPU : Step(c)

Spec == Init /\ [][Next]_vars

(* The timer of every CPU keeps firing, but leaves the interrupted kernel  *)
(* code time to advance; handlers run on, and a CPU that finds the mutex   *)
(* free again and again gets it.  Nothing is asked of user code.           *)
FairSpec ==
  /\ Spec
  /\ \A c \in CPU : WF_vars(Timer(c)) /\ SF_vars(Loader(c)) /\ SF_vars(Handler(c))

-----------------------------------------------------------------------------
(* The list from nextThread to lastThread is q: nothing in it twice, every *)
(* link but the last one leads to the following node.                      *)
IsQueue(q) ==
  /\ nextThread = (IF q = <<>> THEN Null ELSE q[1])
  /\ lastThread = (IF q = <<>> THEN Null ELSE q[Len(q)])
  /\ \A i \in 1..Len(q) : i < Len(q) => next[q[i]] = q[i + 1]
  /\ \A i, j \in 1..Len(q) : q[i] = q[j] => i = j

Queues == UNION {[1..n -> Proc] : n \in 0..Cardinality(Proc)}
TheQueue == CHOOSE q \in Queues : IsQueue(q)

(* Types; the mutex is held exactly by the CPU that walks the list, and a  *)
(* registration has a process.                                             *)
TypeOK ==
  /\ mutex \in CPU \cup {Null}
  /\ nextThread \in Proc \cup {Null} /\ lastThread \in Proc \cup {Null}
  /\ next \in [Proc -> Proc \cup {Null}]
  /\ cpuThreads \in [CPU -> Proc \cup {Null}]
  /\ nodes \subseteq Proc /\ procs \subseteq Proc /\ processes \subseteq Proc
  /\ DOMAIN pid = Proc /\ m_pid \in Nat
  /\ pc \in [CPU -> PC] /\ ret \in [CPU -> Kernel \cup {"loop", "user"}]
  /\ ctx \in [CPU -> Proc \cup {Null}] /\ cur \in [CPU -> Proc \cup {Null}]
  /\ wnext \in Proc \cup {Null} /\ wprev \in Proc \cup {Null}
  /\ stray \in BOOLEAN
  /\ \A c \in CPU : mutex = c <=> pc[c] = "walk"
  /\ \A c \in CPU : pc[c] = "reg" => cur[c] # Null

(* No thread runs on two CPUs, and user code runs only for a process that  *)
(* is allocated and is the current one of its CPU, as long as no link out  *)
(* of the queue was followed.                                              *)
RunsAlone ==
  ~stray =>
    /\ \A c, d \in CPU : cpuThreads[c] = cpuThreads[d] /\ c # d => cpuThreads[c] = Null
    /\ \A c \in CPU : pc[c] = "user" =>
         ctx[c] = cpuThreads[c] /\ ctx[c] \in procs \cap nodes

(* The pointers of the scheduler lead to allocated nodes, as long as no     *)
(* link out of the queue was followed.                                      *)
NoDangling ==
  ~stray => /\ {nextThread, lastThread} \subseteq nodes \cup {Null}
            /\ \A c \in CPU : cpuThreads[c] \in nodes \cup {Null}

(* No runnable thread is lost or queued twice: every registered process is  *)
(* in the queue, or current on a CPU, or being destroyed, as long as no     *)
(* link out of the queue was followed.                                      *)
NoneLost ==
  ~stray => \E q \in Queues :
     /\ IsQueue(q)
     /\ \A p \in processes \cap nodes :
          \/ \E i \in 1..Len(q) : q[i] = p
          \/ \E c \in CPU : cpuThreads[c] = p
          \/ \E c \in CPU : pc[c] = "free" /\ cur[c] = p
     /\ \A i \in 1..Len(q), c \in CPU : q[i] # cpuThreads[c]

(* Process ids stay unique among the live processes although the id loop   *)
(* also reads the ids of processes that HandleFault() freed.               *)
PidsUnique ==
  \A p, q \in processes \cap procs : pid[p] = pid[q] => p = q

(* A fault in user code never halts the machine, as long as no link out of  *)
(* the queue was followed.                                                  *)
UserFaultsContained == ~stray => \A c \in CPU : pc[c] # "halted"

(* The list is a FIFO run queue until a link out of the queue is followed.  *)
RQ == INSTANCE RunQueue WITH Thread <- Proc, queue <- TheQueue,
                             current <- cpuThreads
FifoUntilStray ==
  RQ!Init /\ [][stray' \/ RQ!Next \/ UNCHANGED RQ!vars]_vars

(* ... which on one CPU, with processes that run forever, is never: there   *)
(* SwitchProcess() and registerProcess() implement the run queue.           *)
ImplementsRunQueue == RQ!Spec

(* Every registered process runs again and again.                          *)
EveryoneRuns ==
  \A p \in Proc : [](p \in processes =>
                       <>(\E c \in CPU : pc[c] = "user" /\ ctx[c] = p))

(* The boot CPU gets through the module loader and joins the scheduler: the *)
(* last step of the boot process, "Start [process manager]".                *)
BootCompletes == <>(pc[BSP] = "loop")
=============================================================================
