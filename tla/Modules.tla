------------------------------ MODULE Modules -------------------------------
(***************************************************************************)
(* The module loader on the boot CPU and the modules it has started on the *)
(* others: the PCI driver, which scans its buses with the ports it asked   *)
(* for and then exits, and modules that exit or fault at any time.         *)
(***************************************************************************)
EXTENDS Loader, PciScan

CONSTANTS
  PciFile,      \* the name of the PCI driver's file
  ConfigPorts,  \* the ports it reads the configuration space with
  Others,       \* the CPUs other than the boot CPU: as many destroy processes at once
  Turns         \* a bound on the interleavings, for each boot: where the loader is when
                \* the other CPUs go on

vars == <<loaderVars, pciVars>>

\* Without the driver it does not matter what is on the buses.
Init ==
  /\ LoaderInit /\ PciInit
  /\ (\A b \in DOMAIN boot : PciFile \notin Range(boot[b])) => machine = CHOOSE m \in Machines : TRUE

Load == LoaderStep /\ UNCHANGED pciVars

Turn == pc \in Turns[boot]
IsPci(q) == obj[q].file = PciFile

(* The driver goes on if the bitmap lets it, ...                           *)
Scan(q) ==
  /\ Turn /\ Live(q) /\ IsPci(q) /\ ConfigPorts \subseteq Permitted(q)
  /\ PciNext
  /\ UNCHANGED loaderVars

\* A CPU is there to destroy a process.
Idle == Cardinality({q \in Procs : Dying(q)}) < Others

(* and calls exit() at the end, as others may at any time.                 *)
Exit(q) ==
  /\ Turn /\ Idle /\ (IsPci(q) => ScanDone)
  /\ ExitProcess(q) /\ UNCHANGED pciVars

(* A fault in a module; the driver faults if a port is denied.             *)
Fault(q) ==
  /\ Turn /\ Idle /\ (IsPci(q) => ~(ConfigPorts \subseteq Permitted(q)))
  /\ HandleFault(q) /\ UNCHANGED pciVars

Free(q) == Turn /\ FreeNext(q) /\ UNCHANGED pciVars

Next == Load \/ \E q \in Procs : Scan(q) \/ Exit(q) \/ Fault(q) \/ Free(q)

Spec == Init /\ [][Next]_vars

(* The boot CPU keeps executing the loader; modules owe nothing.  This is   *)
(* the weak fairness of Load: until it is done the loader can always take a *)
(* step, and every step of it changes one of its own variables.             *)
LoaderRuns == []<>(pc = "done") \/ []<><<TRUE>>_<<pc, at, job>>

FairSpec == Spec /\ LoaderRuns
=============================================================================
