------------------------------ MODULE PciScan -------------------------------
(***************************************************************************)
(* The PCI driver (modules/driver.pci/main.cpp): it goes through the       *)
(* functions of a bus, follows bridges to the buses behind them, and       *)
(* announces every other function to the kernel.  A bus that was begun is  *)
(* marked in a word of 64 bits and not begun again.  The recursion         *)
(* scanBus() - scanDevice() - scanFunction() is a stack of positions.      *)
(***************************************************************************)
EXTENDS Naturals, Sequences

CONSTANTS
  Buses,      \* numbers of buses (256)
  Devices,    \* devices of a bus (32)
  Functions,  \* functions of a device (8)
  Bits,       \* bits of `checked' (64)
  Machines    \* what the machine may have: functions from <<bus, device, function>>
              \* to [multi: bit 7 of the header type, bridge: 1 or 0, bus: the secondary bus]

Bus == 0..(Buses - 1)
Place == Bus \X (0..(Devices - 1)) \X (0..(Functions - 1))

ASSUME PciScanAssumption ==
  /\ Buses \in Nat \ {0} /\ Devices \in Nat \ {0} /\ Functions \in Nat \ {0, 1}
  /\ Bits \in Nat \ {0} /\ Functions <= Buses
  /\ \A m \in Machines : \A x \in DOMAIN m :
       x \in Place /\ m[x] \in [multi : 0..1, bridge : 0..1, bus : Bus]

VARIABLES
  machine,   \* the functions that are there
  root,      \* where scanAllBuses() is: "start", "loop" or "end"
  host,      \* its loop variable, a function of the host controller
  calls,     \* the calls of scanBus() under way, innermost first, each with
             \* the bus, and the device and function that are next
  checked,   \* the bits of the buses that were begun
  provided   \* the functions announced, in order

pciVars == <<machine, root, host, calls, checked, provided>>

PciInit ==
  /\ machine \in Machines
  /\ root = "start" /\ host = 0 /\ calls = <<>> /\ checked = {} /\ provided = <<>>

Present(x) == x \in DOMAIN machine

-----------------------------------------------------------------------------
\* The bit of a bus.
BitOf(bus) == bus % Bits

\* A mistake: the mark is not looked at.
ScanBusAgain(bus, rest) ==
  /\ checked' = checked \cup {BitOf(bus)}
  /\ calls' = <<[bus |-> bus, dev |-> 0, fn |-> 0]>> \o rest

(* scanBus() is called, on top of the calls in rest: it returns at once if  *)
(* the bit of the bus is set.                                               *)
ScanBus(bus, rest) ==
  IF BitOf(bus) \in checked
    THEN calls' = rest /\ UNCHANGED checked
    ELSE /\ checked' = checked \cup {BitOf(bus)}
         /\ calls' = <<[bus |-> bus, dev |-> 0, fn |-> 0]>> \o rest

(* scanAllBuses() with a host controller of one function.  A function that  *)
(* is not there reads as one with all bits set.                             *)
ScanRoot ==
  /\ root = "start" /\ Present(<<0, 0, 0>>) /\ machine[<<0, 0, 0>>].multi = 0
  /\ ScanBus(0, <<>>)
  /\ root' = "end"
  /\ UNCHANGED <<machine, host, provided>>

(* With several functions it takes their numbers for those of buses, ...    *)
ScanHosts ==
  /\ root = "start" /\ (Present(<<0, 0, 0>>) => machine[<<0, 0, 0>>].multi = 1)
  /\ root' = "loop"
  /\ UNCHANGED <<machine, host, calls, checked, provided>>

ScanHost ==
  /\ root = "loop" /\ calls = <<>> /\ host < Functions /\ ~Present(<<0, 0, host>>)
  /\ ScanBus(host, <<>>)
  /\ host' = host + 1
  /\ UNCHANGED <<machine, root, provided>>

(* and stops at the first function that is there.                           *)
HostsDone ==
  /\ root = "loop" /\ calls = <<>> /\ (host < Functions => Present(<<0, 0, host>>))
  /\ root' = "end"
  /\ UNCHANGED <<machine, host, calls, checked, provided>>

Top == Head(calls)
Here == <<Top.bus, Top.dev, Top.fn>>
Scanning == calls # <<>> /\ Top.dev < Devices

NextDevice == [Top EXCEPT !.dev = @ + 1, !.fn = 0]

(* scanDevice() after a function: only a device that says so has others.    *)
NextPlace ==
  IF (Top.fn = 0 /\ Present(Here) /\ machine[Here].multi = 0) \/ Top.fn + 1 = Functions
    THEN NextDevice
    ELSE [Top EXCEPT !.fn = @ + 1]

(* There is no device, or no such function of it.                           *)
SkipPlace ==
  /\ Scanning /\ ~Present(Here)
  /\ calls' = <<IF Top.fn = 0 THEN NextDevice ELSE NextPlace>> \o Tail(calls)
  /\ UNCHANGED <<machine, root, host, checked, provided>>

(* scanFunction() of a bridge scans the bus behind it first.                *)
ScanBridge ==
  /\ Scanning /\ Present(Here) /\ machine[Here].bridge = 1
  /\ ScanBus(machine[Here].bus, <<NextPlace>> \o Tail(calls))
  /\ UNCHANGED <<machine, root, host, provided>>

(* scanFunction() of anything else: provideDevice().                        *)
ProvideDevice ==
  /\ Scanning /\ Present(Here) /\ machine[Here].bridge = 0
  /\ provided' = Append(provided, Here)
  /\ calls' = <<NextPlace>> \o Tail(calls)
  /\ UNCHANGED <<machine, root, host, checked>>

(* scanBus() returns.                                                       *)
ReturnBus ==
  /\ calls # <<>> /\ Top.dev = Devices
  /\ calls' = Tail(calls)
  /\ UNCHANGED <<machine, root, host, checked, provided>>

PciNext ==
  \/ ScanRoot \/ ScanHosts \/ ScanHost \/ HostsDone
  \/ SkipPlace \/ ScanBridge \/ ProvideDevice \/ ReturnBus

PciSpec == PciInit /\ [][PciNext]_pciVars

-----------------------------------------------------------------------------
ScanDone == root = "end" /\ calls = <<>>

\* A function that the configuration space shows: function 0, or another one
\* of a device that says it has several.
Visible(x) ==
  /\ Present(x)
  /\ x[3] # 0 => Present(<<x[1], x[2], 0>>) /\ machine[<<x[1], x[2], 0>>].multi = 1

\* The buses that can be reached from bus 0 over bridges.
Closed(S) ==
  0 \in S /\ \A x \in Place : Visible(x) /\ machine[x].bridge = 1 /\ x[1] \in S => machine[x].bus \in S
Reachable == {b \in Bus : \A S \in SUBSET Bus : Closed(S) => b \in S}

\* The host controller has one function, and a bit of `checked' stands for one bus.
PlainMachine ==
  /\ Present(<<0, 0, 0>>) /\ machine[<<0, 0, 0>>].multi = 0
  /\ \A x \in DOMAIN machine : machine[x].bridge = 1 => machine[x].bus < Bits

(* The driver announces no function twice, whatever the bridges say, and    *)
(* when scanAllBuses() returns it has announced every function on a bus     *)
(* that bridges lead to, and nothing else.                                  *)
AllProvided ==
  /\ \A i, j \in DOMAIN provided : provided[i] = provided[j] => i = j
  /\ PlainMachine /\ ScanDone =>
       {provided[i] : i \in DOMAIN provided}
         = {x \in Place : Visible(x) /\ machine[x].bridge = 0 /\ x[1] \in Reachable}
=============================================================================
