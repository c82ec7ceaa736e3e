------------------------------- MODULE MCBoot -------------------------------
(* Machines for Boot.  The MADT names the boot CPU twice, which the code     *)
(* allows for.                                                               *)
EXTENDS Boot

Madt == <<"apic", <<2, 0, 3, 0>>>>
Other == <<"other">>

Root(sum, rev, rsdt, xsdt) == [sum |-> sum, rev |-> rev, rsdt |-> rsdt, xsdt |-> xsdt]

\* The tables are found behind a wrong checksum, by revision 0 or by revision 2
\* without an XSDT; or there are none, or none of a revision that is known.
OldMachines ==
  {[apic |-> 1, roots |-> <<Root(7, 2, <<>>, <<Other>>), Root(0, 0, <<Other, Madt>>, <<>>)>>],
   [apic |-> 1, roots |-> <<Root(0, 2, <<Madt, Other>>, <<>>)>>],
   [apic |-> 1, roots |-> <<Root(0, 3, <<Madt>>, <<Madt>>)>>],
   [apic |-> 0, roots |-> <<>>]}

\* The tables are listed in an XSDT.
NewMachines == {[apic |-> 1, roots |-> <<Root(0, 2, <<Madt>>, <<Madt, Other>>)>>]}
=============================================================================
