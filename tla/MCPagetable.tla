---------------------------- MODULE MCPagetable -----------------------------
(* Pagetable for TLC: tables of sixteen entries.                           *)
EXTENDS Pagetable

\* The kernel, and an area near the end of memory.
KernelAreas == <<<<20, 45>>, <<90, 92>>>>

\* A device far away, one of two pages in two tables, an ACPI table.
Devices == {<<5000, 5001>>, <<271, 273>>, <<90, 91>>}
\* Eight reserved areas, each in a part of the address space of its own.
ScatteredAreas == [k \in 1..8 |-> <<Fan^2 * k + 5, Fan^2 * k + 6>>]
=============================================================================
