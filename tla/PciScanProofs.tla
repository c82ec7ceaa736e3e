--------------------------- MODULE PciScanProofs ----------------------------
(***************************************************************************)
(* The PCI driver announces what it should, for every number of buses,     *)
(* devices, functions and mark bits and every tree, or loop, of bridges.   *)
(***************************************************************************)
EXTENDS PciScan, TLAPS

Frame == [bus : Bus, dev : 0..Devices, fn : 0..(Functions - 1)]

\* A call of scanBus() is past place x of its bus.
Before(x, f) == x[2] < f.dev \/ (x[2] = f.dev /\ x[3] < f.fn)

TypeInv ==
  /\ machine \in Machines
  /\ root \in {"start", "loop", "end"} /\ host \in 0..Functions
  /\ calls \in Seq(Frame)
  /\ checked \subseteq 0..(Bits - 1)
  /\ provided \in Seq(Place)

\* A call that looks at a function other than 0 has seen function 0 ask for it.
Asked(f) ==
  f.fn # 0 => Present(<<f.bus, f.dev, 0>>) /\ machine[<<f.bus, f.dev, 0>>].multi = 1

\* Of calls c, announced functions p and marks m: buses with a call under way or
\* with announced functions are marked, no bus has two calls, what was announced
\* of a bus lies before its call, and nothing was announced twice.
Once(c, p, m) ==
  /\ \A i \in DOMAIN p : BitOf(p[i][1]) \in m
  /\ \A k \in DOMAIN c : BitOf(c[k].bus) \in m /\ Asked(c[k])
  /\ \A k, l \in DOMAIN c : c[k].bus = c[l].bus => k = l
  /\ \A i \in DOMAIN p, k \in DOMAIN c : p[i][1] = c[k].bus => Before(p[i], c[k])
  /\ \A i, j \in DOMAIN p : p[i] = p[j] => i = j

(* The invariant that gives the first half of AllProvided, for any machine. *)
OnceInv == TypeInv /\ Once(calls, provided, checked)

\* The innermost call may go on at n: it passes Here and no other visible place.
Moves(n) ==
  /\ n \in Frame /\ n.bus = Top.bus /\ Asked(n) /\ Before(Here, n)
  /\ \A x \in Place : Before(x, Top) => Before(x, n)
  /\ \A x \in Place :
       x[1] = Top.bus /\ Visible(x) /\ Before(x, n) => Before(x, Top) \/ x = Here

-----------------------------------------------------------------------------
(* The stack of calls with a call put on top ...                            *)
LEMMA Pushed ==
  ASSUME NEW S, NEW s \in Seq(S), NEW e \in S
  PROVE  /\ <<e>> \o s \in Seq(S) /\ DOMAIN (<<e>> \o s) = 1..(Len(s) + 1)
         /\ (<<e>> \o s)[1] = e
         /\ \A k \in 2..(Len(s) + 1) : (<<e>> \o s)[k] = s[k - 1]
OBVIOUS

(* ... and with the top taken off.                                          *)
LEMMA Popped ==
  ASSUME NEW S, NEW s \in Seq(S), s # <<>>
  PROVE  /\ Tail(s) \in Seq(S) /\ Len(Tail(s)) = Len(s) - 1 /\ Len(s) \in Nat \ {0}
         /\ DOMAIN s = 1..Len(s) /\ Head(s) = s[1] /\ s[1] \in S
         /\ \A k \in 1..(Len(s) - 1) : Tail(s)[k] = s[k + 1]
OBVIOUS

(* The stack when the innermost call moves on.                              *)
LEMMA Moved ==
  ASSUME NEW S, NEW s \in Seq(S), s # <<>>, NEW e \in S
  PROVE  /\ <<e>> \o Tail(s) \in Seq(S) /\ DOMAIN (<<e>> \o Tail(s)) = DOMAIN s
         /\ <<e>> \o Tail(s) # <<>>
         /\ (<<e>> \o Tail(s))[1] = e
         /\ \A k \in DOMAIN s : k # 1 => (<<e>> \o Tail(s))[k] = s[k]
<1>1. /\ Tail(s) \in Seq(S) /\ Len(Tail(s)) = Len(s) - 1 /\ Len(s) \in Nat \ {0}
      /\ DOMAIN s = 1..Len(s) /\ \A k \in 1..(Len(s) - 1) : Tail(s)[k] = s[k + 1]
  BY Popped
<1>2. /\ <<e>> \o Tail(s) \in Seq(S) /\ DOMAIN (<<e>> \o Tail(s)) = 1..Len(s)
      /\ (<<e>> \o Tail(s))[1] = e
      /\ \A k \in 2..Len(s) : (<<e>> \o Tail(s))[k] = Tail(s)[k - 1]
  BY <1>1, Pushed
<1>3. ASSUME NEW k \in DOMAIN s, k # 1 PROVE (<<e>> \o Tail(s))[k] = s[k]
  <2>1. k \in 2..Len(s) /\ k - 1 \in 1..(Len(s) - 1) /\ (k - 1) + 1 = k
    BY <1>1, <1>3
  <2> QED  BY <2>1, <1>1, <1>2
<1>4. <<e>> \o Tail(s) # <<>>
  BY <1>1, <1>2
<1> QED
  BY <1>1, <1>2, <1>3, <1>4

(* Every bus has a bit.                                                     *)
LEMMA BitRange == \A b \in Bus : BitOf(b) \in 0..(Bits - 1)
BY PciScanAssumption, Z3 DEF BitOf, Bus

(* The bits of the first buses are their own.                               *)
LEMMA OwnBit == \A b \in Bus : b < Bits => BitOf(b) = b
BY PciScanAssumption, Z3 DEF BitOf, Bus

-----------------------------------------------------------------------------
(* The innermost call and the place it looks at.                            *)
LEMMA TopPlace ==
  ASSUME TypeInv, Scanning
  PROVE  /\ calls # <<>> /\ 1 \in DOMAIN calls /\ Top = calls[1] /\ Top \in Frame
         /\ Here \in Place /\ Here[1] = Top.bus /\ Here[2] = Top.dev /\ Here[3] = Top.fn
<1>1. calls # <<>> /\ 1 \in DOMAIN calls /\ Top = calls[1] /\ Top \in Frame
  BY Popped DEF TypeInv, Scanning, Top
<1>2. Top.bus \in Bus /\ Top.dev \in 0..(Devices - 1) /\ Top.fn \in 0..(Functions - 1)
  BY <1>1, PciScanAssumption DEF Frame, Scanning
<1> QED
  BY <1>1, <1>2 DEF Here, Place

(* scanDevice() after a function that is there.                             *)
LEMMA MovesNext ==
  ASSUME OnceInv, Scanning, Present(Here)
  PROVE  Moves(NextPlace)
<1>1. /\ Top = calls[1] /\ Top \in Frame /\ Asked(Top) /\ Here \in Place
      /\ Here = <<Top.bus, Top.dev, Top.fn>> /\ Top.dev < Devices
  BY TopPlace DEF OnceInv, Once, Here, Scanning
<1>2. machine[Here].multi \in {0, 1}
  BY PciScanAssumption DEF OnceInv, TypeInv, Present
<1> DEFINE last == (Top.fn = 0 /\ machine[Here].multi = 0) \/ Top.fn + 1 = Functions
<1>3. CASE last
  <2>1. NextPlace = [bus |-> Top.bus, dev |-> Top.dev + 1, fn |-> 0]
    BY <1>1, <1>3 DEF NextPlace, NextDevice, Frame
  <2>2. NextPlace \in Frame /\ NextPlace.bus = Top.bus /\ Asked(NextPlace)
    BY <2>1, <1>1, PciScanAssumption DEF Frame, Asked
  <2>3. Before(Here, NextPlace) /\ \A x \in Place : Before(x, Top) => Before(x, NextPlace)
    BY <2>1, <1>1, PciScanAssumption DEF Frame, Before, Place, Bus
  <2>4. ASSUME NEW x \in Place, x[1] = Top.bus, Visible(x), Before(x, NextPlace), ~Before(x, Top)
        PROVE  x = Here
    <3>1. x = <<x[1], x[2], x[3]>> /\ x[2] \in Nat /\ x[3] \in 0..(Functions - 1)
      BY <2>4 DEF Place
    <3>2. x[2] = Top.dev /\ x[3] >= Top.fn
      BY <2>1, <2>4, <3>1, <1>1, PciScanAssumption DEF Before, Frame
    <3>3. x[3] = Top.fn
      BY <3>1, <3>2, <2>4, <1>1, <1>2, <1>3, PciScanAssumption DEF Visible, Frame
    <3> QED  BY <3>1, <3>2, <3>3, <2>4, <1>1
  <2> QED  BY <2>2, <2>3, <2>4 DEF Moves
<1>4. CASE ~last
  <2>1. NextPlace = [bus |-> Top.bus, dev |-> Top.dev, fn |-> Top.fn + 1]
    BY <1>1, <1>4 DEF NextPlace, Frame
  <2>2. NextPlace \in Frame /\ NextPlace.bus = Top.bus
    BY <2>1, <1>1, <1>4, PciScanAssumption DEF Frame
  <2>3. Asked(NextPlace)
    <3>1. CASE Top.fn = 0
      BY <3>1, <2>1, <1>1, <1>2, <1>4 DEF Asked
    <3>2. CASE Top.fn # 0
      BY <3>2, <2>1, <1>1 DEF Asked
    <3> QED  BY <3>1, <3>2
  <2>4. Before(Here, NextPlace) /\ \A x \in Place : Before(x, Top) => Before(x, NextPlace)
    BY <2>1, <1>1, PciScanAssumption DEF Frame, Before, Place, Bus
  <2>5. ASSUME NEW x \in Place, x[1] = Top.bus, Before(x, NextPlace), ~Before(x, Top)
        PROVE  x = Here
    <3>1. x = <<x[1], x[2], x[3]>> /\ x[2] \in Nat /\ x[3] \in 0..(Functions - 1)
      BY <2>5 DEF Place
    <3>2. x[2] = Top.dev /\ x[3] = Top.fn
      BY <2>1, <2>5, <3>1, <1>1, PciScanAssumption DEF Before, Frame
    <3> QED  BY <3>1, <3>2, <2>5, <1>1
  <2> QED  BY <2>2, <2>3, <2>4, <2>5 DEF Moves
<1> QED
  BY <1>3, <1>4

(* scanDevice() after a function that is not there; without function 0 the  *)
(* device is not there.                                                     *)
LEMMA MovesSkip ==
  ASSUME OnceInv, Scanning, ~Present(Here)
  PROVE  Moves(IF Top.fn = 0 THEN NextDevice ELSE NextPlace)
<1>1. /\ Top = calls[1] /\ Top \in Frame /\ Asked(Top) /\ Here \in Place
      /\ Here = <<Top.bus, Top.dev, Top.fn>> /\ Top.dev < Devices
  BY TopPlace DEF OnceInv, Once, Here, Scanning
<1> DEFINE n == IF Top.fn = 0 THEN NextDevice ELSE NextPlace
           last == Top.fn = 0 \/ Top.fn + 1 = Functions
<1>2. CASE last
  <2>1. n = [bus |-> Top.bus, dev |-> Top.dev + 1, fn |-> 0]
    BY <1>1, <1>2 DEF NextPlace, NextDevice, Frame
  <2>2. n \in Frame /\ n.bus = Top.bus /\ Asked(n)
    BY <2>1, <1>1, PciScanAssumption DEF Frame, Asked
  <2>3. Before(Here, n) /\ \A x \in Place : Before(x, Top) => Before(x, n)
    BY <2>1, <1>1, PciScanAssumption DEF Frame, Before, Place, Bus
  <2>4. ASSUME NEW x \in Place, x[1] = Top.bus, Visible(x), Before(x, n), ~Before(x, Top)
        PROVE  x = Here
    <3>1. x = <<x[1], x[2], x[3]>> /\ x[2] \in Nat /\ x[3] \in 0..(Functions - 1)
      BY <2>4 DEF Place
    <3>2. x[2] = Top.dev /\ x[3] >= Top.fn
      BY <2>1, <2>4, <3>1, <1>1, PciScanAssumption DEF Before, Frame
    <3>3. CASE Top.fn = 0
      <4>1. x[3] # 0
        BY <3>1, <3>2, <3>3, <2>4, <1>1 DEF Visible
      <4> QED  BY <4>1, <3>1, <3>2, <3>3, <2>4, <1>1 DEF Visible
    <3>4. CASE Top.fn + 1 = Functions
      BY <3>1, <3>2, <3>4, <2>4, <1>1, PciScanAssumption DEF Frame
    <3> QED  BY <3>3, <3>4, <1>2
  <2> HIDE DEF n
  <2>5. Moves(n)  BY <2>2, <2>3, <2>4 DEF Moves
  <2> QED  BY <2>5 DEF n
<1>3. CASE ~last
  <2>1. n = [bus |-> Top.bus, dev |-> Top.dev, fn |-> Top.fn + 1]
    BY <1>1, <1>3 DEF NextPlace, Frame
  <2>2. n \in Frame /\ n.bus = Top.bus /\ Asked(n)
    BY <2>1, <1>1, <1>3, PciScanAssumption DEF Frame, Asked
  <2>3. Before(Here, n) /\ \A x \in Place : Before(x, Top) => Before(x, n)
    BY <2>1, <1>1, PciScanAssumption DEF Frame, Before, Place, Bus
  <2>4. ASSUME NEW x \in Place, x[1] = Top.bus, Before(x, n), ~Before(x, Top)
        PROVE  x = Here
    <3>1. x = <<x[1], x[2], x[3]>> /\ x[2] \in Nat /\ x[3] \in 0..(Functions - 1)
      BY <2>4 DEF Place
    <3>2. x[2] = Top.dev /\ x[3] = Top.fn
      BY <2>1, <2>4, <3>1, <1>1, PciScanAssumption DEF Before, Frame
    <3> QED  BY <3>1, <3>2, <2>4, <1>1
  <2> HIDE DEF n
  <2>5. Moves(n)  BY <2>2, <2>3, <2>4 DEF Moves
  <2> QED  BY <2>5 DEF n
<1> QED
  BY <1>2, <1>3

-----------------------------------------------------------------------------
(* Once holds when the innermost call moves on, ...                         *)
LEMMA MoveOnce ==
  ASSUME OnceInv, Scanning, NEW n, Moves(n)
  PROVE  Once(<<n>> \o Tail(calls), provided, checked)
<1> DEFINE c == <<n>> \o Tail(calls)
<1>1. /\ DOMAIN c = DOMAIN calls /\ c[1] = n /\ \A k \in DOMAIN calls : k # 1 => c[k] = calls[k]
      /\ 1 \in DOMAIN calls /\ calls[1] = Top
  BY Moved, TopPlace DEF OnceInv, TypeInv, Moves
<1> HIDE DEF c
<1>2. \A k \in DOMAIN calls : c[k].bus = calls[k].bus /\ Asked(c[k])
  BY <1>1 DEF Moves, OnceInv, Once
<1>3. ASSUME NEW i \in DOMAIN provided, NEW k \in DOMAIN calls, provided[i][1] = c[k].bus
      PROVE  Before(provided[i], c[k])
  <2>1. provided[i] \in Place
    BY DEF OnceInv, TypeInv
  <2>2. Before(provided[i], calls[k])
    BY <1>2, <1>3 DEF OnceInv, Once
  <2> QED  BY <2>1, <2>2, <1>1 DEF Moves
<1>4. Once(c, provided, checked)
  BY <1>1, <1>2, <1>3 DEF OnceInv, Once
<1> QED
  BY <1>4 DEF c

(* when it announces the function it looks at and moves on, ...             *)
LEMMA ProvideOnce ==
  ASSUME OnceInv, Scanning, NEW n, Moves(n)
  PROVE  Once(<<n>> \o Tail(calls), Append(provided, Here), checked)
<1> DEFINE c == <<n>> \o Tail(calls)
           p == Append(provided, Here)
           last == Len(provided) + 1
<1>1. /\ DOMAIN c = DOMAIN calls /\ c[1] = n /\ \A k \in DOMAIN calls : k # 1 => c[k] = calls[k]
      /\ 1 \in DOMAIN calls /\ calls[1] = Top
  BY Moved, TopPlace DEF OnceInv, TypeInv, Moves
<1>2. Once(c, provided, checked)
  BY MoveOnce
<1>3. Here \in Place /\ Here[1] = Top.bus /\ ~Before(Here, Top)
  BY TopPlace DEF OnceInv, TypeInv, Before, Frame
<1>4. /\ DOMAIN p = DOMAIN provided \cup {last} /\ last \notin DOMAIN provided
      /\ p[last] = Here /\ \A i \in DOMAIN provided : p[i] = provided[i]
  BY <1>3 DEF OnceInv, TypeInv
<1>5. \A i \in DOMAIN provided : provided[i] # Here
  BY <1>1, <1>3 DEF OnceInv, Once
<1> HIDE DEF c, p, last
<1>6. \A k \in DOMAIN c : c[k].bus = Here[1] => Before(Here, c[k])
  <2> SUFFICES ASSUME NEW k \in DOMAIN c, c[k].bus = Here[1] PROVE Before(Here, c[k])
    OBVIOUS
  <2>1. k = 1
    BY <1>1, <1>2, <1>3 DEF Once, Moves
  <2> QED  BY <2>1, <1>1 DEF Moves
<1>7. BitOf(Here[1]) \in checked
  BY <1>1, <1>3 DEF OnceInv, Once
<1>8. Once(c, p, checked)
  BY <1>2, <1>4, <1>5, <1>6, <1>7 DEF Once
<1> QED
  BY <1>8 DEF c, p

(* when scanBus() is called for a bus that has no mark, ...                 *)
LEMMA PushOnce ==
  ASSUME NEW c \in Seq(Frame), NEW p \in Seq(Place), NEW m, NEW b \in Bus,
         Once(c, p, m), BitOf(b) \notin m
  PROVE  Once(<<[bus |-> b, dev |-> 0, fn |-> 0]>> \o c, p, m \cup {BitOf(b)})
<1> DEFINE f == [bus |-> b, dev |-> 0, fn |-> 0]
           d == <<f>> \o c
<1>1. f \in Frame /\ Asked(f) /\ f.bus = b
  BY PciScanAssumption DEF Frame, Asked
<1>2. /\ DOMAIN d = 1..(Len(c) + 1) /\ d[1] = f /\ Len(c) \in Nat /\ DOMAIN c = 1..Len(c)
      /\ \A k \in 2..(Len(c) + 1) : d[k] = c[k - 1]
  BY <1>1, Pushed
<1> HIDE DEF d, f
<1>3. \A k \in DOMAIN d : k # 1 => k - 1 \in DOMAIN c /\ d[k] = c[k - 1]
  BY <1>2
<1>4. \A k \in DOMAIN d : k # 1 => BitOf(d[k].bus) \in m /\ d[k].bus # b /\ Asked(d[k])
  BY <1>3 DEF Once
<1>5. \A k \in DOMAIN d : BitOf(d[k].bus) \in m \cup {BitOf(b)} /\ Asked(d[k])
  BY <1>1, <1>2, <1>4
<1>6. ASSUME NEW k \in DOMAIN d, NEW l \in DOMAIN d, d[k].bus = d[l].bus PROVE k = l
  <2>1. CASE k = 1 \/ l = 1
    BY <2>1, <1>6, <1>4, <1>1, <1>2
  <2>2. CASE k # 1 /\ l # 1
    <3>1. k - 1 = l - 1
      BY <2>2, <1>3, <1>6 DEF Once
    <3> QED  BY <3>1, <1>2
  <2> QED  BY <2>1, <2>2
<1>7. ASSUME NEW i \in DOMAIN p, NEW k \in DOMAIN d, p[i][1] = d[k].bus PROVE Before(p[i], d[k])
  <2>1. k # 1
    BY <1>1, <1>2, <1>7 DEF Once
  <2> QED  BY <2>1, <1>3, <1>7 DEF Once
<1>8. Once(d, p, m \cup {BitOf(b)})
  BY <1>5, <1>6, <1>7 DEF Once
<1> QED
  BY <1>8 DEF d, f

(* and when it returns.                                                     *)
LEMMA PopOnce ==
  ASSUME OnceInv, calls # <<>>
  PROVE  Once(Tail(calls), provided, checked)
<1>1. \A k \in DOMAIN Tail(calls) : k + 1 \in DOMAIN calls /\ Tail(calls)[k] = calls[k + 1] /\ k \in Nat
  BY Popped DEF OnceInv, TypeInv
<1>2. \A k, l \in DOMAIN Tail(calls) : Tail(calls)[k].bus = Tail(calls)[l].bus => k = l
  BY <1>1 DEF OnceInv, Once
<1> QED
  BY <1>1, <1>2 DEF OnceInv, Once

-----------------------------------------------------------------------------
\* A visible place is dealt with, or a call will come to it.
Settled(x, c, p, m) ==
  \/ \E k \in DOMAIN c : c[k].bus = x[1] /\ ~Before(x, c[k])
  \/ machine[x].bridge = 1 /\ machine[x].bus \in m
  \/ machine[x].bridge = 0 /\ \E i \in DOMAIN p : p[i] = x

\* Only what bridges lead to is scanned, and of the buses begun every visible
\* place is settled.
Reached(c, p, m) ==
  /\ m \subseteq Reachable
  /\ \A k \in DOMAIN c : c[k].bus < Bits
  /\ \A i \in DOMAIN p : Visible(p[i]) /\ machine[p[i]].bridge = 0 /\ p[i][1] \in Reachable
  /\ \A x \in Place : Visible(x) /\ x[1] \in m => Settled(x, c, p, m)

(* The inductive invariant of AllProvided.                                  *)
AllInv ==
  /\ OnceInv
  /\ root = "start" => calls = <<>> /\ checked = {} /\ provided = <<>>
  /\ PlainMachine => /\ root \in {"start", "end"} /\ (root = "end" => 0 \in checked)
                     /\ Reached(calls, provided, checked)

(* Reachable is closed under bridges, and the least such set.               *)
LEMMA ReachableLeast ==
  ASSUME TypeInv
  PROVE  /\ Closed(Reachable)
         /\ \A S \in SUBSET Bus : Closed(S) => Reachable \subseteq S
<1>1. 0 \in Reachable
  BY PciScanAssumption DEF Reachable, Closed, Bus
<1>2. ASSUME NEW x \in Place, Visible(x), machine[x].bridge = 1, x[1] \in Reachable
      PROVE  machine[x].bus \in Reachable
  <2>1. machine[x].bus \in Bus
    BY <1>2, PciScanAssumption DEF TypeInv, Visible, Present
  <2>2. ASSUME NEW S \in SUBSET Bus, Closed(S) PROVE machine[x].bus \in S
    BY <2>2, <1>2 DEF Closed, Reachable
  <2> QED  BY <2>1, <2>2 DEF Reachable
<1> QED
  BY <1>1, <1>2 DEF Closed, Reachable

(* The place the innermost call looks at is visible and on a reachable bus. *)
LEMMA HereReached ==
  ASSUME AllInv, PlainMachine, Scanning, Present(Here)
  PROVE  Visible(Here) /\ Top.bus \in checked /\ Here[1] \in Reachable
<1>1. /\ 1 \in DOMAIN calls /\ Top = calls[1] /\ Top \in Frame /\ Here \in Place
      /\ Here = <<Top.bus, Top.dev, Top.fn>> /\ Asked(Top) /\ BitOf(Top.bus) \in checked
      /\ Top.bus < Bits /\ checked \subseteq Reachable
  BY TopPlace DEF AllInv, OnceInv, Once, Reached, Here
<1>2. Visible(Here)
  BY <1>1 DEF Visible, Asked
<1> QED
  BY <1>1, <1>2, OwnBit DEF Frame

(* When the innermost call moves on, every other place stays settled.       *)
LEMMA MoveSettled ==
  ASSUME OnceInv, Scanning, NEW n, Moves(n), NEW x \in Place, Visible(x), x # Here,
         Settled(x, calls, provided, checked)
  PROVE  Settled(x, <<n>> \o Tail(calls), provided, checked)
<1> DEFINE c == <<n>> \o Tail(calls)
<1>1. /\ DOMAIN c = DOMAIN calls /\ c[1] = n /\ \A k \in DOMAIN calls : k # 1 => c[k] = calls[k]
      /\ 1 \in DOMAIN calls /\ calls[1] = Top
  BY Moved, TopPlace DEF OnceInv, TypeInv, Moves
<1> HIDE DEF c
<1>2. ASSUME NEW k \in DOMAIN calls, calls[k].bus = x[1], ~Before(x, calls[k])
      PROVE  c[k].bus = x[1] /\ ~Before(x, c[k])
  BY <1>1, <1>2 DEF Moves
<1>3. Settled(x, c, provided, checked)
  BY <1>1, <1>2 DEF Settled
<1> QED
  BY <1>3 DEF c

(* A call for a bus without a mark settles the places of that bus, and the  *)
(* bridge to it.                                                            *)
LEMMA PushReached ==
  ASSUME TypeInv, NEW c \in Seq(Frame), NEW p \in Seq(Place), NEW m \in SUBSET (0..(Bits - 1)),
         NEW b \in Bus, b < Bits, b \in Reachable, m \subseteq Reachable,
         \A k \in DOMAIN c : c[k].bus < Bits,
         \A i \in DOMAIN p : Visible(p[i]) /\ machine[p[i]].bridge = 0 /\ p[i][1] \in Reachable,
         \A x \in Place : Visible(x) /\ x[1] \in m => Settled(x, c, p, m \cup {b})
  PROVE  Reached(<<[bus |-> b, dev |-> 0, fn |-> 0]>> \o c, p, m \cup {b})
<1> DEFINE f == [bus |-> b, dev |-> 0, fn |-> 0]
           d == <<f>> \o c
<1>1. f \in Frame /\ f.bus = b /\ f.dev = 0 /\ f.fn = 0
  BY PciScanAssumption DEF Frame
<1>2. /\ DOMAIN d = 1..(Len(c) + 1) /\ d[1] = f /\ Len(c) \in Nat /\ DOMAIN c = 1..Len(c)
      /\ \A k \in 2..(Len(c) + 1) : d[k] = c[k - 1]
  BY <1>1, Pushed
<1> HIDE DEF d, f
<1>3. \A k \in DOMAIN d : k # 1 => k - 1 \in DOMAIN c /\ d[k] = c[k - 1]
  BY <1>2
<1>4. \A k \in DOMAIN c : k + 1 \in DOMAIN d /\ d[k + 1] = c[k]
  BY <1>2
<1>5. \A k \in DOMAIN d : d[k].bus < Bits
  BY <1>1, <1>2, <1>3
<1>6. ASSUME NEW x \in Place, Visible(x), x[1] \in m \cup {b}
      PROVE  Settled(x, d, p, m \cup {b})
  <2>1. CASE x[1] = b
    <3>1. ~Before(x, f)
      BY <1>1 DEF Before, Place
    <3> QED  BY <3>1, <2>1, <1>1, <1>2 DEF Settled
  <2>2. CASE x[1] \in m
    <3>1. Settled(x, c, p, m \cup {b})
      BY <2>2, <1>6
    <3> QED  BY <3>1, <1>4 DEF Settled
  <2> QED  BY <2>1, <2>2, <1>6
<1>7. Reached(d, p, m \cup {b})
  BY <1>5, <1>6 DEF Reached
<1> QED
  BY <1>7 DEF d, f

(* A call that returns has passed every place of its bus.                   *)
LEMMA PopReached ==
  ASSUME OnceInv, Reached(calls, provided, checked), calls # <<>>, Top.dev = Devices
  PROVE  Reached(Tail(calls), provided, checked)
<1>1. /\ \A k \in DOMAIN Tail(calls) : k + 1 \in DOMAIN calls /\ Tail(calls)[k] = calls[k + 1]
      /\ \A k \in DOMAIN calls : k # 1 => k - 1 \in DOMAIN Tail(calls) /\ Tail(calls)[k - 1] = calls[k]
      /\ calls[1] = Top
  BY Popped DEF OnceInv, TypeInv, Top
<1>2. \A x \in Place : Before(x, Top)
  BY PciScanAssumption DEF Before, Place
<1>3. \A x \in Place : Settled(x, calls, provided, checked) => Settled(x, Tail(calls), provided, checked)
  BY <1>1, <1>2 DEF Settled
<1> QED
  BY <1>1, <1>3 DEF Reached

-----------------------------------------------------------------------------
(* The machine does not change, and with it what Once and Reached say of it. *)
LEMMA SameMachine ==
  ASSUME machine' = machine
  PROVE  /\ Once(calls', provided', checked') => Once(calls, provided, checked)'
         /\ Reached(calls', provided', checked') => Reached(calls, provided, checked)'
         /\ PlainMachine' => PlainMachine
BY DEF Once, Asked, Present, Reached, Settled, Visible, Reachable, Closed, PlainMachine

(* The call of scanBus() in place of the calls in rest.                     *)
LEMMA ScanBusOnce ==
  ASSUME TypeInv, NEW bus \in Bus, NEW rest \in Seq(Frame), ScanBus(bus, rest),
         Once(rest, provided, checked)
  PROVE  /\ calls' \in Seq(Frame) /\ checked' \subseteq 0..(Bits - 1)
         /\ Once(calls', provided, checked')
<1>1. CASE BitOf(bus) \in checked
  BY <1>1 DEF ScanBus, TypeInv
<1>2. CASE BitOf(bus) \notin checked
  <2> DEFINE f == [bus |-> bus, dev |-> 0, fn |-> 0]
  <2>1. f \in Frame
    BY PciScanAssumption DEF Frame
  <2>2. calls' = <<f>> \o rest /\ checked' = checked \cup {BitOf(bus)}
    BY <1>2 DEF ScanBus
  <2>3. Once(<<f>> \o rest, provided, checked \cup {BitOf(bus)})
    BY <1>2, PushOnce DEF TypeInv
  <2> HIDE DEF f
  <2>4. calls' \in Seq(Frame)
    BY <2>1, <2>2, Pushed
  <2>5. checked' \subseteq 0..(Bits - 1)
    BY <2>2, BitRange DEF TypeInv
  <2> QED  BY <2>2, <2>3, <2>4, <2>5
<1> QED
  BY <1>1, <1>2

(* No calls, none in the wrong.                                             *)
LEMMA NoCalls ==
  ASSUME OnceInv
  PROVE  <<>> \in Seq(Frame) /\ Once(<<>>, provided, checked)
BY DEF OnceInv, Once

(* OnceInv is inductive.                                                    *)
LEMMA OnceStep ==
  ASSUME OnceInv, PciNext
  PROVE  OnceInv'
<1> USE DEF OnceInv
<1>1. machine' = machine /\ machine \in Machines
  BY DEF PciNext, ScanRoot, ScanHosts, ScanHost, HostsDone, SkipPlace, ScanBridge, ProvideDevice,
         ReturnBus, TypeInv
<1>2. CASE ScanRoot
  <2>1. /\ calls' \in Seq(Frame) /\ checked' \subseteq 0..(Bits - 1)
        /\ Once(calls', provided, checked')
    <3>1. 0 \in Bus /\ ScanBus(0, <<>>)
      BY <1>2, PciScanAssumption DEF ScanRoot, Bus
    <3> QED  BY <3>1, ScanBusOnce, NoCalls
  <2> QED  BY <2>1, <1>1, <1>2, SameMachine DEF ScanRoot, TypeInv
<1>3. CASE ScanHosts
  BY <1>1, <1>3, SameMachine DEF ScanHosts, TypeInv
<1>4. CASE ScanHost
  <2>1. /\ calls' \in Seq(Frame) /\ checked' \subseteq 0..(Bits - 1)
        /\ Once(calls', provided, checked')
    <3>1. host \in Bus /\ ScanBus(host, <<>>)
      BY <1>4, PciScanAssumption DEF ScanHost, Bus, TypeInv
    <3> QED  BY <3>1, ScanBusOnce, NoCalls
  <2> QED  BY <2>1, <1>1, <1>4, SameMachine, PciScanAssumption DEF ScanHost, TypeInv
<1>5. CASE HostsDone
  BY <1>1, <1>5, SameMachine DEF HostsDone, TypeInv
<1>6. CASE SkipPlace
  <2> DEFINE n == IF Top.fn = 0 THEN NextDevice ELSE NextPlace
  <2>1. Moves(n) /\ Scanning /\ calls' = <<n>> \o Tail(calls)
    BY <1>6, MovesSkip DEF SkipPlace
  <2> HIDE DEF n
  <2>2. Once(calls', provided, checked) /\ calls' \in Seq(Frame)
    BY <2>1, MoveOnce, Moved, TopPlace DEF Moves, TypeInv
  <2> QED  BY <2>2, <1>1, <1>6, SameMachine DEF SkipPlace, TypeInv
<1>7. CASE ScanBridge
  <2>1. Moves(NextPlace) /\ Scanning
    BY <1>7, MovesNext DEF ScanBridge
  <2>2. Once(<<NextPlace>> \o Tail(calls), provided, checked) /\ <<NextPlace>> \o Tail(calls) \in Seq(Frame)
    BY <2>1, MoveOnce, Moved, TopPlace DEF Moves, TypeInv
  <2>3. machine[Here].bus \in Bus
    BY <1>7, PciScanAssumption DEF ScanBridge, Present, TypeInv
  <2>4. /\ calls' \in Seq(Frame) /\ checked' \subseteq 0..(Bits - 1)
        /\ Once(calls', provided, checked')
    BY <1>7, <2>2, <2>3, ScanBusOnce DEF ScanBridge
  <2> QED  BY <2>4, <1>1, <1>7, SameMachine DEF ScanBridge, TypeInv
<1>8. CASE ProvideDevice
  <2>1. Moves(NextPlace) /\ Scanning
    BY <1>8, MovesNext DEF ProvideDevice
  <2>2. Once(calls', provided', checked) /\ calls' \in Seq(Frame)
    BY <2>1, <1>8, ProvideOnce, Moved, TopPlace DEF Moves, TypeInv, ProvideDevice
  <2>3. provided' \in Seq(Place)
    BY <2>1, <1>8, TopPlace DEF TypeInv, ProvideDevice
  <2> QED  BY <2>2, <2>3, <1>1, <1>8, SameMachine DEF ProvideDevice, TypeInv
<1>9. CASE ReturnBus
  <2>1. Once(calls', provided, checked) /\ calls' \in Seq(Frame)
    BY <1>9, PopOnce, Popped DEF ReturnBus, TypeInv
  <2> QED  BY <2>1, <1>1, <1>9, SameMachine DEF ReturnBus, TypeInv
<1> QED
  BY <1>2, <1>3, <1>4, <1>5, <1>6, <1>7, <1>8, <1>9 DEF PciNext

(* Reached is preserved on a plain machine, under way ...                   *)
LEMMA ReachedStep ==
  ASSUME AllInv, PlainMachine, SkipPlace \/ ScanBridge \/ ProvideDevice \/ ReturnBus
  PROVE  Reached(calls', provided', checked') /\ checked \subseteq checked'
<1> USE DEF AllInv
<1>1. CASE SkipPlace
  <2> DEFINE n == IF Top.fn = 0 THEN NextDevice ELSE NextPlace
  <2>1. Moves(n) /\ Scanning /\ calls' = <<n>> \o Tail(calls) /\ ~Visible(Here)
    BY <1>1, MovesSkip DEF SkipPlace, Visible
  <2> HIDE DEF n
  <2>2. \A x \in Place : Visible(x) /\ x[1] \in checked => Settled(x, calls', provided, checked)
    BY <2>1, MoveSettled DEF Reached
  <2>3. \A k \in DOMAIN calls' : calls'[k].bus < Bits
    BY <2>1, Moved, TopPlace DEF Moves, OnceInv, TypeInv, Reached
  <2> QED  BY <2>2, <2>3, <1>1 DEF SkipPlace, Reached
<1>2. CASE ScanBridge
  <2> DEFINE b == machine[Here].bus
             c == <<NextPlace>> \o Tail(calls)
  <2>1. Moves(NextPlace) /\ Scanning /\ Present(Here) /\ machine[Here].bridge = 1
    BY <1>2, MovesNext DEF ScanBridge
  <2>2. Visible(Here) /\ Top.bus \in checked /\ Here[1] \in Reachable /\ Here \in Place
    BY <2>1, HereReached, TopPlace DEF OnceInv
  <2>3. b \in Bus /\ b < Bits /\ b \in Reachable /\ BitOf(b) = b
    BY <2>1, <2>2, ReachableLeast, OwnBit, PciScanAssumption
       DEF Present, OnceInv, TypeInv, PlainMachine, Closed
  <2>4. c \in Seq(Frame) /\ \A k \in DOMAIN c : c[k].bus < Bits
    BY <2>1, Moved, TopPlace DEF Moves, OnceInv, TypeInv, Reached
  <2>5. \A x \in Place : Visible(x) /\ x[1] \in checked /\ x # Here => Settled(x, c, provided, checked)
    BY <2>1, MoveSettled DEF Reached
  <2> HIDE DEF c
  <2>6. CASE b \in checked
    <3>1. Settled(Here, c, provided, checked)
      BY <2>1, <2>6 DEF Settled
    <3>2. Reached(c, provided, checked)
      BY <3>1, <2>4, <2>5 DEF Reached
    <3> QED  BY <3>2, <2>3, <2>6, <1>2 DEF ScanBridge, ScanBus, c
  <2>7. CASE b \notin checked
    <3>1. /\ calls' = <<[bus |-> b, dev |-> 0, fn |-> 0]>> \o c
          /\ checked' = checked \cup {b} /\ provided' = provided
      BY <2>3, <2>7, <1>2 DEF ScanBridge, ScanBus, c
    <3>2. Settled(Here, c, provided, checked \cup {b})
      BY <2>1 DEF Settled
    <3>3. \A x \in Place : Visible(x) /\ x[1] \in checked => Settled(x, c, provided, checked \cup {b})
      BY <3>2, <2>5 DEF Settled
    <3> HIDE DEF b
    <3>4. Reached(<<[bus |-> b, dev |-> 0, fn |-> 0]>> \o c, provided, checked \cup {b})
      BY <3>3, <2>3, <2>4, PushReached DEF Reached, OnceInv, TypeInv
    <3> QED  BY <3>1, <3>4
  <2> QED  BY <2>6, <2>7
<1>3. CASE ProvideDevice
  <2>1. Moves(NextPlace) /\ Scanning /\ Present(Here) /\ machine[Here].bridge = 0
    BY <1>3, MovesNext DEF ProvideDevice
  <2>2. Visible(Here) /\ Here[1] \in Reachable /\ Here \in Place
    BY <2>1, HereReached, TopPlace DEF OnceInv
  <2>3. /\ calls' = <<NextPlace>> \o Tail(calls) /\ checked' = checked
        /\ provided' = Append(provided, Here) /\ provided \in Seq(Place)
    BY <1>3 DEF ProvideDevice, OnceInv, TypeInv
  <2>4. /\ DOMAIN provided' = DOMAIN provided \cup {Len(provided) + 1}
        /\ provided'[Len(provided) + 1] = Here
        /\ \A i \in DOMAIN provided : provided'[i] = provided[i]
    BY <2>2, <2>3
  <2>5. \A k \in DOMAIN calls' : calls'[k].bus < Bits
    BY <2>1, <2>3, Moved, TopPlace DEF Moves, OnceInv, TypeInv, Reached
  <2>6. ASSUME NEW x \in Place, Visible(x), x[1] \in checked PROVE Settled(x, calls', provided', checked)
    <3>1. CASE x = Here
      BY <3>1, <2>1, <2>4 DEF Settled
    <3>2. CASE x # Here
      <4>1. Settled(x, calls', provided, checked)
        BY <3>2, <2>1, <2>3, <2>6, MoveSettled DEF Reached
      <4> QED  BY <4>1, <2>4 DEF Settled
    <3> QED  BY <3>1, <3>2
  <2>7. \A i \in DOMAIN provided' :
          Visible(provided'[i]) /\ machine[provided'[i]].bridge = 0 /\ provided'[i][1] \in Reachable
    BY <2>1, <2>2, <2>4 DEF Reached
  <2> QED  BY <2>3, <2>5, <2>6, <2>7 DEF Reached
<1>4. CASE ReturnBus
  BY <1>4, PopReached DEF ReturnBus
<1> QED
  BY <1>1, <1>2, <1>3, <1>4

(* ... and when scanAllBuses() begins.                                      *)
LEMMA ReachedRoot ==
  ASSUME AllInv, PlainMachine, ScanRoot
  PROVE  Reached(calls', provided', checked') /\ 0 \in checked'
<1> DEFINE f == [bus |-> 0, dev |-> 0, fn |-> 0]
<1>1. calls = <<>> /\ checked = {} /\ provided = <<>> /\ TypeInv
  BY DEF AllInv, OnceInv, ScanRoot
<1>2. 0 \in Bus /\ 0 < Bits /\ BitOf(0) = 0
  BY PciScanAssumption, OwnBit DEF Bus
<1>3. calls' = <<f>> \o calls /\ checked' = checked \cup {0} /\ provided' = provided
  BY <1>1, <1>2 DEF ScanRoot, ScanBus
<1>4. 0 \in Reachable
  BY <1>1, ReachableLeast DEF Closed
<1>5. /\ DOMAIN calls = {} /\ DOMAIN provided = {} /\ calls \in Seq(Frame) /\ provided \in Seq(Place)
      /\ checked \in SUBSET (0..(Bits - 1))
  BY <1>1 DEF TypeInv
<1>6. Reached(<<f>> \o calls, provided, checked \cup {0})
  BY <1>1, <1>2, <1>4, <1>5, PushReached
<1> QED
  BY <1>3, <1>6

(* AllInv is inductive.                                                     *)
LEMMA AllStep ==
  ASSUME AllInv, PciNext
  PROVE  AllInv'
<1>1. OnceInv' /\ machine' = machine
  BY OnceStep DEF AllInv, PciNext, ScanRoot, ScanHosts, ScanHost, HostsDone, SkipPlace, ScanBridge,
         ProvideDevice, ReturnBus
<1>2. root' = "start" => calls' = <<>> /\ checked' = {} /\ provided' = <<>>
  BY DEF AllInv, PciNext, ScanRoot, ScanHosts, ScanHost, HostsDone, SkipPlace, ScanBridge,
         ProvideDevice, ReturnBus, Scanning
<1>3. ASSUME PlainMachine'
      PROVE  /\ root' \in {"start", "end"} /\ (root' = "end" => 0 \in checked')
             /\ Reached(calls', provided', checked')
  <2>1. PlainMachine /\ root # "loop" /\ ~ScanHosts
    BY <1>1, <1>3, SameMachine DEF AllInv, PlainMachine, ScanHosts
  <2>2. CASE ScanRoot
    BY <2>1, <2>2, ReachedRoot DEF ScanRoot
  <2>3. CASE SkipPlace \/ ScanBridge \/ ProvideDevice \/ ReturnBus
    <3>1. root' = root
      BY <2>3 DEF SkipPlace, ScanBridge, ProvideDevice, ReturnBus
    <3> QED  BY <3>1, <2>1, <2>3, ReachedStep DEF AllInv
  <2> QED  BY <2>1, <2>2, <2>3 DEF PciNext, ScanHost, HostsDone
<1> QED
  BY <1>1, <1>2, <1>3, SameMachine DEF AllInv

(* At the end the marked buses are those that bridges lead to.              *)
LEMMA AllInvImplies ==
  ASSUME AllInv
  PROVE  AllProvided
<1>1. \A i, j \in DOMAIN provided : provided[i] = provided[j] => i = j
  BY DEF AllInv, OnceInv, Once
<1>2. ASSUME PlainMachine, ScanDone
      PROVE  {provided[i] : i \in DOMAIN provided}
               = {x \in Place : Visible(x) /\ machine[x].bridge = 0 /\ x[1] \in Reachable}
  <2>1. calls = <<>> /\ 0 \in checked /\ Reached(calls, provided, checked) /\ TypeInv
    BY <1>2 DEF AllInv, ScanDone, OnceInv
  <2>2. \A x \in Place : ~\E k \in DOMAIN calls : calls[k].bus = x[1] /\ ~Before(x, calls[k])
    BY <2>1
  <2>3. checked \in SUBSET Bus
    BY <2>1 DEF Reached, Reachable
  <2>4. Closed(checked)
    BY <2>1, <2>2 DEF Closed, Reached, Settled
  <2>5. checked = Reachable
    BY <2>1, <2>3, <2>4, ReachableLeast DEF Reached
  <2>6. ASSUME NEW x \in Place, Visible(x), machine[x].bridge = 0, x[1] \in Reachable
        PROVE  \E i \in DOMAIN provided : provided[i] = x
    BY <2>1, <2>2, <2>5, <2>6 DEF Reached, Settled
  <2>7. \A i \in DOMAIN provided : provided[i] \in Place /\ Visible(provided[i])
                                   /\ machine[provided[i]].bridge = 0 /\ provided[i][1] \in Reachable
    BY <2>1 DEF Reached, TypeInv
  <2> QED  BY <2>6, <2>7
<1> QED
  BY <1>1, <1>2 DEF AllProvided

(* The driver announces no function twice, and on a machine with a plain    *)
(* host controller it has announced exactly the functions on buses that     *)
(* bridges lead to when scanAllBuses() returns.                             *)
THEOREM Announced == PciSpec => []AllProvided
<1>1. PciInit => AllInv
  <2> SUFFICES ASSUME PciInit PROVE AllInv
    OBVIOUS
  <2>1. OnceInv
    BY PciScanAssumption DEF PciInit, OnceInv, TypeInv, Once
  <2>2. Reached(calls, provided, checked)
    BY DEF PciInit, Reached
  <2> QED  BY <2>1, <2>2 DEF PciInit, AllInv
<1>2. AllInv /\ [PciNext]_pciVars => AllInv'
  <2>1. ASSUME AllInv, UNCHANGED pciVars PROVE AllInv'
    BY <2>1 DEF pciVars, AllInv, OnceInv, TypeInv, Once, Asked, Present, Reached, Settled, Visible,
             Reachable, Closed, PlainMachine
  <2> QED  BY <2>1, AllStep
<1>3. AllInv => AllProvided
  BY AllInvImplies
<1> QED
  BY <1>1, <1>2, <1>3, PTL DEF PciSpec
=============================================================================
