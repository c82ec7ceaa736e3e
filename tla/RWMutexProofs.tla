--------------------------- MODULE RWMutexProofs ----------------------------
(***************************************************************************)
(* Proofs about RWMutex: the inner spin lock protects the word although    *)
(* only one of its accesses is atomic, the word describes its holders, and *)
(* so readers and writers exclude each other, for any finite set of CPUs.  *)
(***************************************************************************)
EXTENDS RWMutex, FiniteSetTheorems, TLAPS

(* Where a CPU can be in each method.                                      *)
ControlOK ==
  \A c \in CPU :
    /\ op[c] = "none" <=> pc[c] \in {"out", "reading", "writing"}
    /\ pc[c] \in {"pre", "check", "fload", "fstore"} =>
         op[c] \in {"wlock", "rlock"}

(* At most one CPU is between slock() and srelease(), the slock bit says    *)
(* whether there is one, and a copy of the word that is about to be written *)
(* back is still the word.                                                  *)
SpinOK ==
  /\ raw.slock = 1 <=> Spinners # {}
  /\ \A c, d \in Spinners : c = d
  /\ \A c \in CPU : pc[c] \in {"store", "fstore", "rstore"} => tmp[c] = raw

(* The fields agree with the holders; a CPU about to be granted the lock    *)
(* found it free, and it still is.                                          *)
HoldersOK ==
  /\ raw.wlock = 1 <=> Writers # {}
  /\ \A c, d \in Writers : c = d
  /\ raw.rcnt = Cardinality(Readers)
  /\ raw.wlock = 1 => raw.rcnt = 0
  /\ \A c \in CPU : pc[c] \in {"load", "store"} =>
       /\ op[c] = "wlock" => raw.wlock = 0 /\ raw.rcnt = 0
       /\ op[c] = "rlock" => raw.wlock = 0

IInv == TypeOK /\ ControlOK /\ SpinOK /\ HoldersOK

-----------------------------------------------------------------------------
(* The word, the registers and the program counters keep their types as    *)
(* long as a release finds a reader to count down.                         *)
LEMMA TypeStep ==
  ASSUME IInv, NEW c \in CPU, Step(c)
  PROVE  TypeOK'
<1>0. TypeOK /\ ControlOK /\ SpinOK /\ HoldersOK
  BY DEF IInv
<1>1. CASE WLock(c) \/ RLock(c) \/ WRelease(c) \/ RRelease(c)
  BY <1>0, <1>1 DEF TypeOK, WLock, RLock, WRelease, RRelease, Goto, Op, PC
<1>2. CASE PreCheck(c) \/ Test(c) \/ Bts(c) \/ Check(c)
  BY <1>0, <1>2, SMTT(60) DEF TypeOK, PreCheck, Test, Bts, Check, Goto, PC, Word, Bit
<1>3. CASE Load(c) \/ SReleaseLoad(c)
  BY <1>0, <1>3 DEF TypeOK, Load, SReleaseLoad, Goto, PC
<1>4. CASE Store(c)
  <2>1. tmp[c] = raw /\ raw \in Word /\ Zero \in Word
    BY <1>0, <1>4 DEF SpinOK, Store, TypeOK, Zero, Word, Bit
  <2>2. op[c] \in {"wlock", "rlock", "wrelease", "rrelease"}
    BY <1>0, <1>4 DEF ControlOK, Store, TypeOK, Op
  <2>3. op[c] = "rrelease" => raw.rcnt # 0
    <3>1. SUFFICES ASSUME op[c] = "rrelease" PROVE raw.rcnt # 0
      OBVIOUS
    <3>2. c \in Readers
      BY <1>4, <3>1 DEF Readers, Store
    <3>3. IsFiniteSet(Readers)
      BY CPUAssumption, FS_Subset DEF Readers
    <3>4. QED
      BY <1>0, <3>2, <3>3, FS_EmptySet DEF HoldersOK
  <2>4. Updated(op[c], tmp[c]) \in Word
    BY <2>1, <2>2, <2>3 DEF Updated, Word, Bit
  <2>5. QED
    BY <1>0, <1>4, <2>1, <2>4 DEF TypeOK, Store, WriteBack, Goto, PC
<1>5. CASE SReleaseRetry(c) \/ SReleaseReturn(c)
  <2>1. Complemented(tmp[c]) \in Word /\ Zero \in Word
    BY <1>0 DEF TypeOK, Complemented, Word, Zero, Bit
  <2>2. Returned(op[c]) \in PC /\ "none" \in Op /\ "pre" \in PC
    BY DEF Returned, PC, Op
  <2>3. QED
    BY <1>0, <1>5, <2>1, <2>2
    DEF TypeOK, SReleaseRetry, SReleaseReturn, WriteBack, Goto
<1>6. QED
  BY <1>1, <1>2, <1>3, <1>4, <1>5 DEF Step, Leave, Inside

(* Program counters and methods stay consistent.                           *)
LEMMA ControlStep ==
  ASSUME IInv, NEW c \in CPU, Step(c)
  PROVE  ControlOK'
<1>0. TypeOK /\ ControlOK
  BY DEF IInv
<1>1. CASE WLock(c) \/ RLock(c) \/ WRelease(c) \/ RRelease(c)
  BY <1>0, <1>1
  DEF TypeOK, ControlOK, WLock, RLock, WRelease, RRelease, Goto
<1>2. CASE PreCheck(c) \/ Test(c) \/ Check(c) \/ Load(c)
  BY <1>0, <1>2 DEF TypeOK, ControlOK, PreCheck, Test, Check, Load, Goto
<1>3. CASE Bts(c)
  BY <1>0, <1>3 DEF TypeOK, ControlOK, Bts, Goto
<1>4. CASE Store(c) \/ SReleaseLoad(c) \/ SReleaseRetry(c)
  BY <1>0, <1>4
  DEF TypeOK, ControlOK, Store, SReleaseLoad, SReleaseRetry, Goto
<1>5. CASE SReleaseReturn(c)
  BY <1>0, <1>5 DEF TypeOK, ControlOK, SReleaseReturn, Returned, Goto
<1>6. QED
  BY <1>1, <1>2, <1>3, <1>4, <1>5 DEF Step, Leave, Inside

(* slock() admits one CPU at a time and nobody else changes the word, so    *)
(* the separate write-backs lose nothing.                                   *)
LEMMA SpinStep ==
  ASSUME IInv, NEW c \in CPU, Step(c)
  PROVE  SpinOK'
<1>0. TypeOK /\ ControlOK /\ SpinOK
  BY DEF IInv
<1>1. CASE WLock(c) \/ RLock(c) \/ WRelease(c) \/ RRelease(c)
  BY <1>0, <1>1
  DEF TypeOK, SpinOK, Spinners, WLock, RLock, WRelease, RRelease, Goto
<1>2. CASE PreCheck(c) \/ Test(c) \/ Check(c)
  BY <1>0, <1>2 DEF TypeOK, SpinOK, Spinners, PreCheck, Test, Check, Goto
<1>3. CASE Bts(c)
  <2>1. CASE raw.slock = 1
    BY <1>0, <1>3, <2>1 DEF TypeOK, Word, SpinOK, Spinners, Bts, Goto
  <2>2. CASE raw.slock # 1
    <3>1. Spinners = {}
      BY <1>0, <2>2 DEF SpinOK
    <3>2. Spinners' = {c}
      BY <1>0, <1>3, <2>2, <3>1 DEF TypeOK, Spinners, Bts, Goto
    <3>3. raw'.slock = 1
      BY <1>0, <1>3 DEF TypeOK, Word, Bts
    <3>4. ASSUME NEW d \in CPU
          PROVE  pc'[d] \notin {"store", "fstore", "rstore"}
      BY <1>0, <1>3, <2>2, <3>1 DEF TypeOK, Spinners, Bts, Goto
    <3>5. QED
      BY <3>2, <3>3, <3>4 DEF SpinOK
  <2>3. QED
    BY <2>1, <2>2
<1>4. CASE Load(c) \/ SReleaseLoad(c)
  <2>1. c \in Spinners /\ Spinners' = Spinners /\ UNCHANGED raw
    BY <1>0, <1>4 DEF TypeOK, Spinners, Load, SReleaseLoad, Goto
  <2>2. tmp'[c] = raw'
    BY <1>0, <1>4, <2>1 DEF TypeOK, Load, SReleaseLoad
  <2>3. ASSUME NEW d \in CPU, d # c
        PROVE  pc'[d] \notin {"store", "fstore", "rstore"}
    BY <1>0, <1>4, <2>1, <2>3 DEF TypeOK, SpinOK, Spinners, Load, SReleaseLoad, Goto
  <2>4. QED
    BY <1>0, <2>1, <2>2, <2>3 DEF SpinOK
<1>5. CASE Store(c)
  <2>1. c \in Spinners /\ Spinners' = Spinners
    BY <1>0, <1>5 DEF TypeOK, Spinners, Store, Goto
  <2>2. raw'.slock = raw.slock
    BY <1>0, <1>5 DEF TypeOK, SpinOK, Store, WriteBack, Updated
  <2>3. ASSUME NEW d \in CPU
        PROVE  pc'[d] \notin {"store", "fstore", "rstore"}
    BY <1>0, <1>5, <2>1 DEF TypeOK, SpinOK, Spinners, Store, Goto
  <2>4. QED
    BY <1>0, <2>1, <2>2, <2>3 DEF SpinOK
<1>6. CASE SReleaseRetry(c) \/ SReleaseReturn(c)
  <2>1. c \in Spinners /\ tmp[c] = raw
    BY <1>0, <1>6 DEF TypeOK, SpinOK, Spinners, SReleaseRetry, SReleaseReturn
  <2>2. raw.slock = 1
    BY <1>0, <2>1 DEF SpinOK
  <2>3. raw' = [raw EXCEPT !.slock = 0]
    BY <1>0, <1>6, <2>1, <2>2
    DEF TypeOK, Word, SReleaseRetry, SReleaseReturn, WriteBack, Complemented
  <2>4. raw'.slock = 0
    BY <1>0, <2>3 DEF TypeOK, Word
  <2>5. Spinners' = {}
    BY <1>0, <1>6, <2>1
    DEF TypeOK, SpinOK, Spinners, SReleaseRetry, SReleaseReturn, Returned, Goto
  <2>6. QED
    BY <2>4, <2>5 DEF SpinOK, Spinners
<1>7. QED
  BY <1>1, <1>2, <1>3, <1>4, <1>5, <1>6 DEF Step, Leave, Inside

(* Readers form a finite set, and the count follows one joining or leaving. *)
LEMMA ReadersFinite == IsFiniteSet(Readers)
BY CPUAssumption, FS_Subset DEF Readers

(* A step that neither grants nor gives back the lock has the same holders  *)
(* after it, and leaves wlock and rcnt alone.                               *)
LEMMA QuietStep ==
  ASSUME IInv, NEW c \in CPU, Step(c), ~Store(c)
  PROVE  /\ Readers' = Readers /\ Writers' = Writers
         /\ raw'.wlock = raw.wlock /\ raw'.rcnt = raw.rcnt
<1>0. TypeOK /\ ControlOK /\ SpinOK
  BY DEF IInv
<1>1. CASE WLock(c) \/ RLock(c) \/ WRelease(c) \/ RRelease(c)
  BY <1>0, <1>1 DEF TypeOK, ControlOK, Readers, Writers, WLock, RLock,
                    WRelease, RRelease, Goto
<1>2. CASE PreCheck(c) \/ Test(c) \/ Check(c) \/ Load(c) \/ SReleaseLoad(c)
  BY <1>0, <1>2 DEF TypeOK, ControlOK, Readers, Writers, PreCheck, Test,
                    Check, Load, SReleaseLoad, Goto
<1>3. CASE Bts(c)
  BY <1>0, <1>3 DEF TypeOK, Word, ControlOK, Readers, Writers, Bts, Goto
<1>4. CASE SReleaseRetry(c) \/ SReleaseReturn(c)
  <2>1. tmp[c] = raw
    BY <1>0, <1>4 DEF SpinOK, SReleaseRetry, SReleaseReturn
  <2>2. raw'.wlock = raw.wlock /\ raw'.rcnt = raw.rcnt
    BY <1>0, <1>4, <2>1
    DEF TypeOK, Word, SReleaseRetry, SReleaseReturn, WriteBack, Complemented
  <2>3. Readers' = Readers /\ Writers' = Writers
    BY <1>0, <1>4 DEF TypeOK, ControlOK, Readers, Writers, SReleaseRetry,
                      SReleaseReturn, Returned, Goto
  <2>4. QED
    BY <2>2, <2>3
<1>5. QED
  BY <1>1, <1>2, <1>3, <1>4 DEF Step, Leave, Inside

(* The store that grants the lock to a reader or a writer, or takes it      *)
(* back, changes the holders the way it changes the word.                   *)
LEMMA StoreStep ==
  ASSUME IInv, NEW c \in CPU, Store(c)
  PROVE  /\ op[c] \in {"wlock", "rlock", "wrelease", "rrelease"}
         /\ raw'.wlock = (IF op[c] = "wlock" THEN 1
                          ELSE IF op[c] = "wrelease" THEN 0 ELSE raw.wlock)
         /\ raw'.rcnt = (IF op[c] = "rlock" THEN raw.rcnt + 1
                         ELSE IF op[c] = "rrelease" THEN raw.rcnt - 1
                         ELSE raw.rcnt)
         /\ op[c] = "wlock" => /\ raw.wlock = 0 /\ raw.rcnt = 0
                               /\ Writers' = Writers \cup {c}
                               /\ Readers' = Readers
         /\ op[c] = "rlock" => /\ raw.wlock = 0 /\ c \notin Readers
                               /\ Readers' = Readers \cup {c}
                               /\ Writers' = Writers
         /\ op[c] = "wrelease" => /\ c \in Writers
                                  /\ Writers' = Writers \ {c}
                                  /\ Readers' = Readers
         /\ op[c] = "rrelease" => /\ c \in Readers
                                  /\ Readers' = Readers \ {c}
                                  /\ Writers' = Writers
<1>0. TypeOK /\ ControlOK /\ SpinOK /\ HoldersOK
  BY DEF IInv
<1>1. op[c] \in {"wlock", "rlock", "wrelease", "rrelease"}
  BY <1>0 DEF TypeOK, Op, ControlOK, Store
<1>2. tmp[c] = raw
  BY <1>0 DEF SpinOK, Store
<1>3. raw' = Updated(op[c], raw)
  BY <1>2 DEF Store, WriteBack
<1>4. pc[c] = "store" /\ pc' = [pc EXCEPT ![c] = "rload"] /\ op' = op
  BY DEF Store, Goto
<1>5. /\ op[c] = "wlock" => raw.wlock = 0 /\ raw.rcnt = 0
      /\ op[c] = "rlock" => raw.wlock = 0
  BY <1>0, <1>4 DEF HoldersOK
<1>6. CASE op[c] = "wlock"
  BY <1>0, <1>3, <1>4, <1>5, <1>6
  DEF TypeOK, Updated, Readers, Writers
<1>7. CASE op[c] = "rlock"
  BY <1>0, <1>3, <1>4, <1>5, <1>7, SMTT(60)
  DEF TypeOK, Updated, Readers, Writers
<1>8. CASE op[c] = "wrelease"
  BY <1>0, <1>3, <1>4, <1>8, SMTT(60) DEF TypeOK, Updated, Readers, Writers
<1>9. CASE op[c] = "rrelease"
  BY <1>0, <1>3, <1>4, <1>9 DEF TypeOK, Updated, Readers, Writers
<1>10. QED
  BY <1>1, <1>6, <1>7, <1>8, <1>9

(* The fields go on describing the holders.                                *)
LEMMA HoldersStep ==
  ASSUME IInv, NEW c \in CPU, Step(c)
  PROVE  HoldersOK'
<1>0. TypeOK /\ ControlOK /\ SpinOK /\ HoldersOK /\ TypeOK' /\ SpinOK'
  BY TypeStep, SpinStep DEF IInv
<1>1. CASE ~Store(c)
  <2>1. /\ Readers' = Readers /\ Writers' = Writers
        /\ raw'.wlock = raw.wlock /\ raw'.rcnt = raw.rcnt
    BY <1>1, QuietStep
  <2>2. ASSUME NEW d \in CPU, pc'[d] \in {"load", "store"}
        PROVE  /\ op'[d] = "wlock" => raw'.wlock = 0 /\ raw'.rcnt = 0
               /\ op'[d] = "rlock" => raw'.wlock = 0
    <3>1. CASE pc[d] \in {"load", "store"} /\ op'[d] = op[d]
      BY <1>0, <2>1, <3>1 DEF HoldersOK
    <3>2. CASE pc[d] \notin {"load", "store"} \/ op'[d] # op[d]
      <4>1. d = c /\ \/ Check(c) /\ IsFree(c)
                     \/ Bts(c) /\ op[c] \notin {"wlock", "rlock"}
        BY <1>0, <1>1, <2>2, <3>2
        DEF TypeOK, Step, Leave, Inside, WLock, RLock, WRelease, RRelease,
            PreCheck, Test, Bts, Check, Load, SReleaseLoad, SReleaseRetry,
            SReleaseReturn, Returned, Goto
      <4>2. op'[d] = op[d]
        BY <4>1 DEF Check, Bts
      <4>3. CASE Check(c) /\ IsFree(c)
        BY <1>0, <2>1, <4>1, <4>2, <4>3
        DEF Check, IsFree, ControlOK
      <4>4. QED
        BY <4>1, <4>2, <4>3
    <3>3. QED
      BY <3>1, <3>2
  <2>3. QED
    BY <1>0, <2>1, <2>2 DEF HoldersOK
<1>2. CASE Store(c)
  <2>1. IsFiniteSet(Readers) /\ Cardinality(Readers) \in Nat
    BY ReadersFinite, FS_CardinalityType
  <2>2. ASSUME NEW d \in CPU
        PROVE  pc'[d] \notin {"load", "store"}
    BY <1>0, <1>2 DEF TypeOK, SpinOK, Spinners, Store, Goto
  <2>3. raw'.rcnt = Cardinality(Readers)'
    <3>1. c \notin Readers => Cardinality(Readers \cup {c}) = Cardinality(Readers) + 1
      BY <2>1, FS_AddElement, Zenon
    <3>2. c \in Readers => Cardinality(Readers \ {c}) = Cardinality(Readers) - 1
      BY <2>1, FS_RemoveElement, Zenon
    <3>3. QED
      BY <1>0, <1>2, <3>1, <3>2, StoreStep DEF HoldersOK
  <2>4. /\ raw'.wlock = 1 <=> Writers' # {}
        /\ \A d, e \in Writers' : d = e
    <3>1. raw.wlock \in Bit
      BY <1>0 DEF TypeOK, Word
    <3>2. QED
      BY <1>0, <1>2, <3>1, StoreStep DEF HoldersOK, Bit
  <2>5. raw'.wlock = 1 => raw'.rcnt = 0
    <3>1. op[c] = "rrelease" => raw.rcnt # 0
      BY <1>0, <1>2, <2>1, StoreStep, FS_EmptySet DEF HoldersOK
    <3>2. QED
      BY <1>0, <1>2, <3>1, StoreStep DEF HoldersOK
  <2>6. QED
    BY <2>2, <2>3, <2>4, <2>5 DEF HoldersOK
<1>3. QED
  BY <1>1, <1>2

-----------------------------------------------------------------------------
(* The inductive invariant: the code's reasons why the lock is right.      *)
THEOREM Inductive == Spec => []IInv
<1>1. Init => IInv
  <2>1. ASSUME Init PROVE TypeOK /\ ControlOK /\ SpinOK
    BY <2>1 DEF Init, TypeOK, ControlOK, SpinOK, Spinners, Zero, Word, Bit,
                Op, PC
  <2>2. ASSUME Init PROVE HoldersOK
    <3>1. Readers = {} /\ Writers = {}
      BY <2>2 DEF Init, Readers, Writers
    <3>2. QED
      BY <2>2, <3>1, FS_EmptySet DEF Init, HoldersOK, Zero
  <2>3. QED
    BY <2>1, <2>2 DEF IInv
<1>2. IInv /\ [Next]_vars => IInv'
  <2>1. ASSUME IInv, NEW c \in CPU, Step(c) PROVE IInv'
    BY <2>1, TypeStep, ControlStep, SpinStep, HoldersStep DEF IInv
  <2>2. ASSUME IInv, UNCHANGED vars PROVE IInv'
    BY <2>2 DEF IInv, TypeOK, ControlOK, SpinOK, HoldersOK, Spinners,
                Readers, Writers, vars
  <2>3. QED
    BY <2>1, <2>2 DEF Next
<1>3. QED
  BY <1>1, <1>2, PTL DEF Spec

(* The word, the registers and the program counters are well typed: in      *)
(* particular rcnt never goes below zero in rrelease().                     *)
THEOREM TypeCorrect == Spec => []TypeOK
BY Inductive, PTL DEF IInv

(* The bit fields of the word always agree with who holds the lock: no     *)
(* update is lost although srelease() and the field updates are not atomic. *)
THEOREM WordAgreement == Spec => []WordAgrees
<1>1. IInv => WordAgrees
  BY DEF IInv, SpinOK, HoldersOK, WordAgrees
<1>2. QED
  BY <1>1, Inductive, PTL

(* While a CPU is in its write section no other CPU is in a section.       *)
THEOREM MutualExclusion == Spec => []Exclusion
<1>1. IInv => Exclusion
  <2>1. SUFFICES ASSUME IInv, NEW c \in CPU, NEW d \in CPU,
                        pc[c] = "writing", d # c
                 PROVE  pc[d] \notin {"writing", "reading"}
    BY DEF Exclusion
  <2>2. c \in Writers
    BY <2>1 DEF Writers
  <2>3. raw.wlock = 1 /\ raw.rcnt = 0 /\ d \notin Writers
    BY <2>1, <2>2 DEF IInv, HoldersOK
  <2>4. Readers = {}
    BY <2>1, <2>3, ReadersFinite, FS_EmptySet, Zenon DEF IInv, HoldersOK
  <2>5. QED
    BY <2>3, <2>4 DEF Readers, Writers
<1>2. QED
  BY <1>1, Inductive, PTL

(* Every step of the word-level lock is a step of the abstract lock, or    *)
(* changes no holder.                                                      *)
THEOREM Refinement == Spec => ImplementsRWLock
<1>1. Init => Lock!Init
  BY DEF Init, Lock!Init, Readers, Writers
<1>2. IInv /\ [Next]_vars => [Lock!Next]_(Lock!vars)
  <2>1. ASSUME IInv, NEW c \in CPU, Step(c), ~Store(c)
        PROVE  UNCHANGED Lock!vars
    BY <2>1, QuietStep DEF Lock!vars
  <2>2. ASSUME IInv, NEW c \in CPU, Store(c)
        PROVE  Lock!Next
    <3>0. HoldersOK
      BY <2>2 DEF IInv
    <3>1. CASE op[c] = "wlock"
      <4>1. Writers = {} /\ Readers = {}
        BY <2>2, <3>0, <3>1, StoreStep, ReadersFinite, FS_EmptySet
        DEF HoldersOK
      <4>2. Lock!WLock(c)
        BY <2>2, <3>1, <4>1, StoreStep DEF Lock!WLock
      <4>3. QED
        BY <4>2 DEF Lock!Next
    <3>2. CASE op[c] = "rlock"
      <4>1. Lock!RLock(c)
        BY <2>2, <3>0, <3>2, StoreStep DEF Lock!RLock, HoldersOK
      <4>2. QED
        BY <4>1 DEF Lock!Next
    <3>3. CASE op[c] = "wrelease"
      <4>1. Lock!WRelease(c)
        BY <2>2, <3>0, <3>3, StoreStep DEF Lock!WRelease, HoldersOK
      <4>2. QED
        BY <4>1 DEF Lock!Next
    <3>4. CASE op[c] = "rrelease"
      <4>1. Lock!RRelease(c)
        BY <2>2, <3>4, StoreStep DEF Lock!RRelease
      <4>2. QED
        BY <4>1 DEF Lock!Next
    <3>5. QED
      BY <2>2, <3>1, <3>2, <3>3, <3>4, StoreStep
  <2>3. ASSUME UNCHANGED vars PROVE UNCHANGED Lock!vars
    BY <2>3 DEF vars, Lock!vars, Readers, Writers
  <2>4. QED
    BY <2>1, <2>2, <2>3 DEF Next
<1>3. QED
  BY <1>1, <1>2, Inductive, PTL DEF Spec, ImplementsRWLock, Lock!Spec
=============================================================================
