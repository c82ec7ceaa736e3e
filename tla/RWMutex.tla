------------------------------ MODULE RWMutex -------------------------------
(***************************************************************************)
(* The RWMutex of lock/include/mutex.hpp, one action per memory access.    *)
(*                                                                         *)
(* The lock is one 64-bit word holding three bit fields.  Only the         *)
(* `lock btsw' of slock() is an atomic read-modify-write.  Every other     *)
(* update (a bit field assignment, the plain `btcw' of srelease()) reads   *)
(* the whole word and later writes the whole word back, so an update made  *)
(* in between by another CPU would be lost; the model keeps the two halves *)
(* apart.                                                                  *)
(***************************************************************************)
EXTENDS Naturals, FiniteSets

CONSTANT CPU

ASSUME CPUAssumption == IsFiniteSet(CPU)

VARIABLES raw,   \* the word: state.slock, state.wlock and state.rcnt
          tmp,   \* tmp[c]: the register CPU c holds its copy of the word in
                 \* (Zero when it holds none)
          op,    \* op[c]: the method CPU c is in
          pc     \* pc[c]: where CPU c is in that method

vars == <<raw, tmp, op, pc>>

Bit == {0, 1}
Word == [slock : Bit, wlock : Bit, rcnt : Nat]
Zero == [slock |-> 0, wlock |-> 0, rcnt |-> 0]
Op == {"none", "wlock", "rlock", "wrelease", "rrelease"}
PC == {"out", "reading", "writing", "pre", "test", "bts", "check", "load",
       "store", "fload", "fstore", "rload", "rstore"}

Init ==
  /\ raw = Zero
  /\ tmp = [c \in CPU |-> Zero]
  /\ op = [c \in CPU |-> "none"]
  /\ pc = [c \in CPU |-> "out"]

Goto(c, l) == pc' = [pc EXCEPT ![c] = l]

(* The copy is written back and forgotten.                                 *)
WriteBack(c, w) == raw' = w /\ tmp' = [tmp EXCEPT ![c] = Zero]

-----------------------------------------------------------------------------
(* The four methods are entered.  wlock() and rlock() are loops around     *)
(* try_wlock() and try_rlock(), which look at the word before they take    *)
(* the inner spin lock; the two releases start with slock().               *)

WLock(c) ==
  /\ pc[c] = "out"
  /\ op' = [op EXCEPT ![c] = "wlock"]
  /\ Goto(c, "pre")
  /\ UNCHANGED <<raw, tmp>>

RLock(c) ==
  /\ pc[c] = "out"
  /\ op' = [op EXCEPT ![c] = "rlock"]
  /\ Goto(c, "pre")
  /\ UNCHANGED <<raw, tmp>>

WRelease(c) ==
  /\ pc[c] = "writing"
  /\ op' = [op EXCEPT ![c] = "wrelease"]
  /\ Goto(c, "test")
  /\ UNCHANGED <<raw, tmp>>

RRelease(c) ==
  /\ pc[c] = "reading"
  /\ op' = [op EXCEPT ![c] = "rrelease"]
  /\ Goto(c, "test")
  /\ UNCHANGED <<raw, tmp>>

(* The look before the spin lock.  A busy word makes the try fail, and the *)
(* surrounding loop tries again.                                           *)
LooksBusy(c) ==
  IF op[c] = "wlock" THEN raw.rcnt # 0 /\ raw.wlock = 1 ELSE raw.wlock = 1

PreCheck(c) ==
  /\ pc[c] = "pre"
  /\ ~LooksBusy(c)
  /\ Goto(c, "test")
  /\ UNCHANGED <<raw, tmp, op>>

-----------------------------------------------------------------------------
(* slock(): wait until the bit reads 0, then test and set it atomically.   *)

Test(c) ==
  /\ pc[c] = "test"
  /\ raw.slock = 0
  /\ Goto(c, "bts")
  /\ UNCHANGED <<raw, tmp, op>>

\* A mistake: the result of the test is dropped.
BtsUntested(c) ==
  /\ pc[c] = "bts"
  /\ raw' = [raw EXCEPT !.slock = 1]
  /\ Goto(c, IF op[c] \in {"wlock", "rlock"} THEN "check" ELSE "load")
  /\ UNCHANGED <<tmp, op>>

Bts(c) ==
  /\ pc[c] = "bts"
  /\ raw' = [raw EXCEPT !.slock = 1]
  /\ Goto(c, IF raw.slock = 1 THEN "test"
             ELSE IF op[c] \in {"wlock", "rlock"} THEN "check" ELSE "load")
  /\ UNCHANGED <<tmp, op>>

(* The decision under the spin lock.                                       *)
\* Mistakes: the condition of the unlocked look reused, and a swapped test.
IsFreeOr(c) ==
  IF op[c] = "wlock" THEN raw.rcnt = 0 \/ raw.wlock = 0 ELSE raw.wlock = 0
IsFreeSwapped(c) ==
  IF op[c] = "wlock" THEN raw.rcnt # 0 /\ raw.wlock = 0 ELSE raw.wlock = 0

IsFree(c) ==
  IF op[c] = "wlock" THEN raw.rcnt = 0 /\ raw.wlock = 0 ELSE raw.wlock = 0

Check(c) ==
  /\ pc[c] = "check"
  /\ Goto(c, IF IsFree(c) THEN "load" ELSE "fload")
  /\ UNCHANGED <<raw, tmp, op>>

(* The update of a bit field: the word is read, and written back with the  *)
(* field changed.                                                          *)
Load(c) ==
  /\ pc[c] = "load"
  /\ tmp' = [tmp EXCEPT ![c] = raw]
  /\ Goto(c, "store")
  /\ UNCHANGED <<raw, op>>

\* A mistake: wrelease() counts a reader down.
UpdatedSwapped(o, w) ==
  [slock |-> w.slock,
   wlock |-> IF o = "wlock" THEN 1 ELSE w.wlock,
   rcnt  |-> IF o = "rlock" THEN w.rcnt + 1
             ELSE IF o \in {"wrelease", "rrelease"} THEN w.rcnt - 1 ELSE w.rcnt]

Updated(o, w) ==
  [slock |-> w.slock,
   wlock |-> IF o = "wlock" THEN 1 ELSE IF o = "wrelease" THEN 0 ELSE w.wlock,
   rcnt  |-> IF o = "rlock" THEN w.rcnt + 1
             ELSE IF o = "rrelease" THEN w.rcnt - 1 ELSE w.rcnt]

Store(c) ==
  /\ pc[c] = "store"
  /\ WriteBack(c, Updated(op[c], tmp[c]))
  /\ Goto(c, "rload")
  /\ UNCHANGED op

-----------------------------------------------------------------------------
(* srelease(): btcw without a lock prefix complements the bit in a copy of *)
(* the word.  After a failed try ("fload", "fstore") the loop goes round;  *)
(* otherwise the method returns.                                           *)

SReleaseLoad(c) ==
  /\ pc[c] \in {"rload", "fload"}
  /\ tmp' = [tmp EXCEPT ![c] = raw]
  /\ Goto(c, IF pc[c] = "rload" THEN "rstore" ELSE "fstore")
  /\ UNCHANGED <<raw, op>>

Complemented(w) == [w EXCEPT !.slock = 1 - @]

Returned(o) ==
  IF o = "wlock" THEN "writing" ELSE IF o = "rlock" THEN "reading" ELSE "out"

SReleaseRetry(c) ==
  /\ pc[c] = "fstore"
  /\ WriteBack(c, Complemented(tmp[c]))
  /\ Goto(c, "pre")
  /\ UNCHANGED op

SReleaseReturn(c) ==
  /\ pc[c] = "rstore"
  /\ WriteBack(c, Complemented(tmp[c]))
  /\ Goto(c, Returned(op[c]))
  /\ op' = [op EXCEPT ![c] = "none"]

-----------------------------------------------------------------------------
(* A CPU inside a method always runs on; entering a method is its choice.  *)
Inside(c) ==
  \/ PreCheck(c) \/ Test(c) \/ Bts(c) \/ Check(c) \/ Load(c) \/ Store(c)
  \/ SReleaseLoad(c) \/ SReleaseRetry(c) \/ SReleaseReturn(c)

Leave(c) == WRelease(c) \/ RRelease(c)

Step(c) == WLock(c) \/ RLock(c) \/ Leave(c) \/ Inside(c)

Next == \E c \in CPU : Step(c)

Spec == Init /\ [][Next]_vars

(* Each CPU executes its own instructions, and every holder of the kernel's *)
(* RWMutexes but one (the fatal fault) releases in bounded time.  A CPU     *)
(* that finds slock clear again and again sooner or later wins it: the code *)
(* queues nobody, so this is asked of the arbitration of the memory bus.    *)
(* It is needed because try_wlock() looks for `rcnt != 0 && wlock': a       *)
(* waiting writer does not see readers as busy and keeps taking slock,      *)
(* which the reader it waits for needs in order to release.                 *)
FairSpec ==
  /\ Spec
  /\ \A c \in CPU : /\ WF_vars(Inside(c)) /\ WF_vars(Leave(c))
                    /\ SF_vars(Test(c)) /\ SF_vars(Bts(c) /\ raw.slock = 0)

-----------------------------------------------------------------------------
(* A CPU is a holder from the store that grants the lock until the store   *)
(* that gives it back.                                                     *)
Writers == {c \in CPU : \/ pc[c] = "writing"
                        \/ op[c] = "wlock" /\ pc[c] \in {"rload", "rstore"}
                        \/ op[c] = "wrelease"
                             /\ pc[c] \in {"test", "bts", "load", "store"}}
Readers == {c \in CPU : \/ pc[c] = "reading"
                        \/ op[c] = "rlock" /\ pc[c] \in {"rload", "rstore"}
                        \/ op[c] = "rrelease"
                             /\ pc[c] \in {"test", "bts", "load", "store"}}

(* The CPUs between slock() and the store of srelease().                   *)
Spinners == {c \in CPU : pc[c] \in {"check", "load", "store", "fload",
                                    "fstore", "rload", "rstore"}}

(* Types of the word, the registers and the program counters.              *)
TypeOK ==
  /\ raw \in Word
  /\ tmp \in [CPU -> Word]
  /\ op \in [CPU -> Op]
  /\ pc \in [CPU -> PC]

(* Mutual exclusion as the users of RWMutex rely on it: while one CPU is in *)
(* a write section no other CPU is in a read or a write section.           *)
Exclusion ==
  \A c, d \in CPU :
     pc[c] = "writing" /\ d # c => pc[d] \notin {"writing", "reading"}

(* No update of the word is lost to the unlocked read-modify-writes: the   *)
(* reader count is the number of readers, the wlock bit is set exactly     *)
(* while there is a writer, and slock while a CPU is between slock() and   *)
(* srelease().                                                             *)
WordAgrees ==
  /\ raw.rcnt = Cardinality(Readers)
  /\ raw.wlock = 1 <=> Writers # {}
  /\ raw.slock = 1 <=> Spinners # {}

(* The word is a reader/writer lock.                                       *)
Lock == INSTANCE RWLock WITH readers <- Readers, writers <- Writers
ImplementsRWLock == Lock!Spec

(* No CPU hangs in the spin loops while everybody else gives up the lock:  *)
(* when a CPU is inside wlock() or rlock(), some CPU sooner or later gets  *)
(* the lock (one CPU may starve, all of them may not).                     *)
SomebodyEnters ==
  (\E c \in CPU : op[c] \in {"wlock", "rlock"})
     ~> (\E c \in CPU : pc[c] \in {"writing", "reading"})

=============================================================================
