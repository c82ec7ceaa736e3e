------------------------------- MODULE RWLock -------------------------------
(***************************************************************************)
(* What a reader/writer lock promises its users: any number of readers, or *)
(* one writer and nobody else.  RWMutex.tla is shown to implement it.      *)
(***************************************************************************)
CONSTANT CPU

VARIABLES readers,  \* the CPUs that hold the lock shared
          writers   \* the CPUs that hold the lock exclusively

vars == <<readers, writers>>

Init == readers = {} /\ writers = {}

RLock(c) ==
  /\ writers = {} /\ c \notin readers
  /\ readers' = readers \cup {c}
  /\ UNCHANGED writers

WLock(c) ==
  /\ writers = {} /\ readers = {}
  /\ writers' = {c}
  /\ UNCHANGED readers

RRelease(c) ==
  /\ c \in readers
  /\ readers' = readers \ {c}
  /\ UNCHANGED writers

WRelease(c) ==
  /\ c \in writers
  /\ writers' = {}
  /\ UNCHANGED readers

Next == \E c \in CPU : RLock(c) \/ WLock(c) \/ RRelease(c) \/ WRelease(c)

Spec == Init /\ [][Next]_vars
=============================================================================
