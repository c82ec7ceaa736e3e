------------------------------ MODULE RunQueue ------------------------------
(***************************************************************************)
(* What a round-robin scheduler promises: runnable threads wait in one     *)
(* FIFO queue, a CPU that switches takes the head and puts the thread it   *)
(* was running at the tail, and a thread leaves only by terminating.       *)
(***************************************************************************)
EXTENDS Sequences

CONSTANTS CPU, Thread, Null

VARIABLES queue,    \* the runnable threads, in the order they will run
          current   \* current[c]: the thread of CPU c, or Null

vars == <<queue, current>>

Init == queue = <<>> /\ current = [c \in CPU |-> Null]

Enqueue(t) ==
  /\ t \notin {queue[i] : i \in DOMAIN queue} \cup {current[c] : c \in CPU}
  /\ queue' = Append(queue, t)
  /\ UNCHANGED current

Switch(c) ==
  /\ queue # <<>>
  /\ current' = [current EXCEPT ![c] = Head(queue)]
  /\ queue' = IF current[c] = Null THEN Tail(queue)
              ELSE Append(Tail(queue), current[c])

Terminate(c) ==
  /\ current[c] # Null
  /\ current' = [current EXCEPT ![c] = Null]
  /\ UNCHANGED queue

Next ==
  \/ \E t \in Thread : Enqueue(t)
  \/ \E c \in CPU : Switch(c) \/ Terminate(c)

Spec == Init /\ [][Next]_vars
=============================================================================
