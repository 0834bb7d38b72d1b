----------------------------- MODULE KeyQueue -----------------------------
(* What the keyboard ring buffer promises: a bounded FIFO.  A character is *)
(* delivered once, in the order typed; it is lost only if the queue is     *)
(* full when it is typed.                                                  *)
EXTENDS Naturals, Sequences

CONSTANTS Char, Capacity

VARIABLES
  queue,     \* characters typed and not yet delivered
  taken,     \* the last character delivered
  dropped    \* 1 if the last character typed found the queue full

Init == queue = <<>> /\ taken \in Char /\ dropped = 0

Put(c) ==
  /\ Len(queue) < Capacity
  /\ queue' = Append(queue, c)
  /\ dropped' = 0 /\ UNCHANGED taken

Drop ==
  /\ Len(queue) = Capacity
  /\ dropped' = 1 /\ UNCHANGED <<queue, taken>>

Get ==
  /\ queue # <<>>
  /\ taken' = Head(queue) /\ queue' = Tail(queue)
  /\ UNCHANGED dropped

Next == (\E c \in Char : Put(c)) \/ Drop \/ Get

Spec == Init /\ [][Next]_<<queue, taken, dropped>>
=============================================================================
