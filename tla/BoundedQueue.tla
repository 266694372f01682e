---------------------------- MODULE BoundedQueue ----------------------------
(***************************************************************************)
(* What a circular buffer promises its callers: a first-in first-out queue *)
(* of at most Capacity items in which a write to a full queue replaces the *)
(* oldest item.  The struct of libs/circbuf/circbuf.c is shown to          *)
(* implement this module by CircularBuffer.tla.                            *)
(***************************************************************************)
EXTENDS Naturals, Sequences, QueueOps

CONSTANTS Item,       \* the values a slot can hold
          Capacity    \* the most items the queue holds at once

VARIABLES queue,      \* the items, oldest first
          out         \* what the current call has copied to its caller

vars == <<queue, out>>

-----------------------------------------------------------------------------
Init == queue = <<>> /\ out = <<>>

Write(x) == queue' = Push(queue, Capacity, x) /\ UNCHANGED out

\* An item handed out starts the caller's output or continues it.
Deliver(x) == out' \in {<<x>>, Append(out, x)}

Read == queue # <<>> /\ queue' = Tail(queue) /\ Deliver(Head(queue))

Peek == queue # <<>> /\ UNCHANGED queue /\ Deliver(Head(queue))

\* A call that delivers nothing, or the start of one that delivers several.
NoItem == out' = <<>> /\ UNCHANGED queue

\* Clearing the queue, destroying it or creating it anew.
Clear == queue' = <<>> /\ UNCHANGED out

Next == \/ \E x \in Item : Write(x)
        \/ Read
        \/ Peek
        \/ NoItem
        \/ Clear

Spec == Init /\ [][Next]_vars
=============================================================================
