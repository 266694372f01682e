------------------------------ MODULE QueueOps ------------------------------
(***************************************************************************)
(* The queue that libs/circbuf/circbuf.c implements, as operators on       *)
(* sequences, for the modules of the threads that use it.                  *)
(***************************************************************************)
EXTENDS Naturals, Sequences

\* The queue q of capacity cap after a write that may replace the oldest item.
Push(q, cap, x) == IF Len(q) < cap THEN Append(q, x) ELSE Append(Tail(q), x)

\* A queue of capacity cap can take an item without losing one.
Room(q, cap) == Len(q) < cap
=============================================================================
