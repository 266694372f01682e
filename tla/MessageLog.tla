----------------------------- MODULE MessageLog -----------------------------
(***************************************************************************)
(* What a log with a buffer promises: the messages are written in the      *)
(* order in which they were logged, none twice, and one that is not        *)
(* written has given way to Capacity newer ones.  logger.c is shown to     *)
(* implement this module by Logger.tla, as long as Log is prompt.          *)
(***************************************************************************)
EXTENDS Integers, SequencesExt

CONSTANT Capacity   \* the newer messages that may replace an older one

VARIABLES logged,   \* how many messages were logged; they are numbered
          pending,  \* the messages that are not written yet, oldest first
          written   \* those that are

vars == <<logged, pending, written>>

-----------------------------------------------------------------------------
Init == logged = 0 /\ pending = <<>> /\ written = <<>>

Log == /\ logged' = logged + 1
       /\ pending' = Append(pending, logged + 1)
       /\ UNCHANGED written

\* The pending messages from the i-th on and the new one are too many.
LogOver == /\ logged' = logged + 1
           /\ \E i \in 1 .. Len(pending) :
                /\ Len(pending) - i + 1 >= Capacity
                /\ pending' = Append(RemoveAt(pending, i), logged + 1)
           /\ UNCHANGED written

Write == /\ \E n \in 1 .. Len(pending) :
              /\ written' = written \o SubSeq(pending, 1, n)
              /\ pending' = SubSeq(pending, n + 1, Len(pending))
         /\ UNCHANGED logged

Next == Log \/ LogOver \/ Write

Spec == Init /\ [][Next]_vars
=============================================================================
