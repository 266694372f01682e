------------------------------ MODULE UsageFeed -----------------------------
(***************************************************************************)
(* What the reader, the analyzer and the printer promise together: usage   *)
(* records that join without a gap come to the screen in their order, each *)
(* taken from the buffer at most once, and one that is never shown has     *)
(* given way to Capacity newer ones.  The screen is what is on it: nothing *)
(* is said of how often that is printed.  Pipeline.tla is shown to         *)
(* implement this module.                                                  *)
(***************************************************************************)
EXTENDS Integers, SequencesExt

CONSTANT Capacity   \* the newer records that may replace an older one

VARIABLES loaded,   \* how many samples were loaded; they are numbered
          basis,    \* the sample the next record starts from, 0 for none
          pending,  \* the records that are not shown yet, oldest first
          screen    \* the record shown

vars == <<loaded, basis, pending, screen>>

-----------------------------------------------------------------------------
Init == loaded = 0 /\ basis = 0 /\ pending = <<>> /\ screen = <<0, 0>>

Load == loaded' = loaded + 1 /\ UNCHANGED <<basis, pending, screen>>

\* The first sample; there may be older ones that are never used.
Begin == /\ basis = 0
         /\ basis' \in 1 .. loaded
         /\ UNCHANGED <<loaded, pending, screen>>

\* The record from basis to a later sample joins the others.
Join(others) == /\ basis # 0
                /\ basis' \in basis + 1 .. loaded
                /\ pending' = Append(others, <<basis, basis'>>)
                /\ UNCHANGED <<loaded, screen>>

Publish == Join(pending)

\* The pending records from the i-th on and the new one are too many.
PublishOver == \E i \in 1 .. Len(pending) : /\ Len(pending) - i + 1 >= Capacity
                                            /\ Join(RemoveAt(pending, i))

Show == /\ pending # <<>>
        /\ screen' = Head(pending)
        /\ pending' = Tail(pending)
        /\ UNCHANGED <<loaded, basis>>

Next == Load \/ Begin \/ Publish \/ PublishOver \/ Show

Spec == Init /\ [][Next]_vars
=============================================================================
