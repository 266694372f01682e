----------------------------- MODULE MCTimespec -----------------------------
(* Seconds of four nanoseconds, or of two milliseconds.                    *)
EXTENDS TimespecCalls

SmallTimes == (0 .. 1) \X (0 .. 3)
SmallWaits == 0 .. 5
=============================================================================
