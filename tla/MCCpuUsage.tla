----------------------------- MODULE MCCpuUsage -----------------------------
(* Narrow counters that start right after or right before they wrap.       *)
EXTENDS CpuUsage

MCStarts == {0, W - 1}
=============================================================================
