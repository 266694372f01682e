----------------------------- MODULE MCWatchdog -----------------------------
(* The watchdog with two workers.                                          *)
EXTENDS Watchdog
=============================================================================
