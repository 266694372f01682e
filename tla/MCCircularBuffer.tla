-------------------------- MODULE MCCircularBuffer --------------------------
(* The circular buffer on a small instance.                                *)
EXTENDS CircularBuffer
=============================================================================
