--------------------------- MODULE MCAppLifecycle ---------------------------
(* The configuration lets the memory be short for every buffer.            *)
EXTENDS AppLifecycle
=============================================================================
