------------------------------ MODULE MCLogger ------------------------------
(* The logger with two clients and short buffers.                          *)
EXTENDS Logger
=============================================================================
