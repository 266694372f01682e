----------------------------- MODULE MCProcStat -----------------------------
(* Files of three to seven lines, of which the buffer holds four and a     *)
(* half: with four or five processors online the file is cut.              *)
EXTENDS ProcStat

MCProcessor == 0 .. 4
=============================================================================
