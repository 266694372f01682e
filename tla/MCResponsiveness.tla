-------------------------- MODULE MCResponsiveness --------------------------
(* A tick is an eighth of a second.                                        *)
EXTENDS Responsiveness

MCSpurious == {"waitRoom", "waitOut"}
=============================================================================
