------------------------------ MODULE MCSession ------------------------------
(* Constants for model-checking Session.                                   *)
EXTENDS Session

CONSTANTS s1, s2

MCSizes == {s1, s2}
MCRanks == {0, 1}
=============================================================================
