------------------------------ MODULE MCServer -------------------------------
(* Constants for model-checking Server: one token restricted by directory  *)
(* and title, the others unrestricted.                                     *)
EXTENDS Server

CONSTANTS d1, shown, busy, home

MCCwd == [s \in Sockets |-> home]
MCFilter == [d \in Devices |->
    IF d = d1 THEN {[path |-> {home}, windowtitle |-> {shown, busy}]} ELSE {}]
=============================================================================
