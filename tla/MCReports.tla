------------------------------ MODULE MCReports ------------------------------
(* The instance of Reports that is model-checked: bells and output for the *)
(* first Horizon ticks, then room for every held bell to fall due.         *)
EXTENDS Reports

ASSUME RoomForTrailingEdge == MaxTime >= Horizon + 2 * BellWindow
=============================================================================
