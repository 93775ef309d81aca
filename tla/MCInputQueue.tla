----------------------------- MODULE MCInputQueue ----------------------------
(* The instance of InputQueue that is model-checked: an offset beyond the  *)
(* data and a pause beyond the cap are among the requests.                 *)
EXTENDS InputQueue

MCOffsets == 0..MaxLen

ASSUME CapMatters == \E p, q \in Pauses : p < MaxPause /\ q > MaxPause
=============================================================================
