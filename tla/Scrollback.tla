----------------------------- MODULE Scrollback ------------------------------
(***************************************************************************)
(* What the wrapper promises about its scrollback (history.rs, the         *)
(* module's opening comment): an append-only sequence of the lines that    *)
(* scrolled off the screen, each at most once and in the order in which    *)
(* they left, so that a line's index never changes.  A line is named by    *)
(* its position in that order.                                             *)
(***************************************************************************)
EXTENDS Naturals, Sequences

VARIABLES
    left,   \* lines that have left the top of the screen
    log     \* the archive, evicted lines included

vars == <<left, log>>

Increasing(s) == \A i \in 1..Len(s) - 1 : s[i] < s[i + 1]

Init ==
    /\ left = 0
    /\ log = << >>

ScrollOff == left' \in Nat /\ left' >= left

Kept ==
    /\ Len(log) <= Len(log')
    /\ SubSeq(log', 1, Len(log)) = log
    /\ Increasing(log')
    /\ \A i \in 1..Len(log') : log'[i] \in 1..left'

Next == ScrollOff /\ Kept

Spec == Init /\ [][Next]_vars
=============================================================================
