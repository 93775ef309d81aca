----------------------------- MODULE InputStream -----------------------------
(***************************************************************************)
(* What the wrapper promises about input from its clients (PROTOCOL.md,    *)
(* `input`): the bytes reach the wrapped program in the order they were    *)
(* sent, each at most once, however they are delayed, and a byte is left   *)
(* out only when the write of a range that holds it fails.  A byte is      *)
(* named by its position in the order in which the wrapper received it.    *)
(***************************************************************************)
EXTENDS Naturals, Sequences

VARIABLES
    sent,     \* bytes received from clients
    settled,  \* bytes whose turn has come: the first `settled` ones
    stream,   \* bytes the program was given, in order
    lost      \* bytes whose write failed

vars == <<sent, settled, stream, lost>>

\* The bytes m+1 .. n, in order.
Run(m, n) == [i \in 1..(n - m) |-> m + i]

Init ==
    /\ sent = 0
    /\ settled = 0
    /\ stream = << >>
    /\ lost = {}

Send ==
    /\ sent' \in Nat /\ sent' >= sent
    /\ UNCHANGED <<settled, stream, lost>>

\* The next bytes, up to m, are written; if that fails, only those up to n.
Write ==
    /\ \E m \in settled..sent : \E n \in settled..m :
          /\ settled' = m
          /\ stream' = stream \o Run(settled, n)
          /\ lost' = lost \cup (n + 1)..m
    /\ UNCHANGED sent

Next == Send \/ Write

Spec == Init /\ [][Next]_vars
=============================================================================
