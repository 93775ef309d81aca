------------------------------- MODULE Mirror --------------------------------
(***************************************************************************)
(* How lines that scroll off the wrapped program's screen get into the     *)
(* scrollback archive (mirror.rs: process, park, harvest, and the parser   *)
(* rebuilds of start_view, end_view and host_resized).                     *)
(*                                                                         *)
(* vt100 keeps rows that scroll off in a staging buffer of Stage rows that *)
(* cannot be emptied.  The mirror counts new ones with a trick: parked at  *)
(* scrollback offset 1, every row that scrolls off moves the offset by     *)
(* one.  The alternate screen defers the count; a rebuild starts a new     *)
(* parser and with it a new staging buffer.                                *)
(*                                                                         *)
(* Lines are named 1, 2, ... in the order in which they leave the top of   *)
(* the model's screen, so the staging buffer holds the last `staged` of    *)
(* them.  vt100 is external: it is modelled by what mirror.rs relies on,   *)
(* among others that the primary screen's offset survives a stay on the    *)
(* alternate screen.                                                       *)
(*                                                                         *)
(* As in Session, an operator named X_Y is a seeded fault that no action   *)
(* uses.                                                                   *)
(***************************************************************************)
EXTENDS Naturals, Sequences, FiniteSets, Functions

CONSTANTS
    Stage,           \* STAGE_SCROLLBACK
    Slice,           \* screen events in a slice of PROCESS_SLICE bytes
    MaxLines,        \* bound: lines that leave the screen in one behaviour
    Heights,         \* rows of terminals and views
    None             \* no view

ASSUME MirrorAssumption ==
    /\ Stage \in Nat \ {0}
    /\ Slice \in Nat
    /\ MaxLines \in Nat
    /\ Heights \subseteq Nat \ {0}
    /\ None \notin Nat

VARIABLES
    pc,          \* "idle", or "slice" while the parser works on a slice
    left,        \* events left in the slice
    rows,        \* height of the parser's screen
    staged,      \* rows in its staging buffer
    offset,      \* scrollback offset of its primary screen
    alt,         \* the parser is on the alternate screen
    view,        \* height of the view, or None
    hostRows,    \* Mirror::host_rows
    parked,      \* Mirror::parked
    stagedSeen,  \* Mirror::staged_seen
    scrolled,    \* lines that have left the top of the screen
    archived,    \* every line ever pushed to the archive, evicted ones included
    discarded,   \* lines thrown away with a staging buffer
    appAlt       \* the program has switched to the alternate screen

parser == <<rows, staged, offset, alt>>
counter == <<parked, stagedSeen>>
ghosts == <<discarded, appAlt>>
vars == <<pc, left, view, hostRows, scrolled, archived, parser, counter, ghosts>>

Monus(m, n) == IF m <= n THEN 0 ELSE m - n
Least(m, n) == IF m <= n THEN m ELSE n

\* Lines a+1 .. b.
Lines(a, b) == [i \in 1..Monus(b, a) |-> a + i]

-----------------------------------------------------------------------------
(* Counting and archiving staged rows.                                     *)

\* park: arm the counter.
Park ==
    IF alt
    THEN UNCHANGED <<offset, parked>>
    ELSE IF ~parked /\ staged > 0
         THEN offset' = 1 /\ parked' = TRUE
         ELSE /\ offset' = IF parked THEN offset ELSE 0
              /\ UNCHANGED parked

\* Rows staged since the last harvest.
NewRows_Growth == Monus(staged, stagedSeen)
NewRows == IF parked THEN Monus(offset, 1) ELSE Monus(staged, stagedSeen)

\* archive_staged_rows: the newest of the staged rows, oldest first.
Unarchived == Lines(scrolled - Least(NewRows, staged), scrolled)

\* The archive and the counter after harvest.
HarvestedLines == IF alt THEN archived ELSE archived \o Unarchived
HarvestedSeen_Not == stagedSeen
HarvestedSeen == IF alt THEN stagedSeen ELSE staged

-----------------------------------------------------------------------------
(* process, slice by slice.                                                *)

BeginSlice ==
    /\ pc = "idle"
    /\ Park
    /\ pc' = "slice"
    /\ left' = Slice
    /\ UNCHANGED <<rows, staged, alt, view, hostRows, stagedSeen, scrolled, archived>>
    /\ UNCHANGED ghosts

Pending == (1..scrolled) \ (Range(archived) \cup discarded)

\* What process relies on ("small slices so that ... can't overflow the staging
\* buffer between drains"): fewer rows than the buffer holds wait for a harvest.
StagingPremise == Cardinality(Pending) < Stage - 1

\* A line leaves the top of the screen; the alternate screen keeps none.
Scroll ==
    /\ pc = "slice" /\ left > 0
    /\ ~alt
    /\ scrolled < MaxLines
    /\ StagingPremise
    /\ left' = left - 1
    /\ scrolled' = scrolled + 1
    /\ staged' = Least(Stage, staged + 1)
    /\ offset' = IF offset > 0 THEN Least(staged', offset + 1) ELSE 0
    /\ UNCHANGED <<pc, rows, alt, view, hostRows, archived, discarded, appAlt>>
    /\ UNCHANGED counter

\* The program switches screens.
SwitchScreen ==
    /\ pc = "slice" /\ left > 0
    /\ left' = left - 1
    /\ appAlt' = ~appAlt
    /\ alt' = appAlt'
    /\ UNCHANGED <<pc, rows, staged, offset, view, hostRows, scrolled, archived>>
    /\ UNCHANGED <<discarded, counter>>

\* The slice is parsed: harvest.
EndSlice ==
    /\ pc = "slice"
    /\ pc' = "idle"
    /\ left' = 0
    /\ archived' = HarvestedLines
    /\ stagedSeen' = HarvestedSeen
    /\ parked' = (alt /\ parked)
    /\ offset' = IF alt THEN offset ELSE 0
    /\ UNCHANGED <<rows, staged, alt, view, hostRows, scrolled>>
    /\ UNCHANGED ghosts

-----------------------------------------------------------------------------
(* Rebuilds and resizes.                                                   *)

\* The new parser of height h, and the counter reset to match it.
ResetSeen == 0
Rebuild(h) ==
    /\ rows' = h
    /\ staged' = 0 /\ offset' = 0
    /\ alt' = FALSE
    /\ parked' = FALSE
    /\ stagedSeen' = ResetSeen
    /\ discarded' = IF alt THEN discarded \cup Pending ELSE discarded

\* start_view, after flush_history_for_rebuild: a harvest, then the rows
\* above the crop, up to the last one that is not blank.
StartView(h) ==
    /\ pc = "idle"
    /\ \E crop \in 0..(IF alt THEN 0 ELSE Monus(rows, h)) :
          /\ scrolled + crop <= MaxLines
          /\ scrolled' = scrolled + crop
          /\ archived' = HarvestedLines \o Lines(scrolled, scrolled')
    /\ Rebuild(h)
    /\ view' = h
    /\ UNCHANGED <<pc, left, hostRows, appAlt>>

EndView ==
    /\ pc = "idle"
    /\ view # None
    /\ archived' = HarvestedLines
    /\ Rebuild(hostRows)
    /\ view' = None
    /\ UNCHANGED <<pc, left, hostRows, scrolled, appAlt>>

\* host_resized: without a view the parser is harvested and resized.
HostResized(h) ==
    /\ pc = "idle"
    /\ hostRows' = h
    /\ IF view = None
       THEN /\ archived' = HarvestedLines
            /\ stagedSeen' = HarvestedSeen
            /\ parked' = (alt /\ parked)
            /\ offset' = IF alt THEN offset ELSE 0
            /\ rows' = h
       ELSE UNCHANGED <<archived, offset, rows, counter>>
    /\ UNCHANGED <<pc, left, view, staged, alt, scrolled>>
    /\ UNCHANGED ghosts

-----------------------------------------------------------------------------
Init ==
    /\ pc = "idle" /\ left = 0
    /\ hostRows \in Heights
    /\ rows = hostRows
    /\ staged = 0 /\ offset = 0 /\ alt = FALSE
    /\ view = None
    /\ parked = FALSE /\ stagedSeen = 0
    /\ scrolled = 0 /\ archived = << >> /\ discarded = {}
    /\ appAlt = FALSE

Next ==
    \/ BeginSlice
    \/ Scroll
    \/ SwitchScreen
    \/ EndSlice
    \/ \E h \in Heights : StartView(h) \/ HostResized(h)
    \/ EndView

Spec == Init /\ [][Next]_vars

-----------------------------------------------------------------------------
(* Correctness.                                                            *)

Promise == INSTANCE Scrollback WITH left <- scrolled, log <- archived

\* The capture implements Scrollback: across full staging buffers, deferred
\* harvests, crops and rebuilds no step drops, repeats, reorders or rewrites
\* an archived line.  history.rs:1-3 calls the archive an "append-only
\* sequence with stable line indices".
ArchiveAppends == Promise!Spec

\* Whenever the program is back on the primary screen, every line that left
\* it has been archived, except those a rebuild on the alternate screen threw
\* away; a view start on the primary screen loses nothing.
NothingForgotten ==
    pc = "idle" /\ ~alt => Range(archived) \cup discarded = 1..scrolled

=============================================================================
