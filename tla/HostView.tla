------------------------------- MODULE HostView ------------------------------
(***************************************************************************)
(* What the host terminal shows while a device views (mirror.rs): the live *)
(* region at the bottom of its screen, the history zone above it, and the  *)
(* native scrollback, which the mirror feeds by really scrolling the       *)
(* terminal.                                                               *)
(*                                                                         *)
(* A row of a screen is the number of what it shows: rows are numbered in  *)
(* the order in which they are written, 0 is a blank one.  The terminal is *)
(* external: a record of its scrollback and its rows, with one operator    *)
(* per escape sequence that the mirror sends.  A shrinking terminal pushes *)
(* its top rows into its scrollback (the cursor is near the bottom), a     *)
(* growing one adds blank rows or takes rows back from there.  It resizes  *)
(* itself at once, and the mirror learns of it in a later turn of the      *)
(* event loop (SIGWINCH): what is drawn in between is laid out for the old *)
(* height.  It scrolls the terminal by some rows and leaves an unknown     *)
(* screen, here a blank one, so what the zone held counts as lost.         *)
(*                                                                         *)
(* As in Session, an operator named X_Y is a seeded fault that no action   *)
(* uses.                                                                   *)
(***************************************************************************)
EXTENDS Naturals, Sequences, FiniteSetsExt, Functions

CONSTANTS
    Heights,      \* rows of terminals and views
    MaxLines,     \* bound: rows written in one behaviour
    MaxTurns,     \* bound: view changes, resizes and refreshes
    HistoryLimit, \* lines that the archive retains: --scrollback
    MaxScroll,    \* bound: rows scrolled by what is drawn for another height
    None          \* no view

ASSUME HostViewAssumption ==
    /\ Heights \subseteq Nat \ {0} /\ Heights # {}
    /\ MaxLines \in Nat /\ MaxTurns \in Nat /\ MaxScroll \in Nat
    /\ HistoryLimit \in Nat
    /\ None \notin Nat

VARIABLES
    model,        \* rows of Mirror::parser's screen
    shadow,       \* rows of Mirror::shadow's screen
    view,         \* height of the view, or None
    hostRows,     \* Mirror::host_rows
    zoneDirty,    \* Mirror::zone_dirty
    term,         \* the host terminal: its scrollback `back` and its `rows`
    resized,      \* it has resized itself and SIGWINCH is not handled yet
    written,      \* rows written so far
    mirrored,     \* lines archived by `process` while viewing, in order
    lost,         \* lines of these that the code is known to lose
    turns,
    running       \* the wrapper has not exited

mirrorState == <<model, shadow, view, hostRows, zoneDirty>>
vars == <<mirrorState, term, resized, written, mirrored, lost, turns, running>>

Blanks(n) == [i \in 1..n |-> 0]
Less(m, n) == IF m <= n THEN 0 ELSE m - n
Least(m, n) == IF m <= n THEN m ELSE n
Top(s, n) == SubSeq(s, 1, n)
Bottom(s, n) == SubSeq(s, Len(s) - n + 1, Len(s))
From(s, i) == SubSeq(s, i, Len(s))

-----------------------------------------------------------------------------
(* The host terminal.                                                      *)

\* Newlines on the last row.
Newlines(t, n) ==
    LET all == t.rows \o Blanks(n)
    IN  [back |-> t.back \o Top(all, n), rows |-> From(all, n + 1)]

\* DL: rows after the first `at` go, without reaching the scrollback.
DeleteLines(t, at, n) ==
    [t EXCEPT !.rows = Top(@, at) \o From(@, at + n + 1) \o Blanks(n)]

\* Flowing text, from row `at` on; it scrolls where it does not fit.
Flow(t, at, text) ==
    LET all == Top(t.rows, at) \o text
        up == Less(Len(all), Len(t.rows))
    IN  [back |-> t.back \o Top(all, up),
         rows |-> From(all, up + 1) \o From(t.rows, Len(all) + 1)]

\* Positioned rows.
Paint(t, at, text) ==
    [t EXCEPT !.rows = Top(@, at) \o text \o From(@, at + Len(text) + 1)]

Clear(t) == [t EXCEPT !.rows = Blanks(Len(@))]

\* The user resizes the terminal; p rows come back from the scrollback.
Resized(t, h, p) ==
    LET n == Len(t.rows)
    IN  IF h <= n
        THEN [back |-> t.back \o Top(t.rows, n - h), rows |-> Bottom(t.rows, h)]
        ELSE [back |-> Top(t.back, Len(t.back) - p),
              rows |-> Bottom(t.back, p) \o t.rows \o Blanks(h - n - p)]

\* What the mirror or the program draws: t, on a terminal of the height it is
\* meant for.
Garbled(n) == [back |-> term.back \o Blanks(n), rows |-> Blanks(Len(term.rows))]
Draws(t) ==
    IF resized THEN \E n \in 0..MaxScroll : term' = Garbled(n) ELSE term' = t

-----------------------------------------------------------------------------
(* The layout: where the region starts, what it shows, what it hides.      *)

RegionRows(v, h) == Least(v, h)
Offset(v, h) == h - RegionRows(v, h)
Crop(v, h) == Less(v, h)

Visible(rows, h) == From(rows, Crop(Len(rows), h) + 1)
Hidden(rows, h) == Top(rows, Crop(Len(rows), h))

\* push_crop_to_host_scrollback: batches of hidden rows are painted over the
\* top and scrolled out.  A full repaint of all rows follows.
PushCrop(t, rows, h) == [t EXCEPT !.back = @ \o Hidden(rows, h)]

\* push_zone_to_host_scrollback.
PushZone_Clean(t, v, h) == t
PushZone(t, v, h) == IF zoneDirty THEN Newlines(t, Offset(v, h)) ELSE t

\* render_rows, in full and as a diff from what was rendered last.
RenderFull(t, rows, h) == Paint(t, Offset(Len(rows), h), Visible(rows, h))
RenderDiff_Unanchored(t, rows, prev, h) ==
    [t EXCEPT !.rows = [i \in DOMAIN @ |->
        IF i \in DOMAIN Visible(rows, h) /\ rows[i] # prev[i] THEN rows[i] ELSE @[i]]]
RenderDiff(t, rows, prev, h) ==
    LET at == Offset(Len(rows), h)
        new == Visible(rows, h)
        old == Visible(prev, h)
    IN  [t EXCEPT !.rows = [i \in DOMAIN @ |->
            IF i > at /\ new[i - at] # old[i - at] THEN new[i - at] ELSE @[i]]]

-----------------------------------------------------------------------------
(* Output of the program.                                                  *)

\* Lines in the history zone of the host's screen.
Zone == IF view = None THEN << >> ELSE Top(term.rows, Offset(view, Len(term.rows)))

\* Those of s that scrolled off while viewing: what else s shows is not history.
Lines(s) == Range(s) \cap Range(mirrored)

\* A dirty zone does not outlive what is drawn for another height.
LostToDelay == IF resized /\ zoneDirty THEN Lines(Zone) ELSE {}

Fresh(n) == [i \in 1..n |-> written + i]

\* The newest of `lines`: what the archive still holds of them (History::tail).
Retained(lines) == Bottom(lines, Least(Len(lines), HistoryLimit))
Evicted(lines) == Range(Top(lines, Less(Len(lines), HistoryLimit)))

\* The text of `lines`; one that is wider than the host takes two rows.
Wrapped(lines, wide) ==
    IF wide /\ lines # << >> THEN <<lines[1]>> \o lines ELSE lines

\* Newlines that move n new lines out of the region.
ClearingScroll(n, region) == Least(n, region)

\* The host's part of `process` when n lines scrolled off: `text` flows over
\* the deleted region, the terminal scrolls, the region is repainted.
ScrollHost(n, text, rows) ==
    LET at == Offset(view, hostRows)
        region == RegionRows(view, hostRows)
        flowed == Flow(DeleteLines(term, at, region), at, text)
        clear == Newlines(flowed, ClearingScroll(n, region))
    IN  RenderFull(clear, rows, hostRows)

\* Where a line takes two rows, the newest row of text may still be in the
\* region when that is repainted.
LostToWrap(n, text, region) ==
    IF Least(Len(text), region) > ClearingScroll(n, region)
    THEN {text[Len(text)]} ELSE {}

\* n lines scroll off the model.
Scrolls(n, wide) ==
    LET all == model \o Fresh(n)
        lines == Top(all, n)
        text == Wrapped(Retained(lines), wide)
    IN  /\ running /\ n > 0 /\ written + n <= MaxLines
        /\ written' = written + n
        /\ model' = From(all, n + 1)
        /\ IF view = None
           THEN /\ Draws(Flow(term, hostRows, Fresh(n)))
                /\ UNCHANGED <<shadow, zoneDirty, mirrored, lost>>
           ELSE /\ Draws(ScrollHost(n, text, model'))
                /\ shadow' = model'
                /\ zoneDirty' = TRUE
                /\ mirrored' = mirrored \o lines
                /\ lost' = lost \cup
                     (IF resized THEN LostToDelay \cup Range(lines)
                      ELSE Evicted(lines)
                           \cup LostToWrap(n, text, RegionRows(view, hostRows)))
        /\ UNCHANGED <<view, hostRows, resized, turns, running>>

\* The program rewrites one row.
Edits(r) ==
    /\ running /\ written < MaxLines
    /\ written' = written + 1
    /\ model' = [model EXCEPT ![r] = written']
    /\ IF view = None
       THEN /\ Draws([term EXCEPT !.rows[r] = written'])
            /\ UNCHANGED shadow
       ELSE /\ Draws(RenderDiff(term, model', shadow, hostRows))
            /\ shadow' = model'
    /\ lost' = lost \cup LostToDelay
    /\ UNCHANGED <<view, hostRows, zoneDirty, resized, mirrored, turns, running>>

-----------------------------------------------------------------------------
(* View changes, resizes, refreshes.                                       *)

Turn == running /\ turns < MaxTurns /\ turns' = turns + 1

\* The snapshot a view of height v starts from.
SnapshotRows(v) ==
    IF Len(model) >= v THEN Bottom(model, v) ELSE model \o Blanks(v - Len(model))

\* A view that starts while another one is on forgets that the zone was dirty.
StartView(v) ==
    /\ Turn
    /\ model' = SnapshotRows(v)
    /\ shadow' = model'
    /\ view' = v
    /\ zoneDirty' = FALSE
    /\ Draws(RenderFull(PushCrop(term, model', hostRows), model', hostRows))
    /\ lost' = IF zoneDirty THEN lost \cup Lines(Zone) ELSE lost
    /\ UNCHANGED <<hostRows, resized, written, mirrored, running>>

EndView ==
    /\ Turn /\ view # None
    /\ Draws(Clear(PushZone(term, view, hostRows)))
    /\ zoneDirty' = FALSE
    /\ view' = None
    /\ shadow' = << >>
    /\ model' = Blanks(hostRows)
    /\ lost' = lost \cup LostToDelay
    /\ UNCHANGED <<hostRows, resized, written, mirrored, running>>

\* A terminal that grew has taken p rows back from its scrollback: only those
\* in a dirty zone are pushed again, the others are painted over by the mirror
\* or, without a view, left to the program.
LostToGrowth(h, p) ==
    LET back == Bottom(term.back, p)
    IN  Lines(IF view # None /\ zoneDirty THEN From(back, Offset(view, h) + 1) ELSE back)

\* The user gives the host's terminal another height, which changes it at once.
TerminalResizes(h, p) ==
    /\ Turn /\ h # Len(term.rows)
    /\ p <= Less(h, Len(term.rows)) /\ p <= Len(term.back)
    /\ term' = Resized(term, h, p)
    /\ resized' = TRUE
    /\ lost' = lost \cup LostToGrowth(h, p)
    /\ UNCHANGED <<mirrorState, written, mirrored, running>>

\* SIGWINCH is handled: host_resized, with the height the terminal has by now.
HostResized ==
    LET h == Len(term.rows)
        cleared == Clear(PushCrop(PushZone(term, view, h), model, h))
    IN  /\ running /\ resized
        /\ resized' = FALSE
        /\ hostRows' = h
        /\ IF view = None
           THEN /\ model' = Top(model \o Blanks(Less(h, Len(model))), h)
                /\ UNCHANGED <<term, zoneDirty>>
           ELSE /\ term' = RenderFull(cleared, model, h)
                /\ zoneDirty' = FALSE
                /\ UNCHANGED model
        /\ UNCHANGED <<shadow, view, written, mirrored, lost, turns, running>>

\* Ctrl+L.
RefreshScrollback ==
    /\ Turn /\ view # None
    /\ Draws(RenderFull(PushCrop(term, model, hostRows), model, hostRows))
    /\ lost' = lost \cup LostToDelay
    /\ UNCHANGED <<mirrorState, resized, written, mirrored, running>>

\* The program exits: cleanup.
Cleanup ==
    /\ running
    /\ running' = FALSE
    /\ IF view = None
       THEN UNCHANGED <<term, lost>>
       ELSE /\ Draws(Newlines(PushZone(term, view, hostRows), 1))
            /\ lost' = lost \cup LostToDelay
    /\ UNCHANGED <<mirrorState, resized, written, mirrored, turns>>

-----------------------------------------------------------------------------
Init ==
    /\ hostRows \in Heights
    /\ model = Blanks(hostRows) /\ shadow = << >>
    /\ view = None /\ zoneDirty = FALSE
    /\ term = [back |-> << >>, rows |-> Blanks(hostRows)]
    /\ resized = FALSE
    /\ written = 0 /\ mirrored = << >> /\ lost = {}
    /\ turns = 0 /\ running = TRUE

Next ==
    \/ \E n \in 1..MaxLines, wide \in BOOLEAN : Scrolls(n, wide)
    \/ \E r \in DOMAIN model : Edits(r)
    \/ \E v \in Heights : StartView(v)
    \/ EndView
    \/ \E h \in Heights, p \in 0..MaxLines : TerminalResizes(h, p)
    \/ HostResized
    \/ RefreshScrollback
    \/ Cleanup

Spec == Init /\ [][Next]_vars

-----------------------------------------------------------------------------
(* Correctness.                                                            *)

\* The live region shows the bottom of the view's screen, row for row, after
\* any mix of scrolls, diffs, view changes, host resizes and refreshes, but
\* while a resize of the host has not been handled yet.
HostShowsModel ==
    running /\ view # None /\ ~resized =>
        From(term.rows, Offset(view, hostRows) + 1) = Visible(model, hostRows)

\* Where l is found in t after place n; one place further than t if nowhere.
FoundAt(t, l, n) == Min({j \in (n + 1)..Len(t) : t[j] = l} \cup {Len(t) + 1})

\* The lines of s that are neither blank nor lost are found in t, in order.
Keeps(s, t) ==
    LET place[i \in 0..Len(s)] ==
            IF i = 0 THEN 0
            ELSE IF s[i] = 0 \/ s[i] \in lost THEN place[i - 1]
            ELSE FoundAt(t, s[i], place[i - 1])
    IN  place[Len(s)] <= Len(t)

\* "Mirror the scroll for real on the host so its native scrollback
\* accumulates": every line that scrolled off while viewing is in the host's
\* scrollback or in the history zone, in order, for ever after.  The
\* exceptions are the five the README describes: lines of a batch that the
\* archive's limit has already evicted, the newest line of a batch with one
\* wider than the host, a dirty zone when another view starts, lines the
\* terminal took back out of its scrollback when it grew, and what the zone
\* held or received while a resize of the host was not handled yet.
HostScrollback == Keeps(mirrored, term.back \o Zone)
=============================================================================
