-------------------------------- MODULE Viewer -------------------------------
(***************************************************************************)
(* The device viewer (bin/g2mirror-view.rs) against the relay of the       *)
(* server (bin/g2mirror-server.rs, handle_device_message): a list, attach, *)
(* the splice of history, snapshot and live output, and detach.            *)
(*                                                                         *)
(* Messages travel through two channels that keep their order, `up` and    *)
(* `down`.  The server forwards to the attached session and the session    *)
(* answers in the same step; what Session says of a wrapper is reduced to  *)
(* one viewer's share: a greeting, a snapshot when it asks for one or      *)
(* another viewer's size takes effect, and one output per change.  The     *)
(* greeting, which the server relays in a later turn of its select!, is    *)
(* thus relayed in the step that connects; and the terminal hands over one *)
(* key at a time, never several Enters in one read.                        *)
(*                                                                         *)
(* The output of a session is numbered.  A snapshot holds all of it up to  *)
(* `pos`, and the archive then holds the lines before `next`; a reply to a *)
(* history request holds the lines before `next`.                          *)
(*                                                                         *)
(* As in Session, an operator named X_Y is a seeded fault that no action   *)
(* uses.                                                                   *)
(***************************************************************************)
EXTENDS Naturals, Sequences

CONSTANTS
    Sockets,      \* the sessions in the list
    None,         \* no session
    MaxKeys,      \* bound: keys that the user presses
    MaxOutput,    \* bound: output of a session while it is viewed
    MaxResizes    \* bound: snapshots that another viewer causes

ASSUME ViewerAssumption ==
    /\ None \notin Sockets
    /\ MaxKeys \in Nat /\ MaxOutput \in Nat /\ MaxResizes \in Nat

VARIABLES
    mode,        \* App::mode: "list", "connecting", "await", "fetching", "live"
    snapshot,    \* Mode::FetchingHistory: the snapshot to splice to
    pending,     \* and the output that came since
    skip,        \* and how many history replies are stale
    mirror,      \* Mode::Live: what the local mirror shows
    printed,     \* Mode::Live: the history before the first live screen
    selected,    \* the session last chosen from the list
    up,          \* messages on their way to the server
    down,        \* messages on their way to the viewer
    session,     \* the server's session for this device, or None
    viewing,     \* the session has seen `view` from it
    alive,       \* sessions that have not ended
    pos, next,   \* per session: output so far, lines in the archive
    keys, resizes,
    overtaken    \* a session was chosen while an earlier answer was under way

app == <<mode, snapshot, pending, skip, mirror, printed, selected>>
relay == <<session, viewing>>
wrapper == <<alive, pos, next, resizes>>
vars == <<app, up, down, relay, wrapper, keys, overtaken>>

Modes == {"list", "connecting", "await", "fetching", "live"}

\* Every message has the same fields; those its type has no use for are zero.
Msg(type, s, p, n) == [type |-> type, socket |-> s, pos |-> p, next |-> n]
Plain(type) == Msg(type, None, 0, 0)
Screen(s, p, n) == [socket |-> s, pos |-> p, next |-> n]
Nothing == Screen(None, 0, 0)
NoSplice == [history |-> Nothing, screen |-> Nothing]

-----------------------------------------------------------------------------
(* The user.                                                               *)

Key == keys < MaxKeys /\ keys' = keys + 1
Send(msgs) == up' = up \o msgs

Quiet == up = <<>> /\ down = <<>>

\* Enter on a session of the list.
Enter(s) ==
    /\ Key /\ mode = "list"
    /\ mode' = "connecting"
    /\ selected' = s
    /\ overtaken' = (overtaken \/ ~Quiet)
    /\ Send(<<Msg("connect", s, 0, 0)>>)
    /\ UNCHANGED <<snapshot, pending, skip, mirror, printed, down, relay, wrapper>>

\* Ctrl+D before the terminal is live: the list comes with `disconnected`.
Abort ==
    /\ Key /\ mode \in {"connecting", "await", "fetching"}
    /\ Send(<<Plain("disconnect")>>)
    /\ UNCHANGED <<app, down, relay, wrapper, overtaken>>

\* Ctrl+D in a live terminal: back to the list without waiting.
Detach ==
    /\ Key /\ mode = "live"
    /\ mode' = "list"
    /\ mirror' = Nothing /\ printed' = NoSplice
    /\ Send(<<Plain("unview"), Plain("disconnect")>>)
    /\ UNCHANGED <<snapshot, pending, skip, selected, down, relay, wrapper, overtaken>>

Type ==
    /\ Key /\ mode = "live"
    /\ Send(<<Plain("input")>>)
    /\ UNCHANGED <<app, down, relay, wrapper, overtaken>>

-----------------------------------------------------------------------------
(* The server: one message of the device.                                  *)

Reply(msgs) == down' = down \o msgs

ServerHandles(m) ==
    \/ /\ m.type = "connect" /\ m.socket \in alive
       /\ session' = m.socket
       /\ viewing' = FALSE
       /\ Reply(<<Msg("connect", m.socket, 0, 0)>>)
    \/ /\ m.type = "connect" /\ m.socket \notin alive
       /\ Reply(<<Plain("error")>>)
       /\ UNCHANGED relay
    \/ /\ m.type = "disconnect"
       /\ session' = None /\ viewing' = FALSE
       /\ Reply(<<Plain("disconnected")>>)
    \/ /\ m.type \notin {"connect", "disconnect"} /\ session = None
       /\ Reply(<<Plain("error")>>)
       /\ UNCHANGED relay
    \/ /\ m.type = "view" /\ session # None
       /\ viewing' = TRUE
       /\ Reply(<<Msg("snapshot", session, pos[session], next[session])>>)
       /\ UNCHANGED session
    \/ /\ m.type = "unview" /\ session # None
       /\ viewing' = FALSE
       /\ UNCHANGED <<session, down>>
    \/ /\ m.type = "history" /\ session # None
       /\ Reply(<<Msg("history_lines", session, 0, m.next)>>)
       /\ UNCHANGED relay
    \/ /\ m.type = "input" /\ session # None
       /\ UNCHANGED <<relay, down>>

ServerStep ==
    /\ up # <<>>
    /\ up' = Tail(up)
    /\ ServerHandles(Head(up))
    /\ UNCHANGED <<app, wrapper, keys, overtaken>>

-----------------------------------------------------------------------------
(* The sessions.                                                           *)

\* The viewed program writes; a line may scroll into the archive.
Output ==
    /\ viewing /\ pos[session] < MaxOutput
    /\ pos' = [pos EXCEPT ![session] = @ + 1]
    /\ \E n \in {0, 1} : next' = [next EXCEPT ![session] = @ + n]
    /\ Reply(<<Msg("output", session, pos'[session], 0)>>)
    /\ UNCHANGED <<app, up, relay, alive, resizes, keys, overtaken>>

\* Another viewer's size takes effect.
Resize ==
    /\ viewing /\ resizes < MaxResizes
    /\ resizes' = resizes + 1
    /\ Reply(<<Msg("snapshot", session, pos[session], next[session])>>)
    /\ UNCHANGED <<app, up, relay, alive, pos, next, keys, overtaken>>

\* A session ends; the relay notices if it is the attached one.
Ends(s) ==
    /\ s \in alive
    /\ alive' = alive \ {s}
    /\ IF session = s
       THEN session' = None /\ viewing' = FALSE /\ Reply(<<Plain("disconnected")>>)
       ELSE UNCHANGED <<relay, down>>
    /\ UNCHANGED <<app, up, pos, next, resizes, keys, overtaken>>

-----------------------------------------------------------------------------
(* The viewer: one message of the server (on_ws_text).                     *)

\* The mirror after output m: output applies to the screen just before it.
Applied(screen, m) ==
    IF screen.socket = m.socket /\ m.pos = screen.pos + 1
    THEN [screen EXCEPT !.pos = m.pos]
    ELSE Nothing

Replayed(screen, outputs) ==
    LET upto[i \in 0..Len(outputs)] ==
            IF i = 0 THEN screen ELSE Applied(upto[i - 1], outputs[i])
    IN  upto[Len(outputs)]

\* go_live: the history fetched, then the snapshot, then what came since.
GoLive(history, screen, outputs) ==
    /\ mode' = "live"
    /\ mirror' = Replayed(screen, outputs)
    /\ printed' = [history |-> history, screen |-> screen]
    /\ snapshot' = Nothing /\ pending' = <<>> /\ skip' = 0

OnGreeting ==
    IF mode = "connecting"
    THEN /\ mode' = "await"
         /\ Send(<<Plain("view")>>)
         /\ UNCHANGED <<snapshot, pending, skip, mirror, printed>>
    ELSE UNCHANGED <<app, up>>

\* The output that is kept when a new snapshot comes while fetching.
KeptOutput_All == pending
KeptOutput == <<>>

\* And the number of replies that have become stale.
Stale_NotCounted == skip
Stale == skip + 1

OnSnapshot(m) ==
    LET screen == Screen(m.socket, m.pos, m.next)
        request == <<Msg("history", None, 0, m.next)>>
    IN  \/ /\ mode = "await" /\ m.next > 0
           /\ mode' = "fetching"
           /\ snapshot' = screen /\ pending' = <<>> /\ skip' = 0
           /\ Send(request)
           /\ UNCHANGED <<mirror, printed>>
        \/ /\ mode = "await" /\ m.next = 0
           /\ GoLive(Nothing, screen, <<>>)
           /\ UNCHANGED up
        \/ /\ mode = "fetching" /\ m.next > 0
           /\ snapshot' = screen /\ pending' = KeptOutput /\ skip' = Stale
           /\ Send(request)
           /\ UNCHANGED <<mode, mirror, printed>>
        \/ /\ mode = "fetching" /\ m.next = 0
           /\ GoLive(Nothing, screen, KeptOutput)
           /\ UNCHANGED up
        \/ /\ mode = "live"
           /\ mirror' = screen
           /\ UNCHANGED <<mode, snapshot, pending, skip, printed, up>>
        \/ /\ mode \in {"list", "connecting"}
           /\ UNCHANGED <<mode, snapshot, pending, skip, mirror, printed, up>>

OnOutput(m) ==
    /\ pending' = IF mode = "fetching" THEN Append(pending, m) ELSE pending
    /\ mirror' = IF mode = "live" THEN Applied(mirror, m) ELSE mirror
    /\ UNCHANGED <<mode, snapshot, skip, printed, up>>

OnHistory(m) ==
    IF mode = "fetching"
    THEN /\ IF skip > 0
            THEN skip' = skip - 1 /\ UNCHANGED <<mode, snapshot, pending, mirror, printed>>
            ELSE GoLive(Screen(m.socket, 0, m.next), snapshot, pending)
         /\ UNCHANGED up
    ELSE UNCHANGED <<app, up>>

\* back_to_list: the state of whatever mode was left is dropped.
Forgotten == <<>>

BackToList ==
    /\ mode' = "list"
    /\ snapshot' = Nothing /\ pending' = Forgotten /\ skip' = 0
    /\ mirror' = Nothing /\ printed' = NoSplice
    /\ UNCHANGED up

\* Modes that `disconnected` ends, and modes that an error ends.
EndedModes == Modes
ErrorModes_Snapshot == {"await", "fetching"}
ErrorModes == {"connecting", "await", "fetching"}

ViewerHandles(m) ==
    \/ m.type = "connect" /\ OnGreeting
    \/ m.type = "snapshot" /\ OnSnapshot(m)
    \/ m.type = "output" /\ OnOutput(m)
    \/ m.type = "history_lines" /\ OnHistory(m)
    \/ m.type = "disconnected" /\ mode \in EndedModes /\ BackToList
    \/ m.type = "error" /\ mode \in ErrorModes /\ BackToList
    \/ m.type = "disconnected" /\ mode \notin EndedModes /\ UNCHANGED <<app, up>>
    \/ m.type = "error" /\ mode \notin ErrorModes /\ UNCHANGED <<app, up>>

ViewerStep ==
    /\ down # <<>>
    /\ down' = Tail(down)
    /\ ViewerHandles(Head(down))
    /\ UNCHANGED <<selected, relay, wrapper, keys, overtaken>>

-----------------------------------------------------------------------------
Init ==
    /\ mode = "list"
    /\ snapshot = Nothing /\ pending = <<>> /\ skip = 0
    /\ mirror = Nothing /\ printed = NoSplice
    /\ selected = None
    /\ up = <<>> /\ down = <<>>
    /\ session = None /\ viewing = FALSE
    /\ alive = Sockets
    /\ pos = [s \in Sockets |-> 0]
    /\ next \in [Sockets -> {0, 1}]
    /\ keys = 0 /\ resizes = 0
    /\ overtaken = FALSE

User == (\E s \in Sockets : Enter(s)) \/ Abort \/ Detach \/ Type
Session == Output \/ Resize \/ \E s \in Sockets : Ends(s)

Next == User \/ ServerStep \/ Session \/ ViewerStep

Spec == Init /\ [][Next]_vars
FairSpec == Spec /\ WF_vars(ServerStep) /\ WF_vars(ViewerStep)
-----------------------------------------------------------------------------
(* Properties.                                                             *)

\* Every output applies to the screen the live mirror has: none is lost, none
\* is applied twice and none is of another view, whatever snapshots came while
\* the history was fetched (on_snapshot, go_live).  And a live terminal is not
\* an orphan: when nothing is under way, the server has its session, the
\* session counts it as viewing, and all output is shown.
LiveInStep ==
    mode = "live" =>
        /\ mirror # Nothing
        /\ Quiet => /\ session = mirror.socket /\ viewing
                    /\ mirror.pos = pos[session]

\* The history printed ends where the first live screen begins, in the same
\* session: a reply to a request made for an earlier snapshot is not taken for
\* the reply to the last one (skip_replies).  This is so until the user chooses a
\* session before the answers to an earlier attach are all in: a stale greeting
\* is then taken for the new one, and the replies are counted wrong.
SpliceExact ==
    mode = "live" /\ ~overtaken =>
        \/ printed.history = Nothing /\ printed.screen.next = 0
        \/ /\ printed.history.socket = printed.screen.socket
           /\ printed.history.next = printed.screen.next

\* An attach that is under way ends, in a live terminal or in the list, over
\* sessions that end, stale replies and aborts.
AttachEnds == mode \in {"connecting", "await", "fetching"} ~> mode \in {"list", "live"}

\* The viewer "mirrors the selected one into the local terminal"
\* (g2mirror-view.rs, lines 5-7).
ShowsSelected == mode = "live" => mirror.socket = selected
=============================================================================
