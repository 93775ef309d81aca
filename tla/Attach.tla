-------------------------------- MODULE Attach -------------------------------
(***************************************************************************)
(* Attach clients (attach.rs) that claim one headless session: the probe,  *)
(* the claim and its refusal, a forced takeover, the splice of history,    *)
(* snapshot and live output, detaching, and every way an attach ends.      *)
(*                                                                         *)
(* A connection is two queues, `up` and `down`.  The wrapper is what       *)
(* Session and History say of it, seen from clients with the host role; it *)
(* drops a connection in the branch that finds it dead.  Another viewer of *)
(* the session shows only in the snapshots that its size causes.  The      *)
(* socket is external: what is in `down` is read before its end; the end   *)
(* of a connection with unread input is an error on some systems; a write  *)
(* to a closed one fails.                                                  *)
(*                                                                         *)
(* Output is numbered.  A snapshot holds all of it up to `pos`, and the    *)
(* archive then holds the lines before `next`.                             *)
(*                                                                         *)
(* As in Session, an operator named X_Y is a seeded fault that no action   *)
(* uses.                                                                   *)
(***************************************************************************)
EXTENDS Naturals, Sequences

CONSTANTS
    Clients,      \* attach clients, each run once
    Forcing,      \* those run with --force
    None,         \* no error
    Broken,       \* a screen that an output did not apply to
    MaxOutput,    \* bound: output of the program
    MaxSnapshots, \* bound: snapshots because of somebody's size
    MaxKeys       \* bound: messages of its user, per client

Errors == {"held", "takeover", "readonly"}

ASSUME AttachAssumption ==
    /\ Forcing \subseteq Clients
    /\ None \notin Errors /\ Broken \notin Nat
    /\ MaxOutput \in Nat /\ MaxSnapshots \in Nat /\ MaxKeys \in Nat

VARIABLES
    mode,        \* "idle", "probed", "connected", Mode::.., "ended"
    app,         \* what Attached and its modes hold, see NoApp
    outcome,     \* how the attach ended
    up, down,    \* the connection's two directions
    conn,        \* the wrapper's end: "none", "pending", "viewer", "closed"
    viewing,     \* ClientState::Viewing
    readonly,    \* the session takes no input
    life,        \* the wrapper: "running", "exited", "crashed"
    pos, next,   \* output so far, lines in the archive
    snapshots,
    displaced,   \* clients whose role was taken over
    unserved     \* clients dropped unclassified when the program exited

client == <<mode, app, outcome>>
wires == <<up, down>>
wrapper == <<conn, viewing, readonly, life, pos, next, snapshots, displaced, unserved>>
vars == <<client, wires, wrapper>>

Msg(type, p, n) == [type |-> type, pos |-> p, next |-> n]
Plain(type) == Msg(type, 0, 0)

\* While fetching: the snapshot, the output since, and how many history
\* replies are stale.  While live: the number of the last output shown, and
\* where the printed history and the first screen joined.  In both, last_error
\* and exit_status, and what the user has sent.
NoApp == [snapshot |-> Plain("snapshot"), pending |-> << >>, skip |-> 0,
          mirror |-> 0, printed |-> <<0, 0>>,
          lastError |-> None, exited |-> FALSE, keys |-> 0]

-----------------------------------------------------------------------------
(* The wrapper.                                                            *)

HostRoleHeld == \E c \in Clients : conn[c] = "viewer"

Gone(c) == mode[c] = "ended"

\* The wrapper closes the connections of S, after a last word to each.
Close(S, word, wires_) ==
    \E r \in SUBSET {c \in S : wires_[c] # << >> /\ ~Gone(c)} :
        /\ down' = [c \in Clients |->
               IF c \in S /\ ~Gone(c)
               THEN down[c] \o word[c] \o <<Plain(IF c \in r THEN "reset" ELSE "eof")>>
               ELSE down[c]]
        /\ up' = [c \in Clients |-> IF c \in S THEN << >> ELSE wires_[c]]

Silent == [c \in Clients |-> << >>]
Saying(type) == [c \in Clients |-> <<Plain(type)>>]

\* A message to the viewers of S; those that are gone are dropped.
Dropped(S) == {c \in S : Gone(c)}
Tell(S, m) ==
    /\ down' = [c \in Clients |->
           IF c \in S \ Dropped(S) THEN Append(down[c], m) ELSE down[c]]
    /\ conn' = [c \in Clients |-> IF c \in Dropped(S) THEN "closed" ELSE conn[c]]
    /\ viewing' = viewing \ Dropped(S)

\* `init`: refused while another client has the role, unless forced.
Refuses(c) == HostRoleHeld /\ c \notin Forcing

\* Both clients claim the host role: whoever has it makes room.
InitMsg(c, rest) ==
    LET holders == {d \in Clients : conn[d] = "viewer"}
    IN  IF Refuses(c)
        THEN /\ Close({c}, Saying("held"), rest)
             /\ conn' = [conn EXCEPT ![c] = "closed"]
             /\ UNCHANGED <<viewing, displaced>>
        ELSE /\ Close(holders, Saying("takeover"), rest)
             /\ conn' = [d \in Clients |->
                    IF d = c THEN "viewer" ELSE IF d \in holders THEN "closed" ELSE conn[d]]
             /\ viewing' = viewing \ holders
             /\ displaced' = displaced \cup holders

ViewMsg(c) ==
    IF Gone(c)
    THEN Tell({c}, Plain("snapshot"))
    ELSE /\ viewing' = viewing \cup {c}
         /\ down' = [down EXCEPT ![c] = Append(@, Msg("snapshot", pos, next))]
         /\ UNCHANGED conn

\* The wrapper reads a message of c.
WrapperReads(c) ==
    LET m == Head(up[c])
        rest == [up EXCEPT ![c] = Tail(@)]
    IN  /\ life = "running"
        /\ conn[c] \in {"pending", "viewer"} /\ up[c] # << >>
        /\ \/ m.type = "init" /\ InitMsg(c, rest)
           \/ /\ m.type # "init" /\ up' = rest
              /\ \/ m.type = "view" /\ ViewMsg(c)
                 \/ m.type = "history" /\ Tell({c}, Msg("history_lines", 0, m.next))
                 \/ m.type = "input" /\ readonly /\ Tell({c}, Plain("readonly"))
                 \/ m.type = "input" /\ ~readonly /\ UNCHANGED <<down, conn, viewing>>
                 \/ m.type = "unview" /\ viewing' = viewing \ {c} /\ UNCHANGED <<down, conn>>
              /\ UNCHANGED displaced
        /\ UNCHANGED <<client, readonly, life, pos, next, snapshots, unserved>>

\* It reads the end of a connection whose client is gone.
EndRead(c) == Gone(c) /\ up[c] = << >>
Hangup(c) ==
    /\ life = "running"
    /\ conn[c] \in {"pending", "viewer"}
    /\ EndRead(c)
    /\ conn' = [conn EXCEPT ![c] = "closed"]
    /\ viewing' = viewing \ {c}
    /\ UNCHANGED <<client, wires, readonly, life, pos, next, snapshots, displaced, unserved>>

\* The program writes; a line may scroll into the archive.  What comes while
\* nobody views is as if it had come before the first attach.
Output ==
    /\ life = "running" /\ viewing # {} /\ pos < MaxOutput
    /\ pos' = pos + 1
    /\ next' \in {next, next + 1}
    /\ Tell(viewing, Msg("output", pos', 0))
    /\ UNCHANGED <<client, up, readonly, life, snapshots, displaced, unserved>>

\* A size takes effect, the client's own or another viewer's.
Resnapshot ==
    /\ life = "running" /\ viewing # {} /\ snapshots < MaxSnapshots
    /\ snapshots' = snapshots + 1
    /\ Tell(viewing, Msg("snapshot", pos, next))
    /\ UNCHANGED <<client, up, readonly, life, pos, next, displaced, unserved>>

Open == {c \in Clients : conn[c] \in {"pending", "viewer"}}
Ends(how) ==
    /\ life = "running"
    /\ life' = how
    /\ conn' = [c \in Clients |-> IF c \in Open THEN "closed" ELSE conn[c]]
    /\ viewing' = {}
    /\ UNCHANGED <<client, readonly, pos, next, snapshots, displaced>>

\* The program exits: viewers hear of it, pending connections do not.
Exit ==
    /\ Ends("exited")
    /\ Close(Open, [c \in Clients |-> IF conn[c] = "viewer" THEN <<Plain("exit")>> ELSE << >>], up)
    /\ unserved' = {c \in Clients : conn[c] = "pending"}

Crash ==
    /\ Ends("crashed")
    /\ Close(Open, Silent, up)
    /\ UNCHANGED unserved

-----------------------------------------------------------------------------
(* The client.                                                             *)

Live(c) == mode[c] = "live"
Running(c) == mode[c] \in {"await", "fetching", "live"}

\* The attach of c ends, and with it what it held.
End(c, how) ==
    /\ mode' = [mode EXCEPT ![c] = "ended"]
    /\ outcome' = [outcome EXCEPT ![c] = how]
    /\ app' = [app EXCEPT ![c] = NoApp]

\* Messages for the wrapper.
Send(c, msgs) == up' = [up EXCEPT ![c] = @ \o msgs]

\* attach: --force takes any headless session, otherwise only a detached one.
Probe(c) ==
    /\ mode[c] = "idle"
    /\ IF life = "running" /\ (c \in Forcing \/ ~HostRoleHeld)
       THEN mode' = [mode EXCEPT ![c] = "probed"] /\ UNCHANGED <<outcome, app>>
       ELSE End(c, "none")
    /\ UNCHANGED <<wires, wrapper>>

\* run_attached connects anew, and is greeted.
Connect(c) ==
    /\ mode[c] = "probed"
    /\ IF life = "running"
       THEN /\ mode' = [mode EXCEPT ![c] = "connected"]
            /\ conn' = [conn EXCEPT ![c] = "pending"]
            /\ UNCHANGED <<outcome, app>>
       ELSE End(c, "none") /\ UNCHANGED conn
    /\ UNCHANGED <<wires>>
    /\ UNCHANGED <<viewing, readonly, life, pos, next, snapshots, displaced, unserved>>

\* The greeting read, it claims the role and asks for a view.
Claim(c) ==
    /\ mode[c] = "connected"
    /\ IF conn[c] = "pending"
       THEN /\ mode' = [mode EXCEPT ![c] = "await"]
            /\ Send(c, <<Plain("init"), Plain("view")>>)
            /\ UNCHANGED <<outcome, app>>
       ELSE End(c, "lost") /\ UNCHANGED up
    /\ UNCHANGED <<down, wrapper>>

\* What a screen at output p shows after the outputs ks.
Applied(p, ks) ==
    IF p # Broken /\ \A i \in DOMAIN ks : ks[i] = p + i THEN p + Len(ks) ELSE Broken

\* go_live, to snapshot s, with history up to h and the output ks.
GoLive(c, s, h, ks) ==
    /\ mode' = [mode EXCEPT ![c] = "live"]
    /\ app' = [app EXCEPT ![c] =
           [@ EXCEPT !.mirror = Applied(s.pos, ks), !.printed = <<h, s.next>>,
                     !.snapshot = NoApp.snapshot, !.pending = << >>, !.skip = 0]]
    /\ UNCHANGED outcome

\* on_snapshot: the app starts, or starts again; with history to ask for,
\* it waits for that.  The request fails when the wrapper has closed.
KeptOutput_All(c) == app[c].pending
KeptOutput(c) == << >>
Stale_NotCounted(c) == 0
Stale(c) == IF mode[c] = "fetching" THEN app[c].skip + 1 ELSE 0
Request_Once(c, m) == IF mode[c] = "await" THEN <<Msg("history", 0, m.next)>> ELSE << >>
Request(c, m) == <<Msg("history", 0, m.next)>>
OnSnapshot(c, m) ==
    \/ /\ Live(c)
       /\ app' = [app EXCEPT ![c].mirror = m.pos]
       /\ UNCHANGED <<mode, outcome, up>>
    \/ /\ ~Live(c) /\ m.next = 0
       /\ GoLive(c, m, 0, KeptOutput(c))
       /\ UNCHANGED up
    \/ /\ ~Live(c) /\ m.next > 0 /\ conn[c] = "viewer"
       /\ mode' = [mode EXCEPT ![c] = "fetching"]
       /\ app' = [app EXCEPT ![c] =
              [@ EXCEPT !.snapshot = m, !.pending = KeptOutput(c), !.skip = Stale(c)]]
       /\ Send(c, Request(c, m))
       /\ UNCHANGED outcome
    \/ /\ ~Live(c) /\ m.next > 0 /\ conn[c] # "viewer"
       /\ End(c, "lost")
       /\ UNCHANGED up

OnOutput(c, m) ==
    /\ app' = CASE Live(c) -> [app EXCEPT ![c].mirror = Applied(@, <<m.pos>>)]
                   [] mode[c] = "fetching" -> [app EXCEPT ![c].pending = Append(@, m.pos)]
                   [] mode[c] = "await" -> app
    /\ UNCHANGED <<mode, outcome>>

OnHistory(c, m) ==
    \/ /\ mode[c] # "fetching"
       /\ UNCHANGED <<mode, app, outcome>>
    \/ /\ mode[c] = "fetching" /\ app[c].skip > 0
       /\ app' = [app EXCEPT ![c].skip = @ - 1]
       /\ UNCHANGED <<mode, outcome>>
    \/ /\ mode[c] = "fetching" /\ app[c].skip = 0
       /\ GoLive(c, app[c].snapshot, m.next, app[c].pending)

\* An error ends an attach that is not live, and is remembered by a live one.
Remembered_Not(c, m) == None
Remembered(c, m) == m.type
OnError(c, m) ==
    IF Live(c)
    THEN app' = [app EXCEPT ![c].lastError = Remembered(c, m)] /\ UNCHANGED <<mode, outcome>>
    ELSE End(c, m.type)

\* The end of the connection.
ClosedAs(c) ==
    IF app[c].exited THEN "exit"
    ELSE IF app[c].lastError # None THEN app[c].lastError ELSE "closed"

\* The client reads a message.
ClientReads(c) ==
    LET m == Head(down[c])
    IN  /\ Running(c) /\ down[c] # << >>
        /\ \/ m.type = "snapshot" /\ OnSnapshot(c, m)
           \/ m.type = "output" /\ OnOutput(c, m) /\ UNCHANGED up
           \/ m.type = "history_lines" /\ OnHistory(c, m) /\ UNCHANGED up
           \/ m.type \in Errors /\ OnError(c, m) /\ UNCHANGED up
           \/ /\ m.type = "exit"
              /\ app' = [app EXCEPT ![c].exited = TRUE]
              /\ UNCHANGED <<mode, outcome, up>>
           \/ /\ m.type \in {"eof", "reset"}
              /\ End(c, IF m.type = "eof" THEN ClosedAs(c) ELSE "lost")
              /\ UNCHANGED up
        /\ down' = [down EXCEPT ![c] = IF mode'[c] = "ended" THEN << >> ELSE Tail(@)]
        /\ UNCHANGED wrapper

\* The attach ends without the wrapper's doing; what was on its way is gone.
Leaves(c, how) == End(c, how) /\ down' = [down EXCEPT ![c] = << >>]

\* Input, sent whatever the mode.  A resize is sent the same way; the
\* snapshot that it may cause is Resnapshot.
Types(c) ==
    /\ Running(c) /\ app[c].keys < MaxKeys
    /\ IF conn[c] = "closed"
       THEN Leaves(c, "lost") /\ UNCHANGED up
       ELSE /\ app' = [app EXCEPT ![c].keys = @ + 1]
            /\ Send(c, <<Plain("input")>>)
            /\ UNCHANGED <<mode, outcome, down>>
    /\ UNCHANGED wrapper

\* The detach key: that `unview` may fail does not matter.
Detach(c) ==
    /\ Running(c)
    /\ Leaves(c, "left")
    /\ IF conn[c] = "closed" THEN UNCHANGED up ELSE Send(c, <<Plain("unview")>>)
    /\ UNCHANGED <<wrapper>>

\* The client is killed, or its terminal goes away.
Dies(c) ==
    /\ mode[c] = "connected" \/ Running(c)
    /\ Leaves(c, "left")
    /\ UNCHANGED <<up, wrapper>>

-----------------------------------------------------------------------------
Init ==
    /\ mode = [c \in Clients |-> "idle"]
    /\ app = [c \in Clients |-> NoApp]
    /\ outcome = [c \in Clients |-> "none"]
    /\ up = Silent /\ down = Silent
    /\ conn = [c \in Clients |-> "none"]
    /\ viewing = {}
    /\ readonly \in BOOLEAN
    /\ life = "running"
    /\ pos = 0 /\ next \in {0, 1} /\ snapshots = 0
    /\ displaced = {} /\ unserved = {}

WrapperStep == \E c \in Clients : WrapperReads(c) \/ Hangup(c)
ClientStep(c) == Probe(c) \/ Connect(c) \/ Claim(c) \/ ClientReads(c)
UserStep(c) == Types(c) \/ Detach(c) \/ Dies(c)

Next ==
    \/ WrapperStep
    \/ Output \/ Resnapshot \/ Exit \/ Crash
    \/ \E c \in Clients : ClientStep(c) \/ UserStep(c)

\* The wrapper's loop polls every connection, and a client reads its own.
Spec ==
    /\ Init /\ [][Next]_vars
    /\ WF_vars(WrapperStep)
    /\ \A c \in Clients : WF_vars(Claim(c)) /\ WF_vars(ClientReads(c))

-----------------------------------------------------------------------------
(* Correctness.                                                            *)

\* A live attach shows a gapless stream: the history printed before its first
\* screen ends where that screen begins, and every output since was applied
\* to the screen it continues, through re-snapshots while replies to older
\* requests were under way ("Stale history replies to discard").
Gapless ==
    \A c \in Clients :
        Live(c) => /\ app[c].mirror # Broken
                   /\ app[c].printed[1] = app[c].printed[2]

\* An attach reports how it ended as it was: a takeover only when the role was
\* taken over, and then never as an end of the session; an exit only when
\* the program exited; and "closed unexpectedly" only when the wrapper died,
\* or exited before it had classified the connection.
EndingTrue ==
    \A c \in Clients :
        /\ outcome[c] = "takeover" => c \in displaced
        /\ c \in displaced => outcome[c] \notin {"closed", "exit", "held"}
        /\ outcome[c] = "exit" => life = "exited"
        /\ outcome[c] = "closed" => life = "crashed" \/ c \in unserved

\* Nobody waits for a terminal, and nobody who has left still has the role.
Settled ==
    \A c \in Clients :
        /\ mode[c] \notin {"await", "fetching"}
        /\ ~(mode[c] = "ended" /\ conn[c] = "viewer")

\* An attach that has claimed the session gets its terminal or ends, whatever
\* the wrapper, the other client and the other viewers do; and when it has
\* ended, detached or dead, the wrapper gives its role away again.  (Each
\* client runs once, so it is enough that everything settles again and again.)
AttachSettles == []<>Settled

=============================================================================
