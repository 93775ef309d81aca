------------------------------- MODULE Server --------------------------------
(***************************************************************************)
(* The websocket server (bin/g2mirror-server.rs): the registry of          *)
(* terminals that monitor tasks keep, the broadcast of their events, and   *)
(* the device connections that authenticate, list, attach and are shown    *)
(* only the terminals their token's filter lets through.                   *)
(*                                                                         *)
(* The runtime has one thread, so what runs between two awaits is one      *)
(* action.  Tasks interleave at awaits: a device's task may be held up in  *)
(* a send, and between the check of a connect request and the end of the   *)
(* dial (`opening`) every other task runs.                                 *)
(*                                                                         *)
(* The wrappers at the other end of the sockets are reduced to what Session *)
(* says of them: a connection is greeted with the present title; when it   *)
(* has become the monitor the title is sent again, and then every change.  *)
(* Bells, activity and host changes are one kind of event, a note: each    *)
(* stores a field that nothing here depends on and is broadcast.  Socket   *)
(* names carry a pid and are never used twice.                             *)
(*                                                                         *)
(* As in Session, an operator named X_Y is a seeded fault that no action   *)
(* uses.                                                                   *)
(***************************************************************************)
EXTENDS Naturals, Sequences, FiniteSets, Functions, SequencesExt

CONSTANTS
    Sockets,      \* session sockets
    Devices,      \* device connections
    Strangers,    \* those that have no valid token
    Titles,       \* window titles
    StartTitles,  \* titles that wrappers start with, Unknown for none
    Cwd,          \* the working directory of each session
    Filter,       \* the rules of each device's token
    Absent,       \* a field that a rule does not have
    Unknown,      \* a title or a directory that is not known
    None,         \* no session
    MaxUnauth,    \* MAX_UNAUTHENTICATED
    EventCap,     \* capacity of the broadcast channel
    MaxChanges,   \* bound: title changes in one behaviour
    MaxNotes,     \* bound: bells, activity reports and host changes
    MaxDrops      \* bound: connections that a living wrapper closes

Dirs == Range(Cwd)
Field(values) == {Absent} \cup SUBSET values
Rules == [path : Field(Dirs), windowtitle : Field(Titles)]

ASSUME ServerAssumption ==
    /\ Cwd \in [Sockets -> Dirs]
    /\ Filter \in [Devices -> SUBSET Rules]
    /\ StartTitles \subseteq Titles \cup {Unknown}
    /\ Unknown \notin Titles \cup Dirs
    /\ None \notin Sockets
    /\ IsFiniteSet(Devices) /\ Strangers \subseteq Devices
    /\ MaxUnauth \in Nat \ {0}
    /\ EventCap \in Nat \ {0}
    /\ MaxChanges \in Nat /\ MaxNotes \in Nat /\ MaxDrops \in Nat

VARIABLES
    life,        \* "unborn", "alive" or "dead": is there a live socket file
    title,       \* the title each wrapper has
    link,        \* wrapper's end of the monitor connection: "none", "greeted"
                 \* or "registered"
    wire,        \* lines on their way to the monitor task
    mon,         \* monitor task: "none", "dial" or "read"
    monitored,   \* BellState::monitored
    terminals,   \* BellState::terminals
    unauth,      \* connections that hold an UnauthGuard
    dev,         \* device connection: "out", "unauth" or "serving"
    session,     \* the socket that the device's session is, or None
    cut,         \* devices whose session connection has ended
    opening,     \* the socket that the device's task is dialling, or None
    events,      \* unread events of the device's receiver
    lagged,      \* receivers whose next recv is Err(Lagged)
    told,        \* the title last told for each terminal, None if not listed
    lost,        \* per device: terminals of which it missed an event
    scanFailed,  \* a directory scan has failed
    changes, notes, drops

wrapper == <<life, title, link, wire, changes, notes, drops>>
registry == <<mon, monitored, terminals, scanFailed>>
device == <<unauth, dev, session, cut, opening>>
feed == <<events, lagged, told, lost>>
vars == <<wrapper, registry, device, feed>>

Live == {s \in Sockets : life[s] = "alive"}
Serving == {d \in Devices : dev[d] = "serving"}

-----------------------------------------------------------------------------
(* Filters and the registry.                                               *)

FilterAllows(rules, cwd, t) ==
    \/ rules = {}
    \/ \E r \in rules :
          /\ r.path = Absent \/ cwd \in r.path
          /\ r.windowtitle = Absent \/ t \in r.windowtitle

NoTerminal == [title |-> Unknown, cwd |-> Unknown]
Terminal(s) == IF s \in DOMAIN terminals THEN terminals[s] ELSE NoTerminal

SessionAllowed(d, s) == FilterAllows(Filter[d], Terminal(s).cwd, Terminal(s).title)

\* An entry of the registry is written, and made if there is none.
Entry(s, terminal) == [x \in DOMAIN terminals \cup {s} |->
                          IF x = s THEN terminal ELSE terminals[x]]

\* What a scan leaves: entries of the sockets found, new ones empty.
Rescanned(found) == [s \in found |-> Terminal(s)]

-----------------------------------------------------------------------------
(* The broadcast channel: a receiver that is EventCap behind loses its     *)
(* oldest event, which matters unless the new one says the same better.    *)

Event(s, kind, t) == [socket |-> s, kind |-> kind, title |-> t]

Overruns == {d \in Serving : Len(events[d]) = EventCap}

Broadcast(e) ==
    /\ events' = [d \in Devices |->
                    IF d \notin Serving THEN events[d]
                    ELSE Append(IF d \in Overruns THEN Tail(events[d]) ELSE events[d], e)]
    /\ lagged' = lagged \cup Overruns
    /\ lost' = [d \in Devices |->
                  (lost[d] \cup {events[x][1].socket : x \in {d} \cap Overruns})
                    \ (IF d \in Serving /\ e.kind = "title" THEN {e.socket} ELSE {})]
    /\ UNCHANGED told

-----------------------------------------------------------------------------
(* Wrappers.                                                               *)

Line(kind, t) == [kind |-> kind, title |-> t]

Report(s, line) ==
    wire' = IF link[s] = "registered"
            THEN [wire EXCEPT ![s] = Append(@, line)] ELSE wire

\* A wrapper may be given a title to start with.
SessionStarts(s, t) ==
    /\ life[s] = "unborn"
    /\ life' = [life EXCEPT ![s] = "alive"]
    /\ title' = [title EXCEPT ![s] = t]
    /\ UNCHANGED <<link, wire, changes, notes, drops, registry, device, feed>>

TitleChanges(s, t) ==
    /\ s \in Live /\ t # title[s]
    /\ changes < MaxChanges
    /\ changes' = changes + 1
    /\ title' = [title EXCEPT ![s] = t]
    /\ Report(s, Line("title", t))
    /\ UNCHANGED <<life, link, notes, drops, registry, device, feed>>

Notes(s) ==
    /\ s \in Live /\ link[s] = "registered"
    /\ notes < MaxNotes
    /\ notes' = notes + 1
    /\ Report(s, Line("note", Unknown))
    /\ UNCHANGED <<life, title, link, changes, drops, registry, device, feed>>

\* The wrapper reads the monitor message.
Register(s) ==
    /\ link[s] = "greeted"
    /\ link' = [link EXCEPT ![s] = "registered"]
    /\ wire' = IF title[s] = Unknown THEN wire
               ELSE [wire EXCEPT ![s] = Append(@, Line("title", title[s]))]
    /\ UNCHANGED <<life, title, changes, notes, drops, registry, device, feed>>

\* A send to the monitor failed or timed out.
MonitorDropped(s) ==
    /\ link[s] # "none"
    /\ drops < MaxDrops
    /\ drops' = drops + 1
    /\ link' = [link EXCEPT ![s] = "none"]
    /\ UNCHANGED <<life, title, wire, changes, notes, registry, device, feed>>

\* A send to a viewer failed or timed out.
ViewerDropped(d) ==
    /\ session[d] # None /\ d \notin cut
    /\ drops < MaxDrops
    /\ drops' = drops + 1
    /\ cut' = cut \cup {d}
    /\ UNCHANGED <<life, title, link, wire, changes, notes, registry>>
    /\ UNCHANGED <<unauth, dev, session, opening, feed>>

SessionDies(s) ==
    /\ s \in Live
    /\ life' = [life EXCEPT ![s] = "dead"]
    /\ link' = [link EXCEPT ![s] = "none"]
    /\ cut' = cut \cup {d \in Devices : session[d] = s}
    /\ UNCHANGED <<title, wire, changes, notes, drops, registry>>
    /\ UNCHANGED <<unauth, dev, session, opening, feed>>

-----------------------------------------------------------------------------
(* The monitor manager and the monitor tasks.                              *)

\* One round of monitor_manager.
ScanFinds(found) ==
    /\ terminals' = Rescanned(found)
    /\ monitored' = monitored \cup found
    /\ mon' = [s \in Sockets |-> IF s \in found \ monitored THEN "dial" ELSE mon[s]]
    /\ UNCHANGED <<wrapper, device, feed>>

Scan == ScanFinds(Live) /\ UNCHANGED scanFailed

\* The directory cannot be read: live_session_sockets finds nothing.
ScanFails ==
    /\ ~scanFailed
    /\ scanFailed' = TRUE
    /\ ScanFinds({})

\* What is left of the monitored set when a monitor task ends.
Unmonitored_Not(s) == monitored
Unmonitored(s) == monitored \ {s}

\* run_monitor connects, or fails and ends.
Dial(s) ==
    /\ mon[s] = "dial"
    /\ \/ /\ s \in Live
          /\ mon' = [mon EXCEPT ![s] = "read"]
          /\ link' = [link EXCEPT ![s] = "greeted"]
          /\ wire' = [wire EXCEPT ![s] = <<Line("connect", title[s])>>]
          /\ UNCHANGED monitored
       \/ /\ s \notin Live
          /\ mon' = [mon EXCEPT ![s] = "none"]
          /\ monitored' = Unmonitored(s)
          /\ UNCHANGED <<link, wire>>
    /\ UNCHANGED <<life, title, changes, notes, drops>>
    /\ UNCHANGED <<terminals, scanFailed, device, feed>>

\* A line of the wrapper: the greeting is stored, everything else is stored
\* and broadcast.
Greeted(s, t) == Entry(s, [title |-> IF t = Unknown THEN Terminal(s).title ELSE t,
                           cwd |-> Cwd[s]])
Titled_OnlyNew(s, t) == Entry(s, [Terminal(s) EXCEPT
                                    !.title = IF @ = Unknown THEN t ELSE @])
Titled(s, t) == Entry(s, [Terminal(s) EXCEPT !.title = t])

ReadLine(s) ==
    /\ mon[s] = "read" /\ wire[s] # <<>>
    /\ LET line == Head(wire[s]) IN
          \/ /\ line.kind = "connect"
             /\ terminals' = Greeted(s, line.title)
             /\ UNCHANGED feed
          \/ /\ line.kind = "title"
             /\ terminals' = Titled(s, line.title)
             /\ Broadcast(Event(s, "title", line.title))
          \/ /\ line.kind = "note"
             /\ terminals' = Entry(s, Terminal(s))
             /\ Broadcast(Event(s, "note", Unknown))
    /\ wire' = [wire EXCEPT ![s] = Tail(@)]
    /\ UNCHANGED <<life, title, link, changes, notes, drops>>
    /\ UNCHANGED <<mon, monitored, scanFailed, device>>

MonitorEnds(s) ==
    /\ mon[s] = "read" /\ wire[s] = <<>> /\ link[s] = "none"
    /\ mon' = [mon EXCEPT ![s] = "none"]
    /\ monitored' = Unmonitored(s)
    /\ UNCHANGED <<terminals, scanFailed, wrapper, device, feed>>

-----------------------------------------------------------------------------
(* Connections up to authentication.                                       *)

HasRoom == unauth < MaxUnauth

\* accept_loop; without room the stream is dropped at once.
Accept(d) ==
    /\ dev[d] = "out" /\ HasRoom
    /\ unauth' = unauth + 1
    /\ dev' = [dev EXCEPT ![d] = "unauth"]
    /\ UNCHANGED <<session, cut, opening, wrapper, registry, feed>>

NothingTold == [s \in Sockets |-> None]

\* The guard is dropped, explicitly or with the task.
Released_Not == unauth
Released == unauth - 1

\* The right token: the guard is dropped and the receiver subscribes.
Authenticated(d) ==
    /\ dev[d] = "unauth" /\ d \notin Strangers
    /\ unauth' = Released
    /\ dev' = [dev EXCEPT ![d] = "serving"]
    /\ UNCHANGED <<session, cut, opening, wrapper, registry, feed>>

\* A bad token or message, a close, or the deadline.
Refused(d) ==
    /\ dev[d] = "unauth"
    /\ unauth' = Released
    /\ dev' = [dev EXCEPT ![d] = "out"]
    /\ UNCHANGED <<session, cut, opening, wrapper, registry, feed>>

-----------------------------------------------------------------------------
(* An authenticated device.  While it dials, its task does nothing else.   *)

Idle(d) == d \in Serving /\ opening[d] = None

Leaves(d) ==
    /\ dev' = [dev EXCEPT ![d] = "out"]
    /\ session' = [session EXCEPT ![d] = None]
    /\ cut' = cut \ {d}
    /\ opening' = [opening EXCEPT ![d] = None]
    /\ events' = [events EXCEPT ![d] = <<>>]
    /\ lagged' = lagged \ {d}
    /\ told' = [told EXCEPT ![d] = NothingTold]
    /\ lost' = [lost EXCEPT ![d] = {}]
    /\ UNCHANGED <<unauth, wrapper, registry>>

Hangup(d) == Idle(d) /\ Leaves(d)

TitleEventFor(d, s) == \E e \in Range(events[d]) : e.socket = s /\ e.kind = "title"

\* list: what it tells replaces what events were missed, unless an older
\* event is still to come.
List(d) ==
    /\ Idle(d)
    /\ LET listed == {s \in Live : SessionAllowed(d, s)} IN
          /\ told' = [told EXCEPT ![d] =
                        [s \in Sockets |-> IF s \in listed THEN Terminal(s).title ELSE None]]
          /\ lost' = [lost EXCEPT ![d] = @ \ {s \in listed : ~TitleEventFor(d, s)}]
    /\ UNCHANGED <<events, lagged, wrapper, registry, device>>

\* connect: the filter is consulted, then the socket is dialled.
Connect(d, s) ==
    /\ Idle(d) /\ SessionAllowed(d, s)
    /\ opening' = [opening EXCEPT ![d] = s]
    /\ UNCHANGED <<unauth, dev, session, cut, wrapper, registry, feed>>

\* The dial ends; after a failure the device gets an error and keeps the
\* session it had.
Opened(d) ==
    /\ opening[d] # None
    /\ \/ /\ opening[d] \in Live
          /\ session' = [session EXCEPT ![d] = opening[d]]
          /\ cut' = cut \ {d}
       \/ UNCHANGED <<session, cut>>
    /\ opening' = [opening EXCEPT ![d] = None]
    /\ UNCHANGED <<unauth, dev, wrapper, registry, feed>>

Detach(d) ==
    /\ session' = [session EXCEPT ![d] = None]
    /\ cut' = cut \ {d}
    /\ UNCHANGED <<unauth, dev, opening, wrapper, registry>>

Disconnect(d) == Idle(d) /\ session[d] # None /\ Detach(d) /\ UNCHANGED feed

\* The relay reads the end of the session: "session closed".
SessionClosed(d) == Idle(d) /\ d \in cut /\ Detach(d) /\ UNCHANGED feed

\* A message of the device is forwarded to a session that has ended: the
\* write fails and takes the device's connection with it.
ForwardFails(d) ==
    /\ Idle(d) /\ d \in cut
    /\ Leaves(d)

\* recv of a receiver that was overrun.
Lagged(d) ==
    /\ Idle(d) /\ d \in lagged
    /\ lagged' = lagged \ {d}
    /\ UNCHANGED <<events, told, lost, wrapper, registry, device>>

\* Whether an event about terminal s ends the session.
Revokes_Never(d, s) == FALSE
Revokes(d, s) == ~SessionAllowed(d, s) /\ session[d] = s

\* The title a device goes by after an event that its filter lets through.
ToldTitle_First(d, e) == IF told[d][e.socket] = Unknown THEN e.title ELSE told[d][e.socket]
ToldTitle(d, e) == e.title

Received(d) ==
    /\ Idle(d) /\ d \notin lagged /\ events[d] # <<>>
    /\ events' = [events EXCEPT ![d] = Tail(@)]
    /\ LET e == Head(events[d]) IN
          /\ told' = IF /\ e.kind = "title" /\ SessionAllowed(d, e.socket)
                        /\ told[d][e.socket] # None
                     THEN [told EXCEPT ![d][e.socket] = ToldTitle(d, e)] ELSE told
          /\ IF Revokes(d, e.socket)
             THEN Detach(d)
             ELSE UNCHANGED <<device, wrapper, registry>>
    /\ UNCHANGED <<lagged, lost>>

-----------------------------------------------------------------------------
Init ==
    /\ life = [s \in Sockets |-> "unborn"]
    /\ title = [s \in Sockets |-> Unknown]
    /\ link = [s \in Sockets |-> "none"]
    /\ wire = [s \in Sockets |-> <<>>]
    /\ mon = [s \in Sockets |-> "none"]
    /\ monitored = {}
    /\ terminals = <<>>
    /\ unauth = 0
    /\ dev = [d \in Devices |-> "out"]
    /\ session = [d \in Devices |-> None]
    /\ cut = {}
    /\ opening = [d \in Devices |-> None]
    /\ events = [d \in Devices |-> <<>>]
    /\ lagged = {}
    /\ told = [d \in Devices |-> NothingTold]
    /\ lost = [d \in Devices |-> {}]
    /\ scanFailed = FALSE
    /\ changes = 0 /\ notes = 0 /\ drops = 0

WrapperStep(s) ==
    \/ \E t \in StartTitles : SessionStarts(s, t)
    \/ \E t \in Titles : TitleChanges(s, t)
    \/ Notes(s) \/ Register(s) \/ MonitorDropped(s) \/ SessionDies(s)

MonitorStep(s) == Dial(s) \/ ReadLine(s) \/ MonitorEnds(s)

DeviceStep(d) ==
    \/ Accept(d) \/ Authenticated(d) \/ Refused(d) \/ Hangup(d)
    \/ List(d) \/ (\E s \in Sockets : Connect(d, s)) \/ Opened(d)
    \/ Disconnect(d) \/ SessionClosed(d) \/ ForwardFails(d) \/ ViewerDropped(d)
    \/ Lagged(d) \/ Received(d)

Next ==
    \/ \E s \in Sockets : WrapperStep(s) \/ MonitorStep(s)
    \/ Scan \/ ScanFails
    \/ \E d \in Devices : DeviceStep(d)

Spec == Init /\ [][Next]_vars

\* The scan is repeated for ever, monitor tasks run when they can, and wrappers
\* read what is sent to them.
Fairness ==
    /\ WF_vars(Scan)
    /\ \A s \in Sockets : WF_vars(MonitorStep(s)) /\ WF_vars(Register(s))

FairSpec == Spec /\ Fairness

-----------------------------------------------------------------------------
(* Properties.                                                             *)

\* The monitor of s is registered and has nothing to read: the registry has
\* heard all there is.
CaughtUp(s) == mon[s] = "read" /\ link[s] = "registered" /\ wire[s] = <<>>

\* The registry agrees with the session whenever its monitor has caught up,
\* over reconnections and scans (run_monitor, monitor_manager), as long as no
\* scan has failed: a failed scan forgets the directory, which is only sent
\* in greetings, and the title, which is only sent when it changes.
RegistryCurrent ==
    \A s \in Live : CaughtUp(s) /\ ~scanFailed =>
        /\ s \in DOMAIN terminals
        /\ terminals[s] = [title |-> title[s], cwd |-> Cwd[s]]

\* The news about s is not complete yet.
Unsettled(s) ==
    \/ link[s] # "registered"
    \/ \E line \in Range(wire[s]) : line.kind = "title"

\* A device whose terminal has come to be hidden by its filter has an event in
\* its queue that will end the session, whatever happened between the check
\* of its connect request and the end of the dial; the exceptions are a
\* receiver that was overrun, and a monitor that is being reconnected.
RevocationPending ==
    \A d \in Serving : LET s == session[d] IN
        \/ s = None
        \/ s \notin Live
        \/ SessionAllowed(d, s)
        \/ \E e \in Range(events[d]) : e.socket = s
        \/ s \in lost[d] \/ Unsettled(s) \/ scanFailed

\* A device that has read its events shows the title of the registry for each
\* terminal it was told of and may see, in whatever order list requests,
\* events and reconnections came; an overrun receiver is put right by list.
ToldCurrent ==
    \A d \in Serving : \A s \in Live :
        \/ told[d][s] = None
        \/ ~SessionAllowed(d, s)
        \/ TitleEventFor(d, s)
        \/ s \in lost[d] \/ Unsettled(s) \/ scanFailed
        \/ told[d][s] = Terminal(s).title

\* The budget counts exactly the connections that have not authenticated
\* (UnauthGuard): none is leaked, none is given back twice.
BudgetExact == unauth = Cardinality({d \in Devices : dev[d] = "unauth"})

\* Once sessions, titles and connections are left alone, the registry holds
\* the live sessions' titles and no dead session: monitors are reconnected,
\* and an entry that a late line makes anew is removed by a later scan.
RegistrySettles ==
    \A s \in Sockets : <>[](
        /\ life[s] = "dead" => s \notin DOMAIN terminals
        /\ life[s] = "alive" => scanFailed \/ Terminal(s).title = title[s])

=============================================================================
