------------------------------- MODULE Session -------------------------------
(***************************************************************************)
(* The event loop of the g2mirror wrapper (main.rs, `run`): who is         *)
(* connected to the session socket, which size the wrapped application     *)
(* runs at, and what every connection has been told.                       *)
(*                                                                         *)
(* The loop is one task: a branch of its select! runs to completion before *)
(* the next one is polled, so a branch is one action.  Its tail, the loop  *)
(* of sweep_and_refresh, is one action per iteration (pc = "sweep"), and   *)
(* nothing else is enabled until that loop returns.  Clients die at any    *)
(* moment; the loop learns of it when a send fails, so every send below    *)
(* succeeds or fails by choice.                                            *)
(*                                                                         *)
(* Terminal dimensions are members of Sizes.  A connection is named by its *)
(* arrival number (Client::id), so each member of Clients connects once.   *)
(* The session has a title from the start (--title).                       *)
(*                                                                         *)
(* An operator named X_Y is a seeded fault: X as a plausible mistake Y in  *)
(* the code would have it.  No action uses one; each shows that some       *)
(* property below notices the mistake.                                     *)
(***************************************************************************)
EXTENDS Naturals

CONSTANTS
    MaxClients,  \* bound: connections accepted in one behaviour
    Sizes,       \* terminal dimensions (rows, cols)
    SimSize,     \* SIM_ROWS x SIM_COLS, the Ctrl+G device
    MaxRank,     \* u32::MAX, the host's rank before any init reports one
    Ranks,       \* the size ranks clients report
    Headless,    \* the session was launched without a host terminal
    IoFaults,    \* pty resizes and host writes may fail
    Conveys,     \* whether a snapshot conveys all that diffs build on: TRUE,
                 \* and FALSE unless that is left out of a run
    None,        \* no view
    Stale,       \* a screen that does not match the model
    Drifted      \* a screen that matched the model until the model was rebuilt
                 \* without what a snapshot does not convey

Clients == 1..MaxClients

ASSUME SessionAssumption ==
    /\ MaxClients \in Nat
    /\ SimSize \in Sizes
    /\ MaxRank \in Nat
    /\ Ranks \subseteq 0..MaxRank
    /\ Headless \in BOOLEAN
    /\ IoFaults \in BOOLEAN
    /\ TRUE \in Conveys /\ Conveys \subseteq BOOLEAN
    /\ None \notin [size: Sizes, simulated: BOOLEAN]
    /\ Stale \notin Sizes /\ Drifted \notin Sizes /\ Drifted # Stale

VARIABLES
    pc,            \* "select", "sweep" (inside sweep_and_refresh) or "exited"
    conn,          \* where each connection is kept
    viewing,       \* viewers whose state is ClientState::Viewing
    dead,          \* viewers marked dead, awaiting the sweep
    size,          \* Client::width and height; for a connection that is not a
                   \* viewer, size, rank and role hold arbitrary fixed values
    rank,          \* Client::size_rank
    role,          \* Client::role
    hostRank,      \* host_rank
    hostAttached,  \* host_attached
    view,          \* Mirror::view
    hostSize,      \* Mirror::host_rows and host_cols
    childSize,     \* size of the wrapped program's pty
    faulted,       \* a pty resize or host write of a view change has failed
    screen,        \* size of the screen a viewing client shows when that is
                   \* an exact copy of the mirror's model, else Stale or
                   \* Drifted
    toldAttached,  \* the host_attached each connection was last told
    knowsTitle     \* connections that were told the current title

vars == <<pc, conn, viewing, dead, size, rank, role, hostRank, hostAttached,
          view, hostSize, childSize, faulted, screen, toldAttached, knowsTitle>>

connVars  == <<conn, size, rank, role, hostRank, viewing>>
hostVars  == <<hostAttached, toldAttached>>
viewVars  == <<view, childSize, faulted, screen>>

Roles == {"viewer", "host"}
Views == [size: Sizes, simulated: BOOLEAN]

Pendings == {c \in Clients : conn[c] = "pending"}
Viewers  == {c \in Clients : conn[c] = "viewer"}
Monitor  == {c \in Clients : conn[c] = "monitor"}  \* at most one

\* Viewers that hold a headless session's host slot.
HostRole == {c \in Viewers \ dead : role[c] = "host"}

\* Dimensions of the mirror's screen model (Mirror::parser).
ModelSize == IF view = None THEN hostSize ELSE view.size

-----------------------------------------------------------------------------
(* The view decision (refresh_view).                                       *)

EffectiveRank_IgnoresRole(c) == rank[c]
EffectiveRank(c) == IF role[c] = "host" THEN hostRank ELSE rank[c]

\* b is the min_by_key of V: lowest rank first, then earliest arrival.
IsBest(b, V) ==
    \A d \in V : \/ EffectiveRank(b) < EffectiveRank(d)
                 \/ EffectiveRank(b) = EffectiveRank(d) /\ b <= d

\* Size the best viewing client b gets: its own unless a real host terminal
\* outranks it.
TargetSize_TieToHost(b, sz) ==
    IF Headless \/ EffectiveRank(b) < hostRank THEN sz[b] ELSE hostSize
TargetSize(b, sz) ==
    IF Headless \/ EffectiveRank(b) <= hostRank THEN sz[b] ELSE hostSize

\* The screen of a viewing client that gets no snapshot when the model is
\* rebuilt at size t from a snapshot of itself, which conveys all that diffs
\* build on or does not: the place of a hidden cursor and the current pen are
\* lost, and the next diff is made for the rebuilt model.
PassedOver(c, t, conveyed) ==
    IF t # ModelSize \/ screen[c] = Stale THEN Stale
    ELSE IF conveyed THEN screen[c]
    ELSE Drifted

\* Mirror::start_view at size t, followed by the snapshot broadcast to `sent`
\* that fails for `failed`.  The output before it, which changes nothing else
\* here, decides what the snapshot conveys.
StartView(t, V, sent, failed) ==
    /\ view' = [size |-> t, simulated |-> FALSE]
    /\ childSize' = t
    /\ \E conveyed \in Conveys :
          screen' = [c \in Clients |->
                       IF c \in sent \ failed THEN t
                       ELSE IF c \in V \ failed THEN PassedOver(c, t, conveyed)
                       ELSE Stale]

\* Mirror::end_view: back to pass-through, the model restarts empty.
EndView ==
    /\ view' = None
    /\ childSize' = hostSize
    /\ screen' = [c \in Clients |-> Stale]

KeepView(V) ==
    /\ screen' = [c \in Clients |-> IF c \in V THEN screen[c] ELSE Stale]
    /\ UNCHANGED <<view, childSize>>

\* Nobody is viewing: a hosted session's real view ends; a headless one is
\* kept, and a simulated one is not refresh_view's to end.
EndsUnviewed_Never == FALSE
EndsUnviewed == ~Headless /\ view # None /\ ~view.simulated

\* No view, a simulated one, or one of other dimensions.
ViewChanges(t) == view # [size |-> t, simulated |-> FALSE]

\* Who needs a snapshot: everyone when the dimensions change, otherwise the
\* client that asked.
SnapshotTo_AskerOnly(V, force, t) == V \cap force
SnapshotTo(V, force, t) == IF ViewChanges(t) THEN V ELSE V \cap force

\* refresh_view for the live viewing clients V with dimensions sz, where
\* force is the client that just asked to view ({} for none); the snapshot
\* send fails for the clients in failed.
RefreshView(V, sz, force, failed) ==
    \/ /\ V = {}
       /\ failed = {}
       /\ IF EndsUnviewed
          THEN EndView
          ELSE KeepView({})
    \/ \E b \in V :
       /\ IsBest(b, V)
       /\ LET t    == TargetSize(b, sz)
              sent == SnapshotTo(V, force, t)
          IN  /\ failed \subseteq sent
              /\ IF ViewChanges(t) \/ force # {}
                 THEN StartView(t, V, sent, failed)
                 ELSE KeepView(V)

\* refresh_view when applying its transition fails (the pty resize, or the
\* host write after it): the mirror has moved on, no snapshot goes out.
RefreshViewFails(V, sz, force) ==
    /\ IoFaults
    /\ \/ /\ V = {}
          /\ EndsUnviewed
          /\ view' = None
          /\ childSize' \in {childSize, hostSize}
          /\ screen' = [c \in Clients |-> Stale]
       \/ \E b \in V :
          /\ IsBest(b, V)
          /\ LET t == TargetSize(b, sz) IN
             /\ ViewChanges(t) \/ force # {}
             /\ view' = [size |-> t, simulated |-> FALSE]
             /\ childSize' \in {childSize, t}
             /\ \E conveyed \in Conveys :
                   screen' = [c \in Clients |->
                                IF c \in V THEN PassedOver(c, t, conveyed) ELSE Stale]

-----------------------------------------------------------------------------
(* Connections come and go.                                                *)

Leave(S) == [c \in Clients |-> IF c \in S THEN "gone" ELSE conn[c]]

\* control.accept(): the greeting carries the detached flag and the title;
\* a connection whose greeting cannot be sent is dropped.
Accept(c) ==
    /\ pc = "select"
    /\ conn[c] = "none" /\ \A d \in Clients : d < c => conn[d] # "none"
    /\ \/ /\ conn' = [conn EXCEPT ![c] = "pending"]
          /\ toldAttached' = [toldAttached EXCEPT ![c] = hostAttached]
          /\ knowsTitle' = knowsTitle \cup {c}
       \/ /\ conn' = [conn EXCEPT ![c] = "gone"]
          /\ UNCHANGED <<toldAttached, knowsTitle>>
    /\ UNCHANGED <<pc, viewing, dead, size, rank, role, hostRank, hostAttached,
                   hostSize>>
    /\ UNCHANGED viewVars

\* The pending connection c sends something that classifies it as nothing,
\* or hangs up.
PendingDropped(c) ==
    /\ pc = "select"
    /\ c \in Pendings
    /\ conn' = Leave({c})
    /\ knowsTitle' = knowsTitle \ {c}
    /\ UNCHANGED <<pc, viewing, dead, size, rank, role, hostRank, hostSize>>
    /\ UNCHANGED hostVars
    /\ UNCHANGED viewVars

\* The title is sent to a connection when it is classified.
SendTitle_Not(c) == {}
SendTitle(c) == {c}

\* monitor{version}: c takes the monitor slot; a previous monitor is dropped,
\* and so is c when the title cannot be sent to it.
BecomeMonitor(c) ==
    /\ pc = "select"
    /\ c \in Pendings
    /\ \/ /\ conn' = [Leave(Monitor) EXCEPT ![c] = "monitor"]
          /\ knowsTitle' = (knowsTitle \ Monitor) \cup SendTitle(c)
       \/ /\ conn' = Leave(Monitor \cup {c})
          /\ knowsTitle' = knowsTitle \ (Monitor \cup {c})
    /\ UNCHANGED <<pc, viewing, dead, size, rank, role, hostRank, hostSize>>
    /\ UNCHANGED hostVars
    /\ UNCHANGED viewVars

MonitorHangup ==
    /\ pc = "select"
    /\ Monitor # {}
    /\ conn' = Leave(Monitor)
    /\ knowsTitle' = knowsTitle \ Monitor
    /\ UNCHANGED <<pc, viewing, dead, size, rank, role, hostRank, hostSize>>
    /\ UNCHANGED hostVars
    /\ UNCHANGED viewVars

\* The reasons an init is turned away: bad version or dimensions, a host role
\* on a session with a real terminal, or a host role already held.
InitRejected(valid, r, force) ==
    \/ ~valid
    \/ r = "host" /\ ~Headless
    \/ r = "host" /\ HostRole # {} /\ ~force

RejectInit(c) ==
    /\ pc = "select"
    /\ c \in Pendings
    /\ \E valid \in BOOLEAN, r \in Roles, force \in BOOLEAN :
          InitRejected(valid, r, force)
    /\ conn' = Leave({c})
    /\ knowsTitle' = knowsTitle \ {c}
    /\ pc' = "sweep"
    /\ UNCHANGED <<viewing, dead, size, rank, role, hostRank, hostSize>>
    /\ UNCHANGED hostVars
    /\ UNCHANGED viewVars

\* Holders an accepted init of role r displaces (it got here with --force).
Displaced_Nobody(r) == {}
Displaced(r) == IF r = "host" THEN HostRole ELSE {}

\* init accepted: a forced host claim displaces the holder; the client joins
\* the viewers if the title can be sent to it.  hr is the rank it reports for
\* the host terminal, None if it reports none.
AcceptInit(c, sz, rk, hr, r, force) ==
    /\ pc = "select"
    /\ c \in Pendings
    /\ ~InitRejected(TRUE, r, force)
    /\ dead' = dead \cup Displaced(r)
    /\ hostRank' = IF hr = None THEN hostRank ELSE hr
    /\ \/ /\ conn' = [conn EXCEPT ![c] = "viewer"]
          /\ size' = [size EXCEPT ![c] = sz]
          /\ rank' = [rank EXCEPT ![c] = rk]
          /\ role' = [role EXCEPT ![c] = r]
          /\ knowsTitle' = knowsTitle \cup SendTitle(c)
       \/ /\ conn' = Leave({c})
          /\ knowsTitle' = knowsTitle \ {c}
          /\ UNCHANGED <<size, rank, role>>
    /\ pc' = "sweep"
    /\ UNCHANGED <<viewing, hostSize>>
    /\ UNCHANGED hostVars
    /\ UNCHANGED viewVars

-----------------------------------------------------------------------------
(* Messages from viewers (handle_viewer_message, then the sweep).          *)

\* Only a connection that sent its init is listened to as a viewer.
Speaks_BeforeInit(c) == c \in Viewers \cup Pendings
Speaks(c) == c \in Viewers

\* The refresh a viewer message of c runs, with its two outcomes: snapshots
\* go out and some fail, or the refresh itself fails and c is dropped for it.
ViewerRefresh(c, V, sz, force) ==
    /\ \/ \E failed \in SUBSET V :
            /\ RefreshView(V, sz, force, failed)
            /\ dead' = dead \cup failed
            /\ UNCHANGED faulted
       \/ /\ RefreshViewFails(V, sz, force)
          /\ dead' = dead \cup {c}
          /\ faulted' = TRUE
    /\ pc' = "sweep"

\* view: always answered with a snapshot for c.
ViewMsg(c) ==
    /\ pc = "select"
    /\ Speaks(c)
    /\ viewing' = viewing \cup {c}
    /\ ViewerRefresh(c, viewing \cup {c}, size, {c})
    /\ UNCHANGED <<conn, size, rank, role, hostRank, hostSize, knowsTitle>>
    /\ UNCHANGED hostVars

\* unview from a viewing client.
UnviewMsg(c) ==
    /\ pc = "select"
    /\ Speaks(c) /\ c \in viewing
    /\ viewing' = viewing \ {c}
    /\ ViewerRefresh(c, viewing \ {c}, size, {})
    /\ UNCHANGED <<conn, size, rank, role, hostRank, hostSize, knowsTitle>>
    /\ UNCHANGED hostVars

\* resize with valid dimensions.
ResizeMsg(c, s) ==
    /\ pc = "select"
    /\ Speaks(c)
    /\ size' = [size EXCEPT ![c] = s]
    /\ ViewerRefresh(c, viewing, [size EXCEPT ![c] = s], {})
    /\ UNCHANGED <<conn, viewing, rank, role, hostRank, hostSize, knowsTitle>>
    /\ UNCHANGED hostVars

\* input, history, or a redundant unview: nothing here changes.
OtherMsg(c) ==
    /\ pc = "select"
    /\ Speaks(c)
    /\ pc' = "sweep"
    /\ UNCHANGED <<dead, hostSize, knowsTitle>>
    /\ UNCHANGED connVars
    /\ UNCHANGED hostVars
    /\ UNCHANGED viewVars

\* A message that is an error in this state, a failed reply, garbage or EOF.
ViewerDies(c) ==
    /\ pc = "select"
    /\ Speaks(c)
    /\ dead' = dead \cup {c}
    /\ pc' = "sweep"
    /\ UNCHANGED <<hostSize, knowsTitle>>
    /\ UNCHANGED connVars
    /\ UNCHANGED hostVars
    /\ UNCHANGED viewVars

-----------------------------------------------------------------------------
(* One iteration of the loop in sweep_and_refresh: report a change of the  *)
(* host slot, remove the dead, refresh the view.                           *)

\* viewers.retain(|c| !c.dead): which of the clients marked dead are removed.
Retired_Nobody(marked) == {}
Retired(marked) == marked

\* Who is told that the host slot was taken or freed.
FlipAudience_MonitorOnly == Monitor
FlipAudience == Monitor \cup (Viewers \ dead)

\* The connections host_changed goes to: none unless the slot flipped.
Told == IF (HostRole # {}) = hostAttached THEN {} ELSE FlipAudience

\* The iteration in which the sends to `lost` fail.
SweepLosing(lost) ==
    LET marked  == dead \cup (lost \cap Viewers)
        removed == Retired(marked) \cup (lost \cap Monitor)
        V       == viewing \ marked
    IN  /\ hostAttached' = (HostRole # {})
        /\ toldAttached' = [c \in Clients |->
                              IF c \in removed THEN FALSE
                              ELSE IF c \in Told THEN HostRole # {}
                              ELSE toldAttached[c]]
        /\ conn' = Leave(removed)
        /\ viewing' = viewing \ removed
        /\ knowsTitle' = knowsTitle \ removed
        /\ size' = [c \in Clients |-> IF c \in removed THEN SimSize ELSE size[c]]
        /\ rank' = [c \in Clients |-> IF c \in removed THEN 0 ELSE rank[c]]
        /\ role' = [c \in Clients |-> IF c \in removed THEN "viewer" ELSE role[c]]
        /\ \E failed \in SUBSET V :
              /\ RefreshView(V, size, {}, failed)
              /\ dead' = (marked \ removed) \cup failed
        /\ pc' = IF dead' = {} THEN "select" ELSE "sweep"
        /\ UNCHANGED <<hostRank, hostSize, faulted>>

Sweep ==
    /\ pc = "sweep"
    /\ \E lost \in SUBSET Told : SweepLosing(lost)

-----------------------------------------------------------------------------
(* The wrapped program and the host terminal.                              *)

\* A chunk of output: the diff goes to the viewing clients, a changed title
\* to the monitor and every viewer.  A failed send to the monitor (of the
\* title, a bell or an activity report) drops it.
PtyOutput(titleChanged, failed, monitorFails) ==
    /\ pc = "select"
    /\ failed \subseteq (IF titleChanged THEN Viewers
                         ELSE IF view = None THEN {} ELSE viewing)
    /\ monitorFails => Monitor # {}
    /\ LET gone == IF monitorFails THEN Monitor ELSE {} IN
       /\ conn' = Leave(gone)
       /\ knowsTitle' = IF titleChanged
                        THEN (Monitor \cup Viewers) \ (gone \cup failed)
                        ELSE knowsTitle \ gone
    /\ screen' = [c \in Clients |->
                    IF c \in viewing \ failed /\ view # None THEN screen[c] ELSE Stale]
    /\ dead' = dead \cup failed
    /\ pc' = IF failed = {} THEN "select" ELSE "sweep"
    /\ UNCHANGED <<viewing, size, rank, role, hostRank, view, hostSize, childSize,
                   faulted>>
    /\ UNCHANGED hostVars

\* Pty size after the host terminal changed to s.
ChildAfterWinch_Always(s) == s
ChildAfterWinch(s) == IF view = None THEN s ELSE childSize

\* SIGWINCH: host_resized; in a view only the layout on the host changes.
HostResized(s) ==
    /\ pc = "select"
    /\ ~Headless
    /\ hostSize' = s
    /\ childSize' = ChildAfterWinch(s)
    /\ pc' = "sweep"
    /\ UNCHANGED <<dead, view, faulted, screen, knowsTitle>>
    /\ UNCHANGED connVars
    /\ UNCHANGED hostVars

\* Ctrl+G on the host's keyboard.
ToggleSimulated ==
    /\ pc = "select"
    /\ ~Headless
    /\ \/ /\ view = None
          /\ view' = [size |-> SimSize, simulated |-> TRUE]
          /\ childSize' = SimSize
          /\ screen' = [c \in Clients |-> Stale]
       \/ /\ view # None /\ view.simulated
          /\ EndView
    /\ UNCHANGED <<pc, dead, hostSize, faulted, knowsTitle>>
    /\ UNCHANGED connVars
    /\ UNCHANGED hostVars

\* The wrapped program exits (its viewers are told), or an I/O error makes
\* run() return: every connection closes.
Exit ==
    /\ pc = "select" \/ (pc = "sweep" /\ IoFaults)
    /\ pc' = "exited"
    /\ conn' = Leave(Clients)
    /\ viewing' = {} /\ dead' = {} /\ knowsTitle' = {}
    /\ screen' = [c \in Clients |-> Stale]
    /\ size' = [c \in Clients |-> SimSize]
    /\ rank' = [c \in Clients |-> 0]
    /\ role' = [c \in Clients |-> "viewer"]
    /\ toldAttached' = [c \in Clients |-> FALSE]
    /\ UNCHANGED <<hostRank, hostAttached, view, hostSize, childSize, faulted>>

-----------------------------------------------------------------------------
Init ==
    /\ pc = "select"
    /\ conn = [c \in Clients |-> "none"]
    /\ viewing = {} /\ dead = {}
    /\ hostSize \in Sizes
    /\ childSize = hostSize
    /\ size = [c \in Clients |-> SimSize]
    /\ rank = [c \in Clients |-> 0]
    /\ role = [c \in Clients |-> "viewer"]
    /\ hostRank = MaxRank
    /\ hostAttached = FALSE
    /\ view = None
    /\ faulted = FALSE
    /\ screen = [c \in Clients |-> Stale]
    /\ toldAttached = [c \in Clients |-> FALSE]
    /\ knowsTitle = {}

ClientStep(c) ==
    \/ Accept(c)
    \/ PendingDropped(c)
    \/ BecomeMonitor(c)
    \/ RejectInit(c)
    \/ \E sz \in Sizes, rk \in Ranks, hr \in Ranks \cup {None},
          r \in Roles, force \in BOOLEAN : AcceptInit(c, sz, rk, hr, r, force)
    \/ ViewMsg(c)
    \/ UnviewMsg(c)
    \/ \E s \in Sizes : ResizeMsg(c, s)
    \/ OtherMsg(c)
    \/ ViewerDies(c)

LoopStep ==
    \/ \E titleChanged, monitorFails \in BOOLEAN, failed \in SUBSET Clients :
          PtyOutput(titleChanged, failed, monitorFails)
    \/ \E s \in Sizes : HostResized(s)
    \/ ToggleSimulated
    \/ MonitorHangup

Next ==
    \/ \E c \in Clients : ClientStep(c)
    \/ LoopStep
    \/ Sweep
    \/ Exit

Spec == Init /\ [][Next]_vars

\* Once entered, the sweep loop runs: nothing else can be scheduled.
FairSpec == Spec /\ WF_vars(Sweep)

-----------------------------------------------------------------------------
(* Correctness.                                                            *)

\* Every variable holds a value of the kind the code gives it.
TypeOK ==
    /\ pc \in {"select", "sweep", "exited"}
    /\ conn \in [Clients -> {"none", "pending", "viewer", "monitor", "gone"}]
    /\ viewing \subseteq Viewers
    /\ dead \subseteq Viewers
    /\ size \in [Clients -> Sizes]
    /\ rank \in [Clients -> Nat]
    /\ role \in [Clients -> Roles]
    /\ hostRank \in Nat
    /\ hostAttached \in BOOLEAN
    /\ view \in Views \cup {None}
    /\ hostSize \in Sizes
    /\ childSize \in Sizes
    /\ faulted \in BOOLEAN
    /\ screen \in [Clients -> Sizes \cup {Stale, Drifted}]
    /\ toldAttached \in [Clients -> BOOLEAN]
    /\ knowsTitle \subseteq Clients

\* A live viewing client's screen is an exact copy of the mirror's model, at
\* the size of the running view: whatever order views, resizes, takeovers
\* and failed sends come in, no client applies a diff to the wrong screen
\* (refresh_view's choice of who needs a snapshot).  Two things break it: a
\* view change that fails on the host's side, as refresh_view then skips its
\* snapshots, and a `view` at unchanged dimensions, which rebuilds the model
\* and passes the other viewers over.  These miss what the snapshot did not
\* convey until their next one, and are never further off than that.
StreamsInSync ==
    ~faulted => \A c \in viewing \ dead :
                    /\ view # None
                    /\ ~view.simulated
                    /\ screen[c] \in {view.size, Drifted}

\* Between two events a real (not simulated) view is active exactly while a
\* client is viewing; a headless session keeps the last one (the test in
\* toggle_simulated relies on it).
RealViewIffViewing ==
    pc = "select" =>
        IF Headless
        THEN /\ viewing # {} => view # None
             /\ view # None => ~view.simulated
        ELSE viewing # {} <=> (view # None /\ ~view.simulated)

\* Between two events the view has the size the precedence order asks for:
\* the host terminal's if it outranks every viewing client, otherwise that
\* of the viewing client nobody precedes.
SizePrecedence ==
    pc = "select" /\ viewing # {} =>
        IF ~Headless /\ \A c \in viewing : hostRank < rank[c]
        THEN view.size = hostSize
        ELSE \E c \in viewing :
                /\ view.size = size[c]
                /\ \A d \in viewing \ {c} :
                      LET rc == IF role[c] = "host" THEN hostRank ELSE rank[c]
                          rd == IF role[d] = "host" THEN hostRank ELSE rank[d]
                      IN  rc < rd \/ (rc = rd /\ c < d)

\* The wrapped program's pty always has the dimensions of the mirror's model
\* (Mirror::parser "always sized to the child's current dimensions"), until
\* an attempt to resize it fails.
ChildHasModelSize == ~faulted => childSize = ModelSize

\* At most one live client holds the host role, forced takeovers included,
\* and between two events a held slot is never reported as free.
OneHost ==
    /\ \A c, d \in HostRole : c = d
    /\ pc = "select" /\ HostRole # {} => hostAttached

\* Between two events every viewer and the monitor know the current title,
\* however many title changes they missed while they were pending.
TitleKnown == pc = "select" => Viewers \cup Monitor \subseteq knowsTitle

\* When the host slot changes hands between taken and free, every viewer and
\* the monitor that stay connected are told.
FlipReachesEveryone ==
    [][hostAttached' # hostAttached =>
          \A c \in (Viewers \cup Monitor)' : toldAttached'[c] = hostAttached']_vars

\* sweep_and_refresh returns: its loop cannot go round for ever.
SweepEnds == (pc = "sweep") ~> (pc # "sweep")

=============================================================================
