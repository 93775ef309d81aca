---------------------------- MODULE SessionProofs ----------------------------
(***************************************************************************)
(* Theorems about Session, for every number of connections, every set of   *)
(* dimensions and ranks, hosted and headless sessions alike.               *)
(***************************************************************************)
EXTENDS Session, TLAPS

-----------------------------------------------------------------------------
(* The view decision keeps the types of what it assigns.                   *)

\* refresh_view leaves the view, the pty size and the clients' screens with
\* values of their kinds, whichever sends fail.
LEMMA RefreshTypes ==
    ASSUME TypeOK, NEW V \in SUBSET Clients, NEW sz \in [Clients -> Sizes],
           NEW force, NEW failed,
           RefreshView(V, sz, force, failed) \/ RefreshViewFails(V, sz, force)
    PROVE  /\ view' \in Views \cup {None}
           /\ childSize' \in Sizes
           /\ screen' \in [Clients -> Sizes \cup {Stale, Drifted}]
<1>1. \A b \in V : TargetSize(b, sz) \in Sizes
  BY DEF TargetSize, TypeOK
<1>5. \A t : \A c \in V, conveyed \in Conveys :
         PassedOver(c, t, conveyed) \in Sizes \cup {Stale, Drifted}
  BY DEF PassedOver, TypeOK
<1>2. ASSUME NEW b \in V, NEW sent,
             StartView(TargetSize(b, sz), V, sent, failed)
      PROVE  /\ view' \in Views \cup {None}
             /\ childSize' \in Sizes
             /\ screen' \in [Clients -> Sizes \cup {Stale, Drifted}]
  <2>1. \A c \in V, conveyed \in Conveys :
           PassedOver(c, TargetSize(b, sz), conveyed) \in Sizes \cup {Stale, Drifted}
    BY <1>5
  <2>2. view' \in Views \cup {None} /\ childSize' \in Sizes
    BY <1>1, <1>2 DEF StartView, Views
  <2>3. QED BY <1>1, <1>2, <2>1, <2>2 DEF StartView
<1>3. ASSUME EndView
      PROVE  /\ view' \in Views \cup {None}
             /\ childSize' \in Sizes
             /\ screen' \in [Clients -> Sizes \cup {Stale, Drifted}]
  BY <1>3 DEF EndView, TypeOK
<1>4. ASSUME NEW W, KeepView(W)
      PROVE  /\ view' \in Views \cup {None}
             /\ childSize' \in Sizes
             /\ screen' \in [Clients -> Sizes \cup {Stale, Drifted}]
  BY <1>4 DEF KeepView, TypeOK
<1>6. CASE RefreshView(V, sz, force, failed)
  <2>1. CASE V = {} /\ failed = {} /\ IF EndsUnviewed THEN EndView ELSE KeepView({})
    BY <2>1, <1>3, <1>4
  <2>2. ASSUME NEW b \in V,
               IF ViewChanges(TargetSize(b, sz)) \/ force # {}
               THEN StartView(TargetSize(b, sz), V,
                              SnapshotTo(V, force, TargetSize(b, sz)), failed)
               ELSE KeepView(V)
        PROVE  /\ view' \in Views \cup {None}
               /\ childSize' \in Sizes
               /\ screen' \in [Clients -> Sizes \cup {Stale, Drifted}]
    BY <2>2, <1>2, <1>4
  <2>3. QED BY <1>6, <2>1, <2>2 DEF RefreshView
<1>7. CASE RefreshViewFails(V, sz, force)
  <2>1. CASE /\ view' = None
             /\ childSize' \in {childSize, hostSize}
             /\ screen' = [c \in Clients |-> Stale]
    BY <2>1 DEF TypeOK
  <2>2. ASSUME NEW b \in V, NEW t, t = TargetSize(b, sz),
               view' = [size |-> t, simulated |-> FALSE],
               childSize' \in {childSize, t},
               NEW conveyed \in Conveys,
               screen' = [c \in Clients |->
                            IF c \in V THEN PassedOver(c, t, conveyed) ELSE Stale]
        PROVE  /\ view' \in Views \cup {None}
               /\ childSize' \in Sizes
               /\ screen' \in [Clients -> Sizes \cup {Stale, Drifted}]
    BY <2>2, <1>1, <1>5 DEF TypeOK, Views
  <2>3. QED BY <1>7, <2>1, <2>2 DEF RefreshViewFails
<1>8. QED BY <1>6, <1>7

-----------------------------------------------------------------------------
(* Type correctness.                                                       *)

LEMMA InitTypes == Init => TypeOK
<1> SUFFICES ASSUME Init PROVE TypeOK
  OBVIOUS
<1>1. 0 \in Nat /\ MaxRank \in Nat /\ SimSize \in Sizes
  BY SessionAssumption
<1>2. /\ conn \in [Clients -> {"none", "pending", "viewer", "monitor", "gone"}]
      /\ size \in [Clients -> Sizes]
      /\ rank \in [Clients -> Nat]
      /\ role \in [Clients -> Roles]
      /\ screen \in [Clients -> Sizes \cup {Stale, Drifted}]
      /\ toldAttached \in [Clients -> BOOLEAN]
  BY <1>1 DEF Init, Roles
<1>3. QED
  BY <1>1, <1>2 DEF Init, TypeOK

\* Each of the branches of the loop that only moves connections about.
LEMMA ConnectionTypes ==
    ASSUME TypeOK, NEW c \in Clients,
           \/ Accept(c) \/ PendingDropped(c) \/ BecomeMonitor(c)
           \/ RejectInit(c) \/ OtherMsg(c) \/ ViewerDies(c) \/ MonitorHangup
    PROVE  TypeOK'
<1> USE DEF TypeOK, Viewers, Pendings, Monitor
<1>1. CASE Accept(c)
  BY <1>1 DEF Accept, viewVars
<1>2. CASE PendingDropped(c)
  BY <1>2 DEF PendingDropped, Leave, viewVars, hostVars
<1>3. CASE BecomeMonitor(c)
  BY <1>3 DEF BecomeMonitor, Leave, SendTitle, viewVars, hostVars
<1>4. CASE RejectInit(c)
  BY <1>4 DEF RejectInit, Leave, viewVars, hostVars
<1>5. CASE OtherMsg(c)
  BY <1>5 DEF OtherMsg, connVars, viewVars, hostVars
<1>6. CASE ViewerDies(c)
  BY <1>6 DEF ViewerDies, Speaks, connVars, viewVars, hostVars
<1>7. CASE MonitorHangup
  BY <1>7 DEF MonitorHangup, Leave, viewVars, hostVars
<1>8. QED BY <1>1, <1>2, <1>3, <1>4, <1>5, <1>6, <1>7

LEMMA AcceptInitTypes ==
    ASSUME TypeOK, NEW c \in Clients, NEW sz \in Sizes, NEW rk \in Ranks,
           NEW hr \in Ranks \cup {None}, NEW r \in Roles, NEW force \in BOOLEAN,
           AcceptInit(c, sz, rk, hr, r, force)
    PROVE  TypeOK'
<1>1. rk \in Nat /\ hostRank' \in Nat
  BY SessionAssumption DEF AcceptInit, TypeOK
<1>2. dead' \subseteq Viewers' /\ viewing' \subseteq Viewers'
  BY DEF AcceptInit, TypeOK, Displaced, HostRole, Viewers, Pendings, Leave
<1>3. QED
  BY <1>1, <1>2 DEF AcceptInit, TypeOK, Leave, SendTitle, Pendings,
                    hostVars, viewVars

LEMMA ViewerMsgTypes ==
    ASSUME TypeOK, NEW c \in Clients,
           \/ ViewMsg(c) \/ UnviewMsg(c) \/ \E s \in Sizes : ResizeMsg(c, s)
    PROVE  TypeOK'
<1>1. ASSUME NEW V \in SUBSET Viewers, NEW sz \in [Clients -> Sizes], NEW force,
             ViewerRefresh(c, V, sz, force), c \in Viewers
      PROVE  /\ view' \in Views \cup {None}
             /\ childSize' \in Sizes
             /\ screen' \in [Clients -> Sizes \cup {Stale, Drifted}]
             /\ dead' \subseteq Viewers
             /\ faulted' \in BOOLEAN
             /\ pc' = "sweep"
  <2>1. V \in SUBSET Clients
    BY DEF Viewers
  <2>2. PICK failed : \/ /\ RefreshView(V, sz, force, failed)
                         /\ failed \in SUBSET V
                         /\ dead' = dead \cup failed
                         /\ faulted' = faulted
                      \/ /\ RefreshViewFails(V, sz, force)
                         /\ dead' = dead \cup {c}
                         /\ faulted' = TRUE
    BY <1>1 DEF ViewerRefresh
  <2>3. QED BY <1>1, <2>1, <2>2, RefreshTypes DEF TypeOK, ViewerRefresh
<1>2. CASE ViewMsg(c)
  <2>1. viewing \cup {c} \in SUBSET Viewers /\ c \in Viewers
    BY <1>2 DEF ViewMsg, Speaks, TypeOK
  <2>2. ViewerRefresh(c, viewing \cup {c}, size, {c}) /\ size \in [Clients -> Sizes]
    BY <1>2 DEF ViewMsg, TypeOK
  <2>3. QED
    BY <1>1, <1>2, <2>1, <2>2 DEF ViewMsg, TypeOK, Viewers, hostVars
<1>3. CASE UnviewMsg(c)
  <2>1. viewing \ {c} \in SUBSET Viewers /\ c \in Viewers
    BY <1>3 DEF UnviewMsg, Speaks, TypeOK
  <2>2. ViewerRefresh(c, viewing \ {c}, size, {}) /\ size \in [Clients -> Sizes]
    BY <1>3 DEF UnviewMsg, TypeOK
  <2>3. QED
    BY <1>1, <1>3, <2>1, <2>2 DEF UnviewMsg, TypeOK, Viewers, hostVars
<1>4. CASE \E s \in Sizes : ResizeMsg(c, s)
  <2>1. PICK s \in Sizes : ResizeMsg(c, s)
    BY <1>4
  <2>2. viewing \in SUBSET Viewers /\ c \in Viewers
    BY <2>1 DEF ResizeMsg, Speaks, TypeOK
  <2>3. /\ ViewerRefresh(c, viewing, [size EXCEPT ![c] = s], {})
        /\ [size EXCEPT ![c] = s] \in [Clients -> Sizes]
    BY <2>1 DEF ResizeMsg, TypeOK
  <2>4. QED
    BY <1>1, <2>1, <2>2, <2>3 DEF ResizeMsg, TypeOK, Viewers, hostVars
<1>5. QED BY <1>2, <1>3, <1>4

LEMMA SweepTypes ==
    ASSUME TypeOK, Sweep
    PROVE  TypeOK'
<1>1. PICK lost \in SUBSET Told : SweepLosing(lost)
  BY DEF Sweep
<1> DEFINE marked  == dead \cup (lost \cap Viewers)
           removed == marked \cup (lost \cap Monitor)
           V       == viewing \ marked
<1>2. PICK failed \in SUBSET V :
         /\ RefreshView(V, size, {}, failed)
         /\ dead' = (marked \ removed) \cup failed
  BY <1>1 DEF SweepLosing, Retired
<1>3. V \cap removed = {} /\ V \in SUBSET Clients /\ size \in [Clients -> Sizes]
  BY DEF TypeOK, Viewers, Monitor
<1>4. /\ view' \in Views \cup {None}
      /\ childSize' \in Sizes
      /\ screen' \in [Clients -> Sizes \cup {Stale, Drifted}]
  BY <1>2, <1>3, RefreshTypes
<1>5. Viewers' = Viewers \ removed
  BY <1>1 DEF SweepLosing, Retired, Viewers, Leave, TypeOK
<1>6. /\ conn' \in [Clients -> {"none", "pending", "viewer", "monitor", "gone"}]
      /\ size' \in [Clients -> Sizes]
      /\ rank' \in [Clients -> Nat]
      /\ role' \in [Clients -> Roles]
      /\ toldAttached' \in [Clients -> BOOLEAN]
  BY <1>1, SessionAssumption DEF SweepLosing, Retired, Leave, TypeOK, Roles
<1>7. viewing' \subseteq Viewers' /\ dead' \subseteq Viewers'
  BY <1>1, <1>2, <1>3, <1>5 DEF SweepLosing, Retired, TypeOK
<1>8. pc' \in {"select", "sweep", "exited"} /\ knowsTitle' \subseteq Clients
  BY <1>1 DEF SweepLosing, TypeOK
<1>9. hostAttached' \in BOOLEAN /\ UNCHANGED <<hostRank, hostSize, faulted>>
  BY <1>1 DEF SweepLosing
<1>10. QED
  BY <1>4, <1>6, <1>7, <1>8, <1>9 DEF TypeOK

LEMMA HostTypes ==
    ASSUME TypeOK,
           \/ \E titleChanged, monitorFails \in BOOLEAN, failed \in SUBSET Clients :
                 PtyOutput(titleChanged, failed, monitorFails)
           \/ \E s \in Sizes : HostResized(s)
           \/ ToggleSimulated
           \/ Exit
    PROVE  TypeOK'
<1>1. ASSUME NEW titleChanged \in BOOLEAN, NEW monitorFails \in BOOLEAN,
             NEW failed \in SUBSET Clients,
             PtyOutput(titleChanged, failed, monitorFails)
      PROVE  TypeOK'
  <2>1. failed \subseteq Viewers
    BY <1>1 DEF PtyOutput, TypeOK
  <2>2. Viewers' = Viewers
    BY <1>1 DEF PtyOutput, Viewers, Monitor, Leave, TypeOK
  <2>3. /\ conn' \in [Clients -> {"none", "pending", "viewer", "monitor", "gone"}]
        /\ screen' \in [Clients -> Sizes \cup {Stale, Drifted}]
        /\ knowsTitle' \subseteq Clients
        /\ pc' \in {"select", "sweep", "exited"}
    BY <1>1 DEF PtyOutput, Leave, TypeOK, Monitor, Viewers
  <2>4. QED BY <1>1, <2>1, <2>2, <2>3 DEF PtyOutput, TypeOK, hostVars
<1>2. ASSUME NEW s \in Sizes, HostResized(s)
      PROVE  TypeOK'
  BY <1>2 DEF HostResized, ChildAfterWinch, TypeOK, connVars, hostVars, Viewers
<1>3. CASE ToggleSimulated
  <2>1. /\ view' \in Views \cup {None}
        /\ childSize' \in Sizes
        /\ screen' \in [Clients -> Sizes \cup {Stale, Drifted}]
    <3>1. CASE EndView
      BY <3>1 DEF EndView, TypeOK
    <3>2. CASE /\ view' = [size |-> SimSize, simulated |-> TRUE]
               /\ childSize' = SimSize
               /\ screen' = [c \in Clients |-> Stale]
      BY <3>2, SessionAssumption DEF Views
    <3>3. QED BY <1>3, <3>1, <3>2 DEF ToggleSimulated
  <2>2. QED
    BY <1>3, <2>1 DEF ToggleSimulated, TypeOK, connVars, hostVars, Viewers
<1>4. CASE Exit
  <2>1. 0 \in Nat /\ SimSize \in Sizes
    BY SessionAssumption
  <2>2. /\ conn' \in [Clients -> {"none", "pending", "viewer", "monitor", "gone"}]
        /\ size' \in [Clients -> Sizes]
        /\ rank' \in [Clients -> Nat]
        /\ role' \in [Clients -> Roles]
        /\ screen' \in [Clients -> Sizes \cup {Stale, Drifted}]
        /\ toldAttached' \in [Clients -> BOOLEAN]
    BY <1>4, <2>1 DEF Exit, Leave, TypeOK, Roles
  <2>3. QED BY <1>4, <2>2 DEF Exit, TypeOK, hostVars
<1>5. QED BY <1>1, <1>2, <1>3, <1>4

LEMMA StepTypes ==
    ASSUME TypeOK, [Next]_vars
    PROVE  TypeOK'
<1>1. ASSUME NEW c \in Clients, ClientStep(c)
      PROVE  TypeOK'
  BY <1>1, ConnectionTypes, AcceptInitTypes, ViewerMsgTypes DEF ClientStep
<1>2. CASE LoopStep
  <2>1. CASE MonitorHangup
    BY <2>1 DEF MonitorHangup, Leave, viewVars, hostVars, TypeOK, Viewers, Monitor
  <2>2. QED BY <1>2, <2>1, HostTypes DEF LoopStep
<1>3. CASE UNCHANGED vars
  BY <1>3 DEF vars, TypeOK, Viewers
<1>4. QED BY <1>1, <1>2, <1>3, SweepTypes, HostTypes DEF Next

\* Every variable keeps a value of its kind, for any constants.
THEOREM TypeCorrect == Spec => []TypeOK
<1>1. Init => TypeOK
  BY InitTypes
<1>2. TypeOK /\ [Next]_vars => TypeOK'
  BY StepTypes
<1>3. QED BY <1>1, <1>2, PTL DEF Spec

-----------------------------------------------------------------------------
(* Clients' screens stay in step with the view.                            *)

\* Nobody is marked dead except while sweep_and_refresh is about to run.
NoDeadAtRest == pc # "sweep" => dead = {}

\* The inductive invariant behind StreamsInSync and ChildHasModelSize: a
\* message handler refreshes the view for all of `viewing`, which is right
\* only because no dead client is among them when it starts.
SyncInv == TypeOK /\ NoDeadAtRest /\ StreamsInSync /\ ChildHasModelSize

\* The clients of W show the model of a real view, or have drifted from it
\* since a rebuild.
InStep(W) ==
    \A c \in W : view # None /\ ~view.simulated /\ screen[c] \in {view.size, Drifted}

\* refresh_view: if the live viewing clients other than the one that asked
\* are in step before, then all that could be sent to are in step after, and
\* the pty has the model's dimensions.
LEMMA RefreshInStep ==
    ASSUME TypeOK, ChildHasModelSize, ~faulted, NEW V \in SUBSET Clients,
           NEW sz \in [Clients -> Sizes], NEW force \in SUBSET V,
           NEW failed, InStep(V \ force), RefreshView(V, sz, force, failed)
    PROVE  /\ InStep(V \ failed)'
           /\ hostSize' = hostSize => ChildHasModelSize'
<1>1. None \notin Views
  BY SessionAssumption DEF Views
<1>2. ASSUME EndView
      PROVE  /\ V = {} => InStep(V \ failed)'
             /\ hostSize' = hostSize => ChildHasModelSize'
  BY <1>2 DEF EndView, InStep, ChildHasModelSize, ModelSize
<1>3. ASSUME NEW W, KeepView(W)
      PROVE  hostSize' = hostSize => ChildHasModelSize'
  BY <1>3 DEF KeepView, ChildHasModelSize, ModelSize
<1>4. CASE V = {} /\ failed = {} /\ IF EndsUnviewed THEN EndView ELSE KeepView({})
  BY <1>2, <1>3, <1>4 DEF InStep
<1>5. ASSUME NEW b \in V, NEW t, t = TargetSize(b, sz),
             failed \subseteq SnapshotTo(V, force, t),
             IF ViewChanges(t) \/ force # {}
             THEN StartView(t, V, SnapshotTo(V, force, t), failed)
             ELSE KeepView(V)
      PROVE  /\ InStep(V \ failed)'
             /\ hostSize' = hostSize => ChildHasModelSize'
  <2>1. t \in Sizes /\ [size |-> t, simulated |-> FALSE] # None
    <3>1. t \in Sizes
      BY <1>5 DEF TargetSize, TypeOK
    <3>2. [size |-> t, simulated |-> FALSE] \in Views
      BY <3>1 DEF Views
    <3>3. QED BY <1>1, <3>1, <3>2
  <2>2. CASE ViewChanges(t) \/ force # {}
    <3>1. /\ view' = [size |-> t, simulated |-> FALSE]
          /\ childSize' = t
          /\ view' # None
      BY <1>5, <2>1, <2>2 DEF StartView
    <3>2. ASSUME NEW c \in V \ failed
          PROVE  screen'[c] \in {t, Drifted}
      <4>1. CASE ViewChanges(t) \/ c \in force
        BY <1>5, <2>2, <4>1 DEF StartView, SnapshotTo
      <4>2. CASE ~ViewChanges(t) /\ c \notin force
        <5>1. view = [size |-> t, simulated |-> FALSE] /\ view # None
          BY <4>2, <2>1 DEF ViewChanges
        <5>2. t = ModelSize /\ screen[c] \in {t, Drifted} /\ c \in V
          BY <4>2, <5>1 DEF ModelSize, InStep
        <5>3. c \notin SnapshotTo(V, force, t)
          BY <4>2 DEF SnapshotTo
        <5>4. \A conveyed : PassedOver(c, t, conveyed) \in {t, Drifted}
          BY <2>1, <5>2, SessionAssumption DEF PassedOver
        <5>5. PICK conveyed \in Conveys :
                 screen' = [d \in Clients |->
                              IF d \in SnapshotTo(V, force, t) \ failed THEN t
                              ELSE IF d \in V \ failed THEN PassedOver(d, t, conveyed)
                              ELSE Stale]
          BY <1>5, <2>2 DEF StartView
        <5>6. QED BY <5>2, <5>3, <5>4, <5>5
      <4>3. QED BY <4>1, <4>2
    <3>3. QED BY <3>1, <3>2 DEF InStep, ChildHasModelSize, ModelSize
  <2>3. CASE ~ViewChanges(t) /\ force = {}
    BY <1>3, <1>5, <2>3 DEF KeepView, InStep
  <2>4. QED BY <2>2, <2>3
<1>6. QED BY <1>4, <1>5 DEF RefreshView

LEMMA InitSync == Init => SyncInv
  BY InitTypes DEF Init, SyncInv, NoDeadAtRest, StreamsInSync,
                   ChildHasModelSize, ModelSize

\* A message from a viewer, whatever the order of views and resizes.
LEMMA ViewerMsgSync ==
    ASSUME SyncInv, NEW c \in Clients,
           \/ ViewMsg(c) \/ UnviewMsg(c) \/ \E s \in Sizes : ResizeMsg(c, s)
    PROVE  StreamsInSync' /\ ChildHasModelSize' /\ NoDeadAtRest'
<1>1. (~faulted => InStep(viewing)) /\ dead = {} /\ viewing \subseteq Clients
      /\ TypeOK /\ ChildHasModelSize /\ size \in [Clients -> Sizes]
  BY DEF SyncInv, NoDeadAtRest, StreamsInSync, InStep, TypeOK, Viewers,
         ViewMsg, UnviewMsg, ResizeMsg
<1>2. ASSUME NEW V \in SUBSET Clients, NEW sz \in [Clients -> Sizes],
             NEW force \in SUBSET V, ViewerRefresh(c, V, sz, force),
             V \ force \subseteq viewing, viewing' = V, hostSize' = hostSize
      PROVE  StreamsInSync' /\ ChildHasModelSize' /\ NoDeadAtRest'
  <2>1. NoDeadAtRest'
    BY <1>2 DEF ViewerRefresh, NoDeadAtRest
  <2>2. CASE faulted'
    BY <2>1, <2>2 DEF StreamsInSync, ChildHasModelSize
  <2>3. CASE ~faulted'
    <3>1. PICK failed : /\ RefreshView(V, sz, force, failed)
                        /\ dead' = dead \cup failed
                        /\ ~faulted
      BY <1>2, <2>3 DEF ViewerRefresh
    <3>2. InStep(V \ force)
      BY <1>1, <1>2, <3>1 DEF InStep
    <3>3. InStep(V \ failed)' /\ ChildHasModelSize'
      BY <1>1, <1>2, <3>1, <3>2, RefreshInStep
    <3>4. viewing' \ dead' \subseteq V \ failed
      BY <1>1, <1>2, <3>1
    <3>5. StreamsInSync'
      BY <3>3, <3>4 DEF StreamsInSync, InStep
    <3>6. QED BY <2>1, <3>3, <3>5
  <2>4. QED BY <2>2, <2>3
<1>3. CASE ViewMsg(c)
  BY <1>1, <1>2, <1>3 DEF ViewMsg
<1>4. CASE UnviewMsg(c)
  BY <1>1, <1>2, <1>4 DEF UnviewMsg
<1>5. ASSUME NEW s \in Sizes, ResizeMsg(c, s)
      PROVE  StreamsInSync' /\ ChildHasModelSize' /\ NoDeadAtRest'
  <2>1. [size EXCEPT ![c] = s] \in [Clients -> Sizes]
    BY <1>1
  <2>2. /\ ViewerRefresh(c, viewing, [size EXCEPT ![c] = s], {})
        /\ viewing' = viewing /\ hostSize' = hostSize
    BY <1>5 DEF ResizeMsg
  <2>3. PICK W \in SUBSET Clients, sz \in [Clients -> Sizes] :
           W = viewing /\ sz = [size EXCEPT ![c] = s]
    BY <1>1, <2>1
  <2>4. /\ {} \in SUBSET W
        /\ W \ {} \subseteq viewing
        /\ ViewerRefresh(c, W, sz, {})
        /\ viewing' = W
    BY <2>2, <2>3
  <2>5. QED BY <1>2, <2>2, <2>4
<1>6. QED BY <1>3, <1>4, <1>5

\* One iteration of the sweep, whoever is lost on the way.
LEMMA SweepSync ==
    ASSUME SyncInv, Sweep
    PROVE  StreamsInSync' /\ ChildHasModelSize' /\ NoDeadAtRest'
<1>1. PICK lost \in SUBSET Told : SweepLosing(lost)
  BY DEF Sweep
<1>2. PICK V, marked :
         /\ marked = dead \cup (lost \cap Viewers)
         /\ V = viewing \ marked
         /\ viewing' = viewing \ (marked \cup (lost \cap Monitor))
         /\ \E failed \in SUBSET V :
               /\ RefreshView(V, size, {}, failed)
               /\ dead' = (marked \ (marked \cup (lost \cap Monitor))) \cup failed
  BY <1>1 DEF SweepLosing, Retired
<1>3. PICK failed \in SUBSET V : RefreshView(V, size, {}, failed) /\ dead' = failed
  BY <1>2
<1>4. PICK sz \in [Clients -> Sizes] : sz = size
  BY DEF SyncInv, TypeOK
<1>5. /\ V \in SUBSET Clients /\ TypeOK /\ ChildHasModelSize
      /\ ~faulted => InStep(V \ {})
  BY <1>2 DEF SyncInv, TypeOK, Viewers, StreamsInSync, InStep
<1>6. {} \in SUBSET V /\ RefreshView(V, sz, {}, failed)
  BY <1>3, <1>4
<1>7. viewing' \subseteq V /\ hostSize' = hostSize /\ faulted' = faulted
  BY <1>1, <1>2 DEF SweepLosing
<1>8. NoDeadAtRest'
  BY <1>1 DEF SweepLosing, NoDeadAtRest
<1>9. CASE faulted
  BY <1>7, <1>8, <1>9 DEF StreamsInSync, ChildHasModelSize
<1>10. CASE ~faulted
  <2>1. InStep(V \ failed)' /\ (hostSize' = hostSize => ChildHasModelSize')
    BY <1>5, <1>6, <1>10, RefreshInStep
  <2>2. StreamsInSync'
    BY <1>3, <1>7, <2>1 DEF StreamsInSync, InStep
  <2>3. QED
    BY <1>7, <1>8, <2>1, <2>2
<1>11. QED
  BY <1>9, <1>10

\* Output, host resizes, Ctrl+G and exit.
LEMMA HostSync ==
    ASSUME SyncInv,
           \/ \E titleChanged, monitorFails \in BOOLEAN, failed \in SUBSET Clients :
                 PtyOutput(titleChanged, failed, monitorFails)
           \/ \E s \in Sizes : HostResized(s)
           \/ ToggleSimulated
           \/ Exit
    PROVE  StreamsInSync' /\ ChildHasModelSize' /\ NoDeadAtRest'
<1> USE DEF SyncInv, NoDeadAtRest, StreamsInSync, ChildHasModelSize, ModelSize
<1>1. ASSUME NEW titleChanged \in BOOLEAN, NEW monitorFails \in BOOLEAN,
             NEW failed \in SUBSET Clients,
             PtyOutput(titleChanged, failed, monitorFails)
      PROVE  StreamsInSync' /\ ChildHasModelSize' /\ NoDeadAtRest'
  BY <1>1 DEF PtyOutput, TypeOK, Viewers
<1>2. ASSUME NEW s \in Sizes, HostResized(s)
      PROVE  StreamsInSync' /\ ChildHasModelSize' /\ NoDeadAtRest'
  BY <1>2 DEF HostResized, ChildAfterWinch, connVars
<1>3. CASE ToggleSimulated
  <2>1. ~faulted => viewing = {}
    BY <1>3 DEF ToggleSimulated
  <2>2. [size |-> SimSize, simulated |-> TRUE] # None
    <3>1. [size |-> SimSize, simulated |-> TRUE] \in [size: Sizes, simulated: BOOLEAN]
      BY SessionAssumption
    <3>2. QED BY <3>1, SessionAssumption
  <2>3. /\ ~faulted' => viewing' = {}
        /\ pc' = "select" /\ dead' = {} /\ hostSize' = hostSize
    BY <1>3, <2>1 DEF ToggleSimulated, connVars
  <2>4. CASE view = None
    BY <1>3, <2>2, <2>3, <2>4 DEF ToggleSimulated, EndView
  <2>5. CASE view # None
    BY <1>3, <2>2, <2>3, <2>5 DEF ToggleSimulated, EndView
  <2>6. QED BY <2>4, <2>5
<1>4. CASE Exit
  BY <1>4 DEF Exit
<1>5. QED BY <1>1, <1>2, <1>3, <1>4

LEMMA StepSync ==
    ASSUME SyncInv, [Next]_vars
    PROVE  SyncInv'
<1>1. TypeOK'
  BY StepTypes DEF SyncInv
<1>2. ASSUME NEW c \in Clients, ClientStep(c)
      PROVE  StreamsInSync' /\ ChildHasModelSize' /\ NoDeadAtRest'
  <2> USE DEF SyncInv, NoDeadAtRest, StreamsInSync, ChildHasModelSize,
              ModelSize, viewVars, connVars
  <2>1. CASE Accept(c)
    BY <2>1 DEF Accept
  <2>2. CASE PendingDropped(c) \/ BecomeMonitor(c) \/ RejectInit(c)
    BY <2>2 DEF PendingDropped, BecomeMonitor, RejectInit
  <2>3. ASSUME NEW sz, NEW rk, NEW hr, NEW r, NEW force,
               AcceptInit(c, sz, rk, hr, r, force)
        PROVE  StreamsInSync' /\ ChildHasModelSize' /\ NoDeadAtRest'
    BY <2>3 DEF AcceptInit
  <2>4. CASE OtherMsg(c) \/ ViewerDies(c)
    BY <2>4 DEF OtherMsg, ViewerDies
  <2>5. CASE ViewMsg(c) \/ UnviewMsg(c) \/ \E s \in Sizes : ResizeMsg(c, s)
    BY <2>5, ViewerMsgSync
  <2>6. QED BY <1>2, <2>1, <2>2, <2>3, <2>4, <2>5 DEF ClientStep
<1>3. ASSUME MonitorHangup
      PROVE  StreamsInSync' /\ ChildHasModelSize' /\ NoDeadAtRest'
  BY <1>3 DEF MonitorHangup, SyncInv, NoDeadAtRest, StreamsInSync,
              ChildHasModelSize, ModelSize, viewVars
<1>4. ASSUME UNCHANGED vars
      PROVE  StreamsInSync' /\ ChildHasModelSize' /\ NoDeadAtRest'
  BY <1>4 DEF vars, SyncInv, NoDeadAtRest, StreamsInSync, ChildHasModelSize,
              ModelSize
<1>5. StreamsInSync' /\ ChildHasModelSize' /\ NoDeadAtRest'
  BY <1>2, <1>3, <1>4, SweepSync, HostSync DEF Next, LoopStep
<1>6. QED BY <1>1, <1>5 DEF SyncInv

\* Until a pty resize or a host write of a view change fails, every live
\* viewing client's screen is a copy of the model at the view's size, or has
\* drifted since another client's `view` at unchanged dimensions passed it
\* over, whatever the clients send and whichever sends to them fail.
THEOREM ViewersStayInSync == Spec => []StreamsInSync
<1>1. Init => SyncInv
  BY InitSync
<1>2. SyncInv /\ [Next]_vars => SyncInv'
  BY StepSync
<1>3. SyncInv => StreamsInSync
  BY DEF SyncInv
<1>4. QED BY <1>1, <1>2, <1>3, PTL DEF Spec

\* Until then the wrapped program's pty has the dimensions of the mirror's
\* model at all times.
THEOREM ChildStaysModelSize == Spec => []ChildHasModelSize
<1>1. Init => SyncInv
  BY InitSync
<1>2. SyncInv /\ [Next]_vars => SyncInv'
  BY StepSync
<1>3. SyncInv => ChildHasModelSize
  BY DEF SyncInv
<1>4. QED BY <1>1, <1>2, <1>3, PTL DEF Spec

-----------------------------------------------------------------------------
(* One holder of the host slot.                                            *)

\* A step that gives nobody the host role, and reaches select! only from
\* select! without touching host_attached.
LEMMA NoNewHost ==
    ASSUME OneHost, HostRole' \subseteq HostRole,
           pc' = "select" => pc = "select" /\ hostAttached' = hostAttached
    PROVE  OneHost'
  BY DEF OneHost

LEMMA AcceptInitOneHost ==
    ASSUME TypeOK, OneHost, NEW c \in Clients, NEW sz, NEW rk, NEW hr,
           NEW r \in Roles, NEW force \in BOOLEAN,
           AcceptInit(c, sz, rk, hr, r, force)
    PROVE  OneHost'
<1>1. c \notin Viewers /\ pc' = "sweep"
  BY DEF AcceptInit, Pendings, Viewers
<1>2. CASE r = "host"
  <2>1. HostRole' \subseteq {c}
    BY <1>1, <1>2 DEF AcceptInit, Displaced, HostRole, Viewers, Leave, TypeOK
  <2>2. QED BY <1>1, <2>1 DEF OneHost
<1>3. CASE r # "host"
  <2>1. HostRole' \subseteq HostRole
    BY <1>1, <1>3 DEF AcceptInit, Displaced, HostRole, Viewers, Leave, TypeOK
  <2>2. QED BY <1>1, <2>1, NoNewHost
<1>4. QED BY <1>2, <1>3

LEMMA SweepOneHost ==
    ASSUME TypeOK, OneHost, Sweep
    PROVE  OneHost'
<1>1. PICK lost \in SUBSET Told : SweepLosing(lost)
  BY DEF Sweep
<1>2. hostAttached' = (HostRole # {})
  BY <1>1 DEF SweepLosing
<1>3. PICK failed : dead' = ((dead \cup (lost \cap Viewers))
                             \ ((dead \cup (lost \cap Viewers)) \cup (lost \cap Monitor)))
                            \cup failed
  BY <1>1 DEF SweepLosing, Retired
<1>4. HostRole' \subseteq HostRole
  BY <1>1, <1>3 DEF SweepLosing, Retired, HostRole, Viewers, Leave, TypeOK
<1>5. QED BY <1>2, <1>4 DEF OneHost

LEMMA StepOneHost ==
    ASSUME TypeOK, OneHost, [Next]_vars
    PROVE  OneHost'
<1>1. ASSUME NEW c \in Clients, ClientStep(c)
      PROVE  OneHost'
  <2> USE DEF TypeOK, HostRole, Viewers, hostVars, connVars
  <2>1. CASE Accept(c)
    BY <2>1, NoNewHost DEF Accept
  <2>2. CASE PendingDropped(c)
    BY <2>2, NoNewHost DEF PendingDropped, Leave
  <2>3. CASE BecomeMonitor(c)
    BY <2>3, NoNewHost DEF BecomeMonitor, Leave
  <2>4. CASE RejectInit(c)
    BY <2>4, NoNewHost DEF RejectInit, Leave
  <2>5. ASSUME NEW sz \in Sizes, NEW rk \in Ranks, NEW hr \in Ranks \cup {None},
               NEW r \in Roles, NEW force \in BOOLEAN,
               AcceptInit(c, sz, rk, hr, r, force)
        PROVE  OneHost'
    BY <2>5, AcceptInitOneHost
  <2>6. CASE OtherMsg(c) \/ ViewerDies(c)
    BY <2>6, NoNewHost DEF OtherMsg, ViewerDies
  <2>7. CASE ViewMsg(c) \/ UnviewMsg(c) \/ \E s \in Sizes : ResizeMsg(c, s)
    <3>1. /\ pc' = "sweep"
          /\ dead \subseteq dead'
          /\ UNCHANGED <<conn, role>>
      BY <2>7 DEF ViewMsg, UnviewMsg, ResizeMsg, ViewerRefresh
    <3>2. QED BY <3>1, NoNewHost
  <2> HIDE DEF TypeOK, HostRole, Viewers, hostVars, connVars
  <2>8. QED
    BY <1>1, <2>1, <2>2, <2>3, <2>4, <2>5, <2>6, <2>7 DEF ClientStep
<1>2. CASE LoopStep
  <2> USE DEF TypeOK, HostRole, Viewers, hostVars, connVars
  <2>1. ASSUME NEW titleChanged, NEW monitorFails, NEW failed,
               PtyOutput(titleChanged, failed, monitorFails)
        PROVE  OneHost'
    BY <2>1, NoNewHost DEF PtyOutput, Leave
  <2>2. ASSUME NEW s, HostResized(s)
        PROVE  OneHost'
    BY <2>2, NoNewHost DEF HostResized
  <2>3. CASE ToggleSimulated
    BY <2>3, NoNewHost DEF ToggleSimulated
  <2>4. CASE MonitorHangup
    BY <2>4, NoNewHost DEF MonitorHangup, Leave
  <2>5. QED BY <1>2, <2>1, <2>2, <2>3, <2>4 DEF LoopStep
<1>3. CASE Exit
  BY <1>3, NoNewHost DEF Exit, Leave, HostRole, Viewers
<1>4. CASE UNCHANGED vars
  BY <1>4, NoNewHost DEF vars, HostRole, Viewers
<1>5. QED BY <1>1, <1>2, <1>3, <1>4, SweepOneHost DEF Next

\* However many attach clients claim and take over the host slot, at most one
\* live client holds it, and a held slot is never reported as free between
\* two events - I/O faults included.
THEOREM HostSlotIsExclusive == Spec => []OneHost
<1>1. Init => TypeOK /\ OneHost
  BY InitTypes DEF Init, OneHost, HostRole, Viewers
<1>2. TypeOK /\ OneHost /\ [Next]_vars => TypeOK' /\ OneHost'
  BY StepTypes, StepOneHost
<1>3. QED BY <1>1, <1>2, PTL DEF Spec
-----------------------------------------------------------------------------
(* Titles.                                                                 *)

\* Whoever is connected and not marked dead knows the title: a failed send
\* marks the client, and only the sweep forgets the marks.
TitleInv == TypeOK /\ NoDeadAtRest /\ (Viewers \ dead) \cup Monitor \subseteq knowsTitle

\* A step that connects nobody and lets nobody forget the title, except
\* clients that it marks dead.
LEMMA TitleKept ==
    ASSUME TitleInv, TypeOK', NoDeadAtRest', UNCHANGED conn,
           (dead \subseteq dead'), knowsTitle \subseteq knowsTitle'
    PROVE  TitleInv'
  BY DEF TitleInv, Viewers, Monitor

LEMMA SweepTitle ==
    ASSUME TitleInv, TypeOK', NoDeadAtRest', Sweep
    PROVE  TitleInv'
<1>1. PICK lost \in SUBSET Told : SweepLosing(lost)
  BY DEF Sweep
<1>2. PICK removed : /\ removed = (dead \cup (lost \cap Viewers)) \cup (lost \cap Monitor)
                     /\ conn' = Leave(removed)
                     /\ knowsTitle' = knowsTitle \ removed
  BY <1>1 DEF SweepLosing, Retired
<1>3. Viewers' = Viewers \ removed /\ Monitor' = Monitor \ removed
  BY <1>2 DEF Leave, Viewers, Monitor
<1>4. QED BY <1>2, <1>3 DEF TitleInv

LEMMA OutputTitle ==
    ASSUME TitleInv, TypeOK', NoDeadAtRest', NEW titleChanged \in BOOLEAN,
           NEW monitorFails \in BOOLEAN, NEW failed,
           PtyOutput(titleChanged, failed, monitorFails)
    PROVE  TitleInv'
<1>1. PICK gone : /\ gone = IF monitorFails THEN Monitor ELSE {}
                  /\ conn' = Leave(gone)
                  /\ knowsTitle' = IF titleChanged
                                   THEN (Monitor \cup Viewers) \ (gone \cup failed)
                                   ELSE knowsTitle \ gone
                  /\ dead' = dead \cup failed
                  /\ failed \subseteq Viewers \/ ~titleChanged
  BY DEF PtyOutput
<1>2. /\ Viewers' = Viewers /\ Monitor' = Monitor \ gone
      /\ Viewers \cap Monitor = {} /\ gone \subseteq Monitor
  BY <1>1 DEF Leave, Viewers, Monitor, TitleInv, TypeOK
<1>3. QED BY <1>1, <1>2 DEF TitleInv, TypeOK

LEMMA StepTitle ==
    ASSUME TitleInv, TypeOK', NoDeadAtRest', [Next]_vars
    PROVE  TitleInv'
<1>1. ASSUME NEW c \in Clients, ClientStep(c)
      PROVE  TitleInv'
  <2> USE DEF TitleInv, TypeOK, Viewers, Monitor, Pendings
  <2>1. CASE Accept(c)
    BY <2>1 DEF Accept, viewVars
  <2>2. CASE PendingDropped(c)
    BY <2>2 DEF PendingDropped, Leave
  <2>3. CASE BecomeMonitor(c)
    BY <2>3 DEF BecomeMonitor, Leave, SendTitle
  <2>4. CASE RejectInit(c)
    BY <2>4 DEF RejectInit, Leave
  <2>5. ASSUME NEW sz, NEW rk, NEW hr, NEW r, NEW force,
               AcceptInit(c, sz, rk, hr, r, force)
        PROVE  TitleInv'
    BY <2>5 DEF AcceptInit, Leave, SendTitle
  <2> HIDE DEF TitleInv, TypeOK, Viewers, Monitor, Pendings
  <2>6. CASE OtherMsg(c) \/ ViewerDies(c)
    BY <2>6, TitleKept DEF OtherMsg, ViewerDies, connVars
  <2>7. CASE ViewMsg(c) \/ UnviewMsg(c) \/ \E s \in Sizes : ResizeMsg(c, s)
    BY <2>7, TitleKept DEF ViewMsg, UnviewMsg, ResizeMsg, ViewerRefresh
  <2>8. QED BY <1>1, <2>1, <2>2, <2>3, <2>4, <2>5, <2>6, <2>7 DEF ClientStep
<1>2. CASE LoopStep
  <2>1. ASSUME NEW s, HostResized(s) PROVE TitleInv'
    BY <2>1, TitleKept DEF HostResized, connVars
  <2>2. CASE ToggleSimulated
    BY <2>2, TitleKept DEF ToggleSimulated, connVars
  <2>3. CASE MonitorHangup
    BY <2>3 DEF MonitorHangup, Leave, TitleInv, Viewers, Monitor
  <2>4. QED BY <1>2, <2>1, <2>2, <2>3, OutputTitle DEF LoopStep
<1>3. CASE Exit
  BY <1>3 DEF Exit, Leave, TitleInv, Viewers, Monitor
<1>4. CASE UNCHANGED vars
  BY <1>4, TitleKept DEF vars
<1>5. QED BY <1>1, <1>2, <1>3, <1>4, SweepTitle DEF Next

\* Between two events every viewer and the monitor know the current title,
\* whichever sends of it failed.
THEOREM TitleReachesEveryone == Spec => []TitleKnown
<1>1. Init => SyncInv /\ TitleInv
  BY InitSync, InitTypes DEF Init, TitleInv, SyncInv, NoDeadAtRest, Viewers, Monitor
<1>2. SyncInv /\ TitleInv /\ [Next]_vars => SyncInv' /\ TitleInv'
  BY StepSync, StepTitle DEF SyncInv
<1>3. TitleInv => TitleKnown
  BY DEF TitleInv, TitleKnown, NoDeadAtRest
<1>4. QED BY <1>1, <1>2, <1>3, PTL DEF Spec

\* A flip of the host slot is told to every viewer and the monitor in the very
\* step in which it is noticed, or they are disconnected.
THEOREM FlipsReachEveryone == Spec => FlipReachesEveryone
<1> DEFINE Reached == \A c \in (Viewers \cup Monitor)' : toldAttached'[c] = hostAttached'
<1>1. ASSUME NEW lost \in SUBSET Told, SweepLosing(lost), hostAttached' # hostAttached
      PROVE  Reached
  <2>1. PICK removed :
           /\ removed = (dead \cup (lost \cap Viewers)) \cup (lost \cap Monitor)
           /\ conn' = Leave(removed)
           /\ toldAttached' = [c \in Clients |->
                                 IF c \in removed THEN FALSE
                                 ELSE IF c \in Told THEN HostRole # {}
                                 ELSE toldAttached[c]]
           /\ hostAttached' = (HostRole # {})
    BY <1>1 DEF SweepLosing, Retired
  <2>2. Told = Monitor \cup (Viewers \ dead)
    BY <1>1, <2>1 DEF Told, FlipAudience
  <2>3. (Viewers \cup Monitor)' \subseteq (Viewers \cup Monitor) \ removed
    BY <2>1 DEF Leave, Viewers, Monitor
  <2>4. Viewers \cup Monitor \subseteq Clients
    BY DEF Viewers, Monitor
  <2>5. QED BY <2>1, <2>2, <2>3, <2>4
<1>2. ASSUME NEW c \in Clients, ClientStep(c)
      PROVE  hostAttached' = hostAttached
  BY <1>2 DEF ClientStep, Accept, PendingDropped, BecomeMonitor, RejectInit,
              AcceptInit, ViewMsg, UnviewMsg, ResizeMsg, OtherMsg, ViewerDies,
              hostVars
<1>3. ASSUME LoopStep \/ Exit \/ UNCHANGED vars
      PROVE  hostAttached' = hostAttached
  BY <1>3 DEF LoopStep, PtyOutput, HostResized, ToggleSimulated, MonitorHangup,
              Exit, vars, hostVars
<1>4. [Next]_vars => (hostAttached' # hostAttached => Reached)
  BY <1>1, <1>2, <1>3 DEF Next, Sweep
<1>5. [Next]_vars => [hostAttached' # hostAttached => Reached]_vars
  BY <1>4
<1>6. QED BY <1>5, PTL DEF Spec, FlipReachesEveryone
-----------------------------------------------------------------------------
(* The view, and the size it has.                                          *)

RealView == view # None /\ ~view.simulated

\* What refresh_view leaves behind: with somebody viewing, a real view; with
\* nobody, none in a hosted session, and in a headless one what there was.
LEMMA RefreshDecides ==
    ASSUME TypeOK, NEW V \in SUBSET Clients, NEW sz \in [Clients -> Sizes],
           NEW force, NEW failed,
           RefreshView(V, sz, force, failed) \/ RefreshViewFails(V, sz, force)
    PROVE  /\ V # {} => RealView'
           /\ V = {} /\ ~Headless => ~RealView'
           /\ V = {} /\ Headless => view' = view
<1>1. \A t \in Sizes : [size |-> t, simulated |-> FALSE] # None
  <2>1. \A t \in Sizes : [size |-> t, simulated |-> FALSE] \in [size: Sizes, simulated: BOOLEAN]
    OBVIOUS
  <2>2. QED BY <2>1, SessionAssumption
<1>2. \A b \in V : TargetSize(b, sz) \in Sizes
  BY DEF TargetSize, TypeOK
<1>3. ASSUME NEW b \in V, NEW t, t = TargetSize(b, sz),
             view' = [size |-> t, simulated |-> FALSE]
      PROVE  RealView'
  BY <1>1, <1>2, <1>3 DEF RealView
<1>4. CASE RefreshView(V, sz, force, failed)
  <2>1. CASE V = {} /\ IF EndsUnviewed THEN EndView ELSE KeepView({})
    BY <2>1 DEF EndsUnviewed, EndView, KeepView, RealView
  <2>2. ASSUME NEW b \in V, NEW t, t = TargetSize(b, sz),
               IF ViewChanges(t) \/ force # {}
               THEN StartView(t, V, SnapshotTo(V, force, t), failed)
               ELSE KeepView(V)
        PROVE  RealView'
    <3>1. view' = [size |-> t, simulated |-> FALSE]
      BY <2>2 DEF StartView, KeepView, ViewChanges
    <3>2. QED BY <1>3, <2>2, <3>1
  <2>3. QED BY <1>4, <2>1, <2>2 DEF RefreshView
<1>5. CASE RefreshViewFails(V, sz, force)
  <2>1. CASE V = {} /\ EndsUnviewed /\ view' = None
    BY <2>1 DEF EndsUnviewed, RealView
  <2>2. ASSUME NEW b \in V, view' = [size |-> TargetSize(b, sz), simulated |-> FALSE]
        PROVE  RealView'
    BY <1>3, <2>2
  <2>3. QED BY <1>5, <2>1, <2>2 DEF RefreshViewFails
<1>6. QED BY <1>4, <1>5

\* Until the session ends, and not only between two events, the view is real
\* just when somebody is viewing; a headless view is never simulated.  Only a
\* headless session has clients with the host role.
ViewInv ==
    /\ TypeOK
    /\ pc # "exited" =>
          IF Headless
          THEN (viewing # {} => view # None) /\ (view # None => ~view.simulated)
          ELSE viewing # {} <=> RealView
    /\ ~Headless => \A c \in Clients : role[c] = "viewer"

LEMMA RefreshedView ==
    ASSUME ViewInv, TypeOK', pc # "exited", NEW V \in SUBSET Clients,
           NEW sz \in [Clients -> Sizes], NEW force, NEW failed, viewing' = V,
           RefreshView(V, sz, force, failed) \/ RefreshViewFails(V, sz, force),
           ~Headless => \A c \in Clients : role'[c] = "viewer"
    PROVE  ViewInv'
<1>1. /\ V # {} => RealView'
      /\ V = {} /\ ~Headless => ~RealView'
      /\ V = {} /\ Headless => view' = view
  BY RefreshDecides DEF ViewInv
<1>2. QED BY <1>1 DEF ViewInv, RealView

\* Steps that are not about the view.
LEMMA ViewKept ==
    ASSUME ViewInv, TypeOK', UNCHANGED <<view, viewing, role>>,
           pc' = "exited" \/ pc # "exited" \/ pc' = pc
    PROVE  ViewInv'
  BY DEF ViewInv, RealView

LEMMA StepView ==
    ASSUME ViewInv, TypeOK', [Next]_vars
    PROVE  ViewInv'
<1>0. TypeOK /\ size \in [Clients -> Sizes] /\ viewing \in SUBSET Clients
  BY DEF ViewInv, TypeOK, Viewers
<1>1. ASSUME NEW c \in Clients, ClientStep(c)
      PROVE  ViewInv'
  <2>1. CASE \/ Accept(c) \/ PendingDropped(c) \/ BecomeMonitor(c) \/ RejectInit(c)
             \/ OtherMsg(c) \/ ViewerDies(c)
    BY <2>1, ViewKept DEF Accept, PendingDropped, BecomeMonitor, RejectInit,
                          OtherMsg, ViewerDies, viewVars, connVars
  <2>2. ASSUME NEW sz, NEW rk, NEW hr, NEW r \in Roles, NEW force \in BOOLEAN,
               AcceptInit(c, sz, rk, hr, r, force)
        PROVE  ViewInv'
    <3>1. UNCHANGED <<view, viewing>> /\ pc = "select" /\ pc' = "sweep"
      BY <2>2 DEF AcceptInit, viewVars
    <3>2. ~Headless => r = "viewer"
      BY <2>2 DEF AcceptInit, InitRejected, Roles
    <3>3. role' = role \/ role' = [role EXCEPT ![c] = r]
      BY <2>2 DEF AcceptInit
    <3>4. ~Headless => \A d \in Clients : role'[d] = "viewer"
      BY <3>2, <3>3 DEF ViewInv, TypeOK
    <3>5. QED BY <3>1, <3>4 DEF ViewInv, RealView
  <2>3. ASSUME NEW V \in SUBSET Clients, NEW sz \in [Clients -> Sizes], NEW force,
               ViewerRefresh(c, V, sz, force), viewing' = V, role' = role,
               pc = "select"
        PROVE  ViewInv'
    <3>1. PICK failed : \/ RefreshView(V, sz, force, failed)
                        \/ RefreshViewFails(V, sz, force)
      BY <2>3 DEF ViewerRefresh
    <3>2. QED BY <2>3, <3>1, RefreshedView DEF ViewInv
  <2>4. CASE ViewMsg(c)
    BY <1>0, <2>3, <2>4 DEF ViewMsg
  <2>5. CASE UnviewMsg(c)
    <3>1. viewing \ {c} \in SUBSET Clients
      BY <1>0
    <3>2. QED BY <1>0, <2>3, <2>5, <3>1 DEF UnviewMsg
  <2>6. ASSUME NEW s \in Sizes, ResizeMsg(c, s)
        PROVE  ViewInv'
    <3>1. PICK sz \in [Clients -> Sizes] : sz = [size EXCEPT ![c] = s]
      BY <1>0
    <3>2. PICK V \in SUBSET Clients : V = viewing
      BY <1>0
    <3>3. /\ ViewerRefresh(c, V, sz, {}) /\ viewing' = V
          /\ role' = role /\ pc = "select"
      BY <2>6, <3>1, <3>2 DEF ResizeMsg
    <3>4. QED BY <2>3, <3>3
  <2>7. QED BY <1>1, <2>1, <2>2, <2>4, <2>5, <2>6 DEF ClientStep
<1>2. CASE LoopStep
  <2>1. CASE ToggleSimulated
    <3>1. /\ ~Headless /\ pc' = "select" /\ pc = "select"
          /\ UNCHANGED <<viewing, role>> /\ ~RealView
          /\ view' = None \/ view' = [size |-> SimSize, simulated |-> TRUE]
      BY <2>1 DEF ToggleSimulated, EndView, connVars, RealView
    <3>2. QED BY <3>1 DEF ViewInv, RealView
  <2>2. ASSUME \/ \E titleChanged, monitorFails \in BOOLEAN, failed \in SUBSET Clients :
                    PtyOutput(titleChanged, failed, monitorFails)
               \/ \E s \in Sizes : HostResized(s)
               \/ MonitorHangup
        PROVE  ViewInv'
    BY <2>2, ViewKept DEF PtyOutput, HostResized, MonitorHangup, viewVars, connVars
  <2>3. QED BY <1>2, <2>1, <2>2 DEF LoopStep
<1>3. CASE Sweep
  <2>1. PICK lost \in SUBSET Told : SweepLosing(lost)
    BY <1>3 DEF Sweep
  <2>2. PICK marked, removed, V, failed :
           /\ marked = dead \cup (lost \cap Viewers)
           /\ removed = marked \cup (lost \cap Monitor)
           /\ V = viewing \ marked
           /\ viewing' = viewing \ removed
           /\ role' = [c \in Clients |-> IF c \in removed THEN "viewer" ELSE role[c]]
           /\ RefreshView(V, size, {}, failed)
    BY <2>1 DEF SweepLosing, Retired
  <2>3. viewing' = V /\ V \in SUBSET Clients
    BY <1>0, <2>2 DEF TypeOK, Viewers, Monitor
  <2>4. ~Headless => \A c \in Clients : role'[c] = "viewer"
    BY <2>2 DEF ViewInv
  <2>5. QED BY <1>0, <1>3, <2>2, <2>3, <2>4, RefreshedView DEF Sweep
<1>4. CASE Exit
  BY <1>4 DEF Exit, ViewInv
<1>5. CASE UNCHANGED vars
  BY <1>5, ViewKept DEF vars
<1>6. QED BY <1>1, <1>2, <1>3, <1>4, <1>5 DEF Next

LEMMA InitView == Init => ViewInv
  BY InitTypes DEF Init, ViewInv, RealView

\* A real view is on exactly while somebody is viewing, host and device faults
\* included; a headless session has a view from the first viewer on, and never
\* a simulated one.
THEOREM ViewFollowsViewers == Spec => []RealViewIffViewing
<1>1. Init => ViewInv
  BY InitView
<1>2. ViewInv /\ [Next]_vars => ViewInv'
  BY StepTypes, StepView DEF ViewInv
<1>3. ViewInv => RealViewIffViewing
  BY DEF ViewInv, RealViewIffViewing, RealView
<1>4. QED BY <1>1, <1>2, <1>3, PTL DEF Spec

\* refresh_view with no send failed gives the view the size of the order of
\* precedence, read with the ranks and roles of after the sweep.
LEMMA RefreshPrecedence ==
    ASSUME ViewInv, NEW V \in SUBSET Clients, V # {}, RefreshView(V, size, {}, {}),
           viewing' = V, UNCHANGED <<hostRank, hostSize>>,
           \A c \in V : size'[c] = size[c] /\ rank'[c] = rank[c] /\ role'[c] = role[c]
    PROVE  SizePrecedence'
<1>1. PICK b \in V : /\ IsBest(b, V)
                     /\ view'.size = TargetSize(b, size)
  <2>1. PICK b \in V : /\ IsBest(b, V)
                       /\ IF ViewChanges(TargetSize(b, size))
                          THEN StartView(TargetSize(b, size), V,
                                         SnapshotTo(V, {}, TargetSize(b, size)), {})
                          ELSE KeepView(V)
    BY DEF RefreshView
  <2>2. view' = [size |-> TargetSize(b, size), simulated |-> FALSE]
    BY <2>1 DEF StartView, KeepView, ViewChanges
  <2>3. QED BY <2>1, <2>2
<1>2. /\ hostRank \in Nat /\ Clients \subseteq Nat
      /\ \A c \in V : c \in Clients /\ rank[c] \in Nat /\ EffectiveRank(c) \in Nat
  BY DEF ViewInv, TypeOK, Clients, EffectiveRank
<1>3. ASSUME NEW d \in V \ {b}
      PROVE  \/ EffectiveRank(b) < EffectiveRank(d)
             \/ EffectiveRank(b) = EffectiveRank(d) /\ b < d
  <2>1. /\ b \in Nat /\ d \in Nat /\ b # d
        /\ \/ EffectiveRank(b) < EffectiveRank(d)
           \/ EffectiveRank(b) = EffectiveRank(d) /\ b <= d
    BY <1>1, <1>2 DEF IsBest
  <2>2. b <= d => b < d
    BY <2>1
  <2>3. QED BY <2>1, <2>2
<1>4. \A c \in V : EffectiveRank(c) = (IF role'[c] = "host" THEN hostRank' ELSE rank'[c])
  BY DEF EffectiveRank
<1>5. CASE ~Headless /\ \A c \in V : hostRank < rank[c]
  <2>1. EffectiveRank(b) = rank[b]
    BY <1>2, <1>5 DEF ViewInv, EffectiveRank
  <2>2. hostRank < EffectiveRank(b)
    BY <1>5, <2>1
  <2>3. ~(EffectiveRank(b) <= hostRank)
    BY <1>2, <2>2
  <2>4. view'.size = hostSize
    BY <1>1, <1>5, <2>3 DEF TargetSize
  <2>5. QED BY <1>5, <2>4 DEF SizePrecedence
<1>6. CASE ~(~Headless /\ \A c \in V : hostRank < rank[c])
  <2>1. Headless \/ EffectiveRank(b) <= hostRank
    <3>1. CASE ~Headless
      <4>1. PICK c \in V : ~(hostRank < rank[c])
        BY <1>6, <3>1
      <4>2. EffectiveRank(c) = rank[c]
        BY <1>2, <3>1 DEF EffectiveRank, ViewInv
      <4>3. ~(hostRank < EffectiveRank(c))
        BY <4>1, <4>2
      <4>4. EffectiveRank(c) \in Nat /\ EffectiveRank(b) \in Nat /\ hostRank \in Nat
        BY <1>2
      <4>5. b = c \/ EffectiveRank(b) < EffectiveRank(c)
                  \/ EffectiveRank(b) = EffectiveRank(c)
        BY <1>3
      <4>6. QED BY <4>3, <4>4, <4>5
    <3>2. QED BY <3>1
  <2>2. view'.size = size'[b]
    BY <1>1, <2>1 DEF TargetSize
  <2>3. QED BY <1>3, <1>4, <1>6, <2>2 DEF SizePrecedence
<1>7. QED BY <1>5, <1>6

LEMMA SweepPrecedence ==
    ASSUME ViewInv, Sweep
    PROVE  SizePrecedence'
<1>1. PICK lost \in SUBSET Told : SweepLosing(lost)
  BY DEF Sweep
<1>2. PICK marked, removed, V, failed :
         /\ marked = dead \cup (lost \cap Viewers)
         /\ removed = marked \cup (lost \cap Monitor)
         /\ V = viewing \ marked
         /\ viewing' = viewing \ removed
         /\ size' = [c \in Clients |-> IF c \in removed THEN SimSize ELSE size[c]]
         /\ rank' = [c \in Clients |-> IF c \in removed THEN 0 ELSE rank[c]]
         /\ role' = [c \in Clients |-> IF c \in removed THEN "viewer" ELSE role[c]]
         /\ RefreshView(V, size, {}, failed)
         /\ dead' = (marked \ removed) \cup failed
         /\ pc' = IF dead' = {} THEN "select" ELSE "sweep"
         /\ UNCHANGED <<hostRank, hostSize>>
  BY <1>1 DEF SweepLosing, Retired
<1>3. viewing' = V /\ V \in SUBSET Clients /\ V \cap removed = {}
  BY <1>2 DEF ViewInv, TypeOK, Viewers, Monitor
<1>4. CASE pc' = "select" /\ viewing' # {}
  <2>1. failed = {}
    BY <1>2, <1>4
  <2>2. RefreshView(V, size, {}, {})
    BY <1>2, <2>1
  <2>3. \A c \in V : size'[c] = size[c] /\ rank'[c] = rank[c] /\ role'[c] = role[c]
    BY <1>2, <1>3
  <2>4. QED BY <1>2, <1>3, <1>4, <2>2, <2>3, RefreshPrecedence
<1>5. QED BY <1>4 DEF SizePrecedence

\* Nothing that the order of precedence reads has changed.
LEMMA PrecedenceKept ==
    ASSUME SizePrecedence, pc' = "select" => pc = "select",
           UNCHANGED <<view, viewing, hostRank, hostSize, size, rank, role>>
    PROVE  SizePrecedence'
  BY DEF SizePrecedence

LEMMA StepPrecedence ==
    ASSUME ViewInv, SizePrecedence, [Next]_vars
    PROVE  SizePrecedence'
<1>1. ASSUME NEW c \in Clients, ClientStep(c)
      PROVE  SizePrecedence'
  <2>1. CASE Accept(c) \/ PendingDropped(c) \/ BecomeMonitor(c)
    BY <2>1, PrecedenceKept DEF Accept, PendingDropped, BecomeMonitor, viewVars
  <2>2. CASE \/ RejectInit(c) \/ OtherMsg(c) \/ ViewerDies(c)
             \/ \E sz \in Sizes, rk \in Ranks, hr \in Ranks \cup {None},
                   r \in Roles, force \in BOOLEAN : AcceptInit(c, sz, rk, hr, r, force)
             \/ ViewMsg(c) \/ UnviewMsg(c) \/ \E s \in Sizes : ResizeMsg(c, s)
    <3>1. pc' = "sweep"
      BY <2>2 DEF RejectInit, OtherMsg, ViewerDies, AcceptInit, ViewMsg, UnviewMsg,
                  ResizeMsg, ViewerRefresh
    <3>2. QED BY <3>1 DEF SizePrecedence
  <2>3. QED BY <1>1, <2>1, <2>2 DEF ClientStep
<1>2. CASE LoopStep
  <2>1. CASE ToggleSimulated
    <3>1. viewing' = {}
      BY <2>1 DEF ToggleSimulated, connVars, ViewInv, RealView
    <3>2. QED BY <3>1 DEF SizePrecedence
  <2>2. CASE \E s \in Sizes : HostResized(s)
    BY <2>2 DEF HostResized, SizePrecedence
  <2>3. CASE \/ \E titleChanged, monitorFails \in BOOLEAN, failed \in SUBSET Clients :
                    PtyOutput(titleChanged, failed, monitorFails)
             \/ MonitorHangup
    BY <2>3, PrecedenceKept DEF PtyOutput, MonitorHangup, viewVars
  <2>4. QED BY <1>2, <2>1, <2>2, <2>3 DEF LoopStep
<1>3. CASE Exit
  BY <1>3 DEF Exit, SizePrecedence
<1>4. CASE UNCHANGED vars
  BY <1>4, PrecedenceKept DEF vars
<1>5. QED BY <1>1, <1>2, <1>3, <1>4, SweepPrecedence DEF Next

\* Between two events the view has the size that the order of precedence asks
\* for, whatever ranks are reported and whoever came, left or failed.
THEOREM SizeFollowsPrecedence == Spec => []SizePrecedence
<1>1. Init => ViewInv /\ SizePrecedence
  BY InitView DEF Init, SizePrecedence
<1>2. ViewInv /\ SizePrecedence /\ [Next]_vars => ViewInv' /\ SizePrecedence'
  BY StepTypes, StepView, StepPrecedence DEF ViewInv
<1>3. QED BY <1>1, <1>2, PTL DEF Spec
=============================================================================
