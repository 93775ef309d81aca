----------------------------- MODULE ServerProofs -----------------------------
(***************************************************************************)
(* Proofs about Server: the budget of unauthenticated connections, then    *)
(* the registry and what the devices hear of it.                           *)
(*                                                                         *)
(* Of the budget: only four steps touch the counter or how far a           *)
(* connection is.  Each moves one connection into or out of the set of     *)
(* those that have not authenticated, or leaves that set alone; all the    *)
(* others leave both variables alone.                                      *)
(***************************************************************************)
EXTENDS Server, FiniteSetTheorems, TLAPS

-----------------------------------------------------------------------------
(* The budget.                                                             *)

Unauth == {d \in Devices : dev[d] = "unauth"}

\* BudgetExact, and what makes it inductive.
BudgetInv ==
    /\ dev \in [Devices -> {"out", "unauth", "serving"}]
    /\ unauth = Cardinality(Unauth)
    /\ unauth <= MaxUnauth

LEMMA UnauthFinite == IsFiniteSet(Unauth) /\ Cardinality(Unauth) \in Nat
  <1>1. IsFiniteSet(Devices) BY ServerAssumption DEF ServerAssumption
  <1>2. Unauth \subseteq Devices BY DEF Unauth
  <1> QED BY <1>1, <1>2, FS_Subset, FS_CardinalityType

\* A connection is accepted: the guard is acquired if there is room.
LEMMA AcceptBudget ==
    ASSUME BudgetInv, NEW d \in Devices, Accept(d)
    PROVE  BudgetInv'
  <1>1. /\ dev[d] = "out" /\ unauth < MaxUnauth
        /\ unauth' = unauth + 1
        /\ dev' = [dev EXCEPT ![d] = "unauth"]
    BY DEF Accept, HasRoom
  <1>2. dev' \in [Devices -> {"out", "unauth", "serving"}]
    BY <1>1 DEF BudgetInv
  <1>3. Unauth' = Unauth \cup {d} /\ d \notin Unauth
    BY <1>1 DEF Unauth, BudgetInv
  <1>4. Cardinality(Unauth') = Cardinality(Unauth) + 1
    BY <1>3, UnauthFinite, FS_AddElement
  <1>5. unauth' <= MaxUnauth
    BY <1>1, UnauthFinite, ServerAssumption DEF BudgetInv, ServerAssumption
  <1> QED BY <1>1, <1>2, <1>4, <1>5 DEF BudgetInv

\* Authentication succeeds or fails: the guard is dropped, once.
LEMMA ReleaseBudget ==
    ASSUME BudgetInv, NEW d \in Devices, Authenticated(d) \/ Refused(d)
    PROVE  BudgetInv'
  <1>1. /\ dev[d] = "unauth"
        /\ unauth' = unauth - 1
        /\ \E stage \in {"out", "serving"} : dev' = [dev EXCEPT ![d] = stage]
    BY DEF Authenticated, Refused, Released
  <1>2. dev' \in [Devices -> {"out", "unauth", "serving"}]
    BY <1>1 DEF BudgetInv
  <1>3. Unauth' = Unauth \ {d} /\ d \in Unauth
    BY <1>1 DEF Unauth, BudgetInv
  <1>4. Cardinality(Unauth') = Cardinality(Unauth) - 1
    BY <1>3, UnauthFinite, FS_RemoveElement
  <1>5. unauth' <= MaxUnauth
    BY <1>1, UnauthFinite, ServerAssumption DEF BudgetInv, ServerAssumption
  <1> QED BY <1>1, <1>2, <1>4, <1>5 DEF BudgetInv

\* A device that is served leaves: its guard is gone already.
LEMMA LeavesBudget ==
    ASSUME BudgetInv, NEW d \in Devices, Hangup(d) \/ ForwardFails(d)
    PROVE  BudgetInv'
  <1>1. /\ dev[d] = "serving"
        /\ unauth' = unauth
        /\ dev' = [dev EXCEPT ![d] = "out"]
    BY DEF Hangup, ForwardFails, Leaves, Idle, Serving
  <1>2. Unauth' = Unauth
    BY <1>1 DEF Unauth, BudgetInv
  <1> QED BY <1>1, <1>2 DEF BudgetInv

\* The steps that leave the counter and the connections' stages alone.
LEMMA StutterBudget ==
    ASSUME BudgetInv, UNCHANGED <<unauth, dev>>
    PROVE  BudgetInv'
  BY DEF BudgetInv, Unauth

LEMMA NextBudget ==
    ASSUME BudgetInv, [Next]_vars
    PROVE  BudgetInv'
  <1>1. ASSUME NEW s \in Sockets, WrapperStep(s) PROVE BudgetInv'
    <2>1. UNCHANGED <<unauth, dev>>
      BY <1>1 DEF WrapperStep, SessionStarts, TitleChanges, Notes, Register,
                  MonitorDropped, SessionDies, device
    <2> QED BY <2>1, StutterBudget
  <1>2. ASSUME NEW s \in Sockets, MonitorStep(s) PROVE BudgetInv'
    <2>1. UNCHANGED <<unauth, dev>>
      BY <1>2 DEF MonitorStep, Dial, ReadLine, MonitorEnds, device
    <2> QED BY <2>1, StutterBudget
  <1>3. ASSUME Scan \/ ScanFails PROVE BudgetInv'
    <2>1. UNCHANGED <<unauth, dev>>
      BY <1>3 DEF Scan, ScanFails, ScanFinds, device
    <2> QED BY <2>1, StutterBudget
  <1>4. ASSUME NEW d \in Devices, DeviceStep(d) PROVE BudgetInv'
    <2>1. CASE Accept(d)
      BY <2>1, AcceptBudget
    <2>2. CASE Authenticated(d) \/ Refused(d)
      BY <2>2, ReleaseBudget
    <2>3. CASE Hangup(d) \/ ForwardFails(d)
      BY <2>3, LeavesBudget
    <2>4. CASE \/ List(d) \/ (\E s \in Sockets : Connect(d, s)) \/ Opened(d)
               \/ Disconnect(d) \/ SessionClosed(d) \/ ViewerDropped(d)
               \/ Lagged(d) \/ Received(d)
      <3>1. UNCHANGED <<unauth, dev>>
        BY <2>4 DEF List, Connect, Opened, Disconnect, SessionClosed,
                    ViewerDropped, Lagged, Received, Detach, device
      <3> QED BY <3>1, StutterBudget
    <2> QED BY <1>4, <2>1, <2>2, <2>3, <2>4 DEF DeviceStep
  <1>5. ASSUME UNCHANGED vars PROVE BudgetInv'
    BY <1>5, StutterBudget DEF vars, device
  <1> QED BY <1>1, <1>2, <1>3, <1>4, <1>5 DEF Next

\* For any number of connections and any limit, the counter behind UnauthGuard
\* is the number of connections that have not authenticated: no way out of
\* authentication leaks a slot or gives it back twice.
THEOREM BudgetIsExact == Spec => []BudgetExact
  <1>1. Init => BudgetInv
    <2> SUFFICES ASSUME Init PROVE BudgetInv
      OBVIOUS
    <2>1. Unauth = {} BY DEF Init, Unauth
    <2>2. Cardinality(Unauth) = 0 BY <2>1, FS_EmptySet
    <2> QED BY <2>2, ServerAssumption DEF Init, BudgetInv, ServerAssumption
  <1>2. BudgetInv /\ [Next]_vars => BudgetInv'
    BY NextBudget
  <1>3. BudgetInv => BudgetExact
    BY DEF BudgetInv, BudgetExact, Unauth
  <1> QED BY <1>1, <1>2, <1>3, PTL DEF Spec

-----------------------------------------------------------------------------
(* The registry and the feeds.  The news about a session travels from its  *)
(* wrapper over a wire to the monitor task, into the registry, and over    *)
(* the devices' queues to the devices.  What follows are queues, read for  *)
(* the messages of a set M: whether there is one, and what the latest of   *)
(* them says.                                                              *)

Has(q, M) == \E i \in 1..Len(q) : q[i] \in M

LatestIs(q, M, t) ==
    \A i \in 1..Len(q) :
        q[i] \in M /\ (\A j \in 1..Len(q) : i < j => q[j] \notin M) => q[i].title = t

LEMMA HasNone ==
    ASSUME NEW q, NEW M, NEW t, ~Has(q, M)
    PROVE  LatestIs(q, M, t)
  BY DEF Has, LatestIs

LEMMA HasEmpty ==
    ASSUME NEW M
    PROVE  ~Has(<< >>, M)
  BY DEF Has

LEMMA HasSubset ==
    ASSUME NEW q, NEW M, NEW L, L \subseteq M, Has(q, L)
    PROVE  Has(q, M)
  BY DEF Has

\* A message joins the queue.
LEMMA Sending ==
    ASSUME NEW S, NEW q \in Seq(S), NEW x \in S, NEW M, NEW t
    PROVE  /\ Has(Append(q, x), M) <=> Has(q, M) \/ x \in M
           /\ x \in M => LatestIs(Append(q, x), M, x.title)
           /\ x \notin M /\ LatestIs(q, M, t) => LatestIs(Append(q, x), M, t)
<1> DEFINE r == Append(q, x)
<1>1. /\ Len(q) \in Nat /\ Len(r) = Len(q) + 1
      /\ \A i \in 1..Len(q) : r[i] = q[i]
      /\ r[Len(q) + 1] = x
  OBVIOUS
<1> HIDE DEF r
<1>2. 1..Len(r) = 1..Len(q) \cup {Len(q) + 1}
  BY <1>1
<1>3. Has(r, M) <=> Has(q, M) \/ x \in M
  BY <1>1, <1>2 DEF Has
<1>4. ASSUME x \in M
      PROVE  LatestIs(r, M, x.title)
  <2>1. ASSUME NEW i \in 1..Len(r), r[i] \in M,
               \A j \in 1..Len(r) : i < j => r[j] \notin M
        PROVE  r[i].title = x.title
    <3>1. ~(i < Len(q) + 1)
      BY <1>1, <1>2, <1>4, <2>1
    <3>2. i = Len(q) + 1
      BY <1>1, <3>1
    <3>3. QED BY <1>1, <3>2
  <2>2. QED BY <2>1 DEF LatestIs
<1>5. ASSUME x \notin M, LatestIs(q, M, t)
      PROVE  LatestIs(r, M, t)
  <2>1. ASSUME NEW i \in 1..Len(r), r[i] \in M,
               \A j \in 1..Len(r) : i < j => r[j] \notin M
        PROVE  r[i].title = t
    <3>1. i \in 1..Len(q) /\ r[i] = q[i]
      BY <1>1, <1>2, <1>5, <2>1
    <3>2. \A j \in 1..Len(q) : i < j => q[j] \notin M
      BY <1>1, <1>2, <2>1
    <3>3. QED BY <1>5, <2>1, <3>1, <3>2 DEF LatestIs
  <2>2. QED BY <2>1 DEF LatestIs
<1>6. QED BY <1>3, <1>4, <1>5 DEF r

\* The first message leaves the queue.
LEMMA Taking ==
    ASSUME NEW S, NEW q \in Seq(S), q # << >>, NEW M, NEW t
    PROVE  /\ Head(q) \in S /\ Tail(q) \in Seq(S)
           /\ Has(q, M) <=> Head(q) \in M \/ Has(Tail(q), M)
           /\ LatestIs(q, M, t) => LatestIs(Tail(q), M, t)
           /\ LatestIs(q, M, t) /\ Head(q) \in M /\ ~Has(Tail(q), M) =>
                 Head(q).title = t
<1> DEFINE r == Tail(q)
           h == Head(q)
<1>1. /\ Len(q) \in Nat \ {0} /\ Len(r) = Len(q) - 1
      /\ \A i \in 1..Len(r) : r[i] = q[i + 1]
      /\ h = q[1] /\ h \in S /\ r \in Seq(S)
  OBVIOUS
<1> HIDE DEF r, h
<1>2. /\ 1 \in 1..Len(q)
      /\ \A i \in 1..Len(r) : i + 1 \in 1..Len(q)
      /\ \A i \in 1..Len(q) : i # 1 => i - 1 \in 1..Len(r) /\ q[i] = r[i - 1]
  BY <1>1
<1>3. Has(q, M) <=> h \in M \/ Has(r, M)
  <2>1. ASSUME Has(q, M) PROVE h \in M \/ Has(r, M)
    <3>1. PICK i \in 1..Len(q) : q[i] \in M
      BY <2>1 DEF Has
    <3>2. CASE i = 1
      BY <1>1, <3>1, <3>2
    <3>3. CASE i # 1
      <4>1. i - 1 \in 1..Len(r) /\ r[i - 1] \in M
        BY <1>2, <3>1, <3>3
      <4>2. QED BY <4>1 DEF Has
    <3>4. QED BY <3>2, <3>3
  <2>2. ASSUME Has(r, M) PROVE Has(q, M)
    <3>1. PICK i \in 1..Len(r) : r[i] \in M
      BY <2>2 DEF Has
    <3>2. i + 1 \in 1..Len(q) /\ q[i + 1] \in M
      BY <1>1, <1>2, <3>1
    <3>3. QED BY <3>2 DEF Has
  <2>3. ASSUME h \in M PROVE Has(q, M)
    BY <1>1, <1>2, <2>3 DEF Has
  <2>4. QED BY <2>1, <2>2, <2>3
<1>4. ASSUME LatestIs(q, M, t)
      PROVE  LatestIs(r, M, t)
  <2>1. ASSUME NEW i \in 1..Len(r), r[i] \in M,
               \A j \in 1..Len(r) : i < j => r[j] \notin M
        PROVE  r[i].title = t
    <3>1. i + 1 \in 1..Len(q) /\ q[i + 1] = r[i]
      BY <1>1, <1>2
    <3>2. ASSUME NEW j \in 1..Len(q), i + 1 < j
          PROVE  q[j] \notin M
      <4>1. j # 1 /\ i < j - 1
        BY <3>2
      <4>2. j - 1 \in 1..Len(r) /\ q[j] = r[j - 1]
        BY <1>2, <4>1
      <4>3. QED BY <2>1, <4>1, <4>2
    <3>3. QED BY <1>4, <2>1, <3>1, <3>2 DEF LatestIs
  <2>2. QED BY <2>1 DEF LatestIs
<1>5. ASSUME LatestIs(q, M, t), h \in M, ~Has(r, M)
      PROVE  h.title = t
  <2>1. ASSUME NEW j \in 1..Len(q), 1 < j
        PROVE  q[j] \notin M
    <3>1. j - 1 \in 1..Len(r) /\ q[j] = r[j - 1]
      BY <1>2, <2>1
    <3>2. QED BY <1>5, <3>1 DEF Has
  <2>2. QED BY <1>1, <1>2, <1>5, <2>1 DEF LatestIs
<1>6. QED BY <1>1, <1>3, <1>4, <1>5 DEF r, h

\* What is behind the first message when one more joins.
LEMMA SendingBehind ==
    ASSUME NEW S, NEW q \in Seq(S), q # << >>, NEW x \in S
    PROVE  Append(q, x) # << >> /\ Tail(Append(q, x)) = Append(Tail(q), x)
  OBVIOUS

LEMMA SendingFirst ==
    ASSUME NEW S, NEW x \in S
    PROVE  << x >> \in Seq(S) /\ Append(<< >>, x) = << x >> /\ Tail(<< x >>) = << >>
  OBVIOUS

-----------------------------------------------------------------------------
(* The kinds of the variables.                                             *)

Known   == Titles \cup {Unknown}
Places  == Dirs \cup {Unknown}
Entries == [title : Known, cwd : Places]
Lines   == [kind : {"connect", "title", "note"}, title : Known]
Events  == [socket : Sockets, kind : {"title", "note"}, title : Known]

ServerTypes ==
    /\ life \in [Sockets -> {"unborn", "alive", "dead"}]
    /\ title \in [Sockets -> Known]
    /\ link \in [Sockets -> {"none", "greeted", "registered"}]
    /\ wire \in [Sockets -> Seq(Lines)]
    /\ mon \in [Sockets -> {"none", "dial", "read"}]
    /\ monitored \subseteq Sockets
    /\ DOMAIN terminals \subseteq Sockets
    /\ \A s \in DOMAIN terminals : terminals[s] \in Entries
    /\ dev \in [Devices -> {"out", "unauth", "serving"}]
    /\ session \in [Devices -> Sockets \cup {None}]
    /\ opening \in [Devices -> Sockets \cup {None}]
    /\ events \in [Devices -> Seq(Events)]
    /\ told \in [Devices -> [Sockets -> Known \cup {None}]]
    /\ lost \in [Devices -> SUBSET Sockets]

wrapperTypes == <<life, title, link, wire>>
registryTypes == <<mon, monitored, terminals>>
deviceTypes == <<dev, session, opening>>
feedTypes == <<events, told, lost>>

LEMMA TerminalType ==
    ASSUME ServerTypes, NEW s \in Sockets
    PROVE  Terminal(s) \in Entries
  BY DEF ServerTypes, Terminal, NoTerminal, Entries, Known, Places

\* What is in the registry after an entry is written.
LEMMA EntryIs ==
    ASSUME ServerTypes, NEW s \in Sockets, NEW x \in Entries, terminals' = Entry(s, x)
    PROVE  /\ DOMAIN terminals' = DOMAIN terminals \cup {s}
           /\ \A y \in DOMAIN terminals' : terminals'[y] \in Entries
           /\ terminals'[s] = x /\ Terminal(s)' = x
           /\ \A y \in Sockets \ {s} :
                 /\ Terminal(y)' = Terminal(y)
                 /\ y \in DOMAIN terminals' <=> y \in DOMAIN terminals
  BY DEF Entry, ServerTypes, Terminal

\* What is in the registry after a scan.
LEMMA ScanIs ==
    ASSUME ServerTypes, NEW found \in SUBSET Sockets, terminals' = Rescanned(found)
    PROVE  /\ DOMAIN terminals' = found
           /\ \A y \in DOMAIN terminals' : terminals'[y] \in Entries
           /\ \A y \in found : Terminal(y)' = Terminal(y)
           /\ \A y \in Sockets \ found : Terminal(y)' = NoTerminal
  BY TerminalType DEF Rescanned, Terminal

\* What a broadcast does to the queue of one receiver.
LEMMA BroadcastTo ==
    ASSUME ServerTypes, NEW e \in Events, Broadcast(e), NEW d \in Devices
    PROVE  /\ dev[d] # "serving" => events'[d] = events[d] /\ lost'[d] = lost[d]
           /\ dev[d] = "serving" =>
                 LET settled == IF e.kind = "title" THEN {e.socket} ELSE {} IN
                 \/ /\ events'[d] = Append(events[d], e)
                    /\ lost'[d] = lost[d] \ settled
                 \/ /\ events[d] # << >>
                    /\ events'[d] = Append(Tail(events[d]), e)
                    /\ lost'[d] = (lost[d] \cup {Head(events[d]).socket}) \ settled
<1>1. events[d] \in Seq(Events) /\ lost[d] \in SUBSET Sockets
  BY DEF ServerTypes
<1>2. /\ events'[d] = (IF d \notin Serving THEN events[d]
                       ELSE Append(IF d \in Overruns THEN Tail(events[d]) ELSE events[d], e))
      /\ lost'[d] = (lost[d] \cup {events[x][1].socket : x \in {d} \cap Overruns})
                      \ (IF d \in Serving /\ e.kind = "title" THEN {e.socket} ELSE {})
  BY DEF Broadcast
<1>3. d \in Serving <=> dev[d] = "serving"
  BY DEF Serving
<1>4. CASE d \notin Serving
  <2>1. {d} \cap Overruns = {}
    BY <1>4 DEF Overruns
  <2>2. {events[x][1].socket : x \in {d} \cap Overruns} = {}
    BY <2>1
  <2>3. QED BY <1>2, <1>3, <1>4, <2>2
<1>5. CASE d \in Serving /\ d \notin Overruns
  <2>1. {events[x][1].socket : x \in {d} \cap Overruns} = {}
    BY <1>5
  <2>2. QED BY <1>2, <1>3, <1>5, <2>1
<1>6. CASE d \in Serving /\ d \in Overruns
  <2>1. Len(events[d]) = EventCap /\ EventCap \in Nat \ {0}
    BY <1>6, ServerAssumption DEF Overruns
  <2>2. events[d] # << >> /\ Head(events[d]) = events[d][1]
    BY <1>1, <2>1
  <2>3. {events[x][1].socket : x \in {d} \cap Overruns} = {Head(events[d]).socket}
    BY <1>6, <2>2
  <2>4. QED BY <1>2, <1>3, <1>6, <2>2, <2>3
<1>7. QED BY <1>4, <1>5, <1>6

LEMMA BroadcastTypes ==
    ASSUME ServerTypes, NEW e \in Events, Broadcast(e)
    PROVE  /\ events' \in [Devices -> Seq(Events)]
           /\ told' \in [Devices -> [Sockets -> Known \cup {None}]]
           /\ lost' \in [Devices -> SUBSET Sockets]
<1>1. ASSUME NEW d \in Devices
      PROVE  events'[d] \in Seq(Events) /\ lost'[d] \in SUBSET Sockets
  <2>1. events[d] \in Seq(Events) /\ lost[d] \in SUBSET Sockets
    BY DEF ServerTypes
  <2>2. events[d] # << >> =>
           Tail(events[d]) \in Seq(Events) /\ Head(events[d]).socket \in Sockets
    <3>1. events[d] # << >> => Tail(events[d]) \in Seq(Events) /\ Head(events[d]) \in Events
      BY <2>1
    <3>2. QED BY <3>1 DEF Events
  <2>3. \/ events'[d] = events[d]
        \/ events'[d] = Append(events[d], e)
        \/ events[d] # << >> /\ events'[d] = Append(Tail(events[d]), e)
    BY BroadcastTo DEF ServerTypes
  <2>4. events'[d] \in Seq(Events)
    <3>1. PICK q \in Seq(Events) : events'[d] = q \/ events'[d] = Append(q, e)
      BY <2>1, <2>2, <2>3
    <3>2. Append(q, e) \in Seq(Events)
      OBVIOUS
    <3>3. QED BY <3>1, <3>2
  <2>5. \/ lost'[d] \subseteq lost[d]
        \/ events[d] # << >> /\ lost'[d] \subseteq lost[d] \cup {Head(events[d]).socket}
    BY BroadcastTo DEF ServerTypes
  <2>6. QED BY <2>1, <2>2, <2>4, <2>5
<1>2. \E f, g : events' = [d \in Devices |-> f[d]] /\ lost' = [d \in Devices |-> g[d]]
  <2>1. events' = [d \in Devices |-> events'[d]] /\ lost' = [d \in Devices |-> lost'[d]]
    BY DEF Broadcast
  <2>2. QED BY <2>1
<1>3. QED BY <1>1, <1>2 DEF Broadcast, ServerTypes

LEMMA LineType ==
    ASSUME NEW kind \in {"connect", "title", "note"}, NEW t \in Known
    PROVE  Line(kind, t) \in Lines /\ Line(kind, t).kind = kind /\ Line(kind, t).title = t
  BY DEF Line, Lines

LEMMA EventType ==
    ASSUME NEW s \in Sockets, NEW kind \in {"title", "note"}, NEW t \in Known
    PROVE  /\ Event(s, kind, t) \in Events
           /\ Event(s, kind, t).socket = s
           /\ Event(s, kind, t).kind = kind
           /\ Event(s, kind, t).title = t
  BY DEF Event, Events

LEMMA WireType ==
    ASSUME NEW q \in Seq(Lines), NEW line \in Lines
    PROVE  /\ Append(q, line) \in Seq(Lines) /\ <<line>> \in Seq(Lines)
           /\ q # << >> => Tail(q) \in Seq(Lines) /\ Head(q) \in Lines
  OBVIOUS

LEMMA TypesKept ==
    ASSUME ServerTypes, UNCHANGED <<wrapperTypes, registryTypes, deviceTypes, feedTypes>>
    PROVE  ServerTypes'
  BY DEF ServerTypes, wrapperTypes, registryTypes, deviceTypes, feedTypes

LEMMA WrapperTypes ==
    ASSUME ServerTypes, NEW s \in Sockets, WrapperStep(s)
    PROVE  ServerTypes'
<1> USE DEF registryTypes, deviceTypes, feedTypes
<1>1. UNCHANGED <<registryTypes, deviceTypes, feedTypes>>
  BY DEF WrapperStep, SessionStarts, TitleChanges, Notes, Register, MonitorDropped,
         SessionDies, registry, device, feed
<1>2. SUFFICES /\ life' \in [Sockets -> {"unborn", "alive", "dead"}]
               /\ title' \in [Sockets -> Known]
               /\ link' \in [Sockets -> {"none", "greeted", "registered"}]
               /\ wire' \in [Sockets -> Seq(Lines)]
  BY <1>1 DEF ServerTypes
<1>3. StartTitles \subseteq Known /\ Titles \subseteq Known /\ Unknown \in Known
  BY ServerAssumption DEF Known
<1>4. /\ life \in [Sockets -> {"unborn", "alive", "dead"}]
      /\ title \in [Sockets -> Known]
      /\ link \in [Sockets -> {"none", "greeted", "registered"}]
      /\ wire \in [Sockets -> Seq(Lines)]
      /\ title[s] \in Known
      /\ wire[s] \in Seq(Lines)
  BY DEF ServerTypes
<1>5. CASE \E t \in StartTitles : SessionStarts(s, t)
  BY <1>3, <1>4, <1>5 DEF SessionStarts
<1>6. ASSUME NEW t \in Titles, TitleChanges(s, t)
      PROVE  /\ life' = life /\ link' = link
             /\ title' \in [Sockets -> Known]
             /\ wire' \in [Sockets -> Seq(Lines)]
  <2>1. Line("title", t) \in Lines
    BY <1>3, LineType
  <2>2. PICK q \in Seq(Lines) : \/ wire' = wire
                                  \/ wire' = [wire EXCEPT ![s] = q]
    BY <1>4, <2>1, WireType, <1>6 DEF TitleChanges, Report
  <2>3. wire' \in [Sockets -> Seq(Lines)]
    BY <1>4, <2>2
  <2>4. QED BY <1>3, <1>4, <1>6, <2>3 DEF TitleChanges
<1>7. CASE Notes(s)
  <2>1. Line("note", Unknown) \in Lines
    BY <1>3, LineType
  <2>2. PICK q \in Seq(Lines) : \/ wire' = wire
                                  \/ wire' = [wire EXCEPT ![s] = q]
    BY <1>4, <2>1, WireType, <1>7 DEF Notes, Report
  <2>3. wire' \in [Sockets -> Seq(Lines)]
    BY <1>4, <2>2
  <2>4. QED BY <1>4, <1>7, <2>3 DEF Notes
<1>8. CASE Register(s)
  <2>1. Line("title", title[s]) \in Lines
    BY <1>4, LineType
  <2>2. PICK q \in Seq(Lines) : \/ wire' = wire
                                  \/ wire' = [wire EXCEPT ![s] = q]
    BY <1>4, <2>1, WireType, <1>8 DEF Register
  <2>3. wire' \in [Sockets -> Seq(Lines)]
    BY <1>4, <2>2
  <2>4. QED BY <1>4, <1>8, <2>3 DEF Register
<1>9. CASE MonitorDropped(s) \/ SessionDies(s)
  BY <1>4, <1>9 DEF MonitorDropped, SessionDies
<1>10. QED BY <1>4, <1>5, <1>6, <1>7, <1>8, <1>9 DEF WrapperStep

\* What the registry stores of a line is an entry.
LEMMA StoredTypes ==
    ASSUME ServerTypes, NEW s \in Sockets, NEW t \in Known
    PROVE  /\ [Terminal(s) EXCEPT !.title = t] \in Entries
           /\ [Terminal(s) EXCEPT !.title = t].title = t
           /\ [Terminal(s) EXCEPT !.title = t].cwd = Terminal(s).cwd
           /\ [title |-> IF t = Unknown THEN Terminal(s).title ELSE t,
               cwd |-> Cwd[s]] \in Entries
<1>1. Terminal(s) \in Entries
  BY TerminalType
<1>2. Cwd[s] \in Places
  BY ServerAssumption DEF Places
<1>3. PICK r \in Entries : r = Terminal(s)
  BY <1>1
<1>4. /\ [r EXCEPT !.title = t] \in Entries
      /\ [r EXCEPT !.title = t].title = t
      /\ [r EXCEPT !.title = t].cwd = r.cwd
      /\ [title |-> IF t = Unknown THEN r.title ELSE t, cwd |-> Cwd[s]] \in Entries
  BY <1>2 DEF Entries
<1>5. QED BY <1>3, <1>4

LEMMA MonitorTypes ==
    ASSUME ServerTypes, NEW s \in Sockets, MonitorStep(s)
    PROVE  ServerTypes'
<1> USE DEF wrapperTypes, registryTypes, deviceTypes, feedTypes
<1>1. /\ mon \in [Sockets -> {"none", "dial", "read"}]
      /\ link \in [Sockets -> {"none", "greeted", "registered"}]
      /\ wire \in [Sockets -> Seq(Lines)]
      /\ monitored \subseteq Sockets
      /\ title[s] \in Known /\ Unknown \in Known
  BY DEF ServerTypes, Known
<1>2. CASE Dial(s)
  <2>1. UNCHANGED <<life, title, terminals, deviceTypes, feedTypes>>
    BY <1>2 DEF Dial, device, feed
  <2>2. PICK line \in Lines : line = Line("connect", title[s])
    BY <1>1, LineType
  <2>3. PICK q \in Seq(Lines) : \/ wire' = wire
                                  \/ wire' = [wire EXCEPT ![s] = q]
    <3>1. <<line>> \in Seq(Lines)
      OBVIOUS
    <3>2. wire' = wire \/ wire' = [wire EXCEPT ![s] = <<line>>]
      BY <1>2, <2>2 DEF Dial
    <3>3. QED BY <3>1, <3>2
  <2>4. wire' \in [Sockets -> Seq(Lines)]
    BY <1>1, <2>3
  <2>5. /\ mon' \in [Sockets -> {"none", "dial", "read"}]
        /\ link' \in [Sockets -> {"none", "greeted", "registered"}]
        /\ monitored' \subseteq Sockets
    BY <1>1, <1>2 DEF Dial, Unmonitored
  <2>6. QED BY <2>1, <2>4, <2>5 DEF ServerTypes
<1>3. CASE ReadLine(s)
  <2>1. UNCHANGED <<life, title, link, mon, monitored, deviceTypes>>
    BY <1>3 DEF ReadLine, device
  <2>2. wire' \in [Sockets -> Seq(Lines)] /\ Head(wire[s]) \in Lines
    <3>1. PICK q \in Seq(Lines) : q = wire[s] /\ q # << >>
      BY <1>1, <1>3 DEF ReadLine
    <3>2. Tail(q) \in Seq(Lines) /\ Head(q) \in Lines
      BY <3>1
    <3>3. wire' = [wire EXCEPT ![s] = Tail(q)]
      BY <1>3, <3>1 DEF ReadLine
    <3>4. QED BY <1>1, <3>1, <3>2, <3>3
  <2>3. PICK line \in Lines : line = Head(wire[s])
    BY <2>2
  <2>4. line.title \in Known
    BY DEF Lines
  <2>5. \/ /\ terminals' = Greeted(s, line.title)
           /\ UNCHANGED feed
        \/ /\ terminals' = Titled(s, line.title)
           /\ Broadcast(Event(s, "title", line.title))
        \/ /\ terminals' = Entry(s, Terminal(s))
           /\ Broadcast(Event(s, "note", Unknown))
    BY <1>3, <2>3 DEF ReadLine
  <2>6. PICK x \in Entries : terminals' = Entry(s, x)
    BY <2>4, <2>5, StoredTypes, TerminalType DEF Greeted, Titled
  <2>7. /\ DOMAIN terminals' \subseteq Sockets
        /\ \A y \in DOMAIN terminals' : terminals'[y] \in Entries
    <3>1. /\ DOMAIN terminals' = DOMAIN terminals \cup {s}
          /\ \A y \in DOMAIN terminals' : terminals'[y] \in Entries
      BY <2>6, EntryIs
    <3>2. QED BY <3>1 DEF ServerTypes
  <2>8. \/ UNCHANGED feedTypes
        \/ \E e \in Events : Broadcast(e)
    BY <1>1, <2>4, <2>5, EventType DEF feed
  <2>9. /\ events' \in [Devices -> Seq(Events)]
        /\ told' \in [Devices -> [Sockets -> Known \cup {None}]]
        /\ lost' \in [Devices -> SUBSET Sockets]
    BY <2>8, BroadcastTypes DEF ServerTypes
  <2>10. QED BY <2>1, <2>2, <2>7, <2>9 DEF ServerTypes
<1>4. CASE MonitorEnds(s)
  <2>1. UNCHANGED <<wrapperTypes, terminals, deviceTypes, feedTypes>>
    BY <1>4 DEF MonitorEnds, wrapper, device, feed
  <2>2. mon' \in [Sockets -> {"none", "dial", "read"}] /\ monitored' \subseteq Sockets
    BY <1>1, <1>4 DEF MonitorEnds, Unmonitored
  <2>3. QED BY <2>1, <2>2 DEF ServerTypes
<1>5. QED BY <1>2, <1>3, <1>4 DEF MonitorStep

LEMMA ScanTypes ==
    ASSUME ServerTypes, Scan \/ ScanFails
    PROVE  ServerTypes'
<1>1. PICK found \in SUBSET Sockets : ScanFinds(found)
  BY DEF Scan, ScanFails, Live
<1>2. UNCHANGED <<wrapperTypes, deviceTypes, feedTypes>>
  BY <1>1 DEF ScanFinds, wrapper, device, feed, wrapperTypes, deviceTypes, feedTypes
<1>3. /\ DOMAIN terminals' \subseteq Sockets
      /\ \A y \in DOMAIN terminals' : terminals'[y] \in Entries
  BY <1>1, ScanIs DEF ScanFinds
<1>4. mon' \in [Sockets -> {"none", "dial", "read"}] /\ monitored' \subseteq Sockets
  BY <1>1 DEF ScanFinds, ServerTypes
<1>5. QED BY <1>2, <1>3, <1>4 DEF ServerTypes, wrapperTypes, deviceTypes, feedTypes

LEMMA LeavesTypes ==
    ASSUME ServerTypes, NEW d \in Devices, Leaves(d)
    PROVE  ServerTypes'
<1>1. UNCHANGED <<wrapperTypes, registryTypes>>
  BY DEF Leaves, wrapper, registry, wrapperTypes, registryTypes
<1>2. NothingTold \in [Sockets -> Known \cup {None}] /\ << >> \in Seq(Events)
  BY DEF NothingTold
<1>3. /\ dev' = [dev EXCEPT ![d] = "out"]
      /\ session' = [session EXCEPT ![d] = None]
      /\ opening' = [opening EXCEPT ![d] = None]
      /\ events' = [events EXCEPT ![d] = << >>]
      /\ told' = [told EXCEPT ![d] = NothingTold]
      /\ lost' = [lost EXCEPT ![d] = {}]
  BY DEF Leaves
<1>4. QED BY <1>1, <1>2, <1>3 DEF ServerTypes, wrapperTypes, registryTypes

LEMMA DeviceTypes ==
    ASSUME ServerTypes, NEW d \in Devices, DeviceStep(d)
    PROVE  ServerTypes'
<1> USE DEF wrapperTypes, registryTypes, deviceTypes, feedTypes
<1>1. CASE Accept(d) \/ Authenticated(d) \/ Refused(d)
  <2>1. UNCHANGED <<wrapperTypes, registryTypes, session, opening, feedTypes>>
    BY <1>1 DEF Accept, Authenticated, Refused, wrapper, registry, feed
  <2>2. \E stage \in {"out", "unauth", "serving"} : dev' = [dev EXCEPT ![d] = stage]
    BY <1>1 DEF Accept, Authenticated, Refused
  <2>3. dev' \in [Devices -> {"out", "unauth", "serving"}]
    BY <2>2 DEF ServerTypes
  <2>4. QED BY <2>1, <2>3 DEF ServerTypes
<1>2. CASE Hangup(d) \/ ForwardFails(d)
  BY <1>2, LeavesTypes DEF Hangup, ForwardFails
<1>3. CASE List(d)
  <2>1. UNCHANGED <<wrapperTypes, registryTypes, deviceTypes, events>>
    BY <1>3 DEF List, wrapper, registry, device
  <2>2. PICK listed, settled :
           /\ told' = [told EXCEPT ![d] =
                 [s \in Sockets |-> IF s \in listed THEN Terminal(s).title ELSE None]]
           /\ lost' = [lost EXCEPT ![d] = @ \ settled]
    BY <1>3 DEF List
  <2>3. \A s \in Sockets : Terminal(s).title \in Known
    BY TerminalType DEF Entries
  <2>4. [s \in Sockets |-> IF s \in listed THEN Terminal(s).title ELSE None]
           \in [Sockets -> Known \cup {None}]
    BY <2>3
  <2>5. QED BY <2>1, <2>2, <2>4 DEF ServerTypes
<1>4. CASE \/ \E s \in Sockets : Connect(d, s)
           \/ Opened(d) \/ Disconnect(d) \/ SessionClosed(d)
           \/ ViewerDropped(d) \/ Lagged(d)
  <2>1. UNCHANGED <<wrapperTypes, registryTypes, dev, feedTypes>>
    BY <1>4 DEF Connect, Opened, Disconnect, SessionClosed, ViewerDropped, Lagged,
                Detach, wrapper, registry, device, feed
  <2>2. /\ session' \in [Devices -> Sockets \cup {None}]
        /\ opening' \in [Devices -> Sockets \cup {None}]
    BY <1>4 DEF Connect, Opened, Disconnect, SessionClosed, ViewerDropped, Lagged,
                Detach, device, ServerTypes
  <2>3. QED BY <2>1, <2>2 DEF ServerTypes
<1>5. CASE Received(d)
  <2>1. UNCHANGED <<wrapperTypes, registryTypes, dev, opening, lost>>
    BY <1>5 DEF Received, Detach, wrapper, registry, device
  <2>2. session' \in [Devices -> Sockets \cup {None}]
    BY <1>5 DEF Received, Detach, device, ServerTypes
  <2>3. events[d] \in Seq(Events) /\ events[d] # << >>
    BY <1>5 DEF Received, ServerTypes
  <2>4. Tail(events[d]) \in Seq(Events) /\ Head(events[d]) \in Events
    BY <2>3
  <2>5. events' \in [Devices -> Seq(Events)]
    BY <1>5, <2>4 DEF Received, ServerTypes
  <2>6. PICK e \in Events : e = Head(events[d])
    BY <2>4
  <2>7. e.socket \in Sockets /\ e.title \in Known
    BY DEF Events
  <2>8. told' = told \/ told' = [told EXCEPT ![d][e.socket] = e.title]
    BY <1>5, <2>6 DEF Received, ToldTitle
  <2>9. told' \in [Devices -> [Sockets -> Known \cup {None}]]
    <3>1. told \in [Devices -> [Sockets -> Known \cup {None}]]
      BY DEF ServerTypes
    <3>2. PICK s \in Sockets, t \in Known : s = e.socket /\ t = e.title
      BY <2>7
    <3>3. [told[d] EXCEPT ![s] = t] \in [Sockets -> Known \cup {None}]
      BY <3>1
    <3>4. told' = told \/ told' = [told EXCEPT ![d] = [told[d] EXCEPT ![s] = t]]
      BY <2>8, <3>2
    <3>5. QED BY <3>1, <3>3, <3>4
  <2>10. QED BY <2>1, <2>2, <2>5, <2>9 DEF ServerTypes
<1>6. QED BY <1>1, <1>2, <1>3, <1>4, <1>5 DEF DeviceStep

LEMMA StepServerTypes ==
    ASSUME ServerTypes, [Next]_vars
    PROVE  ServerTypes'
<1>1. CASE UNCHANGED vars
  BY <1>1, TypesKept DEF vars, wrapper, registry, device, feed,
                         wrapperTypes, registryTypes, deviceTypes, feedTypes
<1>2. QED BY <1>1, WrapperTypes, MonitorTypes, ScanTypes, DeviceTypes DEF Next

LEMMA InitServerTypes == Init => ServerTypes
<1>1. << >> \in Seq(Lines) /\ << >> \in Seq(Events) /\ DOMAIN << >> = {}
  OBVIOUS
<1>2. NothingTold \in [Sockets -> Known \cup {None}] /\ Unknown \in Known
  BY DEF NothingTold, Known
<1>3. Init => /\ terminals = << >>
              /\ DOMAIN terminals = {}
  BY <1>1 DEF Init
<1>4. QED BY <1>1, <1>2, <1>3 DEF Init, ServerTypes

-----------------------------------------------------------------------------
(* The wire and the registry.                                              *)

ConnectLines == {l \in Lines : l.kind = "connect"}
TitleLines   == {l \in Lines : l.kind = "title"}
TellingLines == {l \in Lines : l.kind = "title" \/ l.title # Unknown}

\* What holds of the news about s between its wrapper and the registry.  The
\* greeting, which alone carries the directory, is the first line if it is on
\* the wire at all.  A registered wrapper's latest title is the latest on the
\* wire, or in the registry when the wire has none; and it follows a greeting
\* that may be older, unless there is no title to speak of.
WireInv(s) ==
    /\ life[s] = "unborn" =>
          title[s] = Unknown /\ mon[s] = "none" /\ s \notin DOMAIN terminals
    /\ link[s] # "none" => mon[s] = "read" /\ life[s] = "alive"
    /\ mon[s] # "none" => s \in monitored
    /\ wire[s] # << >> => ~Has(Tail(wire[s]), ConnectLines)
    /\ title[s] = Unknown =>
          Terminal(s).title = Unknown /\ ~Has(wire[s], TellingLines)
    /\ link[s] = "registered" =>
          /\ LatestIs(wire[s], TitleLines, title[s])
          /\ Has(wire[s], ConnectLines) /\ title[s] # Unknown => Has(wire[s], TitleLines)
          /\ Has(wire[s], TitleLines) \/ scanFailed \/ Terminal(s).title = title[s]
    /\ Terminal(s).cwd \in {Unknown, Cwd[s]}
    /\ mon[s] = "read" /\ life[s] = "alive" =>
          \/ Has(wire[s], ConnectLines)
          \/ scanFailed
          \/ s \in DOMAIN terminals /\ Terminal(s).cwd = Cwd[s]

WireInvs == \A s \in Sockets : WireInv(s)

LEMMA LineKinds ==
    ASSUME NEW x \in Lines
    PROVE  /\ x.kind \in {"connect", "title", "note"} /\ x.title \in Known
           /\ x \in ConnectLines <=> x.kind = "connect"
           /\ x \in TitleLines <=> x.kind = "title"
           /\ x \in TellingLines <=> x.kind = "title" \/ x.title # Unknown
           /\ TitleLines \subseteq TellingLines
  BY DEF Lines, ConnectLines, TitleLines, TellingLines

\* The news about s is where it was.
LEMMA WireSame ==
    ASSUME NEW s \in Sockets, WireInv(s),
           life'[s] = life[s], title'[s] = title[s], link'[s] = link[s],
           wire'[s] = wire[s], mon'[s] = mon[s], s \in monitored => s \in monitored',
           Terminal(s)' = Terminal(s), scanFailed' = scanFailed,
           s \in DOMAIN terminals' <=> s \in DOMAIN terminals
    PROVE  WireInv(s)'
  BY DEF WireInv

\* A line that is no greeting follows the greeting.
LEMMA GreetingFirst ==
    ASSUME NEW q \in Seq(Lines), q # << >> => ~Has(Tail(q), ConnectLines),
           NEW x \in Lines, x \notin ConnectLines
    PROVE  ~Has(Tail(Append(q, x)), ConnectLines)
<1>1. CASE q = << >>
  BY <1>1, SendingFirst, HasEmpty
<1>2. CASE q # << >>
  <2>1. PICK r \in Seq(Lines) : r = Tail(q)
    BY <1>2, Taking
  <2>2. Tail(Append(q, x)) = Append(r, x)
    BY <1>2, <2>1, SendingBehind
  <2>3. ~Has(Append(r, x), ConnectLines)
    BY <1>2, <2>1, Sending
  <2>4. QED BY <2>2, <2>3
<1>3. QED BY <1>1, <1>2

LEMMA WrapperWire ==
    ASSUME ServerTypes, NEW o \in Sockets, WrapperStep(o), WireInvs
    PROVE  WireInvs'
<1>1. UNCHANGED <<mon, monitored, terminals, scanFailed>>
  BY DEF WrapperStep, SessionStarts, TitleChanges, Notes, Register, MonitorDropped,
         SessionDies, registry
<1>2. \A s \in Sockets : Terminal(s)' = Terminal(s)
  BY <1>1 DEF Terminal
<1>3. /\ life \in [Sockets -> {"unborn", "alive", "dead"}]
      /\ title \in [Sockets -> Known]
      /\ link \in [Sockets -> {"none", "greeted", "registered"}]
      /\ wire \in [Sockets -> Seq(Lines)]
      /\ wire[o] \in Seq(Lines) /\ title[o] \in Known
      /\ Unknown \in Known /\ Titles \subseteq Known /\ Unknown \notin Titles
  BY ServerAssumption DEF ServerTypes, Known
<1>4. ASSUME NEW s \in Sockets \ {o}
      PROVE  WireInv(s)'
  <2>1. /\ life'[s] = life[s] /\ title'[s] = title[s]
        /\ link'[s] = link[s] /\ wire'[s] = wire[s]
    BY <1>3 DEF WrapperStep, SessionStarts, TitleChanges, Notes, Register,
                MonitorDropped, SessionDies, Report
  <2>2. QED BY <1>1, <1>2, <2>1, WireSame DEF WireInvs
<1>5. WireInv(o) /\ Terminal(o)' = Terminal(o) /\ DOMAIN terminals' = DOMAIN terminals
  BY <1>1, <1>2 DEF WireInvs
<1> DEFINE q == wire[o]
<1>q. q \in Seq(Lines) /\ q = wire[o]
  BY <1>3
<1> HIDE DEF q
<1>6. \A x \in Lines : x \in TitleLines => x \notin ConnectLines
  BY LineKinds
<1>7. ASSUME \E t \in StartTitles : SessionStarts(o, t)
      PROVE  WireInv(o)'
  <2>1. /\ life[o] = "unborn" /\ life'[o] = "alive"
        /\ link'[o] = link[o] /\ wire'[o] = wire[o]
    BY <1>3, <1>7 DEF SessionStarts
  <2>2. title[o] = Unknown /\ link[o] = "none" /\ mon[o] = "none"
    BY <1>5, <2>1 DEF WireInv
  <2>3. QED BY <1>1, <1>5, <2>1, <2>2 DEF WireInv
<1>8. ASSUME NEW t \in Titles, TitleChanges(o, t)
      PROVE  WireInv(o)'
  <2>1. /\ life[o] = "alive" /\ life'[o] = "alive"
        /\ title'[o] = t /\ t # Unknown /\ link'[o] = link[o]
    BY <1>3, <1>8 DEF TitleChanges, Live
  <2>2. CASE link[o] # "registered"
    <3>1. wire'[o] = wire[o]
      BY <1>8, <2>2 DEF TitleChanges, Report
    <3>2. QED BY <1>1, <1>5, <2>1, <2>2, <3>1 DEF WireInv
  <2>3. CASE link[o] = "registered"
    <3>1. PICK x \in Lines : x = Line("title", t) /\ x.kind = "title" /\ x.title = t
      BY <1>3, LineType
    <3>2. wire'[o] = Append(q, x)
      BY <1>3, <1>q, <1>8, <2>3, <3>1 DEF TitleChanges, Report
    <3>3. x \in TitleLines /\ x \notin ConnectLines
      BY <3>1, LineKinds
    <3>4. /\ LatestIs(Append(q, x), TitleLines, t)
          /\ Has(Append(q, x), TitleLines)
          /\ Has(Append(q, x), ConnectLines) <=> Has(q, ConnectLines)
      <4>1. LatestIs(Append(q, x), TitleLines, x.title)
        BY <1>q, <3>3, Sending
      <4>2. /\ Has(Append(q, x), TitleLines)
            /\ Has(Append(q, x), ConnectLines) <=> Has(q, ConnectLines)
        BY <1>q, <3>3, Sending
      <4>3. QED BY <3>1, <4>1, <4>2
    <3>5. ~Has(Tail(Append(q, x)), ConnectLines)
      BY <1>q, <1>5, <3>3, GreetingFirst DEF WireInv
    <3>6. QED BY <1>1, <1>5, <1>q, <2>1, <3>2, <3>4, <3>5 DEF WireInv
  <2>4. QED BY <2>2, <2>3
<1>9. ASSUME Notes(o)
      PROVE  WireInv(o)'
  <2>1. /\ life'[o] = life[o] /\ title'[o] = title[o]
        /\ link[o] = "registered" /\ link'[o] = "registered"
    BY <1>9 DEF Notes
  <2>2. PICK x \in Lines : /\ x = Line("note", Unknown)
                           /\ x.kind = "note" /\ x.title = Unknown
    BY <1>3, LineType
  <2>3. wire'[o] = Append(q, x)
    BY <1>3, <1>q, <1>9, <2>1, <2>2 DEF Notes, Report
  <2>4. x \notin TitleLines /\ x \notin ConnectLines /\ x \notin TellingLines
    BY <2>2, LineKinds
  <2>5. /\ LatestIs(q, TitleLines, title[o])
        /\ q # << >> => ~Has(Tail(q), ConnectLines)
    BY <1>5, <1>q, <2>1 DEF WireInv
  <2>6. /\ LatestIs(Append(q, x), TitleLines, title[o])
        /\ Has(Append(q, x), TitleLines) <=> Has(q, TitleLines)
        /\ Has(Append(q, x), ConnectLines) <=> Has(q, ConnectLines)
        /\ Has(Append(q, x), TellingLines) <=> Has(q, TellingLines)
    BY <1>q, <2>4, <2>5, Sending
  <2>7. ~Has(Tail(Append(q, x)), ConnectLines)
    BY <1>q, <2>4, <2>5, GreetingFirst
  <2>8. QED BY <1>1, <1>5, <1>q, <2>1, <2>3, <2>6, <2>7 DEF WireInv
<1>10. ASSUME Register(o)
      PROVE  WireInv(o)'
  <2>1. /\ life'[o] = life[o] /\ title'[o] = title[o]
        /\ link[o] = "greeted" /\ link'[o] = "registered"
    BY <1>3, <1>10 DEF Register
  <2>2. CASE title[o] = Unknown
    <3>1. wire'[o] = wire[o]
      BY <1>10, <2>2 DEF Register
    <3>2. ~Has(wire[o], TitleLines)
      BY <1>5, <2>2, HasSubset DEF WireInv, TitleLines, TellingLines
    <3>3. LatestIs(wire[o], TitleLines, title[o])
      BY <3>2, HasNone
    <3>4. QED BY <1>1, <1>5, <2>1, <2>2, <3>1, <3>3 DEF WireInv
  <2>3. CASE title[o] # Unknown
    <3>1. PICK x \in Lines : /\ x = Line("title", title[o])
                             /\ x.kind = "title" /\ x.title = title[o]
      BY <1>3, LineType
    <3>2. wire'[o] = Append(q, x)
      BY <1>3, <1>q, <1>10, <2>3, <3>1 DEF Register
    <3>3. x \in TitleLines /\ x \notin ConnectLines
      BY <3>1, LineKinds
    <3>4. /\ LatestIs(Append(q, x), TitleLines, title[o])
          /\ Has(Append(q, x), TitleLines)
          /\ Has(Append(q, x), ConnectLines) <=> Has(q, ConnectLines)
      <4>1. LatestIs(Append(q, x), TitleLines, x.title)
        BY <1>q, <3>3, Sending
      <4>2. /\ Has(Append(q, x), TitleLines)
            /\ Has(Append(q, x), ConnectLines) <=> Has(q, ConnectLines)
        BY <1>q, <3>3, Sending
      <4>3. QED BY <3>1, <4>1, <4>2
    <3>5. ~Has(Tail(Append(q, x)), ConnectLines)
      BY <1>q, <1>5, <3>3, GreetingFirst DEF WireInv
    <3>6. QED BY <1>1, <1>5, <1>q, <2>1, <2>3, <3>2, <3>4, <3>5 DEF WireInv
  <2>4. QED BY <2>2, <2>3
<1>11. ASSUME MonitorDropped(o) \/ SessionDies(o)
      PROVE  WireInv(o)'
  <2>1. /\ title'[o] = title[o] /\ wire'[o] = wire[o] /\ link'[o] = "none"
        /\ life'[o] = life[o] \/ life'[o] = "dead"
    BY <1>3, <1>11 DEF MonitorDropped, SessionDies
  <2>2. QED BY <1>1, <1>5, <2>1 DEF WireInv
<1>12. WireInv(o)'
  BY <1>7, <1>8, <1>9, <1>10, <1>11 DEF WrapperStep
<1>13. QED BY <1>4, <1>12 DEF WireInvs

\* A line is read, and the registry holds what the monitor task makes of it.
LEMMA ReadWire ==
    ASSUME ServerTypes, NEW o \in Sockets, ReadLine(o), WireInv(o)
    PROVE  WireInv(o)'
<1>1. PICK q \in Seq(Lines) : q = wire[o] /\ q # << >>
  BY DEF ReadLine, ServerTypes
<1>2. PICK x \in Lines, r \in Seq(Lines) : x = Head(q) /\ r = Tail(q)
  BY <1>1, Taking
<1>3. /\ UNCHANGED <<life, title, link, mon, monitored, scanFailed>>
      /\ mon[o] = "read" /\ wire'[o] = r
  BY <1>1, <1>2 DEF ReadLine, ServerTypes
<1>4. /\ Has(q, ConnectLines) <=> x \in ConnectLines \/ Has(r, ConnectLines)
      /\ Has(q, TellingLines) <=> x \in TellingLines \/ Has(r, TellingLines)
      /\ Has(q, TitleLines) <=> x \in TitleLines \/ Has(r, TitleLines)
  BY <1>1, <1>2, Taking
<1>5. ~Has(r, ConnectLines)
  BY <1>1, <1>2 DEF WireInv
<1>6. r # << >> => ~Has(Tail(r), ConnectLines)
  BY <1>5, Taking
<1>7. life[o] # "unborn"
  BY <1>3 DEF WireInv
<1>8. x.title \in Known /\ Unknown \in Known
  BY LineKinds DEF Known
<1>9. PICK t \in Known, c \in Places :
         /\ o \in DOMAIN terminals' /\ Terminal(o)' = [title |-> t, cwd |-> c]
         /\ x.kind = "connect" =>
               t = (IF x.title = Unknown THEN Terminal(o).title ELSE x.title) /\ c = Cwd[o]
         /\ x.kind = "title" =>
               t = x.title /\ c = Terminal(o).cwd /\ o \in Sockets
         /\ x.kind = "note" =>
               t = Terminal(o).title /\ c = Terminal(o).cwd
         /\ x.kind # "connect" => x.kind \in {"title", "note"}
  <2>1. \/ x.kind = "connect" /\ terminals' = Greeted(o, x.title)
        \/ x.kind = "title" /\ terminals' = Titled(o, x.title)
        \/ x.kind = "note" /\ terminals' = Entry(o, Terminal(o))
    BY <1>1, <1>2 DEF ReadLine
  <2>2. PICK old \in Entries : old = Terminal(o)
    BY TerminalType
  <2>3. PICK new \in Entries :
           /\ terminals' = Entry(o, new)
           /\ x.kind = "connect" =>
                 /\ new.title = (IF x.title = Unknown THEN old.title ELSE x.title)
                 /\ new.cwd = Cwd[o]
           /\ x.kind = "title" => new.title = x.title /\ new.cwd = old.cwd
           /\ x.kind = "note" => new = old
    <3>1. CASE x.kind = "connect" /\ terminals' = Greeted(o, x.title)
      <4>1. PICK new \in Entries :
               new = [title |-> IF x.title = Unknown THEN Terminal(o).title ELSE x.title,
                      cwd |-> Cwd[o]]
        BY <1>8, StoredTypes
      <4>2. QED BY <2>2, <3>1, <4>1 DEF Greeted
    <3>2. CASE x.kind = "title" /\ terminals' = Titled(o, x.title)
      <4>1. PICK new \in Entries : /\ new = [Terminal(o) EXCEPT !.title = x.title]
                                   /\ new.title = x.title /\ new.cwd = Terminal(o).cwd
        BY <1>8, StoredTypes
      <4>2. QED BY <2>2, <3>2, <4>1 DEF Titled
    <3>3. CASE x.kind = "note" /\ terminals' = Entry(o, Terminal(o))
      BY <2>2, <3>3
    <3>4. QED BY <2>1, <3>1, <3>2, <3>3
  <2>4. o \in DOMAIN terminals' /\ Terminal(o)' = new
    BY <2>3, EntryIs
  <2>5. /\ new.title \in Known /\ new.cwd \in Places
        /\ new = [title |-> new.title, cwd |-> new.cwd]
    BY DEF Entries
  <2>6. QED BY <2>2, <2>3, <2>4, <2>5, LineKinds
<1>10. CASE x.kind = "connect"
  <2>1. x \in ConnectLines /\ x \notin TitleLines
    BY <1>10, LineKinds
  <2>2. title[o] = Unknown => x.title = Unknown
    BY <1>1, <1>4, LineKinds DEF WireInv
  <2>3. link[o] = "registered" =>
           /\ LatestIs(r, TitleLines, title[o])
           /\ title[o] # Unknown => Has(r, TitleLines)
    BY <1>1, <1>2, <1>4, <2>1, Taking DEF WireInv
  <2>4. title[o] = Unknown => t = Unknown /\ ~Has(r, TellingLines)
    BY <1>1, <1>4, <1>9, <1>10, <2>2 DEF WireInv
  <2>5. QED BY <1>3, <1>5, <1>6, <1>7, <1>9, <1>10, <2>3, <2>4 DEF WireInv
<1>11. CASE x.kind # "connect"
  <2>1. x \notin ConnectLines
    BY <1>11, LineKinds
  <2>2. /\ c = Terminal(o).cwd
        /\ mon[o] = "read" /\ life[o] = "alive" => scanFailed \/ c = Cwd[o]
    BY <1>1, <1>4, <1>5, <1>9, <1>11, <2>1 DEF WireInv
  <2>3. title[o] = Unknown => t = Unknown /\ ~Has(r, TellingLines)
    <3>1. ASSUME title[o] = Unknown
          PROVE  x.kind = "note" /\ ~Has(r, TellingLines) /\ Terminal(o).title = Unknown
      BY <1>1, <1>4, <1>9, <1>11, <3>1, LineKinds DEF WireInv
    <3>2. QED BY <1>9, <3>1
  <2>4. link[o] = "registered" => LatestIs(r, TitleLines, title[o])
    BY <1>1, <1>2, Taking DEF WireInv
  <2>5. link[o] = "registered" => Has(r, TitleLines) \/ scanFailed \/ t = title[o]
    <3>1. CASE x.kind = "title"
      <4>1. x \in TitleLines
        BY <3>1, LineKinds
      <4>2. link[o] = "registered" => Has(r, TitleLines) \/ x.title = title[o]
        BY <1>1, <1>2, <4>1, Taking DEF WireInv
      <4>3. QED BY <1>9, <3>1, <4>2
    <3>2. CASE x.kind = "note"
      <4>1. x \notin TitleLines
        BY <3>2, LineKinds
      <4>2. QED BY <1>1, <1>4, <1>9, <3>2, <4>1 DEF WireInv
    <3>3. QED BY <1>9, <1>11, <3>1, <3>2
  <2>6. QED BY <1>3, <1>5, <1>6, <1>7, <1>9, <2>2, <2>3, <2>4, <2>5 DEF WireInv
<1>12. QED BY <1>10, <1>11

LEMMA MonitorWire ==
    ASSUME ServerTypes, NEW o \in Sockets, MonitorStep(o), WireInvs
    PROVE  WireInvs'
<1>1. UNCHANGED <<life, title, scanFailed>>
  BY DEF MonitorStep, Dial, ReadLine, MonitorEnds, wrapper
<1>2. /\ link \in [Sockets -> {"none", "greeted", "registered"}]
      /\ mon \in [Sockets -> {"none", "dial", "read"}]
      /\ wire \in [Sockets -> Seq(Lines)]
      /\ title[o] \in Known
  BY DEF ServerTypes
<1>3. \/ terminals' = terminals
      \/ \E x \in Entries : terminals' = Entry(o, x)
  <2>1. CASE ReadLine(o)
    <3>1. PICK q \in Seq(Lines) : q = wire[o] /\ q # << >>
      BY <2>1 DEF ReadLine, ServerTypes
    <3>2. PICK line \in Lines : line = Head(wire[o])
      BY <3>1, Taking
    <3>3. line.title \in Known
      BY DEF Lines
    <3>4. \/ terminals' = Greeted(o, line.title)
          \/ terminals' = Titled(o, line.title)
          \/ terminals' = Entry(o, Terminal(o))
      BY <2>1, <3>2 DEF ReadLine
    <3>5. QED BY <3>3, <3>4, StoredTypes, TerminalType DEF Greeted, Titled
  <2>2. CASE ~ReadLine(o)
    BY <2>2 DEF MonitorStep, Dial, MonitorEnds
  <2>3. QED BY <2>1, <2>2
<1>4. ASSUME NEW s \in Sockets \ {o}
      PROVE  WireInv(s)'
  <2>1. Terminal(s)' = Terminal(s) /\ (s \in DOMAIN terminals' <=> s \in DOMAIN terminals)
    <3>1. CASE terminals' = terminals
      BY <3>1 DEF Terminal
    <3>2. ASSUME NEW x \in Entries, terminals' = Entry(o, x)
          PROVE  Terminal(s)' = Terminal(s) /\ (s \in DOMAIN terminals' <=> s \in DOMAIN terminals)
      BY <3>2, EntryIs
    <3>3. QED BY <1>3, <3>1, <3>2
  <2>2. /\ link'[s] = link[s] /\ wire'[s] = wire[s] /\ mon'[s] = mon[s]
        /\ s \in monitored => s \in monitored'
    BY <1>2 DEF MonitorStep, Dial, ReadLine, MonitorEnds, Unmonitored, wrapper
  <2>3. QED BY <1>1, <2>1, <2>2, WireSame DEF WireInvs
<1>5. WireInv(o)
  BY DEF WireInvs
<1>6. ASSUME Dial(o), o \in Live
      PROVE  WireInv(o)'
  <2>1. /\ mon'[o] = "read" /\ link'[o] = "greeted" /\ life[o] = "alive"
        /\ mon[o] # "none" /\ UNCHANGED <<monitored, terminals>>
    BY <1>2, <1>6 DEF Dial, Live
  <2>2. PICK x \in Lines : /\ x = Line("connect", title[o])
                           /\ x.kind = "connect" /\ x.title = title[o]
    BY <1>2, LineType
  <2>3. wire'[o] = <<x>>
    BY <1>2, <1>6, <2>2 DEF Dial
  <2>4. << >> \in Seq(Lines) /\ Append(<< >>, x) = <<x>> /\ Tail(<<x>>) = << >>
    BY SendingFirst
  <2>5. x \in ConnectLines /\ (title[o] = Unknown => x \notin TellingLines)
    BY <2>2, LineKinds
  <2>6. /\ Has(Append(<< >>, x), ConnectLines)
        /\ title[o] = Unknown => ~Has(Append(<< >>, x), TellingLines)
    BY <2>4, <2>5, Sending, HasEmpty
  <2>7. ~Has(Tail(<<x>>), ConnectLines)
    BY <2>4, HasEmpty
  <2>8. Terminal(o)' = Terminal(o) /\ DOMAIN terminals' = DOMAIN terminals
    BY <2>1 DEF Terminal
  <2>9. QED BY <1>1, <1>5, <2>1, <2>3, <2>4, <2>6, <2>7, <2>8 DEF WireInv
<1>7. ASSUME (Dial(o) /\ o \notin Live) \/ MonitorEnds(o)
      PROVE  WireInv(o)'
  <2>1. /\ mon'[o] = "none" /\ wire'[o] = wire[o] /\ link'[o] = link[o]
        /\ UNCHANGED terminals
    BY <1>2, <1>7 DEF Dial, MonitorEnds, wrapper
  <2>2. link[o] = "none"
    BY <1>5, <1>7 DEF Dial, MonitorEnds, WireInv
  <2>3. Terminal(o)' = Terminal(o) /\ DOMAIN terminals' = DOMAIN terminals
    BY <2>1 DEF Terminal
  <2>4. QED BY <1>1, <1>5, <2>1, <2>2, <2>3 DEF WireInv
<1>8. WireInv(o)'
  BY <1>5, <1>6, <1>7, ReadWire DEF MonitorStep
<1>9. QED BY <1>4, <1>8 DEF WireInvs

\* A scan that fails is remembered; one that does not leaves the entries of
\* living sessions alone.
LEMMA ScanWire ==
    ASSUME ServerTypes, Scan \/ ScanFails, WireInvs
    PROVE  WireInvs'
<1>1. UNCHANGED <<life, title, link, wire>>
  BY DEF Scan, ScanFails, ScanFinds, wrapper
<1>2. SUFFICES ASSUME NEW s \in Sockets
               PROVE  WireInv(s)'
  BY DEF WireInvs
<1>3. WireInv(s)
  BY DEF WireInvs
<1>4. mon \in [Sockets -> {"none", "dial", "read"}] /\ Live \in SUBSET Sockets
  BY DEF ServerTypes, Live
<1>5. ASSUME ScanFails
      PROVE  WireInv(s)'
  <2>1. scanFailed' /\ mon'[s] = mon[s] /\ monitored' = monitored
    BY <1>4, <1>5 DEF ScanFails, ScanFinds
  <2>2. terminals' = Rescanned({})
    BY <1>5 DEF ScanFails, ScanFinds
  <2>3. Terminal(s)' = NoTerminal /\ s \notin DOMAIN terminals'
    BY <2>2, ScanIs
  <2>4. Terminal(s)'.title = Unknown /\ Terminal(s)'.cwd = Unknown
    BY <2>3 DEF NoTerminal
  <2>5. QED BY <1>1, <1>3, <2>1, <2>3, <2>4 DEF WireInv
<1>6. ASSUME Scan
      PROVE  WireInv(s)'
  <2>1. /\ scanFailed' = scanFailed /\ terminals' = Rescanned(Live)
        /\ monitored' = monitored \cup Live
        /\ mon'[s] = IF s \in Live \ monitored THEN "dial" ELSE mon[s]
    BY <1>6 DEF Scan, ScanFinds
  <2>2. CASE s \in Live
    <3>1. /\ Terminal(s)' = Terminal(s) /\ s \in DOMAIN terminals' /\ life[s] = "alive"
      BY <1>4, <2>1, <2>2, ScanIs DEF Live
    <3>2. CASE s \in monitored
      <4>1. mon'[s] = mon[s] /\ s \in monitored'
        BY <2>1, <3>2
      <4>2. QED BY <1>1, <1>3, <2>1, <3>1, <4>1 DEF WireInv
    <3>3. CASE s \notin monitored
      <4>1. mon'[s] = "dial" /\ s \in monitored' /\ link[s] = "none"
        BY <1>3, <2>1, <2>2, <3>3 DEF WireInv
      <4>2. QED BY <1>1, <1>3, <2>1, <3>1, <4>1 DEF WireInv
    <3>4. QED BY <3>2, <3>3
  <2>3. CASE s \notin Live
    <3>1. Terminal(s)' = NoTerminal /\ s \notin DOMAIN terminals'
      BY <1>4, <2>1, <2>3, ScanIs
    <3>2. Terminal(s)'.title = Unknown /\ Terminal(s)'.cwd = Unknown
      BY <3>1 DEF NoTerminal
    <3>3. mon'[s] = mon[s] /\ life[s] # "alive" /\ (s \in monitored => s \in monitored')
      BY <2>1, <2>3 DEF Live
    <3>4. link[s] = "none"
      BY <1>3, <3>3 DEF WireInv, ServerTypes
    <3>5. QED BY <1>1, <1>3, <3>1, <3>2, <3>3, <3>4 DEF WireInv
  <2>4. QED BY <2>2, <2>3
<1>7. QED BY <1>5, <1>6

LEMMA StepWire ==
    ASSUME ServerTypes, WireInvs, [Next]_vars
    PROVE  WireInvs'
<1>1. CASE \/ \E d \in Devices : DeviceStep(d)
           \/ UNCHANGED vars
  <2>1. UNCHANGED <<life, title, link, wire, mon, monitored, terminals, scanFailed>>
    BY <1>1 DEF DeviceStep, Accept, Authenticated, Refused, Hangup, Leaves, List,
                Connect, Opened, Disconnect, SessionClosed, ForwardFails,
                ViewerDropped, Lagged, Received, Detach, vars, wrapper, registry
  <2>2. \A s \in Sockets : Terminal(s)' = Terminal(s)
    BY <2>1 DEF Terminal
  <2>3. QED BY <2>1, <2>2, WireSame DEF WireInvs
<1>2. QED BY <1>1, WrapperWire, MonitorWire, ScanWire DEF Next

LEMMA InitWire == Init => WireInvs
<1>1. SUFFICES ASSUME Init, NEW s \in Sockets
               PROVE  WireInv(s)
  BY DEF WireInvs
<1>2. /\ life[s] = "unborn" /\ title[s] = Unknown /\ link[s] = "none"
      /\ wire[s] = << >> /\ mon[s] = "none"
  BY <1>1 DEF Init
<1>3. s \notin DOMAIN terminals
  <2>1. terminals = << >> /\ DOMAIN << >> = {}
    BY <1>1 DEF Init
  <2>2. QED BY <2>1
<1>4. Terminal(s).title = Unknown /\ Terminal(s).cwd = Unknown
  BY <1>3 DEF Terminal, NoTerminal
<1>5. ~Has(wire[s], TellingLines)
  BY <1>2, HasEmpty
<1>6. QED BY <1>2, <1>3, <1>4, <1>5 DEF WireInv

LEMMA WireCorrect == Spec => [](ServerTypes /\ WireInvs)
<1>1. Init => ServerTypes /\ WireInvs
  BY InitServerTypes, InitWire
<1>2. ServerTypes /\ WireInvs /\ [Next]_vars => (ServerTypes /\ WireInvs)'
  BY StepServerTypes, StepWire
<1>3. QED BY <1>1, <1>2, PTL DEF Spec

\* For any set of sessions, the registry agrees with a session whenever its
\* monitor has caught up, over reconnections, titles set before registration
\* and scans, until a scan fails.
THEOREM RegistryIsCurrent == Spec => []RegistryCurrent
<1>1. ServerTypes /\ WireInvs => RegistryCurrent
  <2>1. SUFFICES ASSUME ServerTypes, WireInvs, NEW s \in Live, CaughtUp(s), ~scanFailed
                 PROVE  /\ s \in DOMAIN terminals
                        /\ terminals[s] = [title |-> title[s], cwd |-> Cwd[s]]
    BY DEF RegistryCurrent
  <2>2. /\ s \in Sockets /\ life[s] = "alive" /\ mon[s] = "read"
        /\ link[s] = "registered" /\ wire[s] = << >>
    BY <2>1 DEF Live, CaughtUp
  <2>3. WireInv(s) /\ ~Has(wire[s], ConnectLines) /\ ~Has(wire[s], TitleLines)
    BY <2>1, <2>2, HasEmpty DEF WireInvs
  <2>4. /\ s \in DOMAIN terminals
        /\ Terminal(s).title = title[s] /\ Terminal(s).cwd = Cwd[s]
    BY <2>1, <2>2, <2>3 DEF WireInv
  <2>5. terminals[s] \in Entries /\ Terminal(s) = terminals[s]
    BY <2>1, <2>4 DEF ServerTypes, Terminal
  <2>6. QED BY <2>4, <2>5 DEF Entries
<1>2. QED BY <1>1, WireCorrect, PTL

-----------------------------------------------------------------------------
(* The devices' queues.                                                    *)

EventsOf(s)    == {e \in Events : e.socket = s}
TitleEvents(s) == {e \in Events : e.socket = s /\ e.kind = "title"}

\* What a device was told of s may be behind: the registry has forgotten, or
\* it has a title still to hear.
Excused(s) ==
    \/ scanFailed
    \/ title[s] # Unknown /\ (link[s] # "registered" \/ Has(wire[s], TitleLines))

\* What holds of the news about s on its way to device d.  The latest title
\* that is queued is the registry's; without one the device goes by the
\* registry's title, unless it was overrun.  A terminal that the device is
\* attached to, or is being attached to, is one it may see, or there is an
\* event in the queue that will make the relay look.
FeedInv(d, s) ==
    /\ title[s] = Unknown =>
          told[d][s] \in {None, Unknown} /\ ~Has(events[d], TitleEvents(s))
    /\ life[s] = "alive" =>
          \/ Excused(s)
          \/ LatestIs(events[d], TitleEvents(s), Terminal(s).title)
    /\ life[s] = "alive" =>
          \/ Excused(s)
          \/ told[d][s] \in {None, Terminal(s).title}
          \/ ~SessionAllowed(d, s)
          \/ Has(events[d], TitleEvents(s)) \/ s \in lost[d]
    /\ s \in {session[d], opening[d]} =>
          \/ Excused(s)
          \/ life[s] = "dead"
          \/ SessionAllowed(d, s)
          \/ Has(events[d], EventsOf(s)) \/ s \in lost[d]

\* A device that is not served has no session, no queue and no list.
AwayInv(d) ==
    dev[d] # "serving" =>
        /\ session[d] = None /\ opening[d] = None
        /\ events[d] = << >> /\ told[d] = NothingTold

FeedInvs == \A d \in Devices : AwayInv(d) /\ \A s \in Sockets : FeedInv(d, s)

LEMMA EventKinds ==
    ASSUME NEW e \in Events, NEW s
    PROVE  /\ e.socket \in Sockets /\ e.kind \in {"title", "note"} /\ e.title \in Known
           /\ e \in EventsOf(s) <=> e.socket = s
           /\ e \in TitleEvents(s) <=> e.socket = s /\ e.kind = "title"
           /\ TitleEvents(s) \subseteq EventsOf(s)
  BY DEF Events, EventsOf, TitleEvents

\* The news about s is where it was, or further down the queue.
LEMMA FeedKept ==
    ASSUME NEW d \in Devices, NEW s \in Sockets, FeedInv(d, s),
           life'[s] = life[s], title'[s] = title[s], Terminal(s)' = Terminal(s),
           Excused(s) => Excused(s)',
           told'[d] = told[d], session'[d] = session[d], opening'[d] = opening[d],
           Has(events'[d], TitleEvents(s)) => Has(events[d], TitleEvents(s)),
           LatestIs(events[d], TitleEvents(s), Terminal(s).title) =>
               LatestIs(events'[d], TitleEvents(s), Terminal(s).title),
           Has(events[d], TitleEvents(s)) \/ s \in lost[d] =>
               Has(events'[d], TitleEvents(s)) \/ s \in lost'[d],
           Has(events[d], EventsOf(s)) \/ s \in lost[d] =>
               Has(events'[d], EventsOf(s)) \/ s \in lost'[d]
    PROVE  FeedInv(d, s)'
<1>1. SessionAllowed(d, s)' <=> SessionAllowed(d, s)
  BY DEF SessionAllowed
<1>2. QED BY <1>1 DEF FeedInv

LEMMA FeedSame ==
    ASSUME NEW d \in Devices, NEW s \in Sockets, FeedInv(d, s),
           life'[s] = life[s], title'[s] = title[s], Terminal(s)' = Terminal(s),
           Excused(s) => Excused(s)',
           told'[d] = told[d], session'[d] = session[d], opening'[d] = opening[d],
           events'[d] = events[d], lost'[d] = lost[d]
    PROVE  FeedInv(d, s)'
  BY FeedKept

\* There is nothing more to hear about s.
LEMMA FeedDead ==
    ASSUME NEW d \in Devices, NEW s \in Sockets, FeedInv(d, s), life'[s] = "dead",
           title'[s] = title[s], told'[d] = told[d], events'[d] = events[d]
    PROVE  FeedInv(d, s)'
  BY DEF FeedInv

\* There is more to come.
LEMMA FeedExcused ==
    ASSUME NEW d \in Devices, NEW s \in Sockets, FeedInv(d, s), Excused(s)',
           title'[s] = Unknown => title[s] = Unknown,
           told'[d] = told[d], events'[d] = events[d]
    PROVE  FeedInv(d, s)'
  BY DEF FeedInv

LEMMA FeedAway ==
    ASSUME NEW d \in Devices, NEW s \in Sockets, AwayInv(d)', dev'[d] # "serving"
    PROVE  FeedInv(d, s)'
<1>1. /\ session'[d] = None /\ opening'[d] = None
      /\ events'[d] = << >> /\ told'[d] = NothingTold
  BY DEF AwayInv, NothingTold
<1>2. s # None
  BY ServerAssumption
<1>3. told'[d][s] = None
  BY <1>1 DEF NothingTold
<1>4. ~Has(events'[d], TitleEvents(s))
  BY <1>1, HasEmpty
<1>5. LatestIs(events'[d], TitleEvents(s), Terminal(s)'.title)
  BY <1>4, HasNone
<1>6. QED BY <1>1, <1>2, <1>3, <1>4, <1>5 DEF FeedInv

\* A broadcast that is no title of s leaves what is queued about s, except for
\* what it pushes out of the queue, which is recorded as lost.
LEMMA BroadcastKeeps ==
    ASSUME ServerTypes, NEW e \in Events, Broadcast(e), NEW d \in Devices,
           dev[d] = "serving", NEW s \in Sockets, e \notin TitleEvents(s), NEW t
    PROVE  /\ Has(events'[d], TitleEvents(s)) => Has(events[d], TitleEvents(s))
           /\ LatestIs(events[d], TitleEvents(s), t) =>
                  LatestIs(events'[d], TitleEvents(s), t)
           /\ Has(events[d], TitleEvents(s)) \/ s \in lost[d] =>
                  Has(events'[d], TitleEvents(s)) \/ s \in lost'[d]
           /\ Has(events[d], EventsOf(s)) \/ s \in lost[d] =>
                  Has(events'[d], EventsOf(s)) \/ s \in lost'[d]
<1>1. PICK q \in Seq(Events) : q = events[d]
  BY DEF ServerTypes
<1> DEFINE settled == IF e.kind = "title" THEN {e.socket} ELSE {}
<1>2. s \notin settled
  BY EventKinds
<1>3. \/ events'[d] = Append(q, e) /\ lost'[d] = lost[d] \ settled
      \/ /\ q # << >> /\ events'[d] = Append(Tail(q), e)
         /\ lost'[d] = (lost[d] \cup {Head(q).socket}) \ settled
  BY <1>1, BroadcastTo
<1> HIDE DEF settled
<1>4. CASE events'[d] = Append(q, e) /\ lost'[d] = lost[d] \ settled
  <2>1. /\ Has(Append(q, e), TitleEvents(s)) <=> Has(q, TitleEvents(s))
        /\ Has(q, EventsOf(s)) => Has(Append(q, e), EventsOf(s))
        /\ LatestIs(q, TitleEvents(s), t) => LatestIs(Append(q, e), TitleEvents(s), t)
    BY Sending
  <2>2. QED BY <1>1, <1>2, <1>4, <2>1
<1>5. CASE /\ q # << >> /\ events'[d] = Append(Tail(q), e)
           /\ lost'[d] = (lost[d] \cup {Head(q).socket}) \ settled
  <2>1. PICK r \in Seq(Events), x \in Events : r = Tail(q) /\ x = Head(q)
    BY <1>5, Taking
  <2>2. /\ Has(q, TitleEvents(s)) <=> x \in TitleEvents(s) \/ Has(r, TitleEvents(s))
        /\ Has(q, EventsOf(s)) <=> x \in EventsOf(s) \/ Has(r, EventsOf(s))
        /\ LatestIs(q, TitleEvents(s), t) => LatestIs(r, TitleEvents(s), t)
    BY <1>5, <2>1, Taking
  <2>3. /\ Has(Append(r, e), TitleEvents(s)) <=> Has(r, TitleEvents(s))
        /\ Has(r, EventsOf(s)) => Has(Append(r, e), EventsOf(s))
        /\ LatestIs(r, TitleEvents(s), t) => LatestIs(Append(r, e), TitleEvents(s), t)
    BY Sending
  <2>4. x \in EventsOf(s) \/ x \in TitleEvents(s) => s \in lost'[d]
    BY <1>2, <1>5, <2>1, EventKinds
  <2>5. s \in lost[d] => s \in lost'[d]
    BY <1>2, <1>5
  <2>6. QED BY <1>1, <1>5, <2>1, <2>2, <2>3, <2>4, <2>5
<1>6. QED BY <1>3, <1>4, <1>5

\* A broadcast title of s is the latest.
LEMMA BroadcastTells ==
    ASSUME ServerTypes, NEW e \in Events, Broadcast(e), NEW d \in Devices,
           dev[d] = "serving", NEW s \in Sockets, e \in TitleEvents(s)
    PROVE  /\ Has(events'[d], TitleEvents(s)) /\ Has(events'[d], EventsOf(s))
           /\ LatestIs(events'[d], TitleEvents(s), e.title)
<1>1. PICK q \in Seq(Events) : events'[d] = Append(q, e)
  <2>1. events[d] \in Seq(Events)
    BY DEF ServerTypes
  <2>2. events[d] # << >> => Tail(events[d]) \in Seq(Events)
    BY <2>1, Taking
  <2>3. QED BY <2>1, <2>2, BroadcastTo
<1>2. Has(Append(q, e), TitleEvents(s)) /\ LatestIs(Append(q, e), TitleEvents(s), e.title)
  BY Sending
<1>3. Has(Append(q, e), EventsOf(s))
  BY <1>2, HasSubset, EventKinds
<1>4. QED BY <1>1, <1>2, <1>3

LEMMA WrapperFeed ==
    ASSUME ServerTypes, WireInvs, NEW o \in Sockets, WrapperStep(o), FeedInvs
    PROVE  FeedInvs'
<1>1. UNCHANGED <<terminals, scanFailed, dev, session, opening, events, told, lost>>
  BY DEF WrapperStep, SessionStarts, TitleChanges, Notes, Register, MonitorDropped,
         SessionDies, registry, device, feed
<1>2. \A s \in Sockets : Terminal(s)' = Terminal(s)
  BY <1>1 DEF Terminal
<1>3. /\ life \in [Sockets -> {"unborn", "alive", "dead"}]
      /\ title \in [Sockets -> Known]
      /\ link \in [Sockets -> {"none", "greeted", "registered"}]
      /\ wire \in [Sockets -> Seq(Lines)]
      /\ title[o] \in Known /\ Unknown \in Known
      /\ Titles \subseteq Known /\ Unknown \notin Titles
  BY ServerAssumption DEF ServerTypes, Known
<1>4. ASSUME NEW d \in Devices
      PROVE  AwayInv(d)'
  BY <1>1 DEF FeedInvs, AwayInv, NothingTold
<1>5. ASSUME NEW d \in Devices, NEW s \in Sockets \ {o}
      PROVE  FeedInv(d, s)'
  <2>1. /\ life'[s] = life[s] /\ title'[s] = title[s]
        /\ link'[s] = link[s] /\ wire'[s] = wire[s]
    BY <1>3 DEF WrapperStep, SessionStarts, TitleChanges, Notes, Register,
                MonitorDropped, SessionDies, Report
  <2>2. Excused(s) => Excused(s)'
    BY <1>1, <2>1 DEF Excused
  <2>3. QED BY <1>1, <1>2, <2>1, <2>2, FeedSame DEF FeedInvs
<1>6. ASSUME NEW d \in Devices
      PROVE  FeedInv(d, o)'
  <2>1. FeedInv(d, o) /\ WireInv(o) /\ Terminal(o)' = Terminal(o)
    BY <1>2 DEF FeedInvs, WireInvs
  <2>2. ASSUME NEW t \in StartTitles, SessionStarts(o, t)
        PROVE  FeedInv(d, o)'
    <3>1. life[o] = "unborn" /\ life'[o] = "alive"
      BY <1>3, <2>2 DEF SessionStarts
    <3>2. title[o] = Unknown /\ Terminal(o).title = Unknown
      BY <2>1, <3>1 DEF WireInv
    <3>3. told[d][o] \in {None, Unknown} /\ ~Has(events[d], TitleEvents(o))
      BY <2>1, <3>2 DEF FeedInv
    <3>4. LatestIs(events[d], TitleEvents(o), Terminal(o).title)
      BY <3>3, HasNone
    <3>5. o \in {session[d], opening[d]} =>
             \/ scanFailed \/ SessionAllowed(d, o)
             \/ Has(events[d], EventsOf(o)) \/ o \in lost[d]
      BY <2>1, <3>1, <3>2 DEF FeedInv, Excused
    <3>6. scanFailed => Excused(o)'
      BY <1>1 DEF Excused
    <3>7. SessionAllowed(d, o)' <=> SessionAllowed(d, o)
      BY <2>1 DEF SessionAllowed
    <3>8. QED BY <1>1, <2>1, <3>1, <3>2, <3>3, <3>4, <3>5, <3>6, <3>7 DEF FeedInv
  <2>3. ASSUME NEW t \in Titles, TitleChanges(o, t)
        PROVE  FeedInv(d, o)'
    <3>1. title'[o] # Unknown /\ link'[o] = link[o]
      BY <1>3, <2>3 DEF TitleChanges
    <3>2. CASE link[o] = "registered"
      <4>1. PICK q \in Seq(Lines), x \in Lines :
               q = wire[o] /\ x = Line("title", t) /\ x.kind = "title"
        BY <1>3, LineType
      <4>2. wire'[o] = Append(q, x)
        BY <1>3, <2>3, <3>2, <4>1 DEF TitleChanges, Report
      <4>3. x \in TitleLines
        BY <4>1, LineKinds
      <4>4. Has(Append(q, x), TitleLines)
        BY <4>3, Sending
      <4>5. Excused(o)'
        BY <3>1, <4>2, <4>4 DEF Excused
      <4>6. QED BY <1>1, <2>1, <3>1, <4>5, FeedExcused
    <3>3. CASE link[o] # "registered"
      <4>1. Excused(o)'
        BY <3>1, <3>3 DEF Excused
      <4>2. QED BY <1>1, <2>1, <3>1, <4>1, FeedExcused
    <3>4. QED BY <3>2, <3>3
  <2>4. ASSUME Notes(o) \/ Register(o) \/ MonitorDropped(o)
        PROVE  FeedInv(d, o)'
    <3>1. life'[o] = life[o] /\ title'[o] = title[o]
      BY <2>4 DEF Notes, Register, MonitorDropped
    <3>2. ASSUME title[o] # Unknown, link[o] # "registered" \/ Has(wire[o], TitleLines)
          PROVE  link'[o] # "registered" \/ Has(wire'[o], TitleLines)
      <4>1. PICK q \in Seq(Lines), x \in Lines, y \in Lines :
               /\ q = wire[o] /\ x = Line("note", Unknown)
               /\ y = Line("title", title[o]) /\ y.kind = "title"
        BY <1>3, LineType
      <4>2. /\ Has(q, TitleLines) => Has(Append(q, x), TitleLines)
            /\ y \in TitleLines => Has(Append(q, y), TitleLines)
        BY Sending
      <4>3. y \in TitleLines
        BY <4>1, LineKinds
      <4>4. CASE Notes(o)
        <5>1. wire'[o] = Append(q, x) /\ link[o] = "registered"
          BY <1>3, <4>1, <4>4 DEF Notes, Report
        <5>2. QED BY <3>2, <4>1, <4>2, <5>1
      <4>5. CASE Register(o)
        <5>1. wire'[o] = Append(q, y)
          BY <1>3, <3>2, <4>1, <4>5 DEF Register
        <5>2. QED BY <4>2, <4>3, <5>1
      <4>6. CASE MonitorDropped(o)
        BY <1>3, <4>6 DEF MonitorDropped
      <4>7. QED BY <2>4, <4>4, <4>5, <4>6
    <3>3. Excused(o) => Excused(o)'
      BY <1>1, <3>1, <3>2 DEF Excused
    <3>4. QED BY <1>1, <2>1, <3>1, <3>3, FeedSame
  <2>5. ASSUME SessionDies(o)
        PROVE  FeedInv(d, o)'
    <3>1. life'[o] = "dead" /\ title'[o] = title[o]
      BY <1>3, <2>5 DEF SessionDies
    <3>2. QED BY <1>1, <2>1, <3>1, FeedDead
  <2>6. QED BY <2>2, <2>3, <2>4, <2>5 DEF WrapperStep
<1>7. QED BY <1>4, <1>5, <1>6 DEF FeedInvs

\* The directory that comes with the greeting only widens what a filter lets
\* through: rules about directories name real ones.
LEMMA AllowedGrows ==
    ASSUME NEW F \in SUBSET Rules, NEW c, NEW t, FilterAllows(F, Unknown, t)
    PROVE  FilterAllows(F, c, t)
<1>1. \A r \in F : r.path = Absent \/ Unknown \notin r.path
  <2>1. \A r \in F : r.path \in {Absent} \cup SUBSET Dirs
    BY DEF Rules, Field
  <2>2. QED BY <2>1, ServerAssumption
<1>2. QED BY <1>1 DEF FilterAllows

LEMMA ReadFeed ==
    ASSUME ServerTypes, WireInvs, WireInvs', NEW o \in Sockets, ReadLine(o), FeedInvs,
           NEW d \in Devices, NEW s \in Sockets
    PROVE  FeedInv(d, s)' /\ AwayInv(d)'
<1>1. PICK q \in Seq(Lines) : q = wire[o] /\ q # << >>
  BY DEF ReadLine, ServerTypes
<1>2. PICK x \in Lines, r \in Seq(Lines) : x = Head(q) /\ r = Tail(q)
  BY <1>1, Taking
<1>3. /\ UNCHANGED <<life, title, link, scanFailed, dev, session, opening>>
      /\ wire'[o] = r /\ \A y \in Sockets \ {o} : wire'[y] = wire[y]
  BY <1>1, <1>2 DEF ReadLine, ServerTypes, device
<1>4. FeedInv(d, s) /\ AwayInv(d) /\ WireInv(o) /\ WireInv(o)'
  BY DEF FeedInvs, WireInvs
<1>5. x.title \in Known /\ Unknown \in Known /\ Terminal(o) \in Entries
  BY LineKinds, TerminalType DEF Known
<1>6. Has(q, TitleLines) <=> x \in TitleLines \/ Has(r, TitleLines)
  BY <1>1, <1>2, Taking
<1>7. PICK new \in Entries, e \in Events :
         /\ terminals' = Entry(o, new)
         /\ e.socket = o
         /\ \/ /\ x.kind = "connect" /\ UNCHANGED <<events, told, lost>>
               /\ new.cwd = Cwd[o]
            \/ /\ x.kind = "title" /\ Broadcast(e) /\ e.kind = "title" /\ e.title = x.title
               /\ new.title = x.title
            \/ /\ x.kind = "note" /\ Broadcast(e) /\ e.kind = "note" /\ new = Terminal(o)
  <2>1. \/ x.kind = "connect" /\ terminals' = Greeted(o, x.title) /\ UNCHANGED feed
        \/ /\ x.kind = "title" /\ terminals' = Titled(o, x.title)
           /\ Broadcast(Event(o, "title", x.title))
        \/ /\ x.kind = "note" /\ terminals' = Entry(o, Terminal(o))
           /\ Broadcast(Event(o, "note", Unknown))
    BY <1>1, <1>2 DEF ReadLine
  <2>2. PICK e1 \in Events, e2 \in Events :
           /\ e1 = Event(o, "title", x.title) /\ e2 = Event(o, "note", Unknown)
           /\ e1.socket = o /\ e1.kind = "title" /\ e1.title = x.title
           /\ e2.socket = o /\ e2.kind = "note"
    BY <1>5, EventType
  <2>3. CASE x.kind = "connect" /\ terminals' = Greeted(o, x.title) /\ UNCHANGED feed
    <3>1. PICK n \in Entries :
             n = [title |-> IF x.title = Unknown THEN Terminal(o).title ELSE x.title,
                  cwd |-> Cwd[o]]
      BY <1>5, StoredTypes
    <3>2. n.cwd = Cwd[o]
      BY <3>1
    <3>3. QED BY <2>2, <2>3, <3>1, <3>2 DEF Greeted, feed
  <2>4. CASE /\ x.kind = "title" /\ terminals' = Titled(o, x.title)
             /\ Broadcast(Event(o, "title", x.title))
    <3>1. PICK n \in Entries : /\ n = [Terminal(o) EXCEPT !.title = x.title]
                               /\ n.title = x.title
      BY <1>5, StoredTypes
    <3>2. QED BY <2>2, <2>4, <3>1 DEF Titled
  <2>5. CASE /\ x.kind = "note" /\ terminals' = Entry(o, Terminal(o))
             /\ Broadcast(Event(o, "note", Unknown))
    BY <1>5, <2>2, <2>5
  <2>6. QED BY <2>1, <2>3, <2>4, <2>5
<1>8. told' = told
  BY <1>7 DEF Broadcast
<1>9. dev[d] # "serving" => events'[d] = events[d]
  BY <1>7, BroadcastTo
<1>10. AwayInv(d)'
  BY <1>3, <1>4, <1>8, <1>9 DEF AwayInv, NothingTold
<1>11. Terminal(o)' = new /\ \A y \in Sockets \ {o} : Terminal(y)' = Terminal(y)
  BY <1>7, EntryIs
<1>12. CASE dev[d] # "serving"
  BY <1>3, <1>10, <1>12, FeedAway
<1>13. CASE dev[d] = "serving" /\ s # o
  <2>1. Terminal(s)' = Terminal(s) /\ (Excused(s) => Excused(s)')
    BY <1>3, <1>11, <1>13 DEF Excused
  <2>2. CASE UNCHANGED <<events, lost>>
    BY <1>3, <1>4, <1>8, <2>1, <2>2, FeedSame, <1>10
  <2>3. CASE Broadcast(e)
    <3>1. e \notin TitleEvents(s)
      BY <1>7, <1>13, EventKinds
    <3>2. PICK t : t = Terminal(s).title
      OBVIOUS
    <3>3. /\ Has(events'[d], TitleEvents(s)) => Has(events[d], TitleEvents(s))
          /\ LatestIs(events[d], TitleEvents(s), t) =>
                 LatestIs(events'[d], TitleEvents(s), t)
          /\ Has(events[d], TitleEvents(s)) \/ s \in lost[d] =>
                 Has(events'[d], TitleEvents(s)) \/ s \in lost'[d]
          /\ Has(events[d], EventsOf(s)) \/ s \in lost[d] =>
                 Has(events'[d], EventsOf(s)) \/ s \in lost'[d]
      BY <1>13, <2>3, <3>1, BroadcastKeeps
    <3>4. FeedInv(d, s)'
      BY <1>3, <1>4, <1>8, <2>1, <3>2, <3>3, FeedKept
    <3>5. QED BY <1>10, <3>4
  <2>4. QED BY <1>7, <2>2, <2>3
<1>14. CASE dev[d] = "serving" /\ s = o /\ x.kind = "connect"
  <2>1. UNCHANGED <<events, told, lost>> /\ Terminal(o)'.cwd = Cwd[o]
    BY <1>7, <1>11, <1>14
  <2>2. CASE Excused(o)'
    BY <1>3, <1>4, <1>10, <1>14, <2>1, <2>2, FeedExcused
  <2>3. CASE ~Excused(o)'
    <3>1. title[o] = Unknown /\ ~scanFailed
      <4>1. ASSUME title[o] # Unknown, link[o] = "registered"
            PROVE  Has(r, TitleLines)
        <5>1. x \in ConnectLines /\ x \notin TitleLines
          BY <1>14, LineKinds
        <5>2. Has(q, ConnectLines)
          BY <1>1, <1>2, <5>1, Taking
        <5>3. QED BY <1>1, <1>4, <1>6, <4>1, <5>1, <5>2 DEF WireInv
      <4>2. QED BY <1>3, <2>3, <4>1 DEF Excused
    <3>2. Terminal(o).title = Unknown /\ Terminal(o)'.title = Unknown
      BY <1>3, <1>4, <3>1 DEF WireInv
    <3>3. Terminal(o).cwd \in {Unknown, Cwd[o]}
      BY <1>4 DEF WireInv
    <3>4. SessionAllowed(d, o) => SessionAllowed(d, o)'
      <4>1. Filter[d] \in SUBSET Rules
        BY ServerAssumption
      <4>2. FilterAllows(Filter[d], Unknown, Unknown) =>
               FilterAllows(Filter[d], Cwd[o], Unknown)
        BY <4>1, AllowedGrows
      <4>3. QED BY <2>1, <3>2, <3>3, <4>2 DEF SessionAllowed
    <3>5. told[d][o] \in {None, Unknown} /\ ~Has(events[d], TitleEvents(o))
      BY <1>4, <1>14, <3>1 DEF FeedInv
    <3>6. LatestIs(events[d], TitleEvents(o), Unknown)
      BY <3>5, HasNone
    <3>7. o \in {session[d], opening[d]} =>
             \/ life[o] = "dead" \/ SessionAllowed(d, o)
             \/ Has(events[d], EventsOf(o)) \/ o \in lost[d]
      BY <1>4, <1>14, <3>1 DEF FeedInv, Excused
    <3>8. FeedInv(d, o)'
      BY <1>3, <2>1, <3>2, <3>4, <3>5, <3>6, <3>7 DEF FeedInv
    <3>9. QED BY <1>10, <1>14, <3>8
  <2>4. QED BY <2>2, <2>3
<1>15. CASE dev[d] = "serving" /\ s = o /\ x.kind = "title"
  <2>1. /\ Broadcast(e) /\ e.kind = "title" /\ e.title = x.title
        /\ Terminal(o)'.title = x.title
    BY <1>7, <1>11, <1>15
  <2>2. e \in TitleEvents(o)
    BY <1>7, <2>1, EventKinds
  <2>3. /\ Has(events'[d], TitleEvents(o)) /\ Has(events'[d], EventsOf(o))
        /\ LatestIs(events'[d], TitleEvents(o), x.title)
    BY <1>15, <2>1, <2>2, BroadcastTells
  <2>4. title'[o] # Unknown
    <3>1. x \in TellingLines
      BY <1>15, LineKinds
    <3>2. Has(q, TellingLines)
      BY <1>1, <1>2, <3>1, Taking
    <3>3. QED BY <1>1, <1>3, <1>4, <3>2 DEF WireInv
  <2>5. FeedInv(d, o)'
    BY <2>1, <2>3, <2>4 DEF FeedInv
  <2>6. QED BY <1>10, <1>15, <2>5
<1>16. CASE dev[d] = "serving" /\ s = o /\ x.kind = "note"
  <2>1. Broadcast(e) /\ e.kind = "note" /\ Terminal(o)' = Terminal(o)
    BY <1>7, <1>11, <1>16
  <2>2. x \notin TitleLines
    BY <1>16, LineKinds
  <2>3. Excused(o) => Excused(o)'
    BY <1>1, <1>3, <1>6, <2>2 DEF Excused
  <2>4. e \notin TitleEvents(o)
    BY <2>1, EventKinds
  <2>5. PICK t : t = Terminal(o).title
    OBVIOUS
  <2>6. /\ Has(events'[d], TitleEvents(o)) => Has(events[d], TitleEvents(o))
        /\ LatestIs(events[d], TitleEvents(o), t) =>
               LatestIs(events'[d], TitleEvents(o), t)
        /\ Has(events[d], TitleEvents(o)) \/ o \in lost[d] =>
               Has(events'[d], TitleEvents(o)) \/ o \in lost'[d]
        /\ Has(events[d], EventsOf(o)) \/ o \in lost[d] =>
               Has(events'[d], EventsOf(o)) \/ o \in lost'[d]
    BY <1>16, <2>1, <2>4, BroadcastKeeps
  <2>7. FeedInv(d, o)'
    BY <1>3, <1>4, <1>8, <1>16, <2>1, <2>3, <2>5, <2>6, FeedKept
  <2>8. QED BY <1>10, <1>16, <2>7
<1>17. QED BY <1>12, <1>13, <1>14, <1>15, <1>16, LineKinds

LEMMA MonitorFeed ==
    ASSUME ServerTypes, WireInvs, WireInvs', NEW o \in Sockets, MonitorStep(o), FeedInvs
    PROVE  FeedInvs'
<1>1. ASSUME Dial(o) \/ MonitorEnds(o), NEW d \in Devices, NEW s \in Sockets
      PROVE  FeedInv(d, s)' /\ AwayInv(d)'
  <2>1. /\ UNCHANGED <<life, title, terminals, scanFailed>>
        /\ UNCHANGED <<dev, session, opening, events, told, lost>>
    BY <1>1 DEF Dial, MonitorEnds, wrapper, device, feed
  <2>2. \/ link'[s] = link[s] /\ wire'[s] = wire[s]
        \/ link'[s] = "greeted"
    BY <1>1 DEF Dial, MonitorEnds, wrapper, ServerTypes
  <2>3. (Excused(s) => Excused(s)') /\ Terminal(s)' = Terminal(s)
    BY <2>1, <2>2 DEF Excused, Terminal
  <2>4. FeedInv(d, s) /\ AwayInv(d)
    BY DEF FeedInvs
  <2>5. FeedInv(d, s)'
    BY <2>1, <2>3, <2>4, FeedSame
  <2>6. AwayInv(d)'
    BY <2>1, <2>4 DEF AwayInv, NothingTold
  <2>7. QED BY <2>5, <2>6
<1>2. CASE ReadLine(o)
  <2>1. \A d \in Devices : \A s \in Sockets : FeedInv(d, s)' /\ AwayInv(d)'
    BY <1>2, ReadFeed
  <2>2. QED BY <2>1 DEF FeedInvs
<1>3. CASE Dial(o) \/ MonitorEnds(o)
  BY <1>1, <1>3 DEF FeedInvs
<1>4. QED BY <1>2, <1>3 DEF MonitorStep

LEMMA ScanFeed ==
    ASSUME ServerTypes, WireInvs, Scan \/ ScanFails, FeedInvs
    PROVE  FeedInvs'
<1>1. UNCHANGED <<life, title, link, wire, dev, session, opening, events, told, lost>>
  BY DEF Scan, ScanFails, ScanFinds, wrapper, device, feed
<1>2. Live \in SUBSET Sockets
  BY DEF Live
<1>3. ASSUME NEW d \in Devices
      PROVE  AwayInv(d)'
  BY <1>1 DEF FeedInvs, AwayInv, NothingTold
<1>4. ASSUME NEW d \in Devices, NEW s \in Sockets
      PROVE  FeedInv(d, s)'
  <2>1. FeedInv(d, s) /\ WireInv(s) /\ life[s] \in {"unborn", "alive", "dead"}
    BY DEF FeedInvs, WireInvs, ServerTypes
  <2>2. CASE ScanFails
    <3>1. Excused(s)'
      BY <2>2 DEF ScanFails, Excused
    <3>2. QED BY <1>1, <2>1, <3>1, FeedExcused
  <2>3. CASE Scan /\ life[s] = "dead"
    BY <1>1, <2>1, <2>3, FeedDead
  <2>4. CASE Scan /\ life[s] # "dead"
    <3>1. scanFailed' = scanFailed /\ terminals' = Rescanned(Live)
      BY <2>4 DEF Scan, ScanFinds
    <3>2. Terminal(s)' = Terminal(s)
      <4>1. CASE life[s] = "alive"
        BY <1>2, <3>1, <4>1, ScanIs DEF Live
      <4>2. CASE life[s] = "unborn"
        <5>1. Terminal(s) = NoTerminal
          BY <2>1, <4>2 DEF WireInv, Terminal
        <5>2. s \notin Live
          BY <4>2 DEF Live
        <5>3. QED BY <1>2, <3>1, <5>1, <5>2, ScanIs
      <4>3. QED BY <2>1, <2>4, <4>1, <4>2
    <3>3. Excused(s) => Excused(s)'
      BY <1>1, <3>1 DEF Excused
    <3>4. QED BY <1>1, <2>1, <3>2, <3>3, FeedSame
  <2>5. QED BY <2>2, <2>3, <2>4
<1>5. QED BY <1>3, <1>4 DEF FeedInvs

\* The steps of a device's own task.
LEMMA DeviceFeed ==
    ASSUME ServerTypes, WireInvs, NEW o \in Devices, DeviceStep(o), FeedInvs
    PROVE  FeedInvs'
<1>1. UNCHANGED <<life, title, link, wire, terminals, scanFailed>>
  BY DEF DeviceStep, Accept, Authenticated, Refused, Hangup, Leaves, List, Connect,
         Opened, Disconnect, SessionClosed, ForwardFails, ViewerDropped, Lagged,
         Received, Detach, wrapper, registry
<1>2. \A s \in Sockets : Terminal(s)' = Terminal(s) /\ (Excused(s)' <=> Excused(s))
  BY <1>1 DEF Terminal, Excused
<1>3. /\ dev \in [Devices -> {"out", "unauth", "serving"}]
      /\ session \in [Devices -> Sockets \cup {None}]
      /\ opening \in [Devices -> Sockets \cup {None}]
      /\ events \in [Devices -> Seq(Events)]
      /\ told \in [Devices -> [Sockets -> Known \cup {None}]]
      /\ lost \in [Devices -> SUBSET Sockets]
  BY DEF ServerTypes
<1>4. ASSUME NEW d \in Devices \ {o}, NEW s \in Sockets
      PROVE  FeedInv(d, s)' /\ AwayInv(d)'
  <2>1. /\ dev'[d] = dev[d] /\ session'[d] = session[d] /\ opening'[d] = opening[d]
        /\ events'[d] = events[d] /\ lost'[d] = lost[d]
    BY <1>3 DEF DeviceStep, Accept, Authenticated, Refused, Hangup, Leaves, List,
                Connect, Opened, Disconnect, SessionClosed, ForwardFails,
                ViewerDropped, Lagged, Received, Detach, feed, device
  <2>2. told'[d] = told[d]
    BY <1>3 DEF DeviceStep, Accept, Authenticated, Refused, Hangup, Leaves, List,
                Connect, Opened, Disconnect, SessionClosed, ForwardFails,
                ViewerDropped, Lagged, Received, Detach, feed, device
  <2>3. FeedInv(d, s)'
    BY <1>1, <1>2, <2>1, <2>2, FeedSame DEF FeedInvs
  <2>4. AwayInv(d)'
    BY <2>1, <2>2 DEF FeedInvs, AwayInv, NothingTold
  <2>5. QED BY <2>3, <2>4
<1>5. ASSUME NEW s \in Sockets
      PROVE  FeedInv(o, s)' /\ AwayInv(o)'
  <2>1. FeedInv(o, s) /\ AwayInv(o) /\ WireInv(s)
    BY DEF FeedInvs, WireInvs
  <2>2. SessionAllowed(o, s)' <=> SessionAllowed(o, s)
    BY <1>2 DEF SessionAllowed
  <2>3. /\ life' = life /\ title' = title /\ Terminal(s)' = Terminal(s)
        /\ Excused(s)' <=> Excused(s)
    BY <1>1, <1>2
  <2>4. s # None
    BY ServerAssumption
  <2>5. ASSUME Accept(o) \/ Authenticated(o) \/ Refused(o)
        PROVE  FeedInv(o, s)' /\ AwayInv(o)'
    <3>1. UNCHANGED <<session, opening, events, told, lost>> /\ dev[o] # "serving"
      BY <2>5 DEF Accept, Authenticated, Refused, feed
    <3>2. FeedInv(o, s)'
      BY <2>1, <2>3, <3>1, FeedSame
    <3>3. AwayInv(o)'
      BY <2>1, <3>1 DEF AwayInv, NothingTold
    <3>4. QED BY <3>2, <3>3
  <2>6. ASSUME Hangup(o) \/ ForwardFails(o)
        PROVE  FeedInv(o, s)' /\ AwayInv(o)'
    <3>1. /\ dev'[o] = "out" /\ session'[o] = None /\ opening'[o] = None
          /\ events'[o] = << >> /\ told'[o] = NothingTold
      BY <1>3, <2>6 DEF Hangup, ForwardFails, Leaves
    <3>2. AwayInv(o)'
      BY <3>1 DEF AwayInv, NothingTold
    <3>3. QED BY <3>1, <3>2, FeedAway
  <2>7. ASSUME ViewerDropped(o) \/ Lagged(o)
        PROVE  FeedInv(o, s)' /\ AwayInv(o)'
    <3>1. UNCHANGED <<dev, session, opening, events, told, lost>>
      BY <2>7 DEF ViewerDropped, Lagged, feed, device
    <3>2. FeedInv(o, s)'
      BY <2>1, <2>3, <3>1, FeedSame
    <3>3. AwayInv(o)'
      BY <2>1, <3>1 DEF AwayInv, NothingTold
    <3>4. QED BY <3>2, <3>3
  <2>8. ASSUME \/ List(o) \/ Received(o) \/ Disconnect(o) \/ SessionClosed(o) \/ Opened(o)
               \/ \E x \in Sockets : Connect(o, x)
        PROVE  dev[o] = "serving" /\ UNCHANGED dev
    <3>1. opening[o] # None => dev[o] = "serving"
      BY <2>1 DEF AwayInv
    <3>2. QED BY <2>8, <3>1 DEF List, Received, Disconnect, SessionClosed, Opened,
                                Connect, Idle, Serving, Detach, device
  <2>9. ASSUME List(o)
        PROVE  FeedInv(o, s)' /\ AwayInv(o)'
    <3>1. /\ dev[o] = "serving" /\ UNCHANGED <<dev, session, opening, events>>
      BY <2>9 DEF List, Idle, Serving, device
    <3>2. PICK listed :
             /\ \A y \in listed : SessionAllowed(o, y)
             /\ told' = [told EXCEPT ![o] =
                   [y \in Sockets |-> IF y \in listed THEN Terminal(y).title ELSE None]]
             /\ lost' = [lost EXCEPT ![o] =
                   @ \ {y \in listed : ~TitleEventFor(o, y)}]
      BY <2>9 DEF List
    <3>3. told'[o][s] \in {None, Terminal(s).title}
      BY <1>3, <3>2
    <3>4. title[s] = Unknown => Terminal(s).title = Unknown
      BY <2>1 DEF WireInv
    <3>5. s \in lost[o] => s \in lost'[o] \/ SessionAllowed(o, s)
      BY <1>3, <3>2
    <3>6. FeedInv(o, s)'
      BY <2>1, <2>2, <2>3, <3>1, <3>3, <3>4, <3>5 DEF FeedInv
    <3>7. QED BY <3>1, <3>6 DEF AwayInv
  <2>10. ASSUME NEW x \in Sockets, Connect(o, x)
         PROVE  FeedInv(o, s)' /\ AwayInv(o)'
    <3>1. /\ UNCHANGED <<session, events, told, lost>>
          /\ opening'[o] = x /\ SessionAllowed(o, x)
      BY <1>3, <2>10 DEF Connect, feed
    <3>2. FeedInv(o, s)'
      BY <2>1, <2>2, <2>3, <3>1 DEF FeedInv
    <3>3. QED BY <2>8, <2>10, <3>2 DEF AwayInv
  <2>11. ASSUME Opened(o) \/ Disconnect(o) \/ SessionClosed(o)
         PROVE  FeedInv(o, s)' /\ AwayInv(o)'
    <3>1. /\ UNCHANGED <<events, told, lost>>
          /\ session'[o] \in {None, session[o], opening[o]}
          /\ opening'[o] \in {None, opening[o]}
      BY <1>3, <2>11 DEF Opened, Disconnect, SessionClosed, Detach, feed
    <3>2. FeedInv(o, s)'
      BY <2>1, <2>2, <2>3, <2>4, <3>1 DEF FeedInv
    <3>3. QED BY <2>8, <2>11, <3>2 DEF AwayInv
  <2>12. ASSUME Received(o)
         PROVE  FeedInv(o, s)' /\ AwayInv(o)'
    <3>1. PICK q \in Seq(Events) : q = events[o] /\ q # << >>
      BY <1>3, <2>12 DEF Received
    <3>2. PICK e \in Events, r \in Seq(Events) : e = Head(q) /\ r = Tail(q)
      BY <3>1, Taking
    <3>3. events'[o] = r /\ lost' = lost
      BY <1>3, <2>12, <3>1, <3>2 DEF Received
    <3>4. /\ Has(q, TitleEvents(s)) <=> e \in TitleEvents(s) \/ Has(r, TitleEvents(s))
          /\ Has(q, EventsOf(s)) <=> e \in EventsOf(s) \/ Has(r, EventsOf(s))
      BY <3>1, <3>2, Taking
    <3>5. PICK t : t = Terminal(s).title
      OBVIOUS
    <3>6. LatestIs(q, TitleEvents(s), t) =>
             /\ LatestIs(r, TitleEvents(s), t)
             /\ e \in TitleEvents(s) /\ ~Has(r, TitleEvents(s)) => e.title = t
      BY <3>1, <3>2, Taking
    <3>7. /\ opening'[o] = None
          /\ session'[o] \in {None, session[o]}
          /\ session[o] = e.socket /\ ~SessionAllowed(o, e.socket) => session'[o] = None
      BY <1>3, <2>12, <3>1, <3>2 DEF Received, Idle, Revokes, Detach, device
    <3>8. /\ e \notin TitleEvents(s) => told'[o][s] = told[o][s]
          /\ e \in TitleEvents(s) /\ SessionAllowed(o, s) =>
                told'[o][s] = IF told[o][s] = None THEN None ELSE e.title
      <4>1. PICK y \in Sockets : y = e.socket
        BY EventKinds
      <4>2. told' = IF e.kind = "title" /\ SessionAllowed(o, y) /\ told[o][y] # None
                    THEN [told EXCEPT ![o][y] = e.title] ELSE told
        BY <2>12, <3>1, <3>2, <4>1 DEF Received, ToldTitle
      <4>3. CASE s = y
        <5>1. e \in TitleEvents(s) <=> e.kind = "title"
          BY <4>1, <4>3, EventKinds
        <5>2. QED BY <1>3, <4>2, <4>3, <5>1
      <4>4. CASE s # y
        <5>1. e \notin TitleEvents(s)
          BY <4>1, <4>4, EventKinds
        <5>2. QED BY <1>3, <4>2, <4>4, <5>1
      <4>5. QED BY <4>3, <4>4
    <3>9. title[s] = Unknown =>
             told'[o][s] \in {None, Unknown} /\ ~Has(r, TitleEvents(s))
      BY <2>1, <3>1, <3>4, <3>8 DEF FeedInv
    <3>10. life[s] = "alive" => Excused(s) \/ LatestIs(r, TitleEvents(s), t)
      BY <2>1, <3>1, <3>5, <3>6 DEF FeedInv
    <3>11. life[s] = "alive" =>
              \/ Excused(s)
              \/ told'[o][s] \in {None, t}
              \/ ~SessionAllowed(o, s)
              \/ Has(r, TitleEvents(s)) \/ s \in lost[o]
      <4>1. CASE e \in TitleEvents(s)
        BY <2>1, <3>1, <3>5, <3>6, <3>8, <4>1 DEF FeedInv
      <4>2. CASE e \notin TitleEvents(s)
        BY <2>1, <3>1, <3>4, <3>5, <3>8, <4>2 DEF FeedInv
      <4>3. QED BY <4>1, <4>2
    <3>12. s \in {session'[o], opening'[o]} =>
              \/ Excused(s)
              \/ life[s] = "dead"
              \/ SessionAllowed(o, s)
              \/ Has(r, EventsOf(s)) \/ s \in lost[o]
      <4>1. SUFFICES ASSUME s = session[o], session'[o] # None
                     PROVE  \/ Excused(s)
                            \/ life[s] = "dead"
                            \/ SessionAllowed(o, s)
                            \/ Has(r, EventsOf(s)) \/ s \in lost[o]
        BY <2>4, <3>7
      <4>2. e \in EventsOf(s) => SessionAllowed(o, s)
        BY <3>7, <4>1, EventKinds
      <4>3. QED BY <2>1, <3>1, <3>4, <4>1, <4>2 DEF FeedInv
    <3>13. FeedInv(o, s)'
      BY <2>2, <2>3, <3>3, <3>5, <3>9, <3>10, <3>11, <3>12 DEF FeedInv
    <3>14. QED BY <2>8, <2>12, <3>13 DEF AwayInv
  <2>13. QED BY <2>5, <2>6, <2>7, <2>9, <2>10, <2>11, <2>12 DEF DeviceStep
<1>6. ASSUME NEW d \in Devices
      PROVE  AwayInv(d)'
  <2>1. CASE Sockets # {}
    BY <1>4, <1>5, <2>1
  <2>2. CASE Sockets = {}
    <3>1. AwayInv(d)
      BY DEF FeedInvs
    <3>2. QED
      BY <1>3, <2>2, <3>1 DEF AwayInv, NothingTold, DeviceStep, Accept, Authenticated,
         Refused, Hangup, Leaves, List, Connect, Opened, Disconnect, SessionClosed,
         ForwardFails, ViewerDropped, Lagged, Received, Detach, feed, device, Idle, Serving
  <2>3. QED BY <2>1, <2>2
<1>7. QED BY <1>4, <1>5, <1>6 DEF FeedInvs

LEMMA StepFeed ==
    ASSUME ServerTypes, WireInvs, WireInvs', FeedInvs, [Next]_vars
    PROVE  FeedInvs'
<1>1. CASE UNCHANGED vars
  <2>1. /\ UNCHANGED <<life, title, link, wire, terminals, scanFailed>>
        /\ UNCHANGED <<dev, session, opening, events, told, lost>>
    BY <1>1 DEF vars, wrapper, registry, device, feed
  <2>2. ASSUME NEW d \in Devices, NEW s \in Sockets
        PROVE  FeedInv(d, s)'
    <3>1. Terminal(s)' = Terminal(s) /\ (Excused(s) => Excused(s)') /\ FeedInv(d, s)
      BY <2>1 DEF Terminal, Excused, FeedInvs
    <3>2. QED BY <2>1, <3>1, FeedSame
  <2>3. ASSUME NEW d \in Devices
        PROVE  AwayInv(d)'
    BY <2>1 DEF FeedInvs, AwayInv, NothingTold
  <2>4. QED BY <2>2, <2>3 DEF FeedInvs
<1>2. QED BY <1>1, WrapperFeed, MonitorFeed, ScanFeed, DeviceFeed DEF Next

LEMMA InitFeed == Init => FeedInvs
<1>1. SUFFICES ASSUME Init
               PROVE  FeedInvs
  OBVIOUS
<1>2. ASSUME NEW d \in Devices
      PROVE  AwayInv(d)
  BY <1>1, <1>2 DEF Init, AwayInv
<1>3. ASSUME NEW d \in Devices, NEW s \in Sockets
      PROVE  FeedInv(d, s)
  <2>1. /\ life[s] = "unborn" /\ session[d] = None /\ opening[d] = None
        /\ events[d] = << >> /\ told[d][s] = None /\ s # None
    BY <1>1, ServerAssumption DEF Init, NothingTold
  <2>2. ~Has(events[d], TitleEvents(s))
    BY <2>1, HasEmpty
  <2>3. QED BY <2>1, <2>2 DEF FeedInv
<1>4. QED BY <1>2, <1>3 DEF FeedInvs

LEMMA FeedCorrect == Spec => [](ServerTypes /\ WireInvs /\ FeedInvs)
<1>1. Init => FeedInvs
  BY InitFeed
<1>2. ServerTypes /\ WireInvs /\ WireInvs' /\ FeedInvs /\ [Next]_vars => FeedInvs'
  BY StepFeed
<1>3. QED BY <1>1, <1>2, WireCorrect, PTL DEF Spec

\* What the properties say of queues, in the terms of the proof.
LEMMA QueueTerms ==
    ASSUME ServerTypes, NEW d \in Devices, NEW s \in Sockets
    PROVE  /\ TitleEventFor(d, s) <=> Has(events[d], TitleEvents(s))
           /\ (\E e \in Range(events[d]) : e.socket = s) <=> Has(events[d], EventsOf(s))
           /\ Excused(s) => Unsettled(s) \/ scanFailed
<1>1. PICK q \in Seq(Events) : q = events[d]
  BY DEF ServerTypes
<1>2. PICK w \in Seq(Lines) : w = wire[s]
  BY DEF ServerTypes
<1>3. /\ DOMAIN q = 1..Len(q) /\ \A i \in 1..Len(q) : q[i] \in Events
      /\ DOMAIN w = 1..Len(w) /\ \A i \in 1..Len(w) : w[i] \in Lines
  OBVIOUS
<1>4. \A i \in 1..Len(q) :
         /\ q[i] \in EventsOf(s) <=> q[i].socket = s
         /\ q[i] \in TitleEvents(s) <=> q[i].socket = s /\ q[i].kind = "title"
  BY <1>3, EventKinds
<1>5. \A i \in 1..Len(w) : w[i] \in TitleLines <=> w[i].kind = "title"
  BY <1>3, LineKinds
<1>6. TitleEventFor(d, s) <=> Has(events[d], TitleEvents(s))
  BY <1>1, <1>3, <1>4 DEF TitleEventFor, Range, Has
<1>7. (\E e \in Range(events[d]) : e.socket = s) <=> Has(events[d], EventsOf(s))
  BY <1>1, <1>3, <1>4 DEF Range, Has
<1>8. Has(wire[s], TitleLines) => \E line \in Range(wire[s]) : line.kind = "title"
  BY <1>2, <1>3, <1>5 DEF Range, Has
<1>9. Excused(s) => Unsettled(s) \/ scanFailed
  BY <1>8 DEF Excused, Unsettled
<1>10. QED BY <1>6, <1>7, <1>9

\* For any sessions, devices and filters, a device that is attached to a
\* terminal which its filter has come to hide has an event waiting that will
\* end the session, also when the filter's verdict changed during the dial.
THEOREM RevocationIsPending == Spec => []RevocationPending
<1>1. ServerTypes /\ WireInvs /\ FeedInvs => RevocationPending
  <2>1. SUFFICES ASSUME ServerTypes, FeedInvs, NEW d \in Serving
                 PROVE  LET s == session[d] IN
                           \/ s = None
                           \/ s \notin Live
                           \/ SessionAllowed(d, s)
                           \/ \E e \in Range(events[d]) : e.socket = s
                           \/ s \in lost[d] \/ Unsettled(s) \/ scanFailed
    BY DEF RevocationPending
  <2>2. d \in Devices
    BY DEF Serving
  <2>3. CASE session[d] = None
    BY <2>3
  <2>4. CASE session[d] # None
    <3>1. PICK s \in Sockets : s = session[d]
      BY <2>1, <2>2, <2>4 DEF ServerTypes
    <3>2. \/ Excused(s) \/ life[s] = "dead" \/ SessionAllowed(d, s)
          \/ Has(events[d], EventsOf(s)) \/ s \in lost[d]
      BY <2>1, <2>2, <3>1 DEF FeedInvs, FeedInv
    <3>3. life[s] = "dead" => s \notin Live
      BY DEF Live
    <3>4. QED BY <2>1, <2>2, <3>1, <3>2, <3>3, QueueTerms
  <2>5. QED BY <2>3, <2>4
<1>2. QED BY <1>1, FeedCorrect, PTL

\* For any sessions, devices, filters and queue length, a device that has read
\* its events goes by the registry's title of each terminal it was told of and
\* may see, unless it was overrun and has not asked for a list since.
THEOREM ToldIsCurrent == Spec => []ToldCurrent
<1>1. ServerTypes /\ WireInvs /\ FeedInvs => ToldCurrent
  <2>1. SUFFICES ASSUME ServerTypes, FeedInvs, NEW d \in Serving, NEW s \in Live
                 PROVE  \/ told[d][s] = None
                        \/ ~SessionAllowed(d, s)
                        \/ TitleEventFor(d, s)
                        \/ s \in lost[d] \/ Unsettled(s) \/ scanFailed
                        \/ told[d][s] = Terminal(s).title
    BY DEF ToldCurrent
  <2>2. d \in Devices /\ s \in Sockets /\ life[s] = "alive"
    BY DEF Serving, Live
  <2>3. \/ Excused(s) \/ told[d][s] \in {None, Terminal(s).title}
        \/ ~SessionAllowed(d, s)
        \/ Has(events[d], TitleEvents(s)) \/ s \in lost[d]
    BY <2>1, <2>2 DEF FeedInvs, FeedInv
  <2>4. QED BY <2>1, <2>2, <2>3, QueueTerms
<1>2. QED BY <1>1, FeedCorrect, PTL
=============================================================================
