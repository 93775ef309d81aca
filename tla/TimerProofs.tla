----------------------------- MODULE TimerProofs -----------------------------
(***************************************************************************)
(* Theorems about the two timers of main.rs, for every window, interval,   *)
(* bound and schedule.  About Reports: the bell and activity reports.      *)
(* About InputQueue, from "Input pacing" on: its timer is armed exactly    *)
(* when it has to be, it implements InputStream, and no byte is written    *)
(* before its pauses.  The two modules share no variable.                  *)
(***************************************************************************)
EXTENDS Reports, InputQueue, SequenceTheorems, WellFoundedInduction, TLAPS

-----------------------------------------------------------------------------
\* Every variable keeps a value of its kind.
THEOREM TypeCorrect == Spec => []TypeOK
<1> USE DEF Instants
<1>1. Init => TypeOK
  <2>1. Init => monitor \in BOOLEAN
    BY Zenon DEF Init
  <2>2. QED BY <2>1 DEF Init, TypeOK
<1>2. ASSUME TypeOK, [Next]_vars
      PROVE  TypeOK'
  <2> USE DEF TypeOK, bellVars, activityVars
  <2>1. ASSUME NEW ring \in BOOLEAN, PtyOutput(ring)
        PROVE  TypeOK'
    <3>1. bells' \in Seq(Messages)
      <4>1. [at |-> now, time |-> now] \in Messages
        BY <1>2 DEF Messages
      <4>2. bells' = bells \/ bells' = Append(bells, [at |-> now, time |-> now])
        BY <2>1 DEF PtyOutput, OnBell
      <4>3. QED BY <1>2, <4>1, <4>2
    <3>2. lastSent' \in Instants /\ pendingAt' \in Instants /\ lastBell' \in Instants
      BY <1>2, <2>1 DEF PtyOutput, OnBell, Held
    <3>3. QED BY <1>2, <2>1, <3>1, <3>2 DEF PtyOutput
  <2>2. CASE Fire
    <3>1. pendingAt \in Nat
      BY <1>2, <2>2 DEF Fire, Due
    <3>2. bells' \in Seq(Messages)
      <4>1. [at |-> pendingAt, time |-> now] \in Messages
        BY <1>2, <3>1 DEF Messages
      <4>2. bells' = bells \/ bells' = Append(bells, [at |-> pendingAt, time |-> now])
        BY <2>2 DEF Fire
      <4>3. QED BY <1>2, <4>1, <4>2
    <3>3. QED BY <1>2, <2>2, <3>2 DEF Fire, Restarted, StillHeld
  <2>3. CASE Accept
    BY <1>2, <2>3 DEF Accept
  <2>4. CASE BecomeMonitor
    BY <1>2, <2>4 DEF BecomeMonitor
  <2>5. CASE MonitorLost
    BY <1>2, <2>5 DEF MonitorLost
  <2>6. CASE Tick
    BY <1>2, <2>6 DEF Tick
  <2>7. CASE UNCHANGED vars
    BY <1>2, <2>7 DEF vars
  <2>8. QED BY <1>2, <2>1, <2>2, <2>3, <2>4, <2>5, <2>6, <2>7 DEF Next
<1>3. QED BY <1>1, <1>2, PTL DEF Spec

-----------------------------------------------------------------------------
(* The debounce window.                                                    *)

\* last_sent is never in the future and no Bell message is newer than it:
\* the trailing edge restarts the window, so the guard of on_bell and the
\* deadline both measure from the newest message.
SpacingInv ==
    /\ BellSpacing
    /\ lastSent # Never => lastSent <= now
    /\ \A i \in 1..Len(bells) :
          /\ lastSent # Never
          /\ bells[i].time <= lastSent

\* Every message carries the time it was sent at.
LEMMA Stamped ==
    ASSUME bells \in Seq(Messages)
    PROVE  \A i \in 1..Len(bells) : bells[i].time \in Nat
<1>1. \A i \in 1..Len(bells) : bells[i] \in Messages
  OBVIOUS
<1>2. \A m \in Messages : m.time \in Nat
  BY DEF Messages
<1>3. QED BY <1>1, <1>2

\* Sending one more bell when the window since last_sent is over.
LEMMA OneMoreBell ==
    ASSUME TypeOK, SpacingInv, NEW at \in Nat,
           lastSent = Never \/ lastSent + BellWindow <= now,
           bells' = Append(bells, [at |-> at, time |-> now]),
           lastSent' = now, now' = now
    PROVE  SpacingInv'
<1> DEFINE m == [at |-> at, time |-> now]
<1>1. /\ bells \in Seq(Messages)
      /\ now \in Nat
      /\ lastSent \in Nat \cup {Never}
  BY DEF TypeOK, Instants
<1>2. m \in Messages /\ m.time = now
  BY <1>1 DEF Messages
<1>3. BellWindow \in Nat /\ Never \notin Nat
  BY ReportsAssumption
<1>4. /\ Len(bells) \in Nat
      /\ Len(bells') = Len(bells) + 1
      /\ \A i \in 1..Len(bells) : bells'[i] = bells[i]
      /\ bells'[Len(bells) + 1] = m
  <2> HIDE DEF m
  <2>1. bells' = Append(bells, m)
    BY DEF m
  <2>2. QED BY <1>1, <1>2, <2>1
<1> HIDE DEF m
<1>5. \A i \in 1..Len(bells) :
         /\ bells[i].time \in Nat
         /\ lastSent \in Nat
         /\ bells[i].time <= lastSent
         /\ bells[i].time + BellWindow <= now
  <2>1. \A i \in 1..Len(bells) : bells[i].time \in Nat
    BY <1>1, Stamped
  <2>2. \A i \in 1..Len(bells) : lastSent # Never /\ bells[i].time <= lastSent
    BY DEF SpacingInv
  <2>3. QED BY <1>1, <1>3, <2>1, <2>2
<1>6. \A i \in 1..Len(bells') : lastSent' # Never /\ bells'[i].time <= lastSent'
  <2>1. SUFFICES ASSUME NEW i \in 1..Len(bells')
                 PROVE  lastSent' # Never /\ bells'[i].time <= lastSent'
    OBVIOUS
  <2>2. lastSent' = now
    OBVIOUS
  <2>3. CASE i = Len(bells) + 1
    BY <1>1, <1>2, <1>3, <1>4, <2>2, <2>3
  <2>4. CASE i \in 1..Len(bells)
    BY <1>1, <1>3, <1>4, <1>5, <2>2, <2>4
  <2>5. QED BY <1>4, <2>3, <2>4
<1>7. ASSUME NEW i \in 1..Len(bells'), NEW j \in 1..Len(bells'), i < j
      PROVE  bells'[i].time + BellWindow <= bells'[j].time
  <2>1. i \in 1..Len(bells)
    BY <1>4, <1>7
  <2>2. CASE j = Len(bells) + 1
    BY <1>2, <1>4, <1>5, <2>1, <2>2
  <2>3. CASE j \in 1..Len(bells)
    <3>1. bells[i].time + BellWindow <= bells[j].time
      BY <1>7, <2>1, <2>3 DEF SpacingInv, BellSpacing
    <3>2. QED BY <1>4, <2>1, <2>3, <3>1
  <2>4. QED BY <1>4, <2>2, <2>3
<1>8. BellSpacing'
  BY <1>7 DEF BellSpacing
<1>9. lastSent' <= now'
  BY <1>1
<1>10. QED BY <1>6, <1>8, <1>9 DEF SpacingInv

\* A window restarted with nobody to send the bell to.
LEMMA NoBell ==
    ASSUME TypeOK, SpacingInv, UNCHANGED bells, lastSent' \in {lastSent, now},
           now' \in Nat, now <= now'
    PROVE  SpacingInv'
<1>1. /\ bells \in Seq(Messages)
      /\ now \in Nat
      /\ lastSent \in Nat \cup {Never}
      /\ Never \notin Nat
  BY ReportsAssumption DEF TypeOK, Instants
<1>2. lastSent' # Never => lastSent' <= now'
  BY <1>1 DEF SpacingInv
<1>3. ASSUME NEW i \in 1..Len(bells)
      PROVE  lastSent' # Never /\ bells[i].time <= lastSent'
  <2>1. bells[i].time \in Nat
    BY <1>1, Stamped
  <2>2. lastSent # Never /\ bells[i].time <= lastSent /\ lastSent <= now
    BY DEF SpacingInv
  <2>3. QED BY <1>1, <2>1, <2>2
<1>4. BellSpacing'
  BY DEF SpacingInv, BellSpacing
<1>5. QED BY <1>2, <1>3, <1>4 DEF SpacingInv

\* Two Bell messages are never closer than the debounce window, whatever the
\* bells' times, late timers and changes of monitor.
THEOREM BellsAreDebounced == Spec => []BellSpacing
<1> USE ReportsAssumption
<1>1. Init => SpacingInv
  BY DEF Init, SpacingInv, BellSpacing
<1>2. ASSUME TypeOK, SpacingInv, [Next]_vars
      PROVE  SpacingInv'
  <2> USE DEF bellVars
  <2>0. now \in Nat /\ now <= now /\ lastSent \in {lastSent, now}
    BY <1>2 DEF TypeOK
  <2>1. ASSUME NEW ring \in BOOLEAN, PtyOutput(ring)
        PROVE  SpacingInv'
    <3>1. CASE ring /\ monitor /\ ~Debounced
      BY <1>2, <2>0, <2>1, <3>1, OneMoreBell DEF PtyOutput, OnBell, Debounced,
                                                TypeOK, Instants
    <3>2. CASE ~(ring /\ monitor /\ ~Debounced)
      <4>1. UNCHANGED <<bells, lastSent, now>>
        BY <2>1, <3>2 DEF PtyOutput, OnBell
      <4>2. QED BY <1>2, <2>0, <4>1, NoBell
    <3>3. QED BY <3>1, <3>2
  <2>2. CASE Fire
    <3>1. /\ pendingAt \in Nat
          /\ lastSent + BellWindow <= now
          /\ lastSent' = now /\ now' = now
      BY <1>2, <2>2 DEF Fire, Due, Restarted, TypeOK, Instants
    <3>2. CASE monitor
      BY <1>2, <2>2, <3>1, <3>2, OneMoreBell DEF Fire
    <3>3. CASE ~monitor
      BY <1>2, <2>0, <2>2, <3>1, <3>3, NoBell DEF Fire
    <3>4. QED BY <3>2, <3>3
  <2>3. CASE Accept \/ BecomeMonitor \/ MonitorLost \/ UNCHANGED vars
    <3>1. UNCHANGED <<bells, lastSent, now>>
      BY <2>3 DEF Accept, BecomeMonitor, MonitorLost, vars
    <3>2. QED BY <1>2, <2>0, <3>1, NoBell
  <2>4. CASE Tick
    <3>1. UNCHANGED <<bells, lastSent>> /\ now' = now + 1
      BY <2>4 DEF Tick
    <3>2. QED BY <1>2, <2>0, <3>1, NoBell
  <2>5. QED BY <1>2, <2>1, <2>2, <2>3, <2>4 DEF Next
<1>3. SpacingInv => BellSpacing
  BY DEF SpacingInv
<1>4. QED BY <1>1, <1>2, <1>3, TypeCorrect, PTL DEF Spec

-----------------------------------------------------------------------------
(* The trailing edge.                                                      *)

\* BellAccounted, and what keeps it: without a monitor no bell is owed to
\* anybody, so the timer may drop the one it holds.
OwedInv ==
    /\ BellAccounted
    /\ ~monitor => lastBell = Never

\* Messages that were sent stay sent.
LEMMA SentStays ==
    ASSUME bells \in Seq(Messages), NEW m \in Messages, bells' = Append(bells, m)
    PROVE  /\ \E i \in 1..Len(bells') : bells'[i] = m
           /\ \A i \in 1..Len(bells) : i \in 1..Len(bells') /\ bells'[i] = bells[i]
<1>1. /\ Len(bells) \in Nat /\ Len(bells') = Len(bells) + 1
      /\ bells'[Len(bells) + 1] = m
      /\ \A i \in 1..Len(bells) : bells'[i] = bells[i]
  OBVIOUS
<1>2. Len(bells) + 1 \in 1..Len(bells')
  BY <1>1
<1>3. \A i \in 1..Len(bells) : i \in 1..Len(bells')
  BY <1>1
<1>4. QED BY <1>1, <1>2, <1>3

\* The latest bell rung in front of the present monitor is never lost: it has
\* been sent or is held, whatever the debouncer dropped or merged before it.
THEOREM LatestBellIsKept == Spec => []BellAccounted
<1>1. Init => OwedInv
  BY DEF Init, OwedInv, BellAccounted
<1>2. ASSUME TypeOK, OwedInv, [Next]_vars
      PROVE  OwedInv'
  <2> USE DEF bellVars
  <2>0. bells \in Seq(Messages) /\ now \in Nat
    BY <1>2 DEF TypeOK
  <2>1. ASSUME NEW ring \in BOOLEAN, PtyOutput(ring)
        PROVE  OwedInv'
    <3>1. CASE ring /\ monitor /\ Debounced
      <4>1. lastBell' = now /\ pendingAt' = now /\ monitor' = monitor
        BY <2>1, <3>1 DEF PtyOutput, OnBell, Held
      <4>2. QED BY <3>1, <4>1 DEF OwedInv, BellAccounted
    <3>2. CASE ring /\ monitor /\ ~Debounced
      <4>1. /\ lastBell' = now /\ monitor' = monitor
            /\ bells' = Append(bells, [at |-> now, time |-> now])
        BY <2>1, <3>2 DEF PtyOutput, OnBell
      <4>2. PICK m \in Messages : m = [at |-> now, time |-> now]
        BY <2>0 DEF Messages
      <4>3. bells' = Append(bells, m) /\ m.at = lastBell'
        BY <4>1, <4>2
      <4>4. \E i \in 1..Len(bells') : bells'[i].at = lastBell'
        BY <2>0, <4>3, SentStays
      <4>5. QED BY <3>2, <4>1, <4>4 DEF OwedInv, BellAccounted
    <3>3. CASE ~(ring /\ monitor)
      <4>1. UNCHANGED <<pendingAt, bells, lastBell, monitor>>
        BY <2>1, <3>3 DEF PtyOutput
      <4>2. QED BY <1>2, <4>1 DEF OwedInv, BellAccounted
    <3>4. QED BY <3>1, <3>2, <3>3
  <2>2. CASE Fire
    <3>1. CASE monitor
      <4>1. /\ pendingAt \in Nat /\ UNCHANGED <<lastBell, monitor>>
            /\ bells' = Append(bells, [at |-> pendingAt, time |-> now])
        BY <1>2, <2>2, <3>1 DEF Fire, Due, TypeOK, Instants
      <4>2. PICK m \in Messages : m = [at |-> pendingAt, time |-> now]
        BY <2>0, <4>1 DEF Messages
      <4>3. bells' = Append(bells, m) /\ m.at = pendingAt
        BY <4>1, <4>2
      <4>4. /\ \E i \in 1..Len(bells') : bells'[i] = m
            /\ \A i \in 1..Len(bells) : i \in 1..Len(bells') /\ bells'[i] = bells[i]
        BY <2>0, <4>3, SentStays
      <4>5. ASSUME lastBell # Never
            PROVE  \E i \in 1..Len(bells') : bells'[i].at = lastBell
        BY <1>2, <4>3, <4>4, <4>5 DEF OwedInv, BellAccounted
      <4>6. QED BY <3>1, <4>1, <4>5 DEF OwedInv, BellAccounted
    <3>2. CASE ~monitor
      <4>1. lastBell' = Never
        BY <1>2, <2>2, <3>2 DEF Fire, OwedInv
      <4>2. QED BY <4>1 DEF OwedInv, BellAccounted
    <3>3. QED BY <3>1, <3>2
  <2>3. CASE BecomeMonitor \/ MonitorLost
    BY <2>3 DEF BecomeMonitor, MonitorLost, OwedInv, BellAccounted
  <2>4. CASE Accept \/ Tick \/ UNCHANGED vars
    <3>1. UNCHANGED <<pendingAt, bells, lastBell, monitor>>
      BY <2>4 DEF Accept, Tick, vars
    <3>2. QED BY <1>2, <3>1 DEF OwedInv, BellAccounted
  <2>5. QED BY <1>2, <2>1, <2>2, <2>3, <2>4 DEF Next
<1>3. OwedInv => BellAccounted
  BY DEF OwedInv
<1>4. QED BY <1>1, <1>2, <1>3, TypeCorrect, PTL DEF Spec

-----------------------------------------------------------------------------
(* The activity limiter.                                                   *)

\* ActivityFresh, and what keeps it: nothing is stamped in the future, and a
\* report made after the present monitor was classified went to it.  So a
\* limiter that holds a report back has told this monitor of an output less
\* than an interval ago, unless the monitor is newer than that.
LimiterInv ==
    /\ ActivityFresh
    /\ since <= now
    /\ lastOutputAt # Never => lastOutputAt <= now
    /\ lastReport # Never => lastReport <= now
    /\ monitor /\ lastReport # Never /\ since < lastReport =>
          heardOutput # Never /\ lastReport <= heardOutput

\* The limiter's decision, in numbers: output at n, the last report at r, the
\* last thing told at h, a monitor since s and the interval a.
LEMMA HeldBack ==
    ASSUME NEW n \in Nat, NEW r \in Nat, NEW h \in Nat, NEW s \in Nat, NEW a \in Nat,
           ~(r + a <= n), s < r => r <= h, n >= s + a
    PROVE  n < h + a
  OBVIOUS

\* A monitor of one interval's standing lags the application's output by less
\* than the interval, whoever was the monitor when the limiter last reported.
THEOREM ActivityIsFresh == Spec => []ActivityFresh
<1>1. Init => LimiterInv
  BY DEF Init, LimiterInv, ActivityFresh
<1>2. ASSUME TypeOK, LimiterInv, [Next]_vars
      PROVE  LimiterInv'
  <2> USE DEF activityVars
  <2>0. /\ now \in Nat /\ since \in Nat
        /\ ActivityInterval \in Nat \ {0} /\ Never \notin Nat
        /\ lastOutputAt \in Nat \cup {Never} /\ lastReport \in Nat \cup {Never}
        /\ heardOutput \in Nat \cup {Never}
    BY <1>2, ReportsAssumption DEF TypeOK, Instants
  <2>1. ASSUME NEW ring \in BOOLEAN, PtyOutput(ring)
        PROVE  LimiterInv'
    <3>1. lastOutputAt' = now /\ UNCHANGED <<now, monitor, since>>
      BY <2>1 DEF PtyOutput
    <3>2. CASE monitor /\ ReportDue
      <4>1. lastReport' = now /\ heardOutput' = now
        BY <2>1, <3>2 DEF PtyOutput
      <4>2. now < now + ActivityInterval /\ now <= now
        BY <2>0
      <4>3. QED BY <1>2, <2>0, <3>1, <4>1, <4>2 DEF LimiterInv, ActivityFresh
    <3>3. CASE ~(monitor /\ ReportDue)
      <4>1. UNCHANGED <<lastReport, heardOutput>>
        BY <2>1, <3>3 DEF PtyOutput
      <4>2. ASSUME monitor, now >= since + ActivityInterval
            PROVE  heardOutput # Never /\ now < heardOutput + ActivityInterval
        <5>1. lastReport \in Nat /\ ~(lastReport + ActivityInterval <= now)
          BY <2>0, <3>3, <4>2 DEF ReportDue
        <5>2. since < lastReport
          BY <2>0, <4>2, <5>1
        <5>3. heardOutput \in Nat /\ lastReport <= heardOutput
          BY <1>2, <2>0, <4>2, <5>1, <5>2 DEF LimiterInv
        <5>4. QED BY <2>0, <4>2, <5>1, <5>3, HeldBack
      <4>3. ActivityFresh'
        BY <3>1, <4>1, <4>2 DEF ActivityFresh
      <4>4. now <= now
        BY <2>0
      <4>5. QED BY <1>2, <3>1, <4>1, <4>3, <4>4 DEF LimiterInv
    <3>4. QED BY <3>2, <3>3
  <2>2. CASE BecomeMonitor
    <3>1. since' = now /\ UNCHANGED <<now, lastOutputAt, lastReport>>
      BY <2>2 DEF BecomeMonitor
    <3>2. lastOutputAt # Never => ~(lastOutputAt >= now + ActivityInterval)
      BY <1>2, <2>0 DEF LimiterInv
    <3>3. lastReport # Never => ~(now < lastReport)
      BY <1>2, <2>0 DEF LimiterInv
    <3>4. now <= now
      BY <2>0
    <3>5. QED BY <1>2, <3>1, <3>2, <3>3, <3>4 DEF LimiterInv, ActivityFresh
  <2>3. CASE MonitorLost
    <3>1. ~monitor' /\ since' = 0 /\ UNCHANGED <<now, lastOutputAt, lastReport>>
      BY <2>3 DEF MonitorLost
    <3>2. 0 <= now
      BY <2>0
    <3>3. QED BY <1>2, <3>1, <3>2 DEF LimiterInv, ActivityFresh
  <2>4. CASE Tick
    <3>1. now' = now + 1 /\ UNCHANGED <<monitor, since, lastOutputAt, lastReport, heardOutput>>
      BY <2>4 DEF Tick
    <3>2. /\ since <= now + 1
          /\ lastOutputAt # Never => lastOutputAt <= now + 1
          /\ lastReport # Never => lastReport <= now + 1
      BY <1>2, <2>0 DEF LimiterInv
    <3>3. QED BY <1>2, <3>1, <3>2 DEF LimiterInv, ActivityFresh
  <2>5. CASE Fire \/ Accept \/ UNCHANGED vars
    <3>1. UNCHANGED <<now, monitor, since, lastOutputAt, lastReport, heardOutput>>
      BY <2>5 DEF Fire, Accept, vars
    <3>2. QED BY <1>2, <3>1 DEF LimiterInv, ActivityFresh
  <2>6. QED BY <1>2, <2>1, <2>2, <2>3, <2>4, <2>5 DEF Next
<1>3. LimiterInv => ActivityFresh
  BY DEF LimiterInv
<1>4. QED BY <1>1, <1>2, <1>3, TypeCorrect, PTL DEF Spec

-----------------------------------------------------------------------------
(* Input pacing.                                                           *)

-----------------------------------------------------------------------------
(* The chunks of one message.                                              *)

\* A pause is cut to the cap.
LEMMA AtMostBounds ==
    ASSUME NEW m \in Nat, NEW n \in Nat
    PROVE  AtMost(m, n) \in 0..m
BY DEF AtMost

\* The requests are sequences of delays.
LEMMA RequestsAreSequences ==
    ASSUME NEW delays \in Requests
    PROVE  /\ delays \in Seq(Delays)
           /\ Len(delays) \in Nat
           /\ \A i \in 1..Len(delays) : delays[i].at \in Nat /\ delays[i].ms \in Nat
<1>1. PICK n \in 0..(MaxDelays + 1) : delays \in [1..n -> Delays]
  BY DEF Requests
<1>2. n \in Nat
  BY <1>1, InputAssumption
<1>3. delays \in Seq(Delays) /\ Len(delays) = n
  BY <1>1, <1>2
<1>4. \A i \in 1..n : delays[i] \in Delays
  BY <1>1
<1>5. \A d \in Delays : d.at \in Nat /\ d.ms \in Nat
  BY InputAssumption DEF Delays
<1>6. QED BY <1>2, <1>3, <1>4, <1>5

\* The chunks q lead from byte a to byte b without a gap or an overlap.
Chained(q, a, b) ==
    /\ q = << >> => a = b
    /\ q # << >> => q[1].from = a /\ q[Len(q)].to = b
    /\ \A i \in 1..(Len(q) - 1) : q[i].to = q[i + 1].from
    /\ \A i \in 1..Len(q) : q[i].from <= q[i].to /\ q[i].to <= b

\* The chunks of a valid message lead from the bytes received so far to the
\* end of the message.
LEMMA SplitIsChain ==
    ASSUME QueueTypeOK, NEW len \in Nat, NEW delays \in Requests, ValidDelays(len, delays)
    PROVE  /\ Split(len, delays) \in Seq(Chunks)
           /\ Split(len, delays) # << >>
           /\ Chained(Split(len, delays), sent, sent + len)
<1> DEFINE End(i) == IF i = 0 THEN sent
                     ELSE IF i <= Len(delays) THEN sent + delays[i].at
                     ELSE sent + len
           n == Len(delays) + 1
           chunk(i) == [wait |-> WaitBefore(delays, i), from |-> End(i - 1), to |-> End(i)]
           s == Split(len, delays)
<1>1. /\ sent \in Nat
      /\ Len(delays) \in Nat
      /\ \A i \in 1..Len(delays) : delays[i].at \in Nat /\ delays[i].ms \in Nat
  BY RequestsAreSequences DEF QueueTypeOK
<1>2. s = [i \in 1..n |-> chunk(i)]
  BY DEF Split
<1>3. n \in Nat /\ n >= 1
  BY <1>1
<1>4. \A i \in 0..n : End(i) \in Nat /\ End(i) <= sent + len
  <2>1. SUFFICES ASSUME NEW i \in 0..n
                 PROVE  End(i) \in Nat /\ End(i) <= sent + len
    OBVIOUS
  <2>2. CASE i = 0
    BY <1>1, <2>2
  <2>3. CASE i \in 1..Len(delays)
    <3>1. delays[i].at <= len /\ delays[i].at \in Nat
      BY <1>1, <2>3 DEF ValidDelays
    <3>2. QED BY <1>1, <2>3, <3>1
  <2>4. CASE i = n
    BY <1>1, <2>4
  <2>5. QED BY <1>1, <2>2, <2>3, <2>4
<1>5. \A i \in 1..n : End(i - 1) <= End(i)
  <2>1. SUFFICES ASSUME NEW i \in 1..n
                 PROVE  End(i - 1) <= End(i)
    OBVIOUS
  <2>2. CASE i = n
    <3>1. End(n) = sent + len
      BY <1>1
    <3>2. i - 1 \in 0..n
      BY <1>1
    <3>3. End(i - 1) <= sent + len
      BY <1>4, <3>2
    <3>4. QED BY <2>2, <3>1, <3>3
  <2>3. CASE i = 1 /\ i # n
    <3>1. delays[1].at \in Nat /\ 1 <= Len(delays)
      BY <1>1, <2>3
    <3>2. QED BY <1>1, <2>3, <3>1
  <2>4. CASE i > 1 /\ i # n
    <3>1. i \in 1..Len(delays) /\ i - 1 \in 1..Len(delays)
      BY <1>1, <2>4
    <3>2. delays[i - 1].at <= delays[i].at /\ delays[i - 1].at \in Nat /\ delays[i].at \in Nat
      BY <1>1, <2>4, <3>1 DEF ValidDelays
    <3>3. QED BY <1>1, <2>4, <3>1, <3>2
  <2>5. QED BY <1>1, <2>2, <2>3, <2>4
<1>6. \A i \in 1..n : WaitBefore(delays, i) \in 0..MaxPause
  <2>1. SUFFICES ASSUME NEW i \in 1..n
                 PROVE  WaitBefore(delays, i) \in 0..MaxPause
    OBVIOUS
  <2>2. CASE i = 1
    BY <2>2, InputAssumption DEF WaitBefore
  <2>3. CASE i # 1
    <3>1. delays[i - 1].ms \in Nat
      BY <1>1, <2>3
    <3>2. QED BY <2>3, <3>1, AtMostBounds, InputAssumption DEF WaitBefore
  <2>4. QED BY <2>2, <2>3
<1> HIDE DEF End, n, s
<1>7. \A i \in 1..n : chunk(i) \in Chunks
  <2>1. SUFFICES ASSUME NEW i \in 1..n
                 PROVE  chunk(i) \in Chunks
    OBVIOUS
  <2>2. i - 1 \in 0..n /\ i \in 0..n
    BY <1>3
  <2>3. QED BY <1>4, <1>6, <2>2 DEF Chunks
<1>8. \A i \in 1..n : chunk(i).from = End(i - 1) /\ chunk(i).to = End(i)
  OBVIOUS
<1>9. s \in Seq(Chunks) /\ Len(s) = n
  <2> HIDE DEF chunk
  <2>1. QED BY <1>2, <1>3, <1>7
<1>10. \A i \in 1..n : s[i].from = End(i - 1) /\ s[i].to = End(i)
  <2> HIDE DEF chunk
  <2>1. QED BY <1>2, <1>8
<1>11. End(0) = sent /\ End(n) = sent + len
  BY <1>1 DEF End, n
<1>12. Chained(s, sent, sent + len)
  <2>1. s # << >>
    BY <1>3, <1>9
  <2>2. s[1].from = sent /\ s[Len(s)].to = sent + len
    BY <1>3, <1>9, <1>10, <1>11
  <2>3. \A i \in 1..(Len(s) - 1) : s[i].to = s[i + 1].from
    <3>1. SUFFICES ASSUME NEW i \in 1..(n - 1)
                   PROVE  s[i].to = s[i + 1].from
      BY <1>9
    <3>2. i \in 1..n /\ i + 1 \in 1..n /\ (i + 1) - 1 = i
      BY <1>3
    <3>3. QED BY <1>10, <3>2
  <2>4. \A i \in 1..Len(s) : s[i].from <= s[i].to /\ s[i].to <= sent + len
    <3>1. \A i \in 1..n : i \in 0..n
      BY <1>3
    <3>2. QED BY <1>4, <1>5, <1>9, <1>10, <3>1
  <2>5. QED BY <2>1, <2>2, <2>3, <2>4 DEF Chained
<1>13. s # << >>
  BY <1>3, <1>9
<1>14. QED BY <1>9, <1>12, <1>13 DEF s

\* A chain extended by a chain is a chain.
LEMMA ChainsConcatenate ==
    ASSUME NEW q \in Seq(Chunks), NEW r \in Seq(Chunks),
           NEW a \in Nat, NEW b \in Nat, NEW c \in Nat,
           Chained(q, a, b), Chained(r, b, c), r # << >>, b <= c
    PROVE  Chained(q \o r, a, c)
<1> DEFINE s == q \o r
<1>1. /\ s \in Seq(Chunks)
      /\ Len(q) \in Nat /\ Len(r) \in Nat /\ Len(r) >= 1
      /\ Len(s) = Len(q) + Len(r)
      /\ \A i \in 1..Len(q) : s[i] = q[i]
      /\ \A i \in 1..Len(r) : s[Len(q) + i] = r[i]
  BY ConcatProperties, LenProperties, EmptySeq
<1>2. \A d \in Chunks : d.from \in Nat /\ d.to \in Nat
  BY DEF Chunks
<1>3. /\ \A i \in 1..Len(q) : q[i].from \in Nat /\ q[i].to \in Nat
      /\ \A i \in 1..Len(r) : r[i].from \in Nat /\ r[i].to \in Nat
  BY <1>2, ElementOfSeq
<1> HIDE DEF s
<1>4. /\ r[1].from = b
      /\ r[Len(r)].to = c
      /\ \A i \in 1..(Len(r) - 1) : r[i].to = r[i + 1].from
      /\ \A i \in 1..Len(r) : r[i].from <= r[i].to /\ r[i].to <= c
  BY DEF Chained
<1>5. /\ q = << >> => a = b /\ Len(q) = 0
      /\ q # << >> => q[1].from = a /\ q[Len(q)].to = b /\ Len(q) >= 1
      /\ \A i \in 1..(Len(q) - 1) : q[i].to = q[i + 1].from
      /\ \A i \in 1..Len(q) : q[i].from <= q[i].to /\ q[i].to <= b
  BY EmptySeq, <1>1 DEF Chained
<1>6. s[1].from = a
  <2>1. CASE q = << >>
    <3>1. s[1] = r[1]
      BY <1>1, <1>5, <2>1
    <3>2. QED BY <1>4, <1>5, <2>1, <3>1
  <2>2. CASE q # << >>
    BY <1>1, <1>5, <2>2
  <2>3. QED BY <2>1, <2>2
<1>7. s[Len(s)].to = c
  BY <1>1, <1>4
<1>8. ASSUME NEW i \in 1..(Len(s) - 1)
      PROVE  s[i].to = s[i + 1].from
  <2>1. CASE i < Len(q)
    BY <1>1, <1>5, <2>1
  <2>2. CASE i = Len(q)
    <3>1. q # << >> /\ s[i] = q[i] /\ s[i + 1] = r[1]
      BY <1>1, <1>5, <2>2
    <3>2. QED BY <1>4, <1>5, <2>2, <3>1
  <2>3. CASE i > Len(q)
    <3>1. PICK j \in 1..(Len(r) - 1) : i = Len(q) + j
      <4>1. i - Len(q) \in 1..(Len(r) - 1) /\ i = Len(q) + (i - Len(q))
        BY <1>1, <2>3
      <4>2. QED BY <4>1
    <3>2. s[i] = r[j] /\ s[i + 1] = r[j + 1]
      <4>1. j + 1 \in 1..Len(r) /\ j \in 1..Len(r) /\ i + 1 = Len(q) + (j + 1)
        BY <1>1, <3>1
      <4>2. QED BY <1>1, <3>1, <4>1
    <3>3. QED BY <1>4, <3>2
  <2>4. QED BY <1>1, <2>1, <2>2, <2>3
<1>9. ASSUME NEW i \in 1..Len(s)
      PROVE  s[i].from <= s[i].to /\ s[i].to <= c
  <2>1. CASE i <= Len(q)
    <3>1. i \in 1..Len(q)
      BY <1>1, <2>1
    <3>2. s[i] = q[i] /\ q[i].to \in Nat /\ q[i].to <= b /\ q[i].from <= q[i].to
      BY <1>1, <1>3, <1>5, <3>1
    <3>3. q[i].to <= c
      BY <3>2
    <3>4. QED BY <3>2, <3>3
  <2>2. CASE i > Len(q)
    <3>1. PICK j \in 1..Len(r) : i = Len(q) + j
      <4>1. i - Len(q) \in 1..Len(r) /\ i = Len(q) + (i - Len(q))
        BY <1>1, <2>2
      <4>2. QED BY <4>1
    <3>2. QED BY <1>1, <1>4, <3>1
  <2>3. QED BY <1>1, <2>1, <2>2
<1>10. s # << >>
  BY <1>1, EmptySeq
<1>11. QED BY <1>6, <1>7, <1>8, <1>9, <1>10 DEF Chained, s

\* What is left of a chain without its head.
LEMMA TailOfChain ==
    ASSUME NEW q \in Seq(Chunks), q # << >>, NEW a \in Nat, NEW b \in Nat,
           Chained(q, a, b)
    PROVE  /\ Head(q).from = a
           /\ Head(q).from <= Head(q).to
           /\ Head(q).to <= b
           /\ Chained(Tail(q), Head(q).to, b)
<1> DEFINE t == Tail(q)
<1>1. /\ Len(q) \in Nat /\ Len(q) >= 1
      /\ t \in Seq(Chunks)
      /\ Len(t) = Len(q) - 1
      /\ \A i \in 1..Len(t) : t[i] = q[i + 1]
      /\ Head(q) = q[1]
  BY HeadTailProperties, EmptySeq
<1> HIDE DEF t
<1>2. /\ q[1].from = a /\ q[Len(q)].to = b
      /\ \A i \in 1..(Len(q) - 1) : q[i].to = q[i + 1].from
      /\ \A i \in 1..Len(q) : q[i].from <= q[i].to /\ q[i].to <= b
  BY DEF Chained
<1>3. t = << >> => q[1].to = b
  <2>1. t = << >> => Len(t) = 0
    OBVIOUS
  <2>2. Len(t) = 0 => Len(q) = 1
    BY <1>1
  <2>3. QED BY <1>2, <2>1, <2>2
<1>4. t # << >> => t[1].from = q[1].to /\ t[Len(t)].to = b
  <2>1. SUFFICES ASSUME t # << >>
                 PROVE  t[1].from = q[1].to /\ t[Len(t)].to = b
    OBVIOUS
  <2>2. Len(t) >= 1
    BY <1>1, <2>1, EmptySeq
  <2>3. t[1] = q[2] /\ t[Len(t)] = q[Len(q)] /\ 1 \in 1..(Len(q) - 1)
    BY <1>1, <2>2
  <2>4. QED BY <1>2, <2>3
<1>5. \A i \in 1..(Len(t) - 1) : t[i].to = t[i + 1].from
  <2>1. SUFFICES ASSUME NEW i \in 1..(Len(t) - 1)
                 PROVE  t[i].to = t[i + 1].from
    OBVIOUS
  <2>2. t[i] = q[i + 1] /\ t[i + 1] = q[(i + 1) + 1] /\ i + 1 \in 1..(Len(q) - 1)
    BY <1>1
  <2>3. QED BY <1>2, <2>2
<1>6. \A i \in 1..Len(t) : t[i].from <= t[i].to /\ t[i].to <= b
  <2>1. SUFFICES ASSUME NEW i \in 1..Len(t)
                 PROVE  t[i].from <= t[i].to /\ t[i].to <= b
    OBVIOUS
  <2>2. t[i] = q[i + 1] /\ i + 1 \in 1..Len(q)
    BY <1>1
  <2>3. QED BY <1>2, <2>2
<1>7. Chained(t, q[1].to, b)
  BY <1>3, <1>4, <1>5, <1>6 DEF Chained
<1>8. QED BY <1>1, <1>2, <1>7 DEF t

-----------------------------------------------------------------------------
\* What a run of bytes is.
LEMMA RunType ==
    ASSUME NEW m \in Nat, NEW n \in Nat
    PROVE  /\ Run(m, n) \in Seq(Nat)
           /\ m <= n => /\ Len(Run(m, n)) = n - m
                        /\ \A i \in 1..(n - m) : Run(m, n)[i] = m + i
<1>1. CASE m <= n
  <2>1. n - m \in Nat /\ \A i \in 1..(n - m) : m + i \in Nat
    BY <1>1
  <2>2. QED BY <1>1, <2>1 DEF Run
<1>2. CASE ~(m <= n)
  <2>1. Run(m, n) = << >>
    BY <1>2 DEF Run
  <2>2. QED BY <1>2, <2>1
<1>3. QED BY <1>1, <1>2

\* Every variable keeps a value of its kind.
THEOREM QueueTypeCorrect == QueueSpec => []QueueTypeOK
<1>1. QueueInit => QueueTypeOK
  <2>1. QueueInit => failed \in BOOLEAN
    BY Zenon DEF QueueInit
  <2>2. QED BY <2>1, EmptySeq DEF QueueInit, QueueTypeOK, Ranges
<1>2. ASSUME QueueTypeOK, [QueueNext]_queueVars
      PROVE  QueueTypeOK'
  <2>1. ASSUME NEW len \in 0..MaxLen, NEW delays \in Requests, Input(len, delays)
        PROVE  QueueTypeOK'
    <3>1. len \in Nat
      BY InputAssumption
    <3>2. ValidDelays(len, delays)
      BY <2>1 DEF Input
    <3>3. queue' \in Seq(Chunks)
      <4>1. Split(len, delays) \in Seq(Chunks)
        BY <1>2, <3>1, <3>2, SplitIsChain
      <4>2. queue' = queue \o Split(len, delays) /\ queue \in Seq(Chunks)
        BY <1>2, <2>1 DEF Input, QueueTypeOK
      <4>3. QED BY <4>1, <4>2, ConcatProperties
    <3>4. failed' \in BOOLEAN
      BY <2>1, Zenon DEF Input, Pumps
    <3>5. QED BY <1>2, <2>1, <3>1, <3>3, <3>4 DEF Input, Pumps, QueueTypeOK
  <2>2. CASE PumpReturns
    <3>1. due' \in Nat \cup {Idle}
      <4>1. CASE queue = << >>
        BY <1>2, <2>2, <4>1 DEF PumpReturns, QueueTypeOK
      <4>2. CASE queue # << >>
        <5>1. Head(queue) \in Chunks
          BY <1>2, <4>2, HeadTailProperties DEF QueueTypeOK
        <5>2. Head(queue).wait \in Nat
          BY <5>1, InputAssumption DEF Chunks
        <5>3. QED BY <1>2, <2>2, <4>2, <5>2 DEF PumpReturns, QueueTypeOK, Armed, Remaining
      <4>3. QED BY <4>1, <4>2
    <3>2. QED BY <1>2, <2>2, <3>1 DEF PumpReturns, QueueTypeOK
  <2>3. CASE Pop
    <3>1. Head(queue) \in Chunks /\ Tail(queue) \in Seq(Chunks)
      BY <1>2, <2>3, HeadTailProperties DEF QueueTypeOK, Pop
    <3>2. writing' \in Ranges
      BY <1>2, <2>3, <3>1 DEF QueueTypeOK, Pop, Ranges, Chunks
    <3>3. QED BY <1>2, <2>3, <3>1, <3>2 DEF Pop, QueueTypeOK, Disarmed
  <2>4. CASE Write
    <3>1. stream' \in Seq(Nat)
      BY <1>2, <2>4, RunType, ConcatProperties DEF Write, QueueTypeOK, Ranges
    <3>2. QED BY <1>2, <2>4, <3>1 DEF Write, QueueTypeOK
  <2>5. ASSUME NEW n \in writing.from..(writing.to - 1), WriteFails(n)
        PROVE  QueueTypeOK'
    <3>1. n \in Nat /\ writing.from \in Nat /\ writing.to \in Nat
      BY <1>2 DEF QueueTypeOK, Ranges
    <3>2. stream' \in Seq(Nat)
      BY <1>2, <2>5, <3>1, RunType, ConcatProperties DEF WriteFails, QueueTypeOK
    <3>3. lost' \subseteq Nat
      <4>1. (n + 1)..writing.to \subseteq Nat
        BY <3>1
      <4>2. QED BY <1>2, <2>5, <4>1 DEF WriteFails, QueueTypeOK
    <3>4. QED BY <1>2, <2>5, <3>2, <3>3 DEF WriteFails, AfterFailure, QueueTypeOK
  <2>10. CASE Exit
    BY <1>2, <2>10 DEF Exit, QueueTypeOK
  <2>6. CASE Wake
    BY <1>2, <2>6 DEF Wake, Pumps, QueueTypeOK
  <2>7. CASE QueueTick
    <3>1. MaxGap \in Nat
      <4>1. \A m, n \in Nat : 2 * m * n \in Nat
        OBVIOUS
      <4>2. QED BY <4>1, InputAssumption DEF MaxGap
    <3>2. gap' \in Nat
      <4>1. gap + 1 \in Nat
        BY <1>2 DEF QueueTypeOK
      <4>2. QED BY <1>2, <2>7, <3>1, <4>1, AtMostBounds DEF QueueTick, QueueTypeOK
    <3>3. due' \in Nat \cup {Idle}
      BY <1>2, <2>7 DEF QueueTick, QueueTypeOK
    <3>4. QED BY <1>2, <2>7, <3>2, <3>3 DEF QueueTick, QueueTypeOK
  <2>8. CASE UNCHANGED queueVars
    BY <1>2, <2>8 DEF queueVars, QueueTypeOK
  <2>9. QED BY <1>2, <2>1, <2>2, <2>3, <2>4, <2>5, <2>6, <2>7, <2>8, <2>10 DEF QueueNext
<1>3. QED BY <1>1, <1>2, PTL DEF QueueSpec

-----------------------------------------------------------------------------
\* The timer is only set for a chunk, a write runs with the timer off, and a
\* `pump` under way has not failed yet.
TimerInv ==
    /\ TimerArmed
    /\ due # Idle => queue # << >>
    /\ pc = "write" => due = Idle
    /\ pc = "pump" => ~failed
    /\ pc = "write" => ~failed

LEMMA TimerInvariant == QueueSpec => []TimerInv
<1>1. QueueInit => TimerInv
  BY DEF QueueInit, TimerInv, TimerArmed
<1>2. ASSUME QueueTypeOK, TimerInv, [QueueNext]_queueVars
      PROVE  TimerInv'
  <2>1. ASSUME NEW len \in 0..MaxLen, NEW delays \in Requests, Input(len, delays)
        PROVE  TimerInv'
    <3>1. len \in Nat /\ ValidDelays(len, delays)
      BY <2>1, InputAssumption DEF Input
    <3>2. Split(len, delays) \in Seq(Chunks) /\ Split(len, delays) # << >>
      BY <1>2, <3>1, SplitIsChain
    <3>3. queue' # << >>
      <4>1. queue' = queue \o Split(len, delays) /\ queue \in Seq(Chunks)
        BY <1>2, <2>1 DEF Input, QueueTypeOK
      <4>2. QED BY <3>2, <4>1, ConcatEqualIffEmpty
    <3>4. pc' = "pump" /\ failed' = FALSE
      BY <2>1 DEF Input, Pumps
    <3>5. QED BY <3>3, <3>4 DEF TimerInv, TimerArmed
  <2>2. CASE PumpReturns
    <3>1. queue # << >> => Head(queue).wait \in Nat
      <4>1. queue # << >> => Head(queue) \in Chunks
        BY <1>2, HeadTailProperties DEF QueueTypeOK
      <4>2. QED BY <4>1, InputAssumption DEF Chunks
    <3>2. queue # << >> => due' # Idle
      BY <1>2, <2>2, <3>1, InputAssumption DEF PumpReturns, Armed, Remaining, QueueTypeOK
    <3>3. QED BY <1>2, <2>2, <3>2 DEF PumpReturns, TimerInv, TimerArmed
  <2>3. CASE Pop
    BY <1>2, <2>3 DEF Pop, Disarmed, TimerInv, TimerArmed
  <2>4. CASE Write
    BY <1>2, <2>4 DEF Write, TimerInv, TimerArmed
  <2>5. ASSUME NEW n, WriteFails(n)
        PROVE  TimerInv'
    BY <1>2, <2>5 DEF WriteFails, AfterFailure, TimerInv, TimerArmed
  <2>6. CASE Exit
    BY <1>2, <2>6 DEF Exit, TimerInv, TimerArmed
  <2>7. CASE Wake
    BY <1>2, <2>7 DEF Wake, Pumps, TimerInv, TimerArmed
  <2>8. CASE QueueTick
    <3>1. due' # Idle <=> due # Idle
      BY <1>2, <2>8, InputAssumption DEF QueueTick, QueueTypeOK
    <3>2. QED BY <1>2, <2>8, <3>1 DEF QueueTick, TimerInv, TimerArmed
  <2>9. CASE UNCHANGED queueVars
    BY <1>2, <2>9 DEF queueVars, TimerInv, TimerArmed
  <2>10. QED BY <1>2, <2>1, <2>2, <2>3, <2>4, <2>5, <2>6, <2>7, <2>8, <2>9 DEF QueueNext
<1>3. QED BY <1>1, <1>2, QueueTypeCorrect, PTL DEF QueueSpec

\* A chunk is stranded only by a failed write: between two events the timer
\* is armed exactly while chunks are queued and the last `pump` did not fail.
THEOREM StrandedOnlyByFailure == QueueSpec => []TimerArmed
<1>1. TimerInv => TimerArmed
  BY DEF TimerInv
<1>2. QED BY <1>1, TimerInvariant, PTL

-----------------------------------------------------------------------------
(* InputQueue implements InputStream.                                      *)

\* Where the queue starts: behind the write in progress, if there is one.
Frontier ==
    IF pc = "write" THEN writing.to ELSE IF queue = << >> THEN sent ELSE Head(queue).from

\* The write in progress and then the queue hold the bytes up to the last one
\* received.
OrderInv ==
    /\ Chained(queue, Frontier, sent)
    /\ pc = "write" => writing.from < writing.to /\ writing.to <= sent

\* A chain shows where it starts.
LEMMA HeadOfChain ==
    ASSUME NEW q \in Seq(Chunks), NEW a, NEW b, Chained(q, a, b)
    PROVE  a = IF q = << >> THEN b ELSE Head(q).from
<1>1. q # << >> => Head(q) = q[1]
  BY HeadTailProperties
<1>2. QED BY <1>1 DEF Chained

\* Outside a write the queue starts where the turn of its first byte comes.
LEMMA SettledIsFrontier == pc # "write" => Settled = Frontier
BY DEF Settled, Frontier

\* Every step keeps the chain, and says where the next byte's turn is.
LEMMA OrderStep ==
    ASSUME QueueTypeOK, OrderInv, [QueueNext]_queueVars
    PROVE  /\ OrderInv'
           /\ Settled' = IF Write \/ \E n \in writing.from..(writing.to - 1) : WriteFails(n)
                         THEN writing.to ELSE Settled
<1> DEFINE written == Write \/ \E n \in writing.from..(writing.to - 1) : WriteFails(n)
<1>0. /\ sent \in Nat /\ queue \in Seq(Chunks)
      /\ Chained(queue, Frontier, sent)
      /\ written => pc = "write"
      /\ Settled = IF pc = "write" THEN writing.from ELSE Frontier
  BY SettledIsFrontier DEF QueueTypeOK, OrderInv, Write, WriteFails, Settled
<1>1. ASSUME NEW len \in 0..MaxLen, NEW delays \in Requests, Input(len, delays)
      PROVE  OrderInv' /\ Settled' = IF written THEN writing.to ELSE Settled
  <2>1. len \in Nat /\ ValidDelays(len, delays)
    BY <1>1, InputAssumption DEF Input
  <2>2. /\ Split(len, delays) \in Seq(Chunks) /\ Split(len, delays) # << >>
        /\ Chained(Split(len, delays), sent, sent + len)
    BY <2>1, SplitIsChain
  <2>3. /\ pc = "select" /\ pc' = "pump"
        /\ queue' = queue \o Split(len, delays)
        /\ sent' = sent + len
    BY <1>1 DEF Input, Pumps
  <2>4. sent + len \in Nat /\ sent <= sent + len
    BY <1>0, <2>1
  <2>5. Frontier \in Nat
    <3>1. queue # << >> => Head(queue) \in Chunks
      BY <1>0, HeadTailProperties
    <3>2. QED BY <1>0, <2>3, <3>1 DEF Frontier, Chunks
  <2>6. Chained(queue', Frontier, sent')
    BY <1>0, <2>2, <2>3, <2>4, <2>5, ChainsConcatenate
  <2>7. queue' \in Seq(Chunks)
    BY <1>0, <2>2, <2>3, ConcatProperties
  <2>8. Frontier' = Frontier
    BY <2>3, <2>6, <2>7, HeadOfChain DEF Frontier
  <2>9. Settled' = Frontier'
    BY <2>3 DEF Settled, Frontier
  <2>10. QED BY <1>0, <2>3, <2>6, <2>8, <2>9 DEF OrderInv
<1>2. CASE Pop
  <2>1. /\ pc = "pump" /\ queue # << >>
        /\ queue' = Tail(queue)
        /\ UNCHANGED sent
    BY <1>2 DEF Pop
  <2>2. Frontier = Head(queue).from /\ Settled = Head(queue).from
    BY <2>1 DEF Frontier, Settled
  <2>3. Head(queue) \in Chunks /\ Tail(queue) \in Seq(Chunks)
    BY <1>0, <2>1, HeadTailProperties
  <2>4. Head(queue).from \in Nat /\ Head(queue).to \in Nat
    BY <2>3 DEF Chunks
  <2>5. /\ Head(queue).from <= Head(queue).to
        /\ Head(queue).to <= sent
        /\ Chained(Tail(queue), Head(queue).to, sent)
    BY <1>0, <2>1, <2>2, <2>4, TailOfChain
  <2>6. CASE Head(queue).from < Head(queue).to
    <3>1. pc' = "write" /\ writing' = [from |-> Head(queue).from, to |-> Head(queue).to]
      BY <1>2, <2>6 DEF Pop
    <3>2. writing'.from = Head(queue).from /\ writing'.to = Head(queue).to
      BY <3>1
    <3>3. Frontier' = Head(queue).to /\ Settled' = Head(queue).from
      BY <3>1, <3>2 DEF Frontier, Settled
    <3>4. Chained(queue', Frontier', sent')
      BY <2>1, <2>5, <3>3
    <3>5. QED BY <1>0, <2>1, <2>2, <2>5, <2>6, <3>1, <3>2, <3>3, <3>4 DEF OrderInv
  <2>7. CASE ~(Head(queue).from < Head(queue).to)
    <3>1. pc' = "pump"
      BY <1>2, <2>1, <2>7 DEF Pop
    <3>2. Head(queue).to = Head(queue).from
      BY <2>4, <2>5, <2>7
    <3>3. Chained(queue', Head(queue).from, sent')
      BY <2>1, <2>5, <3>2
    <3>4. Frontier' = Head(queue).from /\ Settled' = Head(queue).from
      BY <2>1, <2>3, <3>1, <3>3, HeadOfChain DEF Frontier, Settled
    <3>5. QED BY <1>0, <2>1, <2>2, <3>1, <3>3, <3>4 DEF OrderInv
  <2>8. QED BY <2>6, <2>7
<1>3. CASE written
  <2>1. pc = "write" /\ pc' # "write" /\ UNCHANGED <<queue, sent>>
    BY <1>3 DEF Write, WriteFails, AfterFailure
  <2>2. Chained(queue', writing.to, sent')
    BY <2>1 DEF OrderInv, Frontier
  <2>3. Frontier' = writing.to /\ Settled' = writing.to
    BY <1>0, <2>1, <2>2, HeadOfChain DEF Frontier, Settled
  <2>4. QED BY <1>3, <2>1, <2>2, <2>3 DEF OrderInv
<1>4. CASE PumpReturns \/ Exit \/ Wake \/ QueueTick \/ UNCHANGED queueVars
  <2>1. UNCHANGED <<queue, writing, sent>> /\ (pc' = "write" <=> pc = "write")
    BY <1>4 DEF PumpReturns, Exit, Wake, Pumps, QueueTick, queueVars
  <2>2. OrderInv' /\ Settled' = Settled
    BY <2>1 DEF OrderInv, Frontier, Chained, Settled
  <2>3. ~written
    BY <1>4 DEF PumpReturns, Exit, Wake, Pumps, QueueTick, queueVars, Write, WriteFails,
                AfterFailure
  <2>4. QED BY <2>2, <2>3
<1>5. QED BY <1>1, <1>2, <1>3, <1>4 DEF QueueNext

LEMMA OrderInvariant == QueueSpec => []OrderInv
<1>1. QueueInit => OrderInv
  BY DEF QueueInit, OrderInv, Frontier, Chained
<1>2. QED BY <1>1, OrderStep, QueueTypeCorrect, PTL DEF QueueSpec

\* What the step that takes the bytes up to n of a range from the program's
\* point of view: InputStream's Write.
LEMMA WriteIsPromised ==
    ASSUME QueueTypeOK, OrderInv, Settled = writing.from, Settled' = writing.to, pc = "write",
           NEW n \in writing.from..writing.to,
           stream' = stream \o Run(writing.from, n),
           lost' = lost \cup (n + 1)..writing.to, UNCHANGED sent
    PROVE  Promise!Write
<1>1. writing.from \in Nat /\ writing.to \in Nat /\ sent \in Nat
  BY DEF QueueTypeOK, Ranges
<1>2. writing.to \in Settled..sent /\ n \in Settled..writing.to
  BY <1>1 DEF OrderInv
<1>3. Promise!Run(Settled, n) = Run(writing.from, n)
  BY DEF Promise!Run, Run
<1>4. QED BY <1>2, <1>3 DEF Promise!Write

\* The queue implements the stream: whatever pauses are asked for and
\* whichever writes fail, the program is given the client bytes in order,
\* each at most once, and all of them but those whose write failed.
THEOREM ImplementsStream == QueueSpec => Delivers
<1>1. QueueInit => Promise!Init
  BY DEF QueueInit, Promise!Init, Settled
<1>2. ASSUME QueueTypeOK, OrderInv, [QueueNext]_queueVars
      PROVE  [Promise!Next]_Promise!vars
  <2> DEFINE fails == \E n \in writing.from..(writing.to - 1) : WriteFails(n)
  <2>0. /\ sent \in Nat /\ writing.from \in Nat /\ writing.to \in Nat
        /\ Settled' = IF Write \/ fails THEN writing.to ELSE Settled
        /\ pc = "write" => Settled = writing.from
    BY <1>2, OrderStep DEF QueueTypeOK, Ranges, Settled
  <2>1. CASE Write
    <3>1. /\ pc = "write" /\ UNCHANGED <<sent, lost>>
          /\ stream' = stream \o Run(writing.from, writing.to)
      BY <2>1 DEF Write
    <3>2. lost' = lost \cup (writing.to + 1)..writing.to
      BY <2>0, <3>1
    <3>3. writing.to \in writing.from..writing.to
      BY <1>2, <2>0, <3>1 DEF OrderInv
    <3>4. Promise!Write
      BY <1>2, <2>0, <2>1, <3>1, <3>2, <3>3, WriteIsPromised
    <3>5. QED BY <3>4 DEF Promise!Next
  <2>2. ASSUME NEW n \in writing.from..(writing.to - 1), WriteFails(n)
        PROVE  Promise!Write
    <3>1. n \in writing.from..writing.to
      BY <2>0
    <3>2. QED BY <1>2, <2>0, <2>2, <3>1, WriteIsPromised DEF WriteFails
  <2>3. ASSUME NEW len \in 0..MaxLen, NEW delays \in Requests, Input(len, delays)
        PROVE  Promise!Send
    <3>1. ~Write /\ ~fails
      BY <2>3 DEF Input, Write, WriteFails
    <3>2. UNCHANGED <<Settled, stream, lost>>
      BY <2>0, <2>3, <3>1 DEF Input
    <3>3. sent' \in Nat /\ sent' >= sent
      BY <2>0, <2>3, InputAssumption DEF Input
    <3>4. QED BY <3>2, <3>3 DEF Promise!Send
  <2>4. CASE PumpReturns \/ Pop \/ Exit \/ Wake \/ QueueTick \/ UNCHANGED queueVars
    <3>1. UNCHANGED <<sent, stream, lost>>
      BY <2>4 DEF PumpReturns, Pop, Exit, Wake, QueueTick, queueVars
    <3>2. Settled' = Settled \/ Write \/ fails
      BY <2>0
    <3>3. QED BY <2>1, <2>2, <3>1, <3>2 DEF Promise!vars, Promise!Next
  <2>5. QED BY <1>2, <2>1, <2>2, <2>3, <2>4 DEF QueueNext, Promise!Next
<1>3. QED BY <1>1, <1>2, OrderInvariant, QueueTypeCorrect, PTL
          DEF QueueSpec, Delivers, Promise!Spec

-----------------------------------------------------------------------------
(* The pauses a message asks for, added up.                                *)

\* Induction, for sets of numbers.
LEMMA CountingUp ==
    ASSUME NEW n \in Nat, NEW S, 0 \in S,
           \A i \in 0..n : i # n /\ i \in S => i + 1 \in S
    PROVE  \A i \in 0..n : i \in S
<1> DEFINE Bad == (0..n) \ S
<1>1. SUFFICES ASSUME Bad # {} PROVE FALSE OBVIOUS
<1>2. Bad \subseteq Nat OBVIOUS
<1>3. IsWellFoundedOn(OpToRel(<, Nat), Nat) BY NatLessThanWellFounded
<1>4. PICK d \in Bad : \A e \in Bad : ~(<<e, d>> \in OpToRel(<, Nat))
  <2> HIDE DEF Bad
  <2> QED BY <1>1, <1>2, <1>3, WFMin
<1>5. d \in 0..n /\ d \notin S /\ d # 0 BY <1>4
<1>6. d - 1 \in 0..n /\ d - 1 \in Nat /\ d \in Nat /\ d - 1 < d /\ (d - 1) + 1 = d /\ d - 1 # n
  BY <1>5
<1>7. d - 1 \in S
  <2>1. <<d - 1, d>> \in OpToRel(<, Nat) BY <1>6 DEF OpToRel
  <2>2. d - 1 \notin Bad BY <1>4, <2>1
  <2> QED BY <1>6, <2>2
<1> QED BY <1>5, <1>6, <1>7

\* What a delay adds to the pause at an offset.
Added(delays, at, i, before) ==
    IF delays[i].at = at THEN before + AtMost(MaxPause, delays[i].ms) ELSE before

\* sum[i] is the pause that the first i delays ask for at an offset.
AddsUp(sum, delays, at) ==
    /\ sum \in [0..Len(delays) -> Nat]
    /\ sum[0] = 0
    /\ \A i \in 1..Len(delays) : sum[i] = Added(delays, at, i, sum[i - 1])

Sum(m, at) ==
    CHOOSE sum : AddsUp(sum, m.delays, at) /\ PausedAt(m, at) = sum[Len(m.delays)]

LEMMA AddedType ==
    ASSUME NEW delays \in Requests, NEW at, NEW i \in 1..Len(delays), NEW b \in Nat
    PROVE  /\ Added(delays, at, i, b) \in Nat
           /\ Added(delays, at, i, b) <= b + MaxPause
<1>1. delays[i].ms \in Nat BY RequestsAreSequences
<1>2. AtMost(MaxPause, delays[i].ms) \in 0..MaxPause
  BY <1>1, AtMostBounds, InputAssumption
<1> QED BY <1>2, InputAssumption DEF Added

\* The step of an induction over the places of a sequence.
LEMMA NextIndex ==
    ASSUME NEW n \in Nat, NEW i \in 0..n, i # n
    PROVE  i \in Nat /\ i + 1 \in 1..n /\ i + 1 \in 0..n /\ (i + 1) - 1 = i
OBVIOUS

\* The recursive definition has a value.
LEMMA SumFacts ==
    ASSUME NEW m, m.delays \in Requests, NEW at
    PROVE  AddsUp(Sum(m, at), m.delays, at) /\ PausedAt(m, at) = Sum(m, at)[Len(m.delays)]
<1> DEFINE n == Len(m.delays)
           Next1(i, b) == Added(m.delays, at, i, b)
           Begun(u, k) == u[0] = 0 /\ \A i \in 1..k : u[i] = Next1(i, u[i - 1])
           Can == {k \in 0..n : \E u \in [0..n -> Nat] : Begun(u, k)}
           F(u) == [i \in 0..n |->
                      IF i = 0 THEN 0
                      ELSE IF m.delays[i].at = at
                      THEN u[i - 1] + AtMost(MaxPause, m.delays[i].ms)
                      ELSE u[i - 1]]
<1>1. n \in Nat BY RequestsAreSequences
<1>2. 0 \in Can
  <2>1. [i \in 0..n |-> 0] \in [0..n -> Nat] /\ Begun([i \in 0..n |-> 0], 0) BY <1>1
  <2> QED BY <1>1, <2>1
<1>3. ASSUME NEW k \in 0..n, k # n, k \in Can PROVE k + 1 \in Can
  <2>1. PICK u \in [0..n -> Nat] : Begun(u, k) BY <1>3
  <2>2. k + 1 \in 1..n /\ k + 1 \in 0..n /\ k \in 0..n /\ k \in Nat
    BY <1>1, <1>3, NextIndex
  <2>3. Next1(k + 1, u[k]) \in Nat BY <2>2, AddedType
  <2> DEFINE v == [u EXCEPT ![k + 1] = Next1(k + 1, u[k])]
  <2>4. v \in [0..n -> Nat] BY <2>2, <2>3
  <2>5. v[k + 1] = Next1(k + 1, u[k]) /\ \A i \in 0..n : i # k + 1 => v[i] = u[i]
    BY <2>2
  <2> HIDE DEF v, Next1
  <2>6. v[0] = 0 BY <1>1, <2>1, <2>2, <2>5
  <2>7. ASSUME NEW i \in 1..k + 1 PROVE v[i] = Next1(i, v[i - 1])
    <3>1. i - 1 \in 0..n /\ i - 1 # k + 1 /\ v[i - 1] = u[i - 1]
      <4>1. i - 1 \in 0..n /\ i - 1 # k + 1 BY <2>2
      <4> QED BY <2>5, <4>1
    <3>2. CASE i = k + 1
      <4>1. i - 1 = k BY <2>2, <3>2
      <4> QED BY <2>5, <3>1, <3>2, <4>1
    <3>3. CASE i # k + 1
      <4>1. i \in 1..k /\ i \in 0..n BY <2>2, <3>3
      <4> QED BY <2>1, <2>5, <3>1, <3>3, <4>1
    <3> QED BY <3>2, <3>3
  <2>8. Begun(v, k + 1) BY <2>6, <2>7
  <2> QED BY <2>2, <2>4, <2>8
<1>4. \A k \in 0..n : k \in Can
  <2> HIDE DEF Can, n
  <2> QED BY <1>1, <1>2, <1>3, CountingUp
<1>5. PICK g \in [0..n -> Nat] : Begun(g, n)
  <2>1. n \in Can
    <3> HIDE DEF Can
    <3> QED BY <1>1, <1>4
  <2> QED BY <2>1
<1>6. g = F(g)
  <2>1. ASSUME NEW i \in 0..n PROVE g[i] = F(g)[i]
    <3>1. CASE i = 0 BY <1>5, <3>1
    <3>2. CASE i # 0
      <4>1. i \in 1..n BY <1>1, <3>2
      <4>2. g[i] = Next1(i, g[i - 1]) BY <1>5, <4>1
      <4> QED BY <3>2, <4>2 DEF Added
    <3> QED BY <3>1, <3>2
  <2>2. F(g) = [i \in 0..n |-> F(g)[i]] /\ g = [i \in 0..n |-> g[i]] OBVIOUS
  <2> HIDE DEF F
  <2>3. QED BY <2>1, <2>2
<1> DEFINE UpTo == CHOOSE u : u = F(u)
<1>7. UpTo = F(UpTo)
  <2> HIDE DEF F
  <2> QED BY <1>6
<1>8. PausedAt(m, at) = UpTo[n] BY DEF PausedAt
<1>9. UpTo[0] = 0 /\ \A i \in 1..n : UpTo[i] = Next1(i, UpTo[i - 1])
  <2>1. ASSUME NEW i \in 0..n PROVE UpTo[i] = F(UpTo)[i] BY <1>7
  <2> HIDE DEF UpTo
  <2>2. UpTo[0] = 0
    <3>1. 0 \in 0..n BY <1>1
    <3> QED BY <2>1, <3>1
  <2>3. ASSUME NEW i \in 1..n PROVE UpTo[i] = Next1(i, UpTo[i - 1])
    <3>1. i \in 0..n /\ i # 0 BY <1>1
    <3> QED BY <2>1, <3>1 DEF Added
  <2> QED BY <2>2, <2>3
<1>10. UpTo \in [0..n -> Nat]
  <2> DEFINE Good == {i \in 0..n : UpTo[i] \in Nat}
  <2> HIDE DEF UpTo
  <2>1. 0 \in Good BY <1>1, <1>9
  <2>2. ASSUME NEW i \in 0..n, i # n, i \in Good PROVE i + 1 \in Good
    <3>1. i + 1 \in 1..n /\ i + 1 \in 0..n /\ (i + 1) - 1 = i
      BY <1>1, <2>2, NextIndex
    <3> HIDE DEF Next1
    <3>2. UpTo[i + 1] = Next1(i + 1, UpTo[i]) BY <1>9, <3>1
    <3> USE DEF Next1
    <3> QED BY <2>2, <3>1, <3>2, AddedType
  <2>3. \A i \in 0..n : i \in Good
    <3> HIDE DEF Good, n
    <3> QED BY <1>1, <2>1, <2>2, CountingUp
  <2>4. UpTo = [i \in 0..n |-> UpTo[i]]
    <3>1. F(UpTo) = [i \in 0..n |-> F(UpTo)[i]] OBVIOUS
    <3> HIDE DEF F
    <3> QED BY <1>7, <3>1
  <2> QED BY <2>3, <2>4
<1>11. AddsUp(UpTo, m.delays, at) /\ PausedAt(m, at) = UpTo[Len(m.delays)]
  <2> HIDE DEF UpTo
  <2> QED BY <1>8, <1>9, <1>10 DEF AddsUp
<1> HIDE DEF UpTo
<1> QED BY <1>11 DEF Sum

LEMMA TimesMonotone ==
    ASSUME NEW a \in Nat, NEW b \in Nat, a <= b, NEW c \in Nat
    PROVE  a * c <= b * c
<1>1. PICK d \in Nat : b = a + d
  <2>1. b - a \in Nat /\ b = a + (b - a) OBVIOUS
  <2> QED BY <2>1
<1>2. (a + d) * c = a * c + d * c OBVIOUS
<1>3. a * c \in Nat /\ d * c \in Nat OBVIOUS
<1>4. b * c = a * c + d * c BY <1>1, <1>2
<1> QED BY <1>3, <1>4

\* The pause is what each delay adds, so it is below the cap for each.
LEMMA PausedBound ==
    ASSUME NEW m, m.delays \in Requests, Len(m.delays) <= MaxDelays, NEW at
    PROVE  PausedAt(m, at) \in Nat /\ PausedAt(m, at) <= MaxDelays * MaxPause
<1> DEFINE n == Len(m.delays)
           s == Sum(m, at)
           Good == {i \in 0..n : s[i] <= i * MaxPause}
<1>1. n \in Nat BY RequestsAreSequences
<1>2. AddsUp(s, m.delays, at) /\ PausedAt(m, at) = s[n] BY SumFacts
<1> HIDE DEF s
<1>3. 0 \in Good BY <1>1, <1>2, InputAssumption DEF AddsUp
<1>4. ASSUME NEW i \in 0..n, i # n, i \in Good PROVE i + 1 \in Good
  <2>1. i + 1 \in 1..n /\ i + 1 \in 0..n /\ (i + 1) - 1 = i
    BY <1>1, <1>4, NextIndex
  <2>2. s[i] \in Nat /\ s[i + 1] \in Nat BY <1>2, <2>1 DEF AddsUp
  <2>3. s[i + 1] <= s[i] + MaxPause BY <1>2, <2>1, <2>2, AddedType DEF AddsUp
  <2>4. (i + 1) * MaxPause = i * MaxPause + MaxPause BY InputAssumption
  <2>5. i * MaxPause \in Nat BY InputAssumption
  <2>6. s[i] <= i * MaxPause BY <1>4
  <2> QED BY <2>1, <2>2, <2>3, <2>4, <2>5, <2>6, InputAssumption
<1>5. n \in Good
  <2>1. \A i \in 0..n : i \in Good
    <3> HIDE DEF Good, n
    <3> QED BY <1>1, <1>3, <1>4, CountingUp
  <2> HIDE DEF Good
  <2> QED BY <1>1, <2>1
<1>6. s[n] \in Nat /\ s[n] <= n * MaxPause BY <1>1, <1>2, <1>5 DEF AddsUp
<1>7. n * MaxPause <= MaxDelays * MaxPause
  <2>1. n <= MaxDelays OBVIOUS
  <2> HIDE DEF n
  <2> QED BY <1>1, <2>1, TimesMonotone, InputAssumption
<1>8. n * MaxPause \in Nat /\ MaxDelays * MaxPause \in Nat BY <1>1, InputAssumption
<1> QED BY <1>2, <1>6, <1>7, <1>8

\* Delays at other offsets add nothing: not those before ...
LEMMA NoneBefore ==
    ASSUME NEW delays \in Requests, NEW at, NEW sum, AddsUp(sum, delays, at),
           NEW a \in 0..Len(delays), \A l \in 1..a : delays[l].at # at
    PROVE  sum[a] = 0
<1> DEFINE Good == {i \in 0..a : sum[i] = 0}
<1>1. Len(delays) \in Nat BY RequestsAreSequences
<1>2. a \in Nat BY <1>1
<1>3. 0 \in Good BY <1>2 DEF AddsUp
<1>4. ASSUME NEW i \in 0..a, i # a, i \in Good PROVE i + 1 \in Good
  <2>1. i + 1 \in 1..a /\ i + 1 \in 0..a /\ i + 1 \in 1..Len(delays) /\ (i + 1) - 1 = i
    BY <1>1, <1>4
  <2> QED BY <1>4, <2>1 DEF AddsUp, Added
<1>5. \A i \in 0..a : i \in Good
  <2> HIDE DEF Good
  <2> QED BY <1>2, <1>3, <1>4, CountingUp
<1> QED BY <1>2, <1>5

\* ... and not those after.
LEMMA NoneAfter ==
    ASSUME NEW delays \in Requests, NEW at, NEW sum, AddsUp(sum, delays, at),
           NEW a \in 0..Len(delays), \A l \in (a + 1)..Len(delays) : delays[l].at # at
    PROVE  sum[Len(delays)] = sum[a]
<1> DEFINE n == Len(delays)
           Good == {i \in 0..n : i <= a \/ sum[i] = sum[a]}
<1>1. n \in Nat BY RequestsAreSequences
<1>2. 0 \in Good BY <1>1
<1>3. ASSUME NEW i \in 0..n, i # n, i \in Good PROVE i + 1 \in Good
  <2>1. i + 1 \in 1..n /\ i + 1 \in 0..n /\ (i + 1) - 1 = i
    BY <1>1, <1>3, NextIndex
  <2>2. CASE i + 1 <= a BY <2>1, <2>2
  <2>3. CASE i = a
    <3>1. delays[i + 1].at # at BY <2>1, <2>3
    <3> QED BY <2>1, <2>3, <3>1 DEF AddsUp, Added
  <2>4. CASE i > a
    <3>1. delays[i + 1].at # at /\ sum[i] = sum[a] BY <1>3, <2>1, <2>4
    <3> QED BY <2>1, <3>1 DEF AddsUp, Added
  <2> QED BY <1>3, <2>2, <2>3, <2>4
<1>4. \A i \in 0..n : i \in Good
  <2> HIDE DEF Good, n
  <2> QED BY <1>1, <1>2, <1>3, CountingUp
<1>5. n \in Good
  <2> HIDE DEF Good
  <2> QED BY <1>1, <1>4
<1> QED BY <1>1, <1>5

\* Where the chunks of a message end, counted from its start.
Cut(len, delays, i) ==
    IF i = 0 THEN 0 ELSE IF i <= Len(delays) THEN delays[i].at ELSE len

\* Offsets that do not decrease from one delay to the next do not decrease.
LEMMA OffsetsRise ==
    ASSUME NEW len \in Nat, NEW delays \in Requests, ValidDelays(len, delays),
           NEW i \in 1..Len(delays), NEW j \in i..Len(delays)
    PROVE  delays[i].at <= delays[j].at
<1> DEFINE n == Len(delays)
           Good == {l \in 0..n : l < i \/ delays[i].at <= delays[l].at}
<1>1. n \in Nat /\ \A l \in 1..n : delays[l].at \in Nat BY RequestsAreSequences
<1>2. 0 \in Good BY <1>1
<1>3. ASSUME NEW l \in 0..n, l # n, l \in Good PROVE l + 1 \in Good
  <2>1. l + 1 \in 1..n /\ l + 1 \in 0..n /\ (l + 1) - 1 = l /\ l \in Nat
    BY <1>1, <1>3, NextIndex
  <2>2. CASE l + 1 < i BY <2>1, <2>2
  <2>3. CASE l + 1 = i BY <1>1, <2>1, <2>3
  <2>4. CASE l + 1 > i
    <3>1. delays[l].at <= delays[l + 1].at BY <2>1, <2>4 DEF ValidDelays
    <3>2. l \in 1..n BY <2>1, <2>4
    <3>3. delays[i].at <= delays[l].at BY <1>3, <2>4, <3>2
    <3> QED BY <1>1, <2>1, <3>1, <3>2, <3>3
  <2> QED BY <2>1, <2>2, <2>3, <2>4
<1>4. \A l \in 0..n : l \in Good
  <2> HIDE DEF Good, n
  <2> QED BY <1>1, <1>2, <1>3, CountingUp
<1>5. j \in Good
  <2> HIDE DEF Good
  <2> QED BY <1>1, <1>4
<1> QED BY <1>1, <1>5

\* So every delay lies on one side of a chunk.
LEMMA CutFacts ==
    ASSUME NEW len \in Nat, NEW delays \in Requests, ValidDelays(len, delays),
           NEW i \in 1..(Len(delays) + 1)
    PROVE  /\ Cut(len, delays, i - 1) \in Nat /\ Cut(len, delays, i) \in Nat
           /\ Cut(len, delays, i - 1) <= Cut(len, delays, i)
           /\ Cut(len, delays, i) <= len
           /\ \A l \in 1..Len(delays) :
                 /\ l < i => delays[l].at <= Cut(len, delays, i - 1)
                 /\ l >= i => Cut(len, delays, i) <= delays[l].at
<1> DEFINE n == Len(delays)
<1>1. n \in Nat /\ \A l \in 1..n : delays[l].at \in Nat /\ delays[l].at <= len
  BY RequestsAreSequences DEF ValidDelays
<1>2. Cut(len, delays, i - 1) \in Nat /\ Cut(len, delays, i) \in Nat
  BY <1>1 DEF Cut
<1>3. ASSUME NEW l \in 1..n, l < i PROVE delays[l].at <= Cut(len, delays, i - 1)
  <2>1. i - 1 \in l..n /\ i - 1 # 0 /\ i - 1 <= n BY <1>1, <1>3
  <2> QED BY <1>3, <2>1, OffsetsRise DEF Cut
<1>4. ASSUME NEW l \in 1..n, l >= i PROVE Cut(len, delays, i) <= delays[l].at
  <2>1. l \in i..n /\ i \in 1..n BY <1>1, <1>4
  <2>2. Cut(len, delays, i) = delays[i].at BY <1>1, <2>1 DEF Cut
  <2> QED BY <2>1, <2>2, OffsetsRise
<1>5. Cut(len, delays, i) <= len BY <1>1 DEF Cut
<1>6. Cut(len, delays, i - 1) <= Cut(len, delays, i)
  <2>1. CASE i = 1 BY <1>2, <2>1 DEF Cut
  <2>2. CASE i # 1
    <3>1. i - 1 \in 1..n BY <1>1, <2>2
    <3>2. Cut(len, delays, i - 1) = delays[i - 1].at BY <1>1, <3>1 DEF Cut
    <3>3. CASE i \in 1..n
      <4>1. Cut(len, delays, i) = delays[i].at BY <1>1, <3>3 DEF Cut
      <4>2. i \in (i - 1)..n BY <1>1, <3>3
      <4> QED BY <3>1, <3>2, <4>1, <4>2, OffsetsRise
    <3>4. CASE i = n + 1
      <4>1. Cut(len, delays, i) = len BY <1>1, <3>4 DEF Cut
      <4> QED BY <1>1, <3>1, <3>2, <4>1
    <3> QED BY <1>1, <3>3, <3>4
  <2> QED BY <2>1, <2>2
<1> QED BY <1>2, <1>3, <1>4, <1>5, <1>6

LEMMA SplitIs ==
    ASSUME QueueTypeOK, NEW len \in Nat, NEW delays \in Requests,
           NEW i \in 1..(Len(delays) + 1)
    PROVE  /\ Len(Split(len, delays)) = Len(delays) + 1
           /\ Split(len, delays)[i].wait = WaitBefore(delays, i)
           /\ Split(len, delays)[i].from = sent + Cut(len, delays, i - 1)
           /\ Split(len, delays)[i].to = sent + Cut(len, delays, i)
<1> DEFINE n == Len(delays)
           End(j) == IF j = 0 THEN sent ELSE IF j <= n THEN sent + delays[j].at ELSE sent + len
           s == Split(len, delays)
<1>1. n \in Nat BY RequestsAreSequences
<1>2. s = [j \in 1..(n + 1) |->
              [wait |-> WaitBefore(delays, j), from |-> End(j - 1), to |-> End(j)]]
  BY DEF Split
<1>3. s[i] = [wait |-> WaitBefore(delays, i), from |-> End(i - 1), to |-> End(i)] BY <1>2
<1>4. sent \in Nat BY DEF QueueTypeOK
<1>5. End(i - 1) = sent + Cut(len, delays, i - 1) /\ End(i) = sent + Cut(len, delays, i)
  BY <1>4 DEF Cut
<1>6. Len(s) = n + 1 BY <1>1, <1>2
<1> QED BY <1>3, <1>5, <1>6

\* The chunks of message m, taken from the queue when e ticks are sure to have
\* passed since the last byte: sure[i] ticks have passed since then, or since
\* the last byte of the message so far, when i of its chunks have been taken.
SureOf(m, e) ==
    [i \in 0..(Len(m.delays) + 1) |->
        LET at == Cut(m.len, m.delays, i - 1)
        IN  IF i = 0 THEN e
            ELSE IF at < Cut(m.len, m.delays, i) THEN 0
            ELSE (IF at = 0 THEN e ELSE 0) + Sum(m, at)[i - 1]]

\* What is sure when chunk i of message m is taken from the queue.
SureAt(m, e, i) ==
    LET at == Cut(m.len, m.delays, i - 1)
    IN  (IF at = 0 THEN e ELSE 0) + Sum(m, at)[i - 1]

\* Each chunk adds its own pause.
LEMMA SureAdds ==
    ASSUME NEW m, m.len \in Nat, m.delays \in Requests, ValidDelays(m.len, m.delays),
           NEW e \in Nat, NEW i \in 1..(Len(m.delays) + 1)
    PROVE  /\ SureOf(m, e) \in [0..(Len(m.delays) + 1) -> Nat]
           /\ SureOf(m, e)[0] = e
           /\ SureAt(m, e, i) \in Nat
           /\ SureAt(m, e, i) <= SureOf(m, e)[i - 1] + WaitBefore(m.delays, i)
           /\ SureOf(m, e)[i] = IF Cut(m.len, m.delays, i - 1) < Cut(m.len, m.delays, i)
                                THEN 0 ELSE SureAt(m, e, i)
<1> DEFINE n == Len(m.delays)
           cut(j) == Cut(m.len, m.delays, j)
           r == SureOf(m, e)
<1>1. n \in Nat /\ \A l \in 1..n : m.delays[l].at \in Nat BY RequestsAreSequences
<1>2. ASSUME NEW j \in 1..(n + 1)
      PROVE  /\ cut(j - 1) \in Nat /\ cut(j) \in Nat /\ cut(j - 1) <= cut(j)
             /\ \A l \in 1..n : l < j => m.delays[l].at <= cut(j - 1)
  BY <1>2, CutFacts
<1>3. ASSUME NEW at PROVE AddsUp(Sum(m, at), m.delays, at)
  BY SumFacts
<1>4. ASSUME NEW j \in 1..(n + 1) PROVE SureAt(m, e, j) \in Nat
  <2>1. j - 1 \in 0..n BY <1>1
  <2>2. Sum(m, cut(j - 1))[j - 1] \in Nat BY <1>3, <2>1 DEF AddsUp
  <2> QED BY <2>2 DEF SureAt
<1>5. ASSUME NEW j \in 1..(n + 1)
      PROVE  r[j] = IF cut(j - 1) < cut(j) THEN 0 ELSE SureAt(m, e, j)
  <2>1. j \in 0..(n + 1) /\ j # 0 BY <1>1
  <2> QED BY <2>1 DEF SureOf, SureAt
<1>6. r[0] = e BY <1>1 DEF SureOf
<1>7. r \in [0..(n + 1) -> Nat]
  <2>1. ASSUME NEW j \in 0..(n + 1) PROVE r[j] \in Nat
    <3>1. j = 0 \/ j \in 1..(n + 1) BY <1>1
    <3> QED BY <1>4, <1>5, <1>6, <3>1
  <2>2. r = [j \in 0..(n + 1) |-> r[j]] BY DEF SureOf
  <2> HIDE DEF r
  <2> QED BY <2>1, <2>2
<1>8. SureAt(m, e, i) <= r[i - 1] + WaitBefore(m.delays, i)
  <2>1. CASE i = 1
    <3>1. cut(0) = 0 /\ i - 1 = 0 BY <2>1 DEF Cut
    <3>2. Sum(m, 0)[0] = 0 BY <1>3 DEF AddsUp
    <3>3. SureAt(m, e, i) = e BY <3>1, <3>2 DEF SureAt
    <3>4. WaitBefore(m.delays, i) = 0 BY <2>1 DEF WaitBefore
    <3> QED BY <1>6, <3>1, <3>3, <3>4
  <2>2. CASE i # 1
    <3> DEFINE at == cut(i - 1)
               w == AtMost(MaxPause, m.delays[i - 1].ms)
    <3>1. i - 1 \in 1..n /\ i - 1 \in 1..(n + 1) /\ i - 2 \in 0..n /\ (i - 1) - 1 = i - 2
      BY <1>1, <2>2
    <3>2. at = m.delays[i - 1].at BY <1>1, <3>1 DEF Cut
    <3>3. WaitBefore(m.delays, i) = w BY <2>2 DEF WaitBefore
    <3>4. w \in Nat
      <4>1. m.delays[i - 1].ms \in Nat BY <3>1, RequestsAreSequences
      <4>2. AtMost(MaxPause, m.delays[i - 1].ms) \in 0..MaxPause
        BY <4>1, AtMostBounds, InputAssumption
      <4> QED BY <4>2, InputAssumption
    <3>5. Sum(m, at)[i - 1] = Sum(m, at)[i - 2] + w /\ Sum(m, at)[i - 2] \in Nat
      BY <1>3, <3>1, <3>2 DEF AddsUp, Added
    <3>6. r[i - 1] = IF cut(i - 2) < at THEN 0 ELSE SureAt(m, e, i - 1)
      BY <1>5, <3>1
    <3>7. cut(i - 2) \in Nat /\ at \in Nat /\ cut(i - 2) <= at BY <1>2, <3>1
    <3>8. CASE cut(i - 2) < at
      <4>1. \A l \in 1..(i - 2) : m.delays[l].at # at
        <5>1. SUFFICES ASSUME NEW l \in 1..(i - 2) PROVE m.delays[l].at # at OBVIOUS
        <5>2. l \in 1..n /\ l < i - 1 BY <3>1
        <5>3. m.delays[l].at <= cut(i - 2) /\ m.delays[l].at \in Nat BY <1>1, <1>2, <3>1, <5>2
        <5> HIDE DEF at
        <5> QED BY <3>7, <3>8, <5>3
      <4>2. Sum(m, at)[i - 2] = 0 BY <1>3, <3>1, <4>1, NoneBefore
      <4>3. at # 0 BY <3>7, <3>8
      <4>4. SureAt(m, e, i) = 0 + (0 + w) BY <3>5, <4>2, <4>3 DEF SureAt
      <4> QED BY <3>3, <3>4, <3>6, <3>8, <4>4
    <3>9. CASE ~(cut(i - 2) < at)
      <4>1. cut(i - 2) = at BY <3>7, <3>9
      <4>2. r[i - 1] = (IF at = 0 THEN e ELSE 0) + Sum(m, at)[i - 2]
        BY <3>1, <3>6, <3>9, <4>1 DEF SureAt
      <4>3. SureAt(m, e, i) = (IF at = 0 THEN e ELSE 0) + Sum(m, at)[i - 1] BY DEF SureAt
      <4> HIDE DEF at, w
      <4> QED BY <3>3, <3>4, <3>5, <4>2, <4>3
    <3> QED BY <3>8, <3>9
  <2> QED BY <2>1, <2>2
<1> QED BY <1>4, <1>5, <1>6, <1>7, <1>8

\* A chunk with bytes follows every delay at its start, and no delay lies
\* inside it.
LEMMA SureSuffices ==
    ASSUME NEW m, m.len \in Nat, m.delays \in Requests, ValidDelays(m.len, m.delays),
           NEW e \in Nat, NEW i \in 1..(Len(m.delays) + 1),
           Cut(m.len, m.delays, i - 1) < Cut(m.len, m.delays, i)
    PROVE  /\ SureAt(m, e, i) = PausedAt(m, Cut(m.len, m.delays, i - 1))
                                  + (IF Cut(m.len, m.delays, i - 1) = 0 THEN e ELSE 0)
           /\ \A o \in Nat : o > Cut(m.len, m.delays, i - 1) /\ o < Cut(m.len, m.delays, i)
                                => PausedAt(m, o) = 0
<1> DEFINE n == Len(m.delays)
           from == Cut(m.len, m.delays, i - 1)
           to == Cut(m.len, m.delays, i)
<1>1. n \in Nat /\ \A l \in 1..n : m.delays[l].at \in Nat BY RequestsAreSequences
<1>2. /\ from \in Nat /\ to \in Nat /\ from < to
      /\ \A l \in 1..n : /\ l < i => m.delays[l].at <= from
                         /\ l >= i => to <= m.delays[l].at
  BY CutFacts
<1>3. ASSUME NEW at
      PROVE  AddsUp(Sum(m, at), m.delays, at) /\ PausedAt(m, at) = Sum(m, at)[n]
  BY SumFacts
<1>4. i - 1 \in 0..n BY <1>1
<1> HIDE DEF from, to
<1>5. \A l \in ((i - 1) + 1)..n : m.delays[l].at # from
  <2>1. SUFFICES ASSUME NEW l \in ((i - 1) + 1)..n PROVE m.delays[l].at # from OBVIOUS
  <2>2. l \in 1..n /\ l >= i BY <1>1
  <2> QED BY <1>1, <1>2, <2>2
<1>6. PausedAt(m, from) = Sum(m, from)[i - 1] /\ Sum(m, from)[i - 1] \in Nat
  <2>1. Sum(m, from)[n] = Sum(m, from)[i - 1] BY <1>3, <1>4, <1>5, NoneAfter
  <2> QED BY <1>3, <1>4, <2>1 DEF AddsUp
<1>7. SureAt(m, e, i) = (IF from = 0 THEN e ELSE 0) + Sum(m, from)[i - 1]
  BY DEF SureAt, from
<1>8. SureAt(m, e, i) = PausedAt(m, from) + (IF from = 0 THEN e ELSE 0)
  BY <1>6, <1>7
<1>9. ASSUME NEW o \in Nat, o > from, o < to PROVE PausedAt(m, o) = 0
  <2>1. ASSUME NEW l \in 1..n PROVE m.delays[l].at # o
    <3>1. i \in Nat /\ l \in Nat BY <1>1
    <3> QED BY <1>1, <1>2, <1>9, <2>1, <3>1
  <2>2. n \in 0..n BY <1>1
  <2> QED BY <1>3, <2>1, <2>2, NoneBefore
<1> QED BY <1>8, <1>9 DEF from, to

\* When the last chunk has been taken, the pause at the message's end is over.
LEMMA SureAtEnd ==
    ASSUME NEW m, m.len \in Nat, m.delays \in Requests, ValidDelays(m.len, m.delays),
           NEW e \in Nat
    PROVE  PausedAt(m, m.len) <= SureOf(m, e)[Len(m.delays) + 1]
<1> DEFINE n == Len(m.delays)
           at == Cut(m.len, m.delays, n)
           r == SureOf(m, e)
<1>1. n \in Nat /\ n + 1 \in 1..(n + 1) /\ (n + 1) - 1 = n /\ n \in 0..n
  BY RequestsAreSequences
<1>2. Cut(m.len, m.delays, n + 1) = m.len BY <1>1 DEF Cut
<1>3. /\ at \in Nat /\ at <= m.len
      /\ \A l \in 1..n : m.delays[l].at \in Nat /\ m.delays[l].at <= at
  <2>1. \A l \in 1..n : l < n + 1 BY <1>1
  <2> QED BY <1>1, <1>2, <2>1, CutFacts, RequestsAreSequences
<1>4. AddsUp(Sum(m, m.len), m.delays, m.len) /\ PausedAt(m, m.len) = Sum(m, m.len)[n]
  BY SumFacts
<1>5. r[n + 1] = IF at < m.len THEN 0 ELSE SureAt(m, e, n + 1)
  <2>1. r[n + 1] = IF Cut(m.len, m.delays, (n + 1) - 1) < Cut(m.len, m.delays, n + 1)
                   THEN 0 ELSE SureAt(m, e, n + 1)
    BY <1>1, SureAdds
  <2> QED BY <1>1, <1>2, <2>1
<1>6. CASE at < m.len
  <2>1. \A l \in 1..n : m.delays[l].at # m.len
    <3> HIDE DEF at
    <3> QED BY <1>3, <1>6
  <2>2. PausedAt(m, m.len) = 0 BY <1>1, <1>4, <2>1, NoneBefore
  <2> QED BY <1>5, <1>6, <2>2
<1>7. CASE ~(at < m.len)
  <2>1. at = m.len
    <3> HIDE DEF at
    <3> QED BY <1>3, <1>7
  <2>2. SureAt(m, e, n + 1) = (IF m.len = 0 THEN e ELSE 0) + Sum(m, m.len)[n]
    BY <1>1, <2>1 DEF SureAt
  <2>3. Sum(m, m.len)[n] \in Nat BY <1>1, <1>4 DEF AddsUp
  <2>4. SureAt(m, e, n + 1) >= PausedAt(m, m.len) BY <1>4, <2>2, <2>3
  <2>5. r[n + 1] = SureAt(m, e, n + 1) BY <1>5, <1>7
  <2> QED BY <2>4, <2>5
<1> QED BY <1>6, <1>7

-----------------------------------------------------------------------------
(* No byte is written before the pauses asked for in front of it.          *)

Records == [first: Nat, len: Nat, delays: Requests, waited: BOOLEAN]

\* Byte y is one of message j.
Carries(lg, j, y) == lg[j].first <= y /\ y < lg[j].first + lg[j].len

\* The messages lg carry the bytes up to s, each in one of them.
LogOK(lg, s) ==
    /\ lg \in Seq(Records)
    /\ \A j \in 1..Len(lg) :
          /\ ValidDelays(lg[j].len, lg[j].delays)
          /\ lg[j].first + lg[j].len <= s + 1
    /\ \A i, j \in 1..Len(lg) : i < j => lg[i].first + lg[i].len <= lg[j].first
    /\ \A y \in 1..s : \E j \in 1..Len(lg) : Carries(lg, j, y)
    /\ lg # << >> => ~lg[1].waited

\* The pause owed before byte y of the messages lg (Owed of the log), and
\* what it comes to when the message is known.
OwedIn(lg, y) ==
    LET k == CHOOSE j \in 1..Len(lg) :
                lg[j].first <= y /\ y < lg[j].first + lg[j].len
        own == PausedAt(lg[k], y - lg[k].first)
    IN  IF y = lg[k].first /\ lg[k].waited
        THEN own + PausedAt(lg[k - 1], lg[k - 1].len)
        ELSE own

OwedBy(lg, k, y) ==
    IF y = lg[k].first /\ lg[k].waited
    THEN PausedAt(lg[k], y - lg[k].first) + PausedAt(lg[k - 1], lg[k - 1].len)
    ELSE PausedAt(lg[k], y - lg[k].first)

LEMMA OwedFacts ==
    ASSUME NEW s \in Nat, NEW lg, LogOK(lg, s), NEW j \in 1..Len(lg), NEW y \in Nat,
           Carries(lg, j, y)
    PROVE  /\ OwedIn(lg, y) = OwedBy(lg, j, y)
           /\ OwedIn(lg, y) \in 0..MaxGap
<1> DEFINE In(i) == lg[i].first <= y /\ y < lg[i].first + lg[i].len
           k == CHOOSE i \in 1..Len(lg) : In(i)
<1>1. /\ Len(lg) \in Nat
      /\ \A i \in 1..Len(lg) :
            /\ lg[i] \in Records /\ lg[i].first \in Nat /\ lg[i].len \in Nat
            /\ lg[i].delays \in Requests /\ lg[i].waited \in BOOLEAN
            /\ Len(lg[i].delays) <= MaxDelays
  <2>1. lg \in Seq(Records) BY DEF LogOK
  <2>2. ASSUME NEW i \in 1..Len(lg)
        PROVE  /\ lg[i] \in Records /\ lg[i].first \in Nat /\ lg[i].len \in Nat
               /\ lg[i].delays \in Requests /\ lg[i].waited \in BOOLEAN
    <3>1. lg[i] \in Records BY <2>1
    <3> QED BY <3>1 DEF Records
  <2>3. ASSUME NEW i \in 1..Len(lg) PROVE Len(lg[i].delays) <= MaxDelays
    BY DEF LogOK, ValidDelays
  <2> QED BY <2>1, <2>2, <2>3
<1>2. k \in 1..Len(lg) /\ In(k)
  <2>1. In(j) BY DEF Carries
  <2> HIDE DEF In
  <2> QED BY <2>1
<1> HIDE DEF k
<1>3. k = j
  <2>1. /\ lg[k].first <= y /\ y < lg[k].first + lg[k].len
        /\ lg[j].first <= y /\ y < lg[j].first + lg[j].len
    BY <1>2 DEF Carries
  <2>2. /\ lg[k].first \in Nat /\ lg[k].len \in Nat
        /\ lg[j].first \in Nat /\ lg[j].len \in Nat
    BY <1>1, <1>2
  <2>3. /\ k < j => lg[k].first + lg[k].len <= lg[j].first
        /\ j < k => lg[j].first + lg[j].len <= lg[k].first
    BY <1>2 DEF LogOK
  <2>4. ~(k < j) BY <2>1, <2>2, <2>3
  <2>5. ~(j < k) BY <2>1, <2>2, <2>3
  <2>6. k \in Nat /\ j \in Nat BY <1>1, <1>2
  <2> QED BY <2>4, <2>5, <2>6
<1>4. OwedIn(lg, y) = OwedBy(lg, j, y)
  <2>1. OwedIn(lg, y) = OwedBy(lg, k, y) BY DEF OwedIn, OwedBy, k
  <2> QED BY <1>3, <2>1
<1>5. ASSUME NEW i \in 1..Len(lg), NEW at
      PROVE  PausedAt(lg[i], at) \in Nat /\ PausedAt(lg[i], at) <= MaxDelays * MaxPause
  BY <1>1, PausedBound
<1>6. lg[j].waited => j - 1 \in 1..Len(lg)
  <2>1. lg # << >> /\ (j = 1 => ~lg[j].waited) BY <1>1 DEF LogOK
  <2> QED BY <1>1, <2>1
<1>7. MaxDelays * MaxPause \in Nat /\ MaxGap = MaxDelays * MaxPause + MaxDelays * MaxPause
  <2>1. MaxDelays * MaxPause \in Nat BY InputAssumption
  <2>2. MaxGap = 2 * (MaxDelays * MaxPause) BY InputAssumption DEF MaxGap
  <2> QED BY <2>1, <2>2
<1>8. OwedBy(lg, j, y) \in 0..MaxGap
  <2>1. CASE y = lg[j].first /\ lg[j].waited
    <3> DEFINE own == PausedAt(lg[j], y - lg[j].first)
               rest == PausedAt(lg[j - 1], lg[j - 1].len)
    <3>1. own \in Nat /\ own <= MaxDelays * MaxPause BY <1>5
    <3>2. rest \in Nat /\ rest <= MaxDelays * MaxPause BY <1>5, <1>6, <2>1
    <3>3. OwedBy(lg, j, y) = own + rest BY <2>1 DEF OwedBy
    <3> HIDE DEF own, rest
    <3> QED BY <1>7, <3>1, <3>2, <3>3
  <2>2. CASE ~(y = lg[j].first /\ lg[j].waited)
    <3>1. PausedAt(lg[j], y - lg[j].first) \in 0..MaxGap BY <1>5, <1>7
    <3> QED BY <2>2, <3>1 DEF OwedBy
  <2> QED BY <2>1, <2>2
<1> QED BY <1>4, <1>8

\* A new message carries the bytes that follow, and owes nothing to those
\* before.
LEMMA LogGrows ==
    ASSUME NEW s \in Nat, NEW lg, LogOK(lg, s), NEW m \in Records,
           m.first = s + 1, ValidDelays(m.len, m.delays), m.waited => lg # << >>
    PROVE  /\ LogOK(Append(lg, m), s + m.len)
           /\ \A y \in 1..s : OwedIn(Append(lg, m), y) = OwedIn(lg, y)
           /\ Len(Append(lg, m)) = Len(lg) + 1 /\ Append(lg, m)[Len(lg) + 1] = m
           /\ \A j \in 1..Len(lg) : Append(lg, m)[j] = lg[j]
<1> DEFINE n == Len(lg)
           g == Append(lg, m)
<1>1. lg \in Seq(Records) /\ n \in Nat BY DEF LogOK
<1>2. /\ g \in Seq(Records) /\ Len(g) = n + 1 /\ g[n + 1] = m
      /\ \A j \in 1..n : g[j] = lg[j]
  BY <1>1, AppendProperties
<1>3. m.first \in Nat /\ m.len \in Nat BY DEF Records
<1>4. ASSUME NEW j \in 1..n PROVE lg[j].first \in Nat /\ lg[j].len \in Nat
  <2>1. lg[j] \in Records BY <1>1
  <2> QED BY <2>1 DEF Records
<1> HIDE DEF g
<1>5. \A j \in 1..Len(g) : /\ ValidDelays(g[j].len, g[j].delays)
                           /\ g[j].first + g[j].len <= (s + m.len) + 1
  <2>1. SUFFICES ASSUME NEW j \in 1..Len(g)
                 PROVE  /\ ValidDelays(g[j].len, g[j].delays)
                        /\ g[j].first + g[j].len <= (s + m.len) + 1
    OBVIOUS
  <2>2. CASE j = n + 1 BY <1>2, <1>3, <2>2
  <2>3. CASE j \in 1..n
    <3>1. ValidDelays(lg[j].len, lg[j].delays) /\ lg[j].first + lg[j].len <= s + 1
      BY <2>3 DEF LogOK
    <3>2. lg[j].first + lg[j].len \in Nat BY <1>4, <2>3
    <3> QED BY <1>2, <1>3, <2>3, <3>1, <3>2
  <2> QED BY <1>1, <1>2, <2>2, <2>3
<1>6. \A i, j \in 1..Len(g) : i < j => g[i].first + g[i].len <= g[j].first
  <2>1. SUFFICES ASSUME NEW i \in 1..Len(g), NEW j \in 1..Len(g), i < j
                 PROVE  g[i].first + g[i].len <= g[j].first
    OBVIOUS
  <2>2. i \in 1..n /\ g[i] = lg[i] BY <1>1, <1>2, <2>1
  <2>3. CASE j = n + 1 BY <1>2, <2>2, <2>3 DEF LogOK
  <2>4. CASE j \in 1..n BY <1>2, <2>1, <2>2, <2>4 DEF LogOK
  <2> QED BY <1>1, <1>2, <2>3, <2>4
<1>7. \A y \in 1..(s + m.len) : \E j \in 1..Len(g) : Carries(g, j, y)
  <2>1. SUFFICES ASSUME NEW y \in 1..(s + m.len)
                 PROVE  \E j \in 1..Len(g) : Carries(g, j, y)
    OBVIOUS
  <2>2. CASE y <= s
    <3>1. y \in 1..s BY <1>3, <2>2
    <3>2. PICK j \in 1..n : Carries(lg, j, y) BY <3>1 DEF LogOK
    <3>3. j \in 1..Len(g) /\ Carries(g, j, y) BY <1>1, <1>2, <3>2 DEF Carries
    <3> QED BY <3>3
  <2>3. CASE ~(y <= s)
    <3>1. n + 1 \in 1..Len(g) BY <1>1, <1>2
    <3>2. Carries(g, n + 1, y) BY <1>2, <1>3, <2>3 DEF Carries
    <3> QED BY <3>1, <3>2
  <2> QED BY <2>2, <2>3
<1>8. g # << >> => ~g[1].waited
  <2>1. CASE lg = << >>
    <3>1. n = 0 BY <2>1
    <3>2. g[1] = m BY <1>2, <3>1
    <3> QED BY <2>1, <3>2
  <2>2. CASE lg # << >>
    <3>1. 1 \in 1..n BY <1>1, <2>2
    <3>2. g[1] = lg[1] BY <1>2, <3>1
    <3> QED BY <2>2, <3>2 DEF LogOK
  <2> QED BY <2>1, <2>2
<1>9. LogOK(g, s + m.len) BY <1>2, <1>5, <1>6, <1>7, <1>8 DEF LogOK
<1>10. ASSUME NEW y \in 1..s PROVE OwedIn(g, y) = OwedIn(lg, y)
  <2>1. PICK j \in 1..n : Carries(lg, j, y) BY DEF LogOK
  <2>2. j \in 1..Len(g) /\ Carries(g, j, y) BY <1>1, <1>2, <2>1 DEF Carries
  <2>3. s + m.len \in Nat /\ y \in Nat BY <1>3
  <2>4. OwedIn(lg, y) = OwedBy(lg, j, y) BY <2>1, <2>3, OwedFacts
  <2>5. OwedIn(g, y) = OwedBy(g, j, y) BY <1>9, <2>2, <2>3, OwedFacts
  <2>6. g[j] = lg[j] BY <1>2, <2>1
  <2>7. lg[j].waited => g[j - 1] = lg[j - 1]
    <3>1. lg # << >> /\ (j = 1 => ~lg[j].waited) BY <1>1, <2>1 DEF LogOK
    <3>2. lg[j].waited => j - 1 \in 1..n BY <1>1, <3>1
    <3> QED BY <1>2, <3>2
  <2> QED BY <2>4, <2>5, <2>6, <2>7 DEF OwedBy
<1> QED BY <1>2, <1>9, <1>10 DEF g

\* Nothing is owed inside a range.
Inside(lg, c) == \A y \in (c.from + 2)..c.to : OwedIn(lg, y) = 0

\* A chunk is taken when `before` ticks and its pause are sure to have passed
\* since the last byte; `after` are sure once it is written.
Passes(lg, c, before, after) ==
    IF c.from < c.to
    THEN /\ after = 0
         /\ OwedIn(lg, c.from + 1) <= before + c.wait
         /\ Inside(lg, c)
    ELSE after <= before + c.wait

\* sure[j] ticks are sure to have passed since the last byte when j chunks
\* of the queue q have been taken.
Sure(lg, q, sure) ==
    /\ sure \in [0..Len(q) -> Nat]
    /\ \A j \in 1..Len(q) : Passes(lg, q[j], sure[j - 1], sure[j])
    /\ q # << >> => PausedAt(lg[Len(lg)], lg[Len(lg)].len) <= sure[Len(q)]

\* They have passed now, and when the timer expires the head's pause, too.
Passed(sure) ==
    /\ AtMost(MaxGap, sure[0]) <= gap
    /\ pc = "write" => sure[0] = 0
    /\ due # Idle => AtMost(MaxGap, sure[0] + queue[1].wait) <= gap + due

\* What is owed before a byte has passed when it is written.
PauseInv ==
    /\ LogOK(log, sent)
    /\ log = << >> => queue = << >>
    /\ pc = "write" => OwedIn(log, writing.from + 1) <= gap /\ Inside(log, writing)
    /\ \E sure \in [0..Len(queue) -> Nat] : Sure(log, queue, sure) /\ Passed(sure)

\* A number cut to the cap.
LEMMA CutTo ==
    ASSUME NEW n \in Nat
    PROVE  /\ MaxGap \in Nat
           /\ AtMost(MaxGap, n) = IF n <= MaxGap THEN n ELSE MaxGap
<1>1. MaxGap \in Nat
  <2>1. MaxDelays * MaxPause \in Nat BY InputAssumption
  <2>2. MaxGap = 2 * (MaxDelays * MaxPause) BY InputAssumption DEF MaxGap
  <2> QED BY <2>1, <2>2
<1> QED BY <1>1 DEF AtMost

\* The chunks of the queue, with their pauses, within the bytes received.
LEMMA ChunkFacts ==
    ASSUME QueueTypeOK, OrderInv, pc # "exited", NEW j \in 1..Len(queue)
    PROVE  /\ queue[j].wait \in Nat /\ queue[j].from \in Nat /\ queue[j].to \in Nat
           /\ queue[j].from <= queue[j].to /\ queue[j].to <= sent
<1>1. queue \in Seq(Chunks) BY DEF QueueTypeOK
<1>2. queue[j] \in Chunks BY <1>1
<1>3. queue[j].wait \in Nat /\ queue[j].from \in Nat /\ queue[j].to \in Nat
  BY <1>2, InputAssumption DEF Chunks
<1>4. Chained(queue, Frontier, sent) BY DEF OrderInv
<1> QED BY <1>3, <1>4 DEF Chained

\* The elements of two sequences joined.
LEMMA JoinFacts ==
    ASSUME NEW S, NEW a \in Seq(S), NEW b \in Seq(S)
    PROVE  /\ a \o b \in Seq(S) /\ Len(a \o b) = Len(a) + Len(b)
           /\ \A j \in 1..Len(a) : (a \o b)[j] = a[j]
           /\ \A i \in 1..Len(b) : (a \o b)[Len(a) + i] = b[i]
<1>1. /\ a \o b \in Seq(S)
      /\ Len(a \o b) = Len(a) + Len(b)
      /\ \A i \in 1..(Len(a) + Len(b)) :
            (a \o b)[i] = IF i <= Len(a) THEN a[i] ELSE b[i - Len(a)]
  BY ConcatProperties
<1>2. Len(a) \in Nat /\ Len(b) \in Nat OBVIOUS
<1>3. ASSUME NEW j \in 1..Len(a) PROVE (a \o b)[j] = a[j]
  <2>1. j \in 1..(Len(a) + Len(b)) /\ j <= Len(a) BY <1>2
  <2> QED BY <1>1, <2>1
<1>4. ASSUME NEW i \in 1..Len(b) PROVE (a \o b)[Len(a) + i] = b[i]
  <2>1. /\ Len(a) + i \in 1..(Len(a) + Len(b)) /\ ~(Len(a) + i <= Len(a))
        /\ (Len(a) + i) - Len(a) = i
    BY <1>2
  <2> QED BY <1>1, <2>1
<1> QED BY <1>1, <1>3, <1>4

LEMMA InnerOffset ==
    ASSUME NEW s \in Nat, NEW len \in Nat, NEW a \in Nat, NEW b \in Nat, b <= len,
           NEW y \in (s + a + 2)..(s + b)
    PROVE  LET o == y - s - 1
           IN  /\ o \in Nat /\ o > a /\ o < b /\ o < len /\ o # 0
               /\ (s + o) + 1 = y
OBVIOUS

\* A message is appended to the queue.
LEMMA InputSure ==
    ASSUME QueueTypeOK, OrderInv, LogOK(log, sent), pc = "select",
           NEW m \in Records, m.first = sent + 1, ValidDelays(m.len, m.delays),
           m.waited <=> queue # << >>, log = << >> => queue = << >>,
           NEW base, Sure(log, queue, base), queue = << >> => base[0] = 0
    PROVE  \E sure \in [0..Len(queue \o Split(m.len, m.delays)) -> Nat] :
              /\ Sure(Append(log, m), queue \o Split(m.len, m.delays), sure)
              /\ sure[0] = base[0]
<1> DEFINE s == Split(m.len, m.delays)
           n == Len(m.delays)
           q == Len(queue)
           new == Append(log, m)
           e == base[q]
           r == SureOf(m, e)
           sure == [j \in 0..(q + (n + 1)) |-> IF j <= q THEN base[j] ELSE r[j - q]]
           cut(i) == Cut(m.len, m.delays, i)
<1>1. /\ m.len \in Nat /\ m.delays \in Requests /\ m.waited \in BOOLEAN
      /\ sent \in Nat /\ n \in Nat /\ q \in Nat /\ queue \in Seq(Chunks)
  <2>1. m.len \in Nat /\ m.delays \in Requests /\ m.waited \in BOOLEAN BY DEF Records
  <2> QED BY <2>1, RequestsAreSequences DEF QueueTypeOK
<1>2. /\ LogOK(new, sent + m.len)
      /\ \A y \in 1..sent : OwedIn(new, y) = OwedIn(log, y)
      /\ Len(new) = Len(log) + 1 /\ new[Len(log) + 1] = m
      /\ \A j \in 1..Len(log) : new[j] = log[j]
  BY <1>1, LogGrows
<1>3. s \in Seq(Chunks) /\ Len(s) = n + 1
  <2>1. 1 \in 1..(n + 1) BY <1>1
  <2> QED BY <1>1, <2>1, SplitIsChain, SplitIs
<1>4. /\ queue \o s \in Seq(Chunks) /\ Len(queue \o s) = q + (n + 1)
      /\ \A j \in 1..q : (queue \o s)[j] = queue[j]
      /\ \A i \in 1..(n + 1) : (queue \o s)[q + i] = s[i]
  <2> HIDE DEF s, n
  <2>1. /\ queue \o s \in Seq(Chunks) /\ Len(queue \o s) = Len(queue) + Len(s)
        /\ \A j \in 1..Len(queue) : (queue \o s)[j] = queue[j]
        /\ \A i \in 1..Len(s) : (queue \o s)[Len(queue) + i] = s[i]
    <3>1. queue \in Seq(Chunks) BY <1>1
    <3>2. s \in Seq(Chunks) BY <1>3
    <3> QED BY <3>1, <3>2, JoinFacts
  <2> QED BY <1>3, <2>1
<1>5. e \in Nat /\ base \in [0..q -> Nat] BY <1>1 DEF Sure
<1>6. ASSUME NEW i \in 1..(n + 1)
      PROVE  /\ r \in [0..(n + 1) -> Nat] /\ r[0] = e
             /\ SureAt(m, e, i) <= r[i - 1] + WaitBefore(m.delays, i)
             /\ SureAt(m, e, i) \in Nat
             /\ r[i] = IF cut(i - 1) < cut(i) THEN 0 ELSE SureAt(m, e, i)
  BY <1>1, <1>5, SureAdds
<1>7. r \in [0..(n + 1) -> Nat] /\ r[0] = e
  <2>1. 1 \in 1..(n + 1) BY <1>1
  <2> HIDE DEF r
  <2> QED BY <1>6, <2>1
<1> HIDE DEF s, r, new, e
<1>8. sure \in [0..(q + (n + 1)) -> Nat]
  <2>1. ASSUME NEW j \in 0..(q + (n + 1)) PROVE sure[j] \in Nat
    <3>1. CASE j <= q
      <4>1. j \in 0..q BY <1>1, <3>1
      <4> QED BY <1>5, <3>1, <4>1
    <3>2. CASE ~(j <= q)
      <4>1. j - q \in 0..(n + 1) BY <1>1, <3>2
      <4> QED BY <1>7, <3>2, <4>1
    <3> QED BY <3>1, <3>2
  <2> QED BY <2>1
<1>9. \A j \in 0..q : sure[j] = base[j]
  <2>1. SUFFICES ASSUME NEW j \in 0..q PROVE sure[j] = base[j] OBVIOUS
  <2>2. j <= q /\ j \in 0..(q + (n + 1)) BY <1>1
  <2> QED BY <2>2
<1>10. \A i \in 0..(n + 1) : sure[q + i] = r[i]
  <2>1. SUFFICES ASSUME NEW i \in 0..(n + 1) PROVE sure[q + i] = r[i] OBVIOUS
  <2>2. q + i \in 0..(q + (n + 1)) /\ (q + i) - q = i /\ q \in 0..q BY <1>1
  <2>3. CASE i = 0
    <3>1. q + i = q BY <1>1, <2>3
    <3>2. sure[q] = e BY <1>9, <2>2 DEF e
    <3> QED BY <1>7, <2>3, <3>1, <3>2
  <2>4. CASE i # 0
    <3>1. ~(q + i <= q) BY <1>1, <2>4
    <3> QED BY <2>2, <3>1
  <2> QED BY <2>3, <2>4
<1> HIDE DEF sure
<1>11. ASSUME NEW j \in 1..q PROVE Passes(new, queue[j], sure[j - 1], sure[j])
  <2>1. j \in 0..q /\ j - 1 \in 0..q BY <1>1
  <2>2. Passes(log, queue[j], base[j - 1], base[j]) BY DEF Sure
  <2>3. Passes(log, queue[j], sure[j - 1], sure[j]) BY <1>9, <2>1, <2>2
  <2>4. /\ queue[j].from \in Nat /\ queue[j].to \in Nat
        /\ queue[j].from <= queue[j].to /\ queue[j].to <= sent
    BY ChunkFacts
  <2>5. CASE queue[j].from < queue[j].to
    <3>1. queue[j].from + 1 \in 1..sent BY <1>1, <2>4, <2>5
    <3>2. \A y \in (queue[j].from + 2)..queue[j].to : y \in 1..sent BY <1>1, <2>4
    <3> QED BY <1>2, <2>3, <2>5, <3>1, <3>2 DEF Passes, Inside
  <2>6. CASE ~(queue[j].from < queue[j].to) BY <2>3, <2>6 DEF Passes
  <2> QED BY <2>5, <2>6
<1>12. ASSUME NEW i \in 1..(n + 1) PROVE Passes(new, s[i], sure[q + (i - 1)], sure[q + i])
  <2>1. i \in 0..(n + 1) /\ i - 1 \in 0..(n + 1) BY <1>1
  <2>2. sure[q + (i - 1)] = r[i - 1] /\ sure[q + i] = r[i] BY <1>10, <2>1
  <2>3. /\ s[i].wait = WaitBefore(m.delays, i)
        /\ s[i].from = sent + cut(i - 1) /\ s[i].to = sent + cut(i)
    BY <1>1, SplitIs DEF s
  <2>4. cut(i - 1) \in Nat /\ cut(i) \in Nat /\ cut(i) <= m.len BY <1>1, CutFacts
  <2>5. CASE cut(i - 1) < cut(i)
    <3>1. r[i] = 0 /\ SureAt(m, e, i) <= r[i - 1] + s[i].wait BY <1>6, <2>3, <2>5
    <3>2. /\ SureAt(m, e, i) = PausedAt(m, cut(i - 1)) + (IF cut(i - 1) = 0 THEN e ELSE 0)
          /\ \A o \in Nat : o > cut(i - 1) /\ o < cut(i) => PausedAt(m, o) = 0
      BY <1>1, <1>5, <2>5, SureSuffices
    <3>3. ASSUME NEW o \in Nat, o < m.len
          PROVE  OwedIn(new, (sent + o) + 1)
                   = IF o = 0 /\ m.waited
                     THEN PausedAt(m, o) + PausedAt(log[Len(log)], log[Len(log)].len)
                     ELSE PausedAt(m, o)
      <4> DEFINE y == (sent + o) + 1
                 k == Len(log) + 1
      <4>1. Len(log) \in Nat BY DEF LogOK
      <4>2. k \in 1..Len(new) /\ new[k] = m /\ k - 1 = Len(log) BY <1>2, <4>1
      <4>3. y \in Nat /\ Carries(new, k, y) BY <1>1, <3>3, <4>2 DEF Carries
      <4>4. OwedIn(new, y) = OwedBy(new, k, y)
        <5>1. sent + m.len \in Nat BY <1>1
        <5>2. k \in 1..Len(new) BY <4>2
        <5> HIDE DEF k, y
        <5> QED BY <1>2, <4>3, <5>1, <5>2, OwedFacts
      <4>5. y - m.first = o /\ (y = m.first <=> o = 0) BY <1>1
      <4>6. m.waited => new[k - 1] = log[Len(log)]
        <5>1. m.waited => Len(log) \in 1..Len(log)
          <6>1. m.waited => log # << >> OBVIOUS
          <6>2. log \in Seq(Records) BY DEF LogOK
          <6> QED BY <4>1, <6>1, <6>2
        <5> QED BY <1>2, <4>2, <5>1
      <4> HIDE DEF y, k
      <4>7. OwedBy(new, k, y) = IF o = 0 /\ m.waited
                     THEN PausedAt(m, o) + PausedAt(log[Len(log)], log[Len(log)].len)
                     ELSE PausedAt(m, o)
        BY <4>2, <4>5, <4>6 DEF OwedBy
      <4> QED BY <4>4, <4>7 DEF y
    <3>4. m.waited => PausedAt(log[Len(log)], log[Len(log)].len) <= e
      BY DEF Sure, e
    <3>5. OwedIn(new, s[i].from + 1) <= SureAt(m, e, i)
      <4>1. cut(i - 1) < m.len BY <1>1, <2>4, <2>5
      <4>2. OwedIn(new, (sent + cut(i - 1)) + 1)
              = IF cut(i - 1) = 0 /\ m.waited
                THEN PausedAt(m, cut(i - 1)) + PausedAt(log[Len(log)], log[Len(log)].len)
                ELSE PausedAt(m, cut(i - 1))
        BY <2>4, <3>3, <4>1
      <4>3. PausedAt(m, cut(i - 1)) \in Nat
        <5>1. Len(m.delays) <= MaxDelays BY DEF ValidDelays
        <5> QED BY <1>1, <5>1, PausedBound
      <4>4. m.waited => PausedAt(log[Len(log)], log[Len(log)].len) \in Nat
        <5>1. ASSUME m.waited PROVE PausedAt(log[Len(log)], log[Len(log)].len) \in Nat
          <6>1. log # << >> /\ log \in Seq(Records) BY <5>1 DEF LogOK
          <6>2. Len(log) \in 1..Len(log) BY <6>1
          <6>3. log[Len(log)] \in Records BY <6>1, <6>2
          <6>4. log[Len(log)].delays \in Requests BY <6>3 DEF Records
          <6>5. Len(log[Len(log)].delays) <= MaxDelays BY <6>2 DEF LogOK, ValidDelays
          <6> QED BY <6>4, <6>5, PausedBound
        <5> QED BY <5>1
      <4> HIDE DEF cut
      <4> QED BY <1>5, <2>3, <3>2, <3>4, <4>2, <4>3, <4>4 DEF e
    <3>6. Inside(new, s[i])
      <4>1. SUFFICES ASSUME NEW y \in (s[i].from + 2)..s[i].to
                     PROVE  OwedIn(new, y) = 0
        BY DEF Inside
      <4> DEFINE o == y - sent - 1
      <4>2. o \in Nat /\ o > cut(i - 1) /\ o < cut(i) /\ o < m.len /\ (sent + o) + 1 = y /\ o # 0
        <5>1. PICK a \in Nat, b \in Nat : a = cut(i - 1) /\ b = cut(i) BY <2>4
        <5>2. y \in (sent + a + 2)..(sent + b) /\ b <= m.len BY <2>3, <2>4, <5>1
        <5>3. sent \in Nat /\ m.len \in Nat BY <1>1
        <5>4. o \in Nat /\ o > a /\ o < b /\ o < m.len /\ (sent + o) + 1 = y /\ o # 0
          BY <5>2, <5>3, InnerOffset
        <5> QED BY <5>1, <5>4
      <4>3. PausedAt(m, o) = 0 BY <3>2, <4>2
      <4> HIDE DEF o
      <4> QED BY <3>3, <4>2, <4>3
    <3>7. OwedIn(new, s[i].from + 1) \in Nat
      <4>1. Len(log) \in Nat BY DEF LogOK
      <4>2. sent + m.len \in Nat BY <1>1
      <4>3. s[i].from + 1 \in 1..(sent + m.len) BY <1>1, <2>3, <2>4, <2>5
      <4>4. PICK k \in 1..Len(new) : Carries(new, k, s[i].from + 1) BY <1>2, <4>3 DEF LogOK
      <4>5. OwedIn(new, s[i].from + 1) \in 0..MaxGap
        <5>1. PICK y \in Nat : y = s[i].from + 1 BY <4>2, <4>3
        <5>2. LogOK(new, sent + m.len) /\ Carries(new, k, y) BY <1>2, <4>4, <5>1
        <5> QED BY <4>2, <5>1, <5>2, OwedFacts
      <4> QED BY <4>5, CutTo
    <3>8. r[i - 1] \in Nat /\ s[i].wait \in Nat /\ SureAt(m, e, i) \in Nat
      <4>1. s[i] \in Chunks BY <1>3
      <4>2. s[i].wait \in Nat BY <4>1, InputAssumption DEF Chunks
      <4>3. r[i - 1] \in Nat BY <1>7, <2>1
      <4>4. SureAt(m, e, i) \in Nat BY <1>6
      <4> QED BY <4>2, <4>3, <4>4
    <3>9. OwedIn(new, s[i].from + 1) <= r[i - 1] + s[i].wait BY <3>1, <3>5, <3>7, <3>8
    <3>10. s[i].from < s[i].to
      <4> HIDE DEF cut
      <4> QED BY <1>1, <2>3, <2>4, <2>5
    <3> QED BY <2>2, <3>1, <3>6, <3>9, <3>10 DEF Passes
  <2>6. CASE ~(cut(i - 1) < cut(i))
    <3>1. r[i] = SureAt(m, e, i) /\ SureAt(m, e, i) <= r[i - 1] + s[i].wait BY <1>6, <2>3, <2>6
    <3>2. ~(s[i].from < s[i].to)
      <4> HIDE DEF cut
      <4> QED BY <1>1, <2>3, <2>4, <2>6
    <3> QED BY <2>2, <3>1, <3>2 DEF Passes
  <2> QED BY <2>5, <2>6
<1>13. ASSUME NEW j \in 1..(q + (n + 1))
       PROVE  Passes(new, (queue \o s)[j], sure[j - 1], sure[j])
  <2>1. CASE j <= q
    <3>1. j \in 1..q BY <1>1, <2>1
    <3> QED BY <1>4, <1>11, <3>1
  <2>2. CASE ~(j <= q)
    <3>1. PICK i \in 1..(n + 1) : j = q + i
      <4>1. j - q \in 1..(n + 1) /\ j = q + (j - q) BY <1>1, <2>2
      <4> QED BY <4>1
    <3>2. j - 1 = q + (i - 1) BY <1>1, <3>1
    <3>3. (queue \o s)[j] = s[i] BY <1>4, <3>1
    <3> QED BY <1>12, <3>1, <3>2, <3>3
  <2> QED BY <2>1, <2>2
<1>14. PausedAt(new[Len(new)], new[Len(new)].len) <= sure[Len(queue \o s)]
  <2>1. new[Len(new)] = m BY <1>2
  <2>2. n + 1 \in 0..(n + 1) BY <1>1
  <2>3. sure[q + (n + 1)] = r[n + 1] BY <1>10, <2>2
  <2>4. PausedAt(m, m.len) <= r[n + 1] BY <1>1, <1>5, SureAtEnd DEF r
  <2> QED BY <1>4, <2>1, <2>3, <2>4
<1>15. Sure(new, queue \o s, sure) BY <1>4, <1>8, <1>13, <1>14 DEF Sure
<1>16. sure[0] = base[0]
  <2>1. 0 \in 0..q BY <1>1
  <2> QED BY <1>9, <2>1
<1> QED BY <1>4, <1>8, <1>15, <1>16 DEF s, new

LEMMA InputPauses ==
    ASSUME QueueTypeOK, TimerInv, OrderInv, PauseInv,
           NEW len \in 0..MaxLen, NEW delays \in Requests, Input(len, delays)
    PROVE  PauseInv'
<1> DEFINE m == [first |-> sent + 1, len |-> len, delays |-> delays,
                 waited |-> queue # << >>]
<1>1. /\ pc = "select" /\ pc' = "pump"
      /\ ValidDelays(len, delays)
      /\ queue' = queue \o Split(len, delays)
      /\ sent' = sent + len
      /\ log' = Append(log, m)
      /\ gap' = IF queue = << >> THEN 0 ELSE gap
      /\ UNCHANGED <<due, writing, stream>>
  BY DEF Input, Pumps
<1>2. sent \in Nat /\ len \in Nat /\ queue \in Seq(Chunks) /\ gap \in Nat
  BY InputAssumption DEF QueueTypeOK
<1>3. /\ m \in Records /\ m.first = sent + 1 /\ m.len = len /\ m.delays = delays
      /\ (m.waited <=> queue # << >>)
  <2>1. m.first = sent + 1 /\ m.len = len /\ m.delays = delays /\ m.waited = (queue # << >>)
    OBVIOUS
  <2>2. (queue # << >>) \in BOOLEAN OBVIOUS
  <2>3. m \in Records BY <1>2, <2>2 DEF Records
  <2> QED BY <2>1, <2>3
<1> HIDE DEF m
<1>4. LogOK(log, sent) /\ (log = << >> => queue = << >>) BY DEF PauseInv
<1>5. PICK old \in [0..Len(queue) -> Nat] : Sure(log, queue, old) /\ Passed(old)
  BY DEF PauseInv
<1>6. \E base : /\ Sure(log, queue, base)
                /\ queue = << >> => base[0] = 0
                /\ queue # << >> => base = old
  <2>1. CASE queue = << >>
    <3> DEFINE none == [j \in 0..0 |-> 0]
    <3>1. none \in [0..Len(queue) -> Nat] /\ none[0] = 0 BY <2>1
    <3>2. Sure(log, queue, none) BY <2>1, <3>1 DEF Sure
    <3> QED BY <2>1, <3>1, <3>2
  <2>2. CASE queue # << >> BY <1>5, <2>2
  <2> QED BY <2>1, <2>2
<1>7. PICK base : /\ Sure(log, queue, base)
                  /\ queue = << >> => base[0] = 0
                  /\ queue # << >> => base = old
  BY <1>6
<1>8. PICK sure \in [0..Len(queue') -> Nat] :
          Sure(log', queue', sure) /\ sure[0] = base[0]
  <2>1. ValidDelays(m.len, m.delays) BY <1>1, <1>3
  <2>2. \E sure \in [0..Len(queue \o Split(m.len, m.delays)) -> Nat] :
            /\ Sure(Append(log, m), queue \o Split(m.len, m.delays), sure)
            /\ sure[0] = base[0]
    BY <1>1, <1>3, <1>4, <1>7, <2>1, InputSure
  <2>3. queue' = queue \o Split(m.len, m.delays) BY <1>1, <1>3
  <2> QED BY <1>1, <2>2, <2>3
<1>9. LogOK(log', sent')
  <2>1. m.waited => log # << >> BY <1>3, <1>4
  <2>2. ValidDelays(m.len, m.delays) BY <1>1, <1>3
  <2>3. LogOK(Append(log, m), sent + m.len) BY <1>2, <1>3, <1>4, <2>1, <2>2, LogGrows
  <2> QED BY <1>1, <1>3, <2>3
<1>10. log' # << >>
  <2>1. log \in Seq(Records) BY <1>4 DEF LogOK
  <2> QED BY <1>1, <1>3, <2>1
<1>11. Passed(sure)'
  <2>1. CASE queue = << >>
    <3>1. due = Idle BY <1>1, <2>1 DEF TimerInv
    <3>2. sure[0] = 0 /\ gap' = 0 BY <1>1, <1>7, <1>8, <2>1
    <3>3. AtMost(MaxGap, 0) = 0 BY CutTo
    <3> QED BY <1>1, <3>1, <3>2, <3>3 DEF Passed
  <2>2. CASE queue # << >>
    <3>1. sure[0] = old[0] /\ gap' = gap /\ due' = due BY <1>1, <1>7, <1>8, <2>2
    <3>2. queue'[1] = queue[1]
      <4>1. Split(len, delays) \in Seq(Chunks) BY <1>1, <1>2, SplitIsChain
      <4>2. \A j \in 1..Len(queue) : (queue \o Split(len, delays))[j] = queue[j]
        BY <1>2, <4>1, JoinFacts
      <4>3. 1 \in 1..Len(queue) BY <1>2, <2>2
      <4> QED BY <1>1, <4>2, <4>3
    <3>3. Passed(old) BY <1>5
    <3> QED BY <1>1, <3>1, <3>2, <3>3 DEF Passed
  <2> QED BY <2>1, <2>2
<1> QED BY <1>1, <1>8, <1>9, <1>10, <1>11 DEF PauseInv

\* The head is taken from the queue.
LEMMA PopPauses ==
    ASSUME QueueTypeOK, OrderInv, PauseInv, Pop
    PROVE  PauseInv'
<1> DEFINE c == queue[1]
           n == Len(queue) - 1
<1>1. /\ pc = "pump" /\ queue # << >> /\ Remaining = 0
      /\ queue' = Tail(queue) /\ due' = Idle
      /\ UNCHANGED <<sent, stream, log, gap>>
  BY DEF Pop, Disarmed
<1>2. /\ queue \in Seq(Chunks) /\ Len(queue) \in Nat /\ n \in Nat /\ gap \in Nat
      /\ sent \in Nat /\ 1 \in 1..Len(queue) /\ Head(queue) = c
      /\ due \in Nat \cup {Idle}
  BY <1>1 DEF QueueTypeOK
<1>3. /\ c.wait \in Nat /\ c.from \in Nat /\ c.to \in Nat
      /\ c.from <= c.to /\ c.to <= sent
  BY <1>1, <1>2, ChunkFacts
<1>4. /\ Len(queue') = n
      /\ \A j \in 1..n : queue'[j] = queue[j + 1]
  BY <1>1, <1>2, HeadTailProperties
<1>5. PICK sure \in [0..Len(queue) -> Nat] : Sure(log, queue, sure) /\ Passed(sure)
  BY DEF PauseInv
<1>6. sure[0] \in Nat /\ sure[1] \in Nat BY <1>2
<1>7. Passes(log, c, sure[0], sure[1])
  <2>1. 1 - 1 = 0 OBVIOUS
  <2> QED BY <1>2, <1>5, <2>1 DEF Sure
<1>8. AtMost(MaxGap, sure[0] + c.wait) <= gap
  <2>1. CASE due = Idle
    <3>1. c.wait = 0 BY <1>1, <1>2, <2>1 DEF Remaining
    <3>2. sure[0] + c.wait = sure[0] BY <1>6, <3>1
    <3> QED BY <1>5, <3>2 DEF Passed
  <2>2. CASE due # Idle
    <3>1. due = 0 BY <1>1, <2>2 DEF Remaining
    <3>2. AtMost(MaxGap, sure[0] + c.wait) <= gap + 0 BY <1>5, <2>2, <3>1 DEF Passed
    <3> QED BY <1>2, <3>2
  <2> QED BY <2>1, <2>2
<1> DEFINE rest == [j \in 0..n |-> sure[j + 1]]
<1>9. rest \in [0..n -> Nat] /\ rest[0] = sure[1] /\ rest[n] = sure[Len(queue)]
  <2>1. \A j \in 0..n : j + 1 \in 0..Len(queue) BY <1>2
  <2>2. 0 \in 0..n /\ n \in 0..n /\ n + 1 = Len(queue) BY <1>2
  <2> QED BY <2>1, <2>2
<1>10. Sure(log', queue', rest)
  <2>1. ASSUME NEW j \in 1..n PROVE Passes(log, queue'[j], rest[j - 1], rest[j])
    <3>1. j + 1 \in 1..Len(queue) /\ (j + 1) - 1 = j /\ j \in 0..n /\ j - 1 \in 0..n
          /\ (j - 1) + 1 = j
      BY <1>2
    <3>2. rest[j - 1] = sure[j] /\ rest[j] = sure[j + 1] BY <3>1
    <3>3. Passes(log, queue[j + 1], sure[(j + 1) - 1], sure[j + 1]) BY <1>5, <3>1 DEF Sure
    <3> HIDE DEF rest
    <3> QED BY <1>4, <3>1, <3>2, <3>3
  <2>2. PausedAt(log[Len(log)], log[Len(log)].len) <= sure[Len(queue)] BY <1>1, <1>5 DEF Sure
  <2> HIDE DEF rest, n
  <2> QED BY <1>1, <1>4, <1>9, <2>1, <2>2 DEF Sure
<1> HIDE DEF rest
<1>11. PICK left \in [0..Len(queue') -> Nat] :
           Sure(log', queue', left) /\ left[0] = sure[1]
  BY <1>4, <1>9, <1>10
<1>12. CASE c.from < c.to
  <2>1. pc' = "write" /\ writing' = [from |-> c.from, to |-> c.to]
    BY <1>1, <1>2, <1>12 DEF Pop
  <2>2. writing'.from = c.from /\ writing'.to = c.to BY <2>1
  <2>3. /\ sure[1] = 0 /\ OwedIn(log, c.from + 1) <= sure[0] + c.wait /\ Inside(log, c)
    BY <1>7, <1>12 DEF Passes
  <2>4. OwedIn(log, c.from + 1) <= gap
    <3>1. c.from + 1 \in 1..sent /\ c.from + 1 \in Nat BY <1>2, <1>3, <1>12
    <3>2. LogOK(log, sent) BY DEF PauseInv
    <3>3. PICK j \in 1..Len(log) : Carries(log, j, c.from + 1) BY <3>1, <3>2 DEF LogOK
    <3>4. OwedIn(log, c.from + 1) \in 0..MaxGap BY <1>2, <3>1, <3>2, <3>3, OwedFacts
    <3>5. sure[0] + c.wait \in Nat BY <1>3, <1>6
    <3>6. /\ MaxGap \in Nat
          /\ AtMost(MaxGap, sure[0] + c.wait)
               = IF sure[0] + c.wait <= MaxGap THEN sure[0] + c.wait ELSE MaxGap
      BY <3>5, CutTo
    <3> HIDE DEF c
    <3> QED BY <1>2, <1>8, <2>3, <3>4, <3>5, <3>6
  <2>5. Passed(left)'
    <3>1. AtMost(MaxGap, 0) = 0 BY CutTo
    <3> QED BY <1>1, <1>2, <1>11, <2>3, <3>1 DEF Passed
  <2>6. Inside(log', writing') BY <1>1, <2>2, <2>3 DEF Inside
  <2>7. OwedIn(log', writing'.from + 1) <= gap' BY <1>1, <2>2, <2>4
  <2>8. LogOK(log', sent') /\ log' # << >> BY <1>1 DEF PauseInv
  <2> QED BY <1>11, <2>1, <2>5, <2>6, <2>7, <2>8 DEF PauseInv
<1>13. CASE ~(c.from < c.to)
  <2>1. pc' = "pump" BY <1>1, <1>2, <1>13 DEF Pop
  <2>2. sure[1] <= sure[0] + c.wait BY <1>7, <1>13 DEF Passes
  <2>3. AtMost(MaxGap, sure[1]) <= gap
    <3>1. sure[0] + c.wait \in Nat BY <1>3, <1>6
    <3>2. /\ MaxGap \in Nat
          /\ AtMost(MaxGap, sure[0] + c.wait)
               = IF sure[0] + c.wait <= MaxGap THEN sure[0] + c.wait ELSE MaxGap
          /\ AtMost(MaxGap, sure[1]) = IF sure[1] <= MaxGap THEN sure[1] ELSE MaxGap
      BY <1>6, <3>1, CutTo
    <3> HIDE DEF c
    <3> QED BY <1>2, <1>6, <1>8, <2>2, <3>1, <3>2
  <2>4. Passed(left)' BY <1>1, <1>11, <2>1, <2>3 DEF Passed
  <2>5. LogOK(log', sent') /\ log' # << >> BY <1>1 DEF PauseInv
  <2> QED BY <1>11, <2>1, <2>4, <2>5 DEF PauseInv
<1> QED BY <1>12, <1>13

\* The timer is set for the head, or a tick passes.
LEMMA TimePauses ==
    ASSUME QueueTypeOK, TimerInv, OrderInv, PauseInv, PumpReturns \/ QueueTick
    PROVE  PauseInv'
<1>1. /\ UNCHANGED <<queue, writing, sent, log>>
      /\ pc # "exited" /\ (pc' = "write" => pc = "write")
  BY DEF PumpReturns, QueueTick
<1>2. gap \in Nat /\ due \in Nat \cup {Idle} /\ queue \in Seq(Chunks) BY DEF QueueTypeOK
<1>3. PICK sure \in [0..Len(queue) -> Nat] : Sure(log, queue, sure) /\ Passed(sure)
  BY DEF PauseInv
<1>4. sure[0] \in Nat
  <2>1. 0 \in 0..Len(queue) BY <1>2
  <2> QED BY <2>1
<1>5. MaxGap \in Nat BY CutTo
<1>6. CASE PumpReturns
  <2>1. gap' = gap /\ pc' = "select" BY <1>6 DEF PumpReturns
  <2>2. Passed(sure)'
    <3>1. CASE queue = << >>
      <4>1. due' = due BY <1>6, <3>1 DEF PumpReturns
      <4> QED BY <1>1, <1>3, <2>1, <4>1 DEF Passed
    <3>2. CASE queue # << >>
      <4>1. due' = Remaining BY <1>6, <3>2 DEF PumpReturns, Armed
      <4>2. CASE due # Idle
        <5>1. due' = due BY <4>1, <4>2 DEF Remaining
        <5> QED BY <1>1, <1>3, <2>1, <5>1 DEF Passed
      <4>3. CASE due = Idle
        <5>1. 1 \in 1..Len(queue) /\ Head(queue) = queue[1] BY <1>2, <3>2
        <5>2. queue[1].wait \in Nat BY <1>1, <5>1, ChunkFacts
        <5>3. due' = queue[1].wait BY <4>1, <4>3, <5>1 DEF Remaining
        <5>4. PICK w \in Nat : w = queue[1].wait BY <5>2
        <5>5. AtMost(MaxGap, sure[0]) <= gap BY <1>3 DEF Passed
        <5>6. /\ AtMost(MaxGap, sure[0]) = IF sure[0] <= MaxGap THEN sure[0] ELSE MaxGap
              /\ AtMost(MaxGap, sure[0] + w)
                   = IF sure[0] + w <= MaxGap THEN sure[0] + w ELSE MaxGap
          <6>1. sure[0] + w \in Nat BY <1>4
          <6> QED BY <1>4, <6>1, CutTo
        <5>7. AtMost(MaxGap, sure[0] + w) <= gap + w BY <1>2, <1>4, <1>5, <5>5, <5>6
        <5> QED BY <1>1, <2>1, <5>3, <5>4, <5>5, <5>7 DEF Passed
      <4> QED BY <4>2, <4>3
    <3> QED BY <3>1, <3>2
  <2> QED BY <1>1, <1>3, <2>1, <2>2 DEF PauseInv
<1>7. CASE QueueTick
  <2>1. /\ gap' = IF queue = << >> THEN gap ELSE AtMost(MaxGap, gap + 1)
        /\ due' = IF due # Idle /\ due > 0 THEN due - 1 ELSE due
        /\ pc' = pc
    BY <1>7 DEF QueueTick
  <2>2. gap' = IF queue = << >> THEN gap
               ELSE IF gap + 1 <= MaxGap THEN gap + 1 ELSE MaxGap
    <3>1. gap + 1 \in Nat BY <1>2
    <3> QED BY <2>1, <3>1, CutTo
  <2>3. ASSUME NEW k \in Nat, k <= MaxGap, NEW d \in Nat, k <= gap + d
        PROVE  k <= gap' + d /\ (queue # << >> /\ d > 0 => k <= gap' + (d - 1))
    BY <1>2, <1>5, <2>2, <2>3
  <2>4. ASSUME NEW k \in Nat
        PROVE  AtMost(MaxGap, k) \in Nat /\ AtMost(MaxGap, k) <= MaxGap
    BY <1>5, CutTo
  <2>5. gap' \in Nat BY <1>2, <1>5, <2>2
  <2>6. Passed(sure)'
    <3>1. AtMost(MaxGap, sure[0]) <= gap'
      <4>1. AtMost(MaxGap, sure[0]) <= gap + 0 BY <1>2, <1>3, <1>4, <2>4 DEF Passed
      <4>2. AtMost(MaxGap, sure[0]) <= gap' + 0 BY <1>4, <2>3, <2>4, <4>1
      <4> QED BY <1>4, <2>4, <2>5, <4>2
    <3>2. ASSUME due' # Idle PROVE AtMost(MaxGap, sure[0] + queue[1].wait) <= gap' + due'
      <4>1. due # Idle /\ due \in Nat BY <1>2, <2>1, <3>2, InputAssumption
      <4>2. AtMost(MaxGap, sure[0] + queue[1].wait) <= gap + due BY <1>3, <4>1 DEF Passed
      <4>3. sure[0] + queue[1].wait \in Nat
        <5>1. queue # << >> BY <4>1 DEF TimerInv
        <5>2. 1 \in 1..Len(queue) BY <1>2, <5>1
        <5> QED BY <1>1, <1>4, <5>2, ChunkFacts
      <4>4. queue # << >> BY <4>1 DEF TimerInv
      <4> QED BY <2>1, <2>3, <2>4, <4>1, <4>2, <4>3, <4>4
    <3> QED BY <1>1, <1>3, <2>1, <3>1, <3>2 DEF Passed
  <2>7. pc = "write" => OwedIn(log, writing.from + 1) <= gap'
    <3>1. SUFFICES ASSUME pc = "write" PROVE OwedIn(log, writing.from + 1) <= gap' OBVIOUS
    <3>2. /\ writing.from \in Nat /\ writing.to \in Nat /\ sent \in Nat
          /\ writing.from < writing.to /\ writing.to <= sent
      BY <3>1 DEF QueueTypeOK, Ranges, OrderInv
    <3>3. writing.from + 1 \in 1..sent /\ writing.from + 1 \in Nat BY <3>2
    <3>4. LogOK(log, sent) BY DEF PauseInv
    <3>5. PICK j \in 1..Len(log) : Carries(log, j, writing.from + 1) BY <3>3, <3>4 DEF LogOK
    <3>6. OwedIn(log, writing.from + 1) \in 0..MaxGap BY <3>2, <3>3, <3>4, <3>5, OwedFacts
    <3>7. OwedIn(log, writing.from + 1) <= gap BY <3>1 DEF PauseInv
    <3> QED BY <1>2, <1>5, <2>2, <3>6, <3>7
  <2> QED BY <1>1, <1>3, <2>1, <2>6, <2>7 DEF PauseInv
<1> QED BY <1>6, <1>7

\* A range has been written, or a part of it: the time since the last write
\* starts anew.
LEMMA WritePauses ==
    ASSUME QueueTypeOK, TimerInv, PauseInv, Write \/ \E n : WriteFails(n)
    PROVE  PauseInv'
<1>1. /\ pc = "write" /\ pc' # "write" /\ gap' = 0
      /\ UNCHANGED <<queue, due, writing, sent, log>>
  BY DEF Write, WriteFails, AfterFailure
<1>2. PICK sure \in [0..Len(queue) -> Nat] : Sure(log, queue, sure) /\ Passed(sure)
  BY DEF PauseInv
<1>3. due = Idle BY <1>1 DEF TimerInv
<1>4. AtMost(MaxGap, 0) = 0 BY CutTo
<1>5. Passed(sure)' BY <1>1, <1>2, <1>3, <1>4 DEF Passed
<1> QED BY <1>1, <1>2, <1>5 DEF PauseInv

LEMMA PauseStep ==
    ASSUME QueueTypeOK, TimerInv, OrderInv, PauseInv, [QueueNext]_queueVars
    PROVE  PauseInv'
<1>1. ASSUME NEW len \in 0..MaxLen, NEW delays \in Requests, Input(len, delays)
      PROVE  PauseInv'
  BY <1>1, InputPauses
<1>2. CASE PumpReturns \/ QueueTick BY <1>2, TimePauses
<1>3. CASE Pop BY <1>3, PopPauses
<1>4. CASE Write \/ \E n \in writing.from..(writing.to - 1) : WriteFails(n)
  BY <1>4, WritePauses
<1>5. CASE Exit \/ Wake \/ UNCHANGED queueVars
  <2>1. /\ UNCHANGED <<queue, due, writing, sent, log, gap>>
        /\ pc' = "write" => pc = "write"
    BY <1>5 DEF Exit, Wake, Pumps, queueVars
  <2>2. ASSUME NEW sure PROVE Passed(sure) => Passed(sure)' BY <2>1 DEF Passed
  <2> QED BY <2>1, <2>2 DEF PauseInv
<1> QED BY <1>1, <1>2, <1>3, <1>4, <1>5 DEF QueueNext

\* Every pause passes: no byte is written before the pauses asked for in
\* front of it have passed since the last write, whatever the timer does and
\* whichever writes fail.
THEOREM PausesPass == QueueSpec => PausesRespected
<1>1. QueueInit => PauseInv
  <2> SUFFICES ASSUME QueueInit PROVE PauseInv OBVIOUS
  <2>1. pc = "select" /\ queue = << >> /\ due = Idle /\ sent = 0 /\ log = << >> /\ gap = 0
    BY DEF QueueInit
  <2>2. LogOK(log, sent) BY <2>1 DEF LogOK
  <2> DEFINE none == [j \in 0..0 |-> 0]
  <2>3. none \in [0..Len(queue) -> Nat] /\ none[0] = 0 BY <2>1
  <2>4. Sure(log, queue, none) BY <2>1, <2>3 DEF Sure
  <2>5. Passed(none)
    <3>1. AtMost(MaxGap, 0) = 0 BY CutTo
    <3> QED BY <2>1, <2>3, <3>1 DEF Passed
  <2> QED BY <2>1, <2>2, <2>3, <2>4, <2>5 DEF PauseInv
<1>2. ASSUME QueueTypeOK, OrderInv, PauseInv, [QueueNext]_queueVars
      PROVE  [Len(stream') > Len(stream) =>
                 /\ gap >= Owed(stream'[Len(stream) + 1])
                 /\ \A i \in (Len(stream) + 2)..Len(stream') :
                       Owed(stream'[i]) = 0]_queueVars
  <2>1. \A y : Owed(y) = OwedIn(log, y) BY DEF Owed, OwedIn
  <2>2. Len(stream) \in Nat /\ gap \in Nat /\ stream \in Seq(Nat)
        /\ writing.from \in Nat /\ writing.to \in Nat /\ sent \in Nat
    BY <1>2 DEF QueueTypeOK, Ranges
  <2>3. ASSUME pc = "write", NEW n \in writing.from..writing.to,
               stream' = stream \o Run(writing.from, n)
        PROVE  Len(stream') > Len(stream) =>
                 /\ gap >= Owed(stream'[Len(stream) + 1])
                 /\ \A i \in (Len(stream) + 2)..Len(stream') : Owed(stream'[i]) = 0
    <3> DEFINE l == Len(stream)
               from == writing.from
    <3>1. n \in Nat /\ from <= n /\ n <= writing.to
      BY <2>2, <2>3
    <3>2. /\ Run(from, n) \in Seq(Nat) /\ Len(Run(from, n)) = n - from
          /\ \A i \in 1..(n - from) : Run(from, n)[i] = from + i
      BY <2>2, <3>1, RunType
    <3>3. /\ Len(stream') = l + (n - from)
          /\ \A i \in 1..(n - from) : stream'[l + i] = from + i
      <4> DEFINE run == Run(from, n)
      <4>1. run \in Seq(Nat) /\ Len(run) = n - from BY <3>2
      <4>2. stream' = stream \o run BY <2>3
      <4>3. \A i \in 1..(n - from) : run[i] = from + i BY <3>2
      <4> HIDE DEF run
      <4> DEFINE joined == stream \o run
      <4>4. /\ joined \in Seq(Nat) /\ Len(joined) = l + Len(run)
            /\ \A j \in 1..l : joined[j] = stream[j]
            /\ \A i \in 1..Len(run) : joined[l + i] = run[i]
        <5>1. stream \in Seq(Nat) BY <2>2
        <5>2. run \in Seq(Nat) BY <4>1
        <5> QED BY <5>1, <5>2, JoinFacts
      <4>5. stream' = joined BY <4>2
      <4> HIDE DEF joined, l
      <4> QED BY <4>1, <4>3, <4>4, <4>5
    <3>4. OwedIn(log, from + 1) <= gap /\ Inside(log, writing)
      BY <1>2, <2>3 DEF PauseInv
    <3>5. OwedIn(log, from + 1) \in Nat
      <4>1. from < writing.to /\ writing.to <= sent
        BY <1>2, <2>3 DEF OrderInv
      <4>2. from + 1 \in 1..sent /\ from + 1 \in Nat BY <2>2, <4>1
      <4>3. LogOK(log, sent) BY <1>2 DEF PauseInv
      <4>4. PICK j \in 1..Len(log) : Carries(log, j, from + 1) BY <4>2, <4>3 DEF LogOK
      <4>5. OwedIn(log, from + 1) \in 0..MaxGap BY <2>2, <4>2, <4>3, <4>4, OwedFacts
      <4> QED BY <4>5, CutTo
    <3>6. SUFFICES ASSUME Len(stream') > l
                   PROVE  /\ gap >= Owed(stream'[l + 1])
                          /\ \A i \in (l + 2)..Len(stream') : Owed(stream'[i]) = 0
      OBVIOUS
    <3>7. 1 \in 1..(n - from) BY <2>2, <3>1, <3>3, <3>6
    <3>8. gap >= Owed(stream'[l + 1]) BY <2>1, <2>2, <3>3, <3>4, <3>5, <3>7
    <3>9. ASSUME NEW i \in (l + 2)..Len(stream') PROVE Owed(stream'[i]) = 0
      <4>1. i - l \in 1..(n - from) /\ l + (i - l) = i BY <2>2, <3>1, <3>3
      <4>2. stream'[i] = from + (i - l) BY <3>3, <4>1
      <4>3. from + (i - l) \in (from + 2)..writing.to
        <5>1. i \in Nat /\ i >= l + 2 /\ i - l <= n - from BY <2>2, <3>9, <4>1
        <5> HIDE DEF l, from
        <5> QED BY <2>2, <3>1, <4>1, <5>1 DEF l, from
      <4> QED BY <2>1, <3>4, <4>2, <4>3 DEF Inside
    <3> QED BY <3>8, <3>9
  <2>4. CASE Write
    <3>1. /\ pc = "write" /\ stream' = stream \o Run(writing.from, writing.to)
          /\ writing.to \in writing.from..writing.to
      BY <1>2, <2>2, <2>4 DEF Write, OrderInv
    <3> QED BY <2>3, <3>1
  <2>5. ASSUME NEW n \in writing.from..(writing.to - 1), WriteFails(n)
        PROVE  Len(stream') > Len(stream) =>
                 /\ gap >= Owed(stream'[Len(stream) + 1])
                 /\ \A i \in (Len(stream) + 2)..Len(stream') : Owed(stream'[i]) = 0
    <3>1. /\ pc = "write" /\ stream' = stream \o Run(writing.from, n)
          /\ n \in writing.from..writing.to
      BY <2>2, <2>5 DEF WriteFails
    <3> QED BY <2>3, <3>1
  <2>6. CASE ~Write /\ ~\E n \in writing.from..(writing.to - 1) : WriteFails(n)
    <3>1. stream' = stream
      BY <1>2, <2>6 DEF QueueNext, Input, PumpReturns, Pop, Exit, Wake, QueueTick, queueVars
    <3> QED BY <2>2, <3>1
  <2> QED BY <2>4, <2>5, <2>6
<1>3. QED
  BY <1>1, <1>2, PauseStep, QueueTypeCorrect, TimerInvariant, OrderInvariant, PTL
  DEF QueueSpec, PausesRespected
=============================================================================
