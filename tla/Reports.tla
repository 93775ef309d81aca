------------------------------- MODULE Reports -------------------------------
(***************************************************************************)
(* What the wrapper tells its monitor (g2mirror-server) about bells and    *)
(* output: the bell debouncer (control.rs, BellDebouncer) and the          *)
(* leading-edge activity limiter of the event loop (main.rs, `run`).       *)
(*                                                                         *)
(* Time is a counter; Tick may run past a deadline, since the loop polls   *)
(* its timers only when no other branch is being handled and picks among   *)
(* ready branches at random.  The wall clock that stamps bells and output  *)
(* is taken to agree with the monotonic clock of the timers.               *)
(*                                                                         *)
(* As in Session, an operator named X_Y is a seeded fault that no action   *)
(* uses.                                                                   *)
(***************************************************************************)
EXTENDS Naturals, Sequences

CONSTANTS
    BellWindow,        \* BELL_DEBOUNCE
    ActivityInterval,  \* ACTIVITY_REPORT_INTERVAL
    Horizon,           \* bound: the application writes nothing after this
    MaxTime,           \* bound: the last instant
    Never,             \* Option::None for an instant
    NoConn             \* no connection awaits classification

ASSUME ReportsAssumption ==
    /\ BellWindow \in Nat \ {0}
    /\ ActivityInterval \in Nat \ {0}
    /\ Horizon \in Nat
    /\ MaxTime \in Nat
    /\ Never \notin Nat
    /\ NoConn \notin Nat \cup {Never}

VARIABLES
    now,
    monitor,         \* a monitor connection exists
    greeted,         \* last_output_at in the greeting of a connection that is
                     \* not classified yet, or NoConn
    lastSent,        \* BellDebouncer::last_sent
    pendingAt,       \* BellDebouncer::pending_at
    lastOutputAt,    \* last_output_at
    lastReport,      \* last_activity_report
    bells,           \* Bell messages sent: stamp and time of sending
    lastBell,        \* last bell rung in front of the present monitor
    heardOutput,     \* last output time the present monitor was told
    since            \* when the present monitor was classified

bellVars     == <<lastSent, pendingAt, bells, lastBell>>
activityVars == <<lastOutputAt, lastReport, heardOutput>>
vars == <<now, monitor, greeted, since, bellVars, activityVars>>

Instants == Nat \cup {Never}
Messages == [at: Nat, time: Nat]  \* a Bell message, with its time of sending

-----------------------------------------------------------------------------
(* The debouncer.                                                          *)

\* Inside the window of the last report.
Debounced == lastSent # Never /\ now < lastSent + BellWindow

\* What on_bell keeps for the trailing edge.
Held_First(at) == IF pendingAt = Never THEN at ELSE pendingAt
Held(at) == at

\* on_bell, with the send of the bell it lets through.
OnBell ==
    IF Debounced
    THEN /\ pendingAt' = Held(now)
         /\ UNCHANGED <<lastSent, bells>>
    ELSE /\ lastSent' = now
         /\ bells' = Append(bells, [at |-> now, time |-> now])
         /\ UNCHANGED pendingAt

\* deadline() has passed.
Due == pendingAt # Never /\ lastSent # Never /\ lastSent + BellWindow <= now

\* The window fire() starts, and what it leaves pending.
Restarted_Not == lastSent
Restarted == now
StillHeld_Kept == pendingAt
StillHeld == Never

\* The timer branch: the held bell goes to the monitor, if there is one.
Fire ==
    /\ Due
    /\ lastSent' = Restarted
    /\ pendingAt' = StillHeld
    /\ bells' = IF monitor
                THEN Append(bells, [at |-> pendingAt, time |-> now])
                ELSE bells
    /\ UNCHANGED <<now, monitor, greeted, since, lastBell>>
    /\ UNCHANGED activityVars

-----------------------------------------------------------------------------
(* Output of the wrapped program.                                          *)

\* An activity report is due.
ReportDue_SinceOutput ==
    lastOutputAt = Never \/ (lastOutputAt # Never /\ lastOutputAt + ActivityInterval <= now)
ReportDue ==
    lastReport = Never \/ (lastReport # Never /\ lastReport + ActivityInterval <= now)

PtyOutput(ring) ==
    /\ now <= Horizon
    /\ lastOutputAt' = now
    /\ IF ring /\ monitor
       THEN OnBell /\ lastBell' = now
       ELSE UNCHANGED bellVars
    /\ IF monitor /\ ReportDue
       THEN lastReport' = now /\ heardOutput' = now
       ELSE UNCHANGED <<lastReport, heardOutput>>
    /\ UNCHANGED <<now, monitor, greeted, since>>

-----------------------------------------------------------------------------
(* The monitor connection.                                                 *)

\* A connection is greeted with last_output_at.
Accept ==
    /\ greeted = NoConn
    /\ greeted' = lastOutputAt
    /\ UNCHANGED <<now, monitor, since>>
    /\ UNCHANGED bellVars
    /\ UNCHANGED activityVars

\* Its first message makes it the monitor, in place of any other.
BecomeMonitor ==
    /\ greeted # NoConn
    /\ monitor' = TRUE
    /\ heardOutput' = greeted
    /\ greeted' = NoConn
    /\ since' = now
    /\ lastBell' = Never
    /\ UNCHANGED <<now, lastSent, pendingAt, bells, lastOutputAt, lastReport>>

\* The monitor hangs up, or a send to it fails.
MonitorLost ==
    /\ monitor
    /\ monitor' = FALSE
    /\ heardOutput' = Never
    /\ since' = 0
    /\ lastBell' = Never
    /\ UNCHANGED <<now, greeted, lastSent, pendingAt, bells, lastOutputAt, lastReport>>

Tick ==
    /\ now < MaxTime
    /\ now' = now + 1
    /\ UNCHANGED <<monitor, greeted, since>>
    /\ UNCHANGED bellVars
    /\ UNCHANGED activityVars

Init ==
    /\ now = 0
    /\ monitor = FALSE
    /\ greeted = NoConn
    /\ lastSent = Never /\ pendingAt = Never
    /\ lastOutputAt = Never /\ lastReport = Never
    /\ bells = << >>
    /\ lastBell = Never
    /\ heardOutput = Never
    /\ since = 0

Next ==
    \/ \E ring \in BOOLEAN : PtyOutput(ring)
    \/ Fire
    \/ Accept
    \/ BecomeMonitor
    \/ MonitorLost
    \/ Tick

Spec == Init /\ [][Next]_vars

\* Time passes, and a timer that has expired is polled.
FairSpec == Spec /\ WF_vars(Tick) /\ WF_vars(Fire)

-----------------------------------------------------------------------------
(* Correctness.                                                            *)

\* Every variable holds a value of its kind; in particular a Bell message
\* always carries a time stamp.
TypeOK ==
    /\ now \in Nat
    /\ monitor \in BOOLEAN
    /\ greeted \in Instants \cup {NoConn}
    /\ lastSent \in Instants /\ pendingAt \in Instants
    /\ lastOutputAt \in Instants /\ lastReport \in Instants
    /\ lastBell \in Instants /\ heardOutput \in Instants
    /\ bells \in Seq(Messages)
    /\ since \in Nat

\* Bells are "debounced to at most one per window": two Bell messages are
\* never closer than the window, trailing reports and late timers included
\* (BellDebouncer).
BellSpacing ==
    \A i, j \in 1..Len(bells) :
        i < j => bells[i].time + BellWindow <= bells[j].time

\* The latest bell rung in front of the present monitor has been sent or is
\* held for the trailing edge ("the latest bell timestamp is never lost").
BellAccounted ==
    lastBell # Never =>
        \/ pendingAt = lastBell
        \/ \E i \in 1..Len(bells) : bells[i].at = lastBell

\* A held bell does not stay held (the trailing edge comes).
HeldBellReported == (pendingAt # Never) ~> (pendingAt = Never)

\* Once a monitor has been connected for one interval, what it was last told
\* lags the application's output by less than the interval (the leading-edge
\* limiter of `run`).
ActivityFresh ==
    monitor /\ lastOutputAt # Never /\ lastOutputAt >= since + ActivityInterval =>
        /\ heardOutput # Never
        /\ lastOutputAt < heardOutput + ActivityInterval
=============================================================================
