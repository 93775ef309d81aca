----------------------------- MODULE InputQueue ------------------------------
(***************************************************************************)
(* Input from clients, on its way to the wrapped program (main.rs,         *)
(* InputQueue).  An input message may ask for pauses inside its bytes; the *)
(* queue holds the chunks between the pauses, and its timer is a branch of *)
(* the event loop.                                                         *)
(*                                                                         *)
(* A byte is its position in the order of arrival, and a chunk a range of  *)
(* positions.  Times are relative: `due` counts the ticks left until the   *)
(* deadline.  A tick may fall anywhere, between two iterations of pump and *)
(* while a write to the pty blocks; once a deadline has passed, the loop   *)
(* may still be late to notice.  The host's own keystrokes bypass the      *)
(* queue and are not modelled.                                             *)
(*                                                                         *)
(* As in Session, an operator named X_Y is a seeded fault that no action   *)
(* uses.                                                                   *)
(***************************************************************************)
EXTENDS Naturals, Sequences, FiniteSets, Functions

CONSTANTS
    MaxMessages,  \* bound: messages sent in one behaviour
    MaxLen,       \* bound: bytes in a message
    Offsets,      \* offsets clients ask for, bad ones included
    Pauses,       \* pauses clients ask for, in ticks
    MaxPause,     \* MAX_INPUT_DELAY_MS
    MaxDelays,    \* MAX_INPUT_DELAYS
    Idle          \* Option::None for an instant

ASSUME InputAssumption ==
    /\ MaxMessages \in Nat /\ MaxLen \in Nat
    /\ Offsets \subseteq Nat
    /\ Pauses \subseteq Nat
    /\ MaxPause \in Nat
    /\ MaxDelays \in Nat
    /\ Idle \notin Nat

VARIABLES
    pc,       \* "select", in `pump` ("pump"), in its write_all ("write"), or
              \* "exited"
    caller,   \* who called `pump`, while it runs: a "message" or the "timer"
    queue,    \* InputQueue::queue
    due,      \* InputQueue::due
    writing,  \* the range being written
    sent,     \* bytes received from clients
    stream,   \* bytes the program was given, in order
    lost,     \* bytes whose write failed
    failed,   \* the last `pump` ended with a failed write
    log,      \* the messages received
    gap       \* ticks since the last write, failed ones included, or the last
              \* message that found the queue empty; counted while chunks are
              \* queued, up to MaxGap

queueVars == <<pc, caller, queue, due, writing, sent, stream, lost, failed, log, gap>>

MaxGap == 2 * MaxDelays * MaxPause

Ranges == [from: Nat, to: Nat]
Chunks == [wait: 0..MaxPause, from: Nat, to: Nat]  \* bytes from+1 .. to, after a pause
Delays == [at: Offsets, ms: Pauses]        \* protocol::InputDelay

AtMost(m, n) == IF n <= m THEN n ELSE m

-----------------------------------------------------------------------------
(* push                                                                    *)

\* What an input message is checked for: at most MaxDelays delays, at
\* non-decreasing offsets within the data.
ValidDelays_AnyOrder(len, delays) ==
    /\ Len(delays) <= MaxDelays
    /\ \A i \in 1..Len(delays) : delays[i].at <= len
ValidDelays(len, delays) ==
    /\ Len(delays) <= MaxDelays
    /\ \A i \in 1..Len(delays) :
          /\ delays[i].at <= len
          /\ i > 1 => delays[i - 1].at <= delays[i].at

\* The pause before chunk i.
WaitBefore_OneLate(delays, i) ==
    IF i > Len(delays) THEN 0 ELSE AtMost(MaxPause, delays[i].ms)
WaitBefore_Unclamped(delays, i) ==
    IF i = 1 THEN 0 ELSE delays[i - 1].ms
WaitBefore(delays, i) ==
    IF i = 1 THEN 0 ELSE AtMost(MaxPause, delays[i - 1].ms)

\* The data split at the offsets: chunk i ends where delay i applies, the
\* last one at the end of the data.
Split(len, delays) ==
    LET End(i) == IF i = 0 THEN sent
                  ELSE IF i <= Len(delays) THEN sent + delays[i].at
                  ELSE sent + len
    IN  [i \in 1..(Len(delays) + 1) |->
            [wait |-> WaitBefore(delays, i), from |-> End(i - 1), to |-> End(i)]]

Pumps(who) ==
    /\ pc' = "pump"
    /\ caller' = who
    /\ failed' = FALSE

Input(len, delays) ==
    /\ pc = "select"
    /\ Len(log) < MaxMessages
    /\ ValidDelays(len, delays)
    /\ queue' = queue \o Split(len, delays)
    /\ sent' = sent + len
    /\ log' = Append(log, [first |-> sent + 1, len |-> len, delays |-> delays,
                           waited |-> queue # << >>])
    /\ gap' = IF queue = << >> THEN 0 ELSE gap
    /\ Pumps("message")
    /\ UNCHANGED <<due, writing, stream, lost>>

-----------------------------------------------------------------------------
(* pump                                                                    *)

\* due.get_or_insert(now + pause)
Remaining == IF due = Idle THEN Head(queue).wait ELSE due

\* The deadline while the head's pause runs, and after the head was popped.
Armed_Not == due
Armed == Remaining
Disarmed_Not == due
Disarmed == Idle

\* The queue is empty, or its head must still wait.
PumpReturns ==
    /\ pc = "pump"
    /\ \/ queue = << >> /\ UNCHANGED due
       \/ queue # << >> /\ Remaining > 0 /\ due' = Armed
    /\ pc' = "select" /\ caller' = "nobody"
    /\ UNCHANGED <<queue, writing, sent, stream, lost, failed, log, gap>>

Pop ==
    /\ pc = "pump"
    /\ queue # << >> /\ Remaining = 0
    /\ queue' = Tail(queue)
    /\ due' = Disarmed
    /\ IF Head(queue).from < Head(queue).to
       THEN /\ writing' = [from |-> Head(queue).from, to |-> Head(queue).to]
            /\ pc' = "write"
       ELSE UNCHANGED <<pc, writing>>
    /\ UNCHANGED <<caller, sent, stream, lost, failed, log, gap>>

\* The bytes m+1 .. n, in order.
Run(m, n) == [i \in 1..(n - m) |-> m + i]

\* write_all returns.
Write ==
    /\ pc = "write"
    /\ stream' = stream \o Run(writing.from, writing.to)
    /\ gap' = 0
    /\ pc' = "pump"
    /\ UNCHANGED <<caller, queue, due, writing, sent, lost, failed, log>>

\* Where the error of a failed write ends up: the loop's timer branch returns
\* it from run(); that of a message tells the sender, drops it and goes on.
AfterFailure == IF caller = "timer" THEN "exited" ELSE "select"

\* write_all fails once it has written the bytes up to n: the chunk is off the
\* queue, and what is left of it is lost.
WriteFails(n) ==
    /\ pc = "write"
    /\ stream' = stream \o Run(writing.from, n)
    /\ lost' = lost \cup (n + 1)..writing.to
    /\ failed' = TRUE
    /\ gap' = 0
    /\ pc' = AfterFailure /\ caller' = "nobody"
    /\ UNCHANGED <<queue, due, writing, sent, log>>

\* The wrapped program exits, or another branch fails: run() returns.
Exit ==
    /\ pc = "select"
    /\ pc' = "exited"
    /\ UNCHANGED <<caller, queue, due, writing, sent, stream, lost, failed, log, gap>>

\* The timer branch of the event loop.
Wake ==
    /\ pc = "select"
    /\ due # Idle /\ due = 0
    /\ Pumps("timer")
    /\ UNCHANGED <<queue, due, writing, sent, stream, lost, log, gap>>

QueueTick ==
    /\ pc # "exited"
    /\ due' = IF due # Idle /\ due > 0 THEN due - 1 ELSE due
    /\ gap' = IF queue = << >> THEN gap ELSE AtMost(MaxGap, gap + 1)
    /\ UNCHANGED <<pc, caller, queue, writing, sent, stream, lost, failed, log>>

-----------------------------------------------------------------------------
QueueInit ==
    /\ pc = "select"
    /\ caller = "nobody"
    /\ queue = << >>
    /\ due = Idle
    /\ writing = [from |-> 0, to |-> 0]
    /\ sent = 0
    /\ stream = << >>
    /\ lost = {}
    /\ failed = FALSE
    /\ log = << >>
    /\ gap = 0

\* A message carries up to MaxDelays delays, or one too many.
Requests == UNION {[1..n -> Delays] : n \in 0..(MaxDelays + 1)}

QueueNext ==
    \/ \E len \in 0..MaxLen, delays \in Requests : Input(len, delays)
    \/ PumpReturns
    \/ Pop
    \/ Write
    \/ \E n \in writing.from..(writing.to - 1) : WriteFails(n)
    \/ Exit
    \/ Wake
    \/ QueueTick

QueueSpec == QueueInit /\ [][QueueNext]_queueVars

\* Time passes, the task runs and expired timers are polled.  A write may
\* block for ever: the program need not read its input.
FairQueueSpec ==
    /\ QueueSpec
    /\ WF_queueVars(QueueTick) /\ WF_queueVars(Wake)
    /\ WF_queueVars(PumpReturns \/ Pop)

-----------------------------------------------------------------------------
(* Correctness.                                                            *)

\* Every variable holds a value of its kind.
QueueTypeOK ==
    /\ pc \in {"select", "pump", "write", "exited"}
    /\ caller \in {"message", "timer", "nobody"}
    /\ queue \in Seq(Chunks)
    /\ due \in Nat \cup {Idle}
    /\ writing \in Ranges
    /\ sent \in Nat
    /\ stream \in Seq(Nat)
    /\ lost \subseteq Nat
    /\ failed \in BOOLEAN
    /\ gap \in Nat

\* Between two events the timer is armed exactly while chunks are queued:
\* no pause is counted for an empty queue, and a chunk is stranded only when a
\* failed write ended the `pump` of a message, until the next message pumps.
TimerArmed == pc = "select" => (queue # << >> /\ ~failed <=> due # Idle)

\* The bytes whose turn has come: those in front of the chunk that is being
\* written, or else of the queue.
Settled ==
    IF pc = "write" THEN writing.from
    ELSE IF queue = << >> THEN sent
    ELSE Head(queue).from

\* The queue delivers every byte in order and at most once, as InputStream
\* promises, and loses none but those whose write failed: "keeping bytes in
\* the order the client sent them".
Promise == INSTANCE InputStream WITH sent <- sent, settled <- Settled,
                                     stream <- stream, lost <- lost
Delivers == Promise!Spec

\* Clamped pauses asked for at an offset of a message, added up.
PausedAt(m, at) ==
    LET UpTo[n \in 0..Len(m.delays)] ==
            IF n = 0 THEN 0
            ELSE IF m.delays[n].at = at
            THEN UpTo[n - 1] + AtMost(MaxPause, m.delays[n].ms)
            ELSE UpTo[n - 1]
    IN  UpTo[Len(m.delays)]

\* The pause owed before byte y: what its own message asks for in front of
\* it, and if it starts a message that found bytes queued, also what the
\* message before it asks for at its end.
Owed(y) ==
    LET k == CHOOSE j \in 1..Len(log) :
                log[j].first <= y /\ y < log[j].first + log[j].len
        own == PausedAt(log[k], y - log[k].first)
    IN  IF y = log[k].first /\ log[k].waited
        THEN own + PausedAt(log[k - 1], log[k - 1].len)
        ELSE own

\* No byte is written before the pauses asked for in front of it have passed
\* since the last write: late timers, blocked and failed writes and messages
\* that arrive during a pause included.
PausesRespected ==
    [][Len(stream') > Len(stream) =>
          /\ gap >= Owed(stream'[Len(stream) + 1])
          /\ \A i \in (Len(stream) + 2)..Len(stream') : Owed(stream'[i]) = 0]_queueVars

\* Once the clients have stopped sending (MaxMessages), every byte is written
\* in the end, unless its write fails, the session ends, the program stops
\* reading, or the last message's write failed and nothing pumps any more.
EveryByteWritten ==
    <>[](\/ 1..sent \subseteq Range(stream) \cup lost
         \/ pc = "exited" \/ pc = "write" \/ failed)
=============================================================================
