------------------------------ MODULE Sockets ------------------------------
(***************************************************************************)
(* The directory ~/.g2mirror of session sockets (paths.rs, control.rs) and *)
(* the processes that share it: wrappers that bind and remove their own    *)
(* socket file or crash and leave it, unrelated processes that take over   *)
(* freed pids, servers that clean up once when they start, and             *)
(* `g2mirror --detached`, which starts a wrapper and polls for its file.   *)
(* A file is named by a pid and a working directory, so a name can come    *)
(* back with another owner; wrappers are told apart by their order of      *)
(* birth, which the program does not know.  As in Session, an operator     *)
(* named X_Y is a seeded fault that no action uses.                        *)
(***************************************************************************)
EXTENDS Naturals

CONSTANTS
    Pids,         \* process ids
    Cwds,         \* working directories, as socket names spell them
    MaxWrappers,  \* bound: wrapper processes over the whole behaviour
    None

VARIABLES
    wrapper,   \* each wrapper's name and how far it has come
    others,    \* pids of processes that are no wrappers
    file,      \* for each name the socket file, or None
    cleaner,   \* a server's cleanup: names to do, the name at hand
    launch,    \* what `g2mirror --detached` does about or said of a wrapper
    bound,     \* history: launched wrappers that have bound their socket
    leftover,  \* history: those at whose birth their name was there
    robbed     \* history: wrappers born between a cleanup's look at
               \* their pid and its removal of their name

vars == <<wrapper, others, file, cleaner, launch, bound, leftover, robbed>>

Wrappers == 1..MaxWrappers
Names == [pid : Pids, cwd : Cwds]
Files == [by : Wrappers, old : BOOLEAN]

ASSUME SocketsAssumption == MaxWrappers \in Nat /\ None \notin Files

Unborn == [name |-> None, stage |-> "unborn"]
Idle == [todo |-> {}, name |-> None, stage |-> "idle", born |-> {}]

Alive(w) == wrapper[w].stage \in {"starting", "serving"}
Born == {w \in Wrappers : wrapper[w].stage # "unborn"}
Exists(n) == file[n] # None

(* kill(pid, 0) also finds a dead child that its parent has not reaped.    *)
PidExists(p) ==
    \/ p \in others
    \/ \E w \in Wrappers : /\ wrapper[w].stage \in {"starting", "serving", "zombie"}
                           /\ wrapper[w].name.pid = p

(***************************************************************************)
(* Wrappers.  bind removes whatever has the name first; the drop of the    *)
(* listener removes the file by name on every return from `run`.           *)
(***************************************************************************)
IsBorn(w, n) ==
    /\ wrapper[w] = Unborn
    /\ \A v \in Wrappers : v < w => v \in Born
    /\ ~PidExists(n.pid)
    /\ wrapper' = [wrapper EXCEPT ![w] = [name |-> n, stage |-> "starting"]]
    /\ UNCHANGED <<others, file, cleaner, bound, robbed>>

Start(w) == \E n \in Names : IsBorn(w, n) /\ UNCHANGED <<launch, leftover>>

Over == [name |-> None, stage |-> "over"]

Gone_Reaped(w) == [wrapper[w] EXCEPT !.stage = "over"]

(* A child of a `g2mirror --detached` that is still polling keeps its pid  *)
(* until that reaps it.                                                    *)
Gone(w) == IF launch[w] \in {"look", "wait"}
             THEN [wrapper[w] EXCEPT !.stage = "zombie"] ELSE Over

Bind(w) ==
    /\ wrapper[w].stage = "starting"
    /\ file' = [file EXCEPT ![wrapper[w].name] = [by |-> w, old |-> FALSE]]
    /\ wrapper' = [wrapper EXCEPT ![w].stage = "serving"]
    /\ bound' = IF launch[w] = "none" THEN bound ELSE bound \cup {w}
    /\ UNCHANGED <<others, cleaner, launch, leftover, robbed>>

BindFails(w) ==
    /\ wrapper[w].stage = "starting"
    /\ file' = [file EXCEPT ![wrapper[w].name] = None]
    /\ wrapper' = [wrapper EXCEPT ![w] = Gone(w)]
    /\ UNCHANGED <<others, cleaner, launch, bound, leftover, robbed>>

Ends(w) ==
    /\ wrapper[w].stage = "serving"
    /\ file' = [file EXCEPT ![wrapper[w].name] = None]
    /\ wrapper' = [wrapper EXCEPT ![w] = Gone(w)]
    /\ UNCHANGED <<others, cleaner, launch, bound, leftover, robbed>>

Crash(w) ==
    /\ Alive(w)
    /\ wrapper' = [wrapper EXCEPT ![w] = Gone(w)]
    /\ UNCHANGED <<others, file, cleaner, launch, bound, leftover, robbed>>

OtherStarts ==
    /\ \E p \in Pids : ~PidExists(p) /\ others' = others \cup {p}
    /\ UNCHANGED <<wrapper, file, cleaner, launch, bound, leftover, robbed>>

OtherEnds ==
    /\ \E p \in others : others' = others \ {p}
    /\ UNCHANGED <<wrapper, file, cleaner, launch, bound, leftover, robbed>>

(* An hour passes (STALE_SOCKET_AGE).                                      *)
Ages(n) ==
    /\ Exists(n) /\ ~file[n].old
    /\ file' = [file EXCEPT ![n].old = TRUE]
    /\ UNCHANGED <<wrapper, others, cleaner, launch, bound, leftover, robbed>>

(***************************************************************************)
(* cleanup_stale_sockets: the names are read, then each entry's age, its   *)
(* pid, and only then the file goes, by name: three separate calls.        *)
(***************************************************************************)
CleanupStarts ==
    /\ cleaner = Idle
    /\ cleaner' = [Idle EXCEPT !.stage = "scan", !.todo = {n \in Names : Exists(n)}]
    /\ UNCHANGED <<wrapper, others, file, launch, bound, leftover, robbed>>

Scanning(todo) == [Idle EXCEPT !.stage = "scan", !.todo = todo]

(* What remains to be looked at when an entry is passed over.              *)
SkippedTo_Stops(n) == {}
SkippedTo(n) == cleaner.todo \ {n}

Stat(n) ==
    /\ cleaner.stage = "scan" /\ n \in cleaner.todo
    /\ cleaner' = IF Exists(n) /\ file[n].old
                    THEN [Scanning(cleaner.todo \ {n}) EXCEPT
                             !.stage = "probe", !.name = n]
                    ELSE Scanning(SkippedTo(n))
    /\ UNCHANGED <<wrapper, others, file, launch, bound, leftover, robbed>>

Spared_Never(n) == FALSE
Spared(n) == PidExists(n.pid)

Probe ==
    /\ cleaner.stage = "probe"
    /\ cleaner' = IF Spared(cleaner.name)
                    THEN Scanning(SkippedTo(cleaner.name))
                    ELSE [cleaner EXCEPT !.stage = "remove", !.born = Born]
    /\ UNCHANGED <<wrapper, others, file, launch, bound, leftover, robbed>>

Remove ==
    /\ cleaner.stage = "remove"
    /\ LET n == cleaner.name IN
         /\ file' = [file EXCEPT ![n] = None]
         /\ robbed' = IF Exists(n) /\ file[n].by \notin cleaner.born
                        THEN robbed \cup {file[n].by} ELSE robbed
    /\ cleaner' = Scanning(cleaner.todo)
    /\ UNCHANGED <<wrapper, others, launch, bound, leftover>>

CleanupEnds ==
    /\ cleaner.stage = "scan" /\ cleaner.todo = {}
    /\ cleaner' = Idle
    /\ UNCHANGED <<wrapper, others, file, launch, bound, leftover, robbed>>

(***************************************************************************)
(* spawn_detached: look for the file, then for the child's end, then at    *)
(* the clock, and again.  Its exit leaves a dead child to be reaped.       *)
(***************************************************************************)
Launch(w) ==
    /\ \E n \in Names :
          /\ IsBorn(w, n)
          /\ leftover' = IF Exists(n) THEN leftover \cup {w} ELSE leftover
    /\ launch' = [launch EXCEPT ![w] = "look"]

Reaped(w) ==
    wrapper' = IF wrapper[w].stage = "zombie"
                 THEN [wrapper EXCEPT ![w] = Over] ELSE wrapper

SocketFound(w) == Exists(wrapper[w].name)

Look(w) ==
    /\ launch[w] = "look"
    /\ \/ /\ SocketFound(w)
          /\ launch' = [launch EXCEPT ![w] = "started"]
          /\ Reaped(w)
       \/ /\ ~SocketFound(w)
          /\ launch' = [launch EXCEPT ![w] = "wait"]
          /\ UNCHANGED wrapper
    /\ UNCHANGED <<others, file, cleaner, bound, leftover, robbed>>

Wait(w) ==
    /\ launch[w] = "wait"
    /\ launch' = [launch EXCEPT ![w] = IF Alive(w) THEN "look" ELSE "exited"]
    /\ Reaped(w)
    /\ UNCHANGED <<others, file, cleaner, bound, leftover, robbed>>

(* The five seconds are over; the child is not stopped.                    *)
GivesUp(w) ==
    /\ launch[w] = "wait" /\ Alive(w)
    /\ launch' = [launch EXCEPT ![w] = "late"]
    /\ UNCHANGED <<wrapper, others, file, cleaner, bound, leftover, robbed>>

-----------------------------------------------------------------------------
Init ==
    /\ wrapper = [w \in Wrappers |-> Unborn]
    /\ others = {}
    /\ file = [n \in Names |-> None]
    /\ cleaner = Idle
    /\ launch = [w \in Wrappers |-> "none"]
    /\ bound = {} /\ leftover = {} /\ robbed = {}

CleanerStep == (\E n \in Names : Stat(n)) \/ Probe \/ Remove \/ CleanupEnds

Next ==
    \/ \E w \in Wrappers :
          \/ Start(w) \/ Launch(w)
          \/ Bind(w) \/ BindFails(w) \/ Ends(w) \/ Crash(w)
          \/ Look(w) \/ Wait(w) \/ GivesUp(w)
    \/ OtherStarts \/ OtherEnds
    \/ \E n \in Names : Ages(n)
    \/ CleanupStarts \/ CleanerStep

(* A cleanup that has begun runs to its end, and time passes.  Nothing     *)
(* obliges a server to start or a wrapper to do anything.                  *)
Spec ==
    /\ Init /\ [][Next]_vars
    /\ WF_vars(CleanerStep)
    /\ \A n \in Names : WF_vars(Ages(n))

-----------------------------------------------------------------------------
(* A running session keeps its socket file, which clients and servers find *)
(* it by: neither a cleanup, nor an earlier or later owner of its pid,     *)
(* removes or replaces it.  The exception is real: a cleanup that looked   *)
(* at the pid before this wrapper was born removes the file by name        *)
(* afterwards (paths.rs:111-113), and the wrapper is unreachable for good. *)
LiveSocketKept ==
    \A w \in Wrappers \ robbed :
        wrapper[w].stage = "serving" =>
            /\ Exists(wrapper[w].name)
            /\ file[wrapper[w].name].by = w

(* What `g2mirror --detached`, and with it a server's launch, says is      *)
(* true: a session said to have started has bound its socket, and one said *)
(* to have exited is not running.  The exception is a name already there   *)
(* when the wrapper was born, left by a crashed wrapper with the same pid  *)
(* and directory: it is taken for the new one's (main.rs:345).             *)
LaunchTrue ==
    \A w \in Wrappers :
        /\ launch[w] = "started" => w \in bound \cup leftover
        /\ launch[w] = "exited" => wrapper[w].stage = "over"

(* A crashed wrapper's file does not stay for ever (and so does not        *)
(* suppress wrapping in its surviving descendants for ever, paths.rs:33):  *)
(* if its pid stays free and servers are started again and again, the name *)
(* goes for good, whatever other sessions' files the cleanups find.        *)
StaleGone ==
    \A n \in Names :
        ([]<>(cleaner # Idle) /\ <>[](~PidExists(n.pid))) => <>[](~Exists(n))
=============================================================================
