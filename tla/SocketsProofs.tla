---------------------------- MODULE SocketsProofs ----------------------------
(***************************************************************************)
(* Proofs about Sockets: a running session keeps its socket file, for any  *)
(* pids, directories and number of wrappers, under every interleaving of   *)
(* births, ends, crashes, launches and cleanups.                           *)
(*                                                                         *)
(* A file is removed by name, so the argument is about names.  Two living  *)
(* wrappers never share a pid (PidsDiffer), hence a wrapper that binds or  *)
(* ends touches no other living one's name.  And a cleanup about to remove *)
(* a name has seen its pid free: the wrappers that had been born by then   *)
(* and had that pid are no longer there and never come back                *)
(* (DoomedAreGone); one born since is what `robbed` records.               *)
(***************************************************************************)
EXTENDS Sockets, TLAPS

Stages == {"unborn", "starting", "serving", "zombie", "over"}
HeldStages == {"starting", "serving", "zombie"}
Held(w) == wrapper[w].stage \in HeldStages

Typed ==
    /\ wrapper \in [Wrappers -> [name : Names \cup {None}, stage : Stages]]
    /\ \A w \in Wrappers : Held(w) => wrapper[w].name \in Names
    /\ file \in [Names -> Files \cup {None}]
    /\ cleaner \in [todo : SUBSET Names, name : Names \cup {None},
                    stage : {"idle", "scan", "probe", "remove"},
                    born : SUBSET Wrappers]
    /\ cleaner.stage \in {"probe", "remove"} => cleaner.name \in Names

PidsDiffer ==
    \A v, w \in Wrappers :
        Held(v) /\ Held(w) /\ wrapper[v].name.pid = wrapper[w].name.pid => v = w

DoomedAreGone ==
    cleaner.stage = "remove" =>
        \A w \in cleaner.born :
            /\ wrapper[w].stage # "unborn"
            /\ ~(Held(w) /\ wrapper[w].name.pid = cleaner.name.pid)

SocketInv == Typed /\ PidsDiffer /\ DoomedAreGone /\ LiveSocketKept

(* A wrapper's name is its own while it lives.                             *)
LEMMA NameIsOwn ==
    ASSUME PidsDiffer, NEW v \in Wrappers, NEW w \in Wrappers, Held(v), Held(w),
           wrapper[v].name = wrapper[w].name
    PROVE  v = w
  BY DEF PidsDiffer

(* Birth: the pid was free, and the wrapper has no file yet to lose.       *)
LEMMA BirthKeeps ==
    ASSUME SocketInv, NEW w \in Wrappers, NEW n \in Names, IsBorn(w, n)
    PROVE  SocketInv'
<1> USE DEF HeldStages, Held
<1>1. /\ wrapper[w].stage = "unborn"
      /\ wrapper' = [wrapper EXCEPT ![w] = [name |-> n, stage |-> "starting"]]
      /\ file' = file /\ cleaner' = cleaner /\ robbed' = robbed
  BY DEF IsBorn, Unborn
<1>2. \A v \in Wrappers : Held(v) => wrapper[v].name.pid # n.pid
  BY DEF IsBorn, PidExists
<1>3. \A v \in Wrappers : v # w => wrapper'[v] = wrapper[v]
  BY <1>1 DEF SocketInv, Typed
<1>4. wrapper'[w] = [name |-> n, stage |-> "starting"]
  BY <1>1 DEF SocketInv, Typed
<1>5. Typed'
  BY <1>1, <1>3, <1>4 DEF SocketInv, Typed, Stages
<1>6. PidsDiffer'
  BY <1>2, <1>3, <1>4 DEF SocketInv, PidsDiffer
<1>7. DoomedAreGone'
  BY <1>1, <1>3, <1>4 DEF SocketInv, Typed, DoomedAreGone
<1>8. LiveSocketKept'
  BY <1>1, <1>3, <1>4 DEF SocketInv, LiveSocketKept, Exists
<1> QED BY <1>5, <1>6, <1>7, <1>8 DEF SocketInv

(* The wrapper binds.                                                      *)
LEMMA BindKeeps ==
    ASSUME SocketInv, NEW w \in Wrappers, Bind(w)
    PROVE  SocketInv'
<1> USE DEF HeldStages, Held
<1>1. /\ wrapper[w].stage = "starting" /\ wrapper[w].name \in Names
      /\ wrapper' = [wrapper EXCEPT ![w].stage = "serving"]
      /\ file' = [file EXCEPT ![wrapper[w].name] = [by |-> w, old |-> FALSE]]
      /\ cleaner' = cleaner /\ robbed' = robbed
  BY DEF Bind, SocketInv, Typed
<1>2. /\ \A v \in Wrappers : v # w => wrapper'[v] = wrapper[v]
      /\ wrapper'[w].name = wrapper[w].name /\ wrapper'[w].stage = "serving"
      /\ wrapper'[w] \in [name : Names \cup {None}, stage : Stages]
  BY <1>1 DEF SocketInv, Typed, Stages
<1>3. [by |-> w, old |-> FALSE] \in Files /\ [by |-> w, old |-> FALSE] # None
  <2>1. [by |-> w, old |-> FALSE] \in Files
    BY DEF Files
  <2> QED BY <2>1, SocketsAssumption DEF SocketsAssumption
<1>4. Typed'
  BY <1>1, <1>2, <1>3 DEF SocketInv, Typed
<1>5. PidsDiffer'
  BY <1>1, <1>2 DEF SocketInv, PidsDiffer
<1>6. DoomedAreGone'
  BY <1>1, <1>2 DEF SocketInv, Typed, DoomedAreGone
<1>7. LiveSocketKept'
  <2> SUFFICES ASSUME NEW v \in Wrappers \ robbed', wrapper'[v].stage = "serving"
               PROVE  /\ file'[wrapper'[v].name] # None
                      /\ file'[wrapper'[v].name].by = v
    BY DEF LiveSocketKept, Exists
  <2>1. CASE v = w
    BY <1>1, <1>2, <1>3, <2>1 DEF SocketInv, Typed
  <2>2. CASE v # w
    <3>1. wrapper[v].stage = "serving" /\ wrapper[v].name # wrapper[w].name
      BY <1>1, <1>2, <2>2, NameIsOwn DEF SocketInv
    <3>2. file'[wrapper[v].name] = file[wrapper[v].name]
      BY <1>1, <3>1 DEF SocketInv, Typed
    <3> QED BY <1>1, <1>2, <2>2, <3>1, <3>2 DEF SocketInv, LiveSocketKept, Exists
  <2> QED BY <2>1, <2>2
<1> QED BY <1>4, <1>5, <1>6, <1>7 DEF SocketInv

(* The wrapper is gone: of files, only its own name may have changed.      *)
LEMMA GoingKeeps ==
    ASSUME SocketInv, NEW w \in Wrappers, Alive(w),
           wrapper' = [wrapper EXCEPT ![w] = Gone(w)],
           file' \in {file, [file EXCEPT ![wrapper[w].name] = None]},
           cleaner' = cleaner, robbed' = robbed
    PROVE  SocketInv'
<1> USE DEF HeldStages, Held
<1>1. Held(w) /\ wrapper[w].name \in Names
  BY DEF Alive, SocketInv, Typed
<1>2. /\ \A v \in Wrappers : v # w => wrapper'[v] = wrapper[v]
      /\ wrapper'[w] = Gone(w)
  BY DEF SocketInv, Typed
<1>3. /\ Gone(w) \in [name : Names \cup {None}, stage : Stages]
      /\ Gone(w).stage \in {"zombie", "over"}
      /\ Gone(w).stage = "zombie" => Gone(w).name = wrapper[w].name
  BY DEF Gone, Over, SocketInv, Typed, Stages
<1>4. Typed'
  BY <1>1, <1>2, <1>3 DEF SocketInv, Typed
<1>5. PidsDiffer'
  BY <1>1, <1>2, <1>3 DEF SocketInv, PidsDiffer
<1>6. DoomedAreGone'
  BY <1>1, <1>2, <1>3 DEF SocketInv, Typed, DoomedAreGone
<1>7. LiveSocketKept'
  <2> SUFFICES ASSUME NEW v \in Wrappers \ robbed', wrapper'[v].stage = "serving"
               PROVE  /\ file'[wrapper'[v].name] # None
                      /\ file'[wrapper'[v].name].by = v
    BY DEF LiveSocketKept, Exists
  <2>1. v # w
    BY <1>2, <1>3
  <2>2. wrapper[v].stage = "serving" /\ wrapper[v].name # wrapper[w].name
    BY <1>1, <1>2, <2>1, NameIsOwn DEF SocketInv
  <2>3. file'[wrapper[v].name] = file[wrapper[v].name]
    BY <2>2 DEF SocketInv, Typed
  <2> QED BY <1>2, <2>1, <2>2, <2>3 DEF SocketInv, LiveSocketKept, Exists
<1> QED BY <1>4, <1>5, <1>6, <1>7 DEF SocketInv

(* A dead child is reaped, or not.                                         *)
LEMMA ReapingKeeps ==
    ASSUME SocketInv, NEW w \in Wrappers, Reaped(w) \/ wrapper' = wrapper,
           file' = file, cleaner' = cleaner, robbed' = robbed
    PROVE  SocketInv'
<1> USE DEF HeldStages, Held
<1>1. /\ \A v \in Wrappers : v # w => wrapper'[v] = wrapper[v]
      /\ \/ wrapper'[w] = wrapper[w]
         \/ wrapper[w].stage = "zombie" /\ wrapper'[w] = Over
      /\ wrapper' \in [Wrappers -> [name : Names \cup {None}, stage : Stages]]
  BY DEF Reaped, SocketInv, Typed, Over, Stages
<1>2. Typed'
  BY <1>1 DEF SocketInv, Typed, Over
<1>3. PidsDiffer'
  BY <1>1 DEF SocketInv, PidsDiffer, Over
<1>4. DoomedAreGone'
  BY <1>1 DEF SocketInv, Typed, DoomedAreGone, Over
<1>5. LiveSocketKept'
  BY <1>1 DEF SocketInv, LiveSocketKept, Exists, Over
<1> QED BY <1>2, <1>3, <1>4, <1>5 DEF SocketInv

(* A cleanup looks: at the names, at an entry's age, at its pid.           *)
LEMMA LookingKeeps ==
    ASSUME SocketInv,
           CleanupStarts \/ (\E n \in Names : Stat(n)) \/ Probe \/ CleanupEnds
    PROVE  SocketInv'
<1> USE DEF HeldStages, Held
<1>1. wrapper' = wrapper /\ file' = file /\ robbed' = robbed
  BY DEF CleanupStarts, Stat, Probe, CleanupEnds
<1>2. /\ cleaner' \in [todo : SUBSET Names, name : Names \cup {None},
                       stage : {"idle", "scan", "probe", "remove"},
                       born : SUBSET Wrappers]
      /\ cleaner'.stage \in {"probe", "remove"} => cleaner'.name \in Names
      /\ cleaner'.stage = "remove" =>
            /\ cleaner'.born = Born
            /\ ~PidExists(cleaner'.name.pid)
  <2>1. CASE CleanupStarts
    BY <2>1 DEF CleanupStarts, Idle
  <2>2. CASE \E n \in Names : Stat(n)
    <3> PICK n \in Names : Stat(n) BY <2>2
    <3>1. CASE Exists(n) /\ file[n].old
      <4>1. cleaner' = [todo |-> cleaner.todo \ {n}, name |-> n,
                        stage |-> "probe", born |-> {}]
        BY <3>1 DEF Stat, Scanning, Idle
      <4> QED BY <4>1 DEF SocketInv, Typed
    <3>2. CASE ~(Exists(n) /\ file[n].old)
      <4>1. cleaner' = [todo |-> cleaner.todo \ {n}, name |-> None,
                        stage |-> "scan", born |-> {}]
        BY <3>2 DEF Stat, Scanning, SkippedTo, Idle
      <4> QED BY <4>1 DEF SocketInv, Typed
    <3> QED BY <3>1, <3>2
  <2>3. CASE Probe
    <3>1. CASE Spared(cleaner.name)
      BY <2>3, <3>1 DEF Probe, Scanning, SkippedTo, Idle, SocketInv, Typed
    <3>2. CASE ~Spared(cleaner.name)
      BY <2>3, <3>2 DEF Probe, Spared, Born, SocketInv, Typed
    <3> QED BY <3>1, <3>2
  <2>4. CASE CleanupEnds
    BY <2>4 DEF CleanupEnds, Idle
  <2> QED BY <2>1, <2>2, <2>3, <2>4
<1>3. Typed'
  BY <1>1, <1>2 DEF SocketInv, Typed
<1>4. PidsDiffer'
  BY <1>1 DEF SocketInv, PidsDiffer
<1>5. DoomedAreGone'
  BY <1>1, <1>2 DEF DoomedAreGone, PidExists, Born
<1>6. LiveSocketKept'
  BY <1>1 DEF SocketInv, LiveSocketKept, Exists
<1> QED BY <1>3, <1>4, <1>5, <1>6 DEF SocketInv

(* The removal: who still serves under that name was born since the probe. *)
LEMMA RemovalKeeps ==
    ASSUME SocketInv, Remove
    PROVE  SocketInv'
<1> USE DEF HeldStages, Held
<1> DEFINE n == cleaner.name
<1>1. /\ cleaner.stage = "remove" /\ n \in Names
      /\ wrapper' = wrapper
      /\ file' = [file EXCEPT ![n] = None]
      /\ robbed' = IF Exists(n) /\ file[n].by \notin cleaner.born
                     THEN robbed \cup {file[n].by} ELSE robbed
      /\ cleaner' = Scanning(cleaner.todo)
  BY DEF Remove, SocketInv, Typed
<1>2. Typed'
  BY <1>1 DEF SocketInv, Typed, Scanning, Idle
<1>3. PidsDiffer'
  BY <1>1 DEF SocketInv, PidsDiffer
<1>4. DoomedAreGone'
  BY <1>1 DEF DoomedAreGone, Scanning, Idle, SocketInv, Typed
<1>5. LiveSocketKept'
  <2> SUFFICES ASSUME NEW v \in Wrappers \ robbed', wrapper'[v].stage = "serving"
               PROVE  /\ file'[wrapper'[v].name] # None
                      /\ file'[wrapper'[v].name].by = v
    BY DEF LiveSocketKept, Exists
  <2>1. /\ v \notin robbed /\ wrapper[v].stage = "serving"
        /\ file[wrapper[v].name] # None /\ file[wrapper[v].name].by = v
    BY <1>1 DEF SocketInv, LiveSocketKept, Exists
  <2>2. ASSUME wrapper[v].name = n PROVE FALSE
    <3>1. v \notin cleaner.born
      BY <1>1, <2>1, <2>2 DEF SocketInv, DoomedAreGone
    <3>2. v \in robbed'
      BY <1>1, <2>1, <2>2, <3>1 DEF Exists
    <3> QED BY <3>2
  <2>3. file'[wrapper[v].name] = file[wrapper[v].name]
    BY <1>1, <2>1, <2>2 DEF SocketInv, Typed
  <2> QED BY <1>1, <2>1, <2>3
<1> QED BY <1>2, <1>3, <1>4, <1>5 DEF SocketInv

(* Time passes over a file.                                                *)
LEMMA AgeingKeeps ==
    ASSUME SocketInv, NEW n \in Names, Ages(n)
    PROVE  SocketInv'
<1> USE DEF HeldStages, Held
<1>1. /\ wrapper' = wrapper /\ cleaner' = cleaner /\ robbed' = robbed
      /\ file[n] \in Files
      /\ file' = [file EXCEPT ![n] = [file[n] EXCEPT !.old = TRUE]]
  BY DEF Ages, Exists, SocketInv, Typed
<1>2. [file[n] EXCEPT !.old = TRUE] \in Files
  BY <1>1 DEF Files
<1>3. Typed'
  BY <1>1, <1>2 DEF SocketInv, Typed
<1>4. PidsDiffer' /\ DoomedAreGone'
  BY <1>1 DEF SocketInv, PidsDiffer, DoomedAreGone
<1>5. \A m \in Names : /\ file'[m] = None <=> file[m] = None
                       /\ file[m] # None => file'[m].by = file[m].by
  BY <1>1, <1>2, SocketsAssumption DEF SocketInv, Typed, Files, SocketsAssumption
<1>6. LiveSocketKept'
  <2> SUFFICES ASSUME NEW v \in Wrappers \ robbed', wrapper'[v].stage = "serving"
               PROVE  /\ file'[wrapper'[v].name] # None
                      /\ file'[wrapper'[v].name].by = v
    BY DEF LiveSocketKept, Exists
  <2>1. wrapper[v].name \in Names
    BY <1>1 DEF SocketInv, Typed
  <2> QED BY <1>1, <1>5, <2>1 DEF SocketInv, LiveSocketKept, Exists
<1> QED BY <1>3, <1>4, <1>6 DEF SocketInv

LEMMA StepKeeps ==
    ASSUME SocketInv, [Next]_vars
    PROVE  SocketInv'
<1>1. ASSUME NEW w \in Wrappers, Start(w) \/ Launch(w)
      PROVE  SocketInv'
  BY <1>1, BirthKeeps DEF Start, Launch
<1>2. ASSUME NEW w \in Wrappers, Bind(w)
      PROVE  SocketInv'
  BY <1>2, BindKeeps
<1>3. ASSUME NEW w \in Wrappers, BindFails(w) \/ Ends(w) \/ Crash(w)
      PROVE  SocketInv'
  BY <1>3, GoingKeeps DEF BindFails, Ends, Crash, Alive
<1>4. ASSUME NEW w \in Wrappers, Look(w) \/ Wait(w) \/ GivesUp(w)
      PROVE  SocketInv'
  BY <1>4, ReapingKeeps DEF Look, Wait, GivesUp
<1>5. ASSUME NEW n \in Names, Ages(n)
      PROVE  SocketInv'
  BY <1>5, AgeingKeeps
<1>6. ASSUME CleanupStarts \/ CleanerStep
      PROVE  SocketInv'
  BY <1>6, LookingKeeps, RemovalKeeps DEF CleanerStep
<1>7. ASSUME OtherStarts \/ OtherEnds \/ UNCHANGED vars
      PROVE  SocketInv'
  BY <1>7 DEF OtherStarts, OtherEnds, vars, SocketInv, Typed, Held, PidsDiffer,
              DoomedAreGone, LiveSocketKept, Exists
<1> QED BY <1>1, <1>2, <1>3, <1>4, <1>5, <1>6, <1>7 DEF Next

(* A running session keeps its socket file (control.rs, bind and Drop;     *)
(* paths.rs, cleanup_stale_sockets), unless a cleanup had looked at its    *)
(* pid before it was born.                                                 *)
THEOREM SocketsAreKept == Spec => []LiveSocketKept
<1>1. Init => SocketInv
  BY DEF Init, Unborn, Idle, SocketInv, Typed, Stages, HeldStages, Held,
         PidsDiffer, DoomedAreGone, LiveSocketKept
<1>2. SocketInv /\ [Next]_vars => SocketInv'
  BY StepKeeps
<1>3. SocketInv => LiveSocketKept
  BY DEF SocketInv
<1> QED BY <1>1, <1>2, <1>3, PTL DEF Spec
-----------------------------------------------------------------------------
(***************************************************************************)
(* What a launch reports.  While it polls, its child keeps its pid, dead   *)
(* or alive, so nobody else can put a file under the child's name: a file  *)
(* there is the child's own, or was there when the child was born.         *)
(***************************************************************************)
Polling(w) == launch[w] \in {"look", "wait"}

LaunchInv ==
    /\ launch \in [Wrappers -> {"none", "look", "wait", "started", "exited", "late"}]
    /\ \A w \in Wrappers :
          /\ wrapper[w].stage = "unborn" => launch[w] = "none"
          /\ Polling(w) =>
                /\ Held(w)
                /\ Exists(wrapper[w].name) => w \in bound \cup leftover
    /\ LaunchTrue

LEMMA LaunchBirth ==
    ASSUME SocketInv, LaunchInv, NEW w \in Wrappers, Start(w) \/ Launch(w)
    PROVE  LaunchInv'
<1> USE DEF HeldStages, Held, Polling
<1> PICK n \in Names : IsBorn(w, n) /\ leftover' = (IF Exists(n) /\ ~Start(w)
                                                      THEN leftover \cup {w} ELSE leftover)
  BY DEF Start, Launch
<1>1. /\ wrapper[w].stage = "unborn" /\ launch[w] = "none"
      /\ file' = file /\ bound' = bound
      /\ leftover \subseteq leftover'
  BY DEF IsBorn, Unborn, LaunchInv
<1>2. /\ \A v \in Wrappers : v # w => wrapper'[v] = wrapper[v]
      /\ wrapper'[w] = [name |-> n, stage |-> "starting"]
  BY DEF IsBorn, SocketInv, Typed
<1>3. \/ launch' = launch
      \/ launch' = [launch EXCEPT ![w] = "look"] /\ ~Start(w)
  BY DEF Start, Launch, LaunchInv
<1> QED BY <1>1, <1>2, <1>3 DEF LaunchInv, LaunchTrue, Exists

LEMMA LaunchBind ==
    ASSUME SocketInv, LaunchInv, NEW w \in Wrappers, Bind(w)
    PROVE  LaunchInv'
<1> USE DEF HeldStages, Held, Polling
<1>1. /\ wrapper[w].stage = "starting" /\ launch' = launch /\ leftover' = leftover
      /\ bound \subseteq bound' /\ (Polling(w) => w \in bound')
      /\ wrapper[w].name \in Names
      /\ file' = [file EXCEPT ![wrapper[w].name] = [by |-> w, old |-> FALSE]]
  BY DEF Bind, SocketInv, Typed
<1>2. /\ \A v \in Wrappers : v # w => wrapper'[v] = wrapper[v]
      /\ wrapper'[w].name = wrapper[w].name /\ wrapper'[w].stage = "serving"
  BY DEF Bind, SocketInv, Typed
<1>3. \A v \in Wrappers : Held(v) /\ v # w => file'[wrapper[v].name] = file[wrapper[v].name]
  BY <1>1, NameIsOwn DEF SocketInv, Typed
<1>4. \A v \in Wrappers : Polling(v)' =>
          Held(v)' /\ (Exists(wrapper[v].name)' => v \in (bound \cup leftover)')
  BY <1>1, <1>2, <1>3 DEF LaunchInv, Exists
<1> QED BY <1>1, <1>2, <1>4 DEF LaunchInv, LaunchTrue

LEMMA LaunchGoing ==
    ASSUME SocketInv, LaunchInv, NEW w \in Wrappers,
           BindFails(w) \/ Ends(w) \/ Crash(w)
    PROVE  LaunchInv'
<1> USE DEF HeldStages, Held, Polling
<1>1. /\ Held(w) /\ launch' = launch /\ bound' = bound /\ leftover' = leftover
      /\ wrapper[w].name \in Names
      /\ file' \in {file, [file EXCEPT ![wrapper[w].name] = None]}
      /\ wrapper' = [wrapper EXCEPT ![w] = Gone(w)]
  BY DEF BindFails, Ends, Crash, Alive, SocketInv, Typed
<1>2. /\ \A v \in Wrappers : v # w => wrapper'[v] = wrapper[v]
      /\ wrapper'[w] = Gone(w)
  BY <1>1 DEF SocketInv, Typed
<1>3. /\ Polling(w) => Gone(w).stage = "zombie" /\ Gone(w).name = wrapper[w].name
      /\ Gone(w).stage # "unborn"
  BY DEF Gone, Over, SocketInv, Typed
<1>4. \A m \in Names : file'[m] = None \/ file'[m] = file[m]
  BY <1>1 DEF SocketInv, Typed
<1>5. \A v \in Wrappers : Held(v) => wrapper[v].name \in Names
  BY DEF SocketInv, Typed
<1>6. ASSUME launch[w] = "exited" PROVE FALSE
  BY <1>1, <1>6 DEF LaunchInv, LaunchTrue
<1> QED BY <1>1, <1>2, <1>3, <1>4, <1>5, <1>6 DEF LaunchInv, LaunchTrue, Exists

LEMMA LaunchPolls ==
    ASSUME SocketInv, LaunchInv, NEW w \in Wrappers, Look(w) \/ Wait(w) \/ GivesUp(w)
    PROVE  LaunchInv'
<1> USE DEF HeldStages, Held, Polling
<1>1. Polling(w) /\ file' = file /\ bound' = bound /\ leftover' = leftover
  BY DEF Look, Wait, GivesUp
<1>2. /\ \A v \in Wrappers : v # w => wrapper'[v] = wrapper[v]
      /\ wrapper'[w] \in {wrapper[w], Over}
  BY DEF Look, Wait, GivesUp, Reaped, SocketInv, Typed
<1>3. /\ launch' = [launch EXCEPT ![w] = launch'[w]]
      /\ launch'[w] \in {"look", "wait", "started", "exited", "late"}
      /\ launch'[w] = "started" => Exists(wrapper[w].name)
      /\ Polling(w)' => wrapper'[w] = wrapper[w]
      /\ launch'[w] = "exited" => wrapper'[w] = Over
  <2>1. CASE Look(w)
    BY <2>1 DEF Look, SocketFound, LaunchInv
  <2>2. CASE Wait(w)
    <3>1. ~Alive(w) => wrapper[w].stage = "zombie"
      BY <1>1 DEF Alive, LaunchInv
    <3>2. ~Alive(w) => wrapper'[w] = Over
      BY <2>2, <3>1 DEF Wait, Reaped, SocketInv, Typed
    <3>3. Alive(w) => wrapper' = wrapper
      BY <2>2 DEF Wait, Reaped, Alive
    <3> QED BY <2>2, <3>2, <3>3 DEF Wait, LaunchInv
  <2>3. CASE GivesUp(w)
    BY <2>3 DEF GivesUp, LaunchInv
  <2> QED BY <2>1, <2>2, <2>3
<1>4. launch' \in [Wrappers -> {"none", "look", "wait", "started", "exited", "late"}]
  BY <1>3 DEF LaunchInv
<1>5. \A v \in Wrappers : v # w => launch'[v] = launch[v]
  BY <1>3 DEF LaunchInv
<1>6. wrapper[w].stage # "unborn"
  BY <1>1 DEF LaunchInv
<1> QED BY <1>1, <1>2, <1>3, <1>4, <1>5, <1>6 DEF LaunchInv, LaunchTrue, Exists, Over

LEMMA LaunchStep ==
    ASSUME SocketInv, LaunchInv, [Next]_vars
    PROVE  LaunchInv'
<1>1. ASSUME NEW w \in Wrappers, Start(w) \/ Launch(w)
      PROVE  LaunchInv'
  BY <1>1, LaunchBirth
<1>2. ASSUME NEW w \in Wrappers, Bind(w)
      PROVE  LaunchInv'
  BY <1>2, LaunchBind
<1>3. ASSUME NEW w \in Wrappers, BindFails(w) \/ Ends(w) \/ Crash(w)
      PROVE  LaunchInv'
  BY <1>3, LaunchGoing
<1>4. ASSUME NEW w \in Wrappers, Look(w) \/ Wait(w) \/ GivesUp(w)
      PROVE  LaunchInv'
  BY <1>4, LaunchPolls
<1>5. ASSUME /\ wrapper' = wrapper /\ launch' = launch
             /\ bound' = bound /\ leftover' = leftover
             /\ \A m \in Names : Exists(m)' => Exists(m)
      PROVE  LaunchInv'
  <2>1. \A w \in Wrappers : Held(w) => wrapper[w].name \in Names
    BY DEF SocketInv, Typed
  <2> QED BY <1>5, <2>1 DEF LaunchInv, LaunchTrue, Polling, Held
<1>6. ASSUME NEW n \in Names, Ages(n)
      PROVE  LaunchInv'
  BY <1>5, <1>6 DEF Ages, Exists, SocketInv, Typed
<1>7. ASSUME Remove
      PROVE  LaunchInv'
  BY <1>5, <1>7 DEF Remove, Exists, SocketInv, Typed
<1>8. ASSUME \/ OtherStarts \/ OtherEnds \/ CleanupStarts
             \/ (\E n \in Names : Stat(n)) \/ Probe \/ CleanupEnds \/ UNCHANGED vars
      PROVE  LaunchInv'
  BY <1>5, <1>8 DEF OtherStarts, OtherEnds, CleanupStarts, Stat, Probe,
                    CleanupEnds, vars, Exists
<1> QED BY <1>1, <1>2, <1>3, <1>4, <1>6, <1>7, <1>8 DEF Next, CleanerStep

(* A launch that says "started" is of a wrapper that has bound its socket, *)
(* or whose name was already there; one that says "exited" is of a wrapper *)
(* that is gone (spawn_detached).                                          *)
THEOREM LaunchesReportTruly == Spec => []LaunchTrue
<1>1. Init => SocketInv /\ LaunchInv
  <2>1. Init => SocketInv
    BY DEF Init, Unborn, Idle, SocketInv, Typed, Stages, HeldStages, Held,
           PidsDiffer, DoomedAreGone, LiveSocketKept
  <2>2. Init => LaunchInv
    BY DEF Init, LaunchInv, LaunchTrue, Polling
  <2> QED BY <2>1, <2>2
<1>2. SocketInv /\ LaunchInv /\ [Next]_vars => (SocketInv /\ LaunchInv)'
  BY StepKeeps, LaunchStep
<1>3. LaunchInv => LaunchTrue
  BY DEF LaunchInv
<1> QED BY <1>1, <1>2, <1>3, PTL DEF Spec
=============================================================================
