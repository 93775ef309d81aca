----------------------------- MODULE AttachProofs ----------------------------
(***************************************************************************)
(* Theorems about Attach: for any clients, of which any are forcing, and   *)
(* any output, what a live attach shows is gapless, and every attach       *)
(* reports truly how it ended.                                             *)
(***************************************************************************)
EXTENDS Attach, SequenceTheorems, TLAPS

-----------------------------------------------------------------------------
(* Queues.                                                                 *)

Kinds == {"init", "view", "unview", "input", "history", "snapshot", "output",
          "history_lines", "held", "takeover", "readonly", "exit", "eof", "reset"}

Message == [type : Kinds, pos : Nat, next : Nat]

\* The messages of q, one after the other, take a number from a to b: R says
\* how a message may change it.
Path(R, q, a, b) ==
    \E f \in [0..Len(q) -> Nat] :
        /\ f[0] = a /\ f[Len(q)] = b
        /\ \A i \in 1..Len(q) : <<q[i], f[i - 1], f[i]>> \in R

\* How far in the output the screen is: an output continues it, a snapshot
\* sets it anew.
Shown == {t \in Message \X Nat \X Nat :
             CASE t[1].type = "output"   -> t[1].pos = t[3] /\ t[3] = t[2] + 1
               [] t[1].type = "snapshot" -> t[1].pos = t[3]
               [] OTHER                  -> t[3] = t[2]}

\* How many history replies are still to come before the reply for the lines
\* before n, which is the last.
Asked(n) == {t \in Message \X Nat \X Nat :
                IF t[1].type \in {"history", "history_lines"}
                THEN t[2] = t[3] + 1 /\ (t[3] = 0 => t[1].next = n)
                ELSE t[3] = t[2]}

-----------------------------------------------------------------------------
(* The invariant.                                                          *)

App == [snapshot : Message, pending : Seq(Nat), skip : Nat,
        mirror : Nat \cup {Broken}, printed : Nat \X Nat,
        lastError : Errors \cup {None}, exited : BOOLEAN, keys : Nat]

AttachTypes ==
    /\ mode \in [Clients -> {"idle", "probed", "connected", "await", "fetching",
                             "live", "ended"}]
    /\ app \in [Clients -> App]
    /\ outcome \in [Clients -> {"none", "lost", "left", "closed", "exit"} \cup Errors]
    /\ up \in [Clients -> Seq(Message)] /\ down \in [Clients -> Seq(Message)]
    /\ conn \in [Clients -> {"none", "pending", "viewer", "closed"}]
    /\ viewing \subseteq Clients
    /\ displaced \subseteq Clients /\ unserved \subseteq Clients
    /\ life \in {"running", "exited", "crashed"}
    /\ pos \in Nat /\ next \in Nat

\* Where a client and the wrapper's end of its connection can be together.  It
\* claims the role once, with the first message it sends.
PlaceInv(c) ==
    /\ mode[c] \in {"idle", "probed"} => conn[c] = "none"
    /\ mode[c] \in {"idle", "probed", "connected"} => up[c] = << >>
    /\ \A i \in 1..Len(up[c]) : up[c][i].type = "init" => i = 1 /\ conn[c] # "viewer"
    /\ c \in displaced => conn[c] = "closed"
    /\ c \in unserved => life # "running"

\* Something that the client has read, or will have read before message i,
\* says why its connection ends.
Explained(c, i) ==
    \/ app[c].exited \/ app[c].lastError # None
    \/ \E j \in 1..(i - 1) : down[c][j].type \in {"held", "takeover", "exit"}

\* EndingTrue, and what is on its way to a client that has not ended: each
\* last word is true, and the end of the connection follows one, unless the
\* wrapper had none for this client.
EndingInv(c) ==
    /\ outcome[c] = "takeover" => c \in displaced
    /\ outcome[c] = "exit" => life = "exited"
    /\ outcome[c] = "closed" => life = "crashed" \/ c \in unserved
    /\ outcome[c] \in {"closed", "exit", "held"} => c \notin displaced /\ conn[c] = "closed"
    /\ app[c].lastError = "takeover" => c \in displaced
    /\ app[c].lastError = "held" => c \notin displaced /\ conn[c] = "closed"
    /\ app[c].exited => c \notin displaced /\ conn[c] = "closed" /\ life = "exited"

WordsInv(c) ==
    ~Gone(c) =>
        \A i \in 1..Len(down[c]) :
            /\ down[c][i].type = "takeover" => c \in displaced
            /\ down[c][i].type = "held" => c \notin displaced /\ conn[c] = "closed"
            /\ down[c][i].type = "exit" =>
                  c \notin displaced /\ conn[c] = "closed" /\ life = "exited"
            /\ down[c][i].type = "eof" =>
                  /\ conn[c] = "closed"
                  /\ \/ Explained(c, i)
                     \/ c \notin displaced /\ (life = "crashed" \/ c \in unserved)

\* What is on its way takes the screen from where it is to the last output.
StreamInv(c) ==
    ~Gone(c) =>
        \E a, b \in Nat :
            /\ Path(Shown, down[c], a, b)
            /\ c \in viewing => b = pos
            /\ mode[c] = "fetching" =>
                  /\ a = app[c].snapshot.pos + Len(app[c].pending)
                  /\ \A i \in 1..Len(app[c].pending) :
                        app[c].pending[i] = app[c].snapshot.pos + i
            /\ mode[c] = "live" =>
                  app[c].mirror = a /\ app[c].printed[1] = app[c].printed[2]

\* A client that is not live is still owed `skip` stale replies and the one
\* it waits for: they are on their way, or their requests are, unless the
\* connection is closed, which may cost the last ones.
Owed(c) == IF mode[c] = "fetching" THEN app[c].skip + 1 ELSE 0

RepliesInv(c) ==
    ~Gone(c) /\ ~Live(c) =>
        \E k \in Nat :
            /\ Path(Asked(app[c].snapshot.next), down[c], Owed(c), k)
            /\ conn[c] # "closed" => Path(Asked(app[c].snapshot.next), up[c], k, 0)

AttachInv ==
    \A c \in Clients : /\ PlaceInv(c) /\ EndingInv(c) /\ WordsInv(c)
                       /\ StreamInv(c) /\ RepliesInv(c)

-----------------------------------------------------------------------------
(* Lemmas about queues.                                                    *)

LEMMA AppendFacts ==
    ASSUME NEW T, NEW s \in Seq(T), NEW x \in T
    PROVE  /\ Append(s, x) \in Seq(T) /\ Len(Append(s, x)) = Len(s) + 1
           /\ \A j \in 1..Len(s) : Append(s, x)[j] = s[j]
           /\ Append(s, x)[Len(s) + 1] = x
           /\ s \o <<x>> = Append(s, x) /\ s \o << >> = s
  OBVIOUS

LEMMA TailFacts ==
    ASSUME NEW T, NEW s \in Seq(T), s # << >>
    PROVE  /\ Tail(s) \in Seq(T) /\ Len(Tail(s)) \in Nat /\ Len(s) = Len(Tail(s)) + 1
           /\ Head(s) \in T /\ Head(s) = s[1]
           /\ \A j \in 1..Len(Tail(s)) : Tail(s)[j] = s[j + 1]
  OBVIOUS

LEMMA PathEmpty ==
    ASSUME NEW R, NEW a \in Nat
    PROVE  Path(R, << >>, a, a)
<1>1. PICK f \in [0..0 -> Nat] : f[0] = a
  <2>1. [i \in 0..0 |-> a] \in [0..0 -> Nat] /\ [i \in 0..0 |-> a][0] = a
    OBVIOUS
  <2>2. QED BY <2>1
<1>2. Len(<< >>) = 0 /\ 1..0 = {}
  OBVIOUS
<1>3. QED BY <1>1, <1>2 DEF Path

LEMMA PathAppend ==
    ASSUME NEW R, NEW T, NEW q \in Seq(T), NEW m \in T,
           NEW a, NEW b, NEW c \in Nat, Path(R, q, a, b), <<m, b, c>> \in R
    PROVE  Path(R, Append(q, m), a, c)
<1>1. PICK f \in [0..Len(q) -> Nat] :
         /\ f[0] = a /\ f[Len(q)] = b
         /\ \A i \in 1..Len(q) : <<q[i], f[i - 1], f[i]>> \in R
  BY DEF Path
<1>2. PICK n \in Nat : n = Len(q)
  OBVIOUS
<1>3. PICK p \in Seq(T) :
         /\ p = Append(q, m) /\ Len(p) = n + 1
         /\ \A j \in 1..n : p[j] = q[j]
         /\ p[n + 1] = m
  <2>1. /\ Append(q, m) \in Seq(T) /\ Len(Append(q, m)) = Len(q) + 1
        /\ \A j \in 1..Len(q) : Append(q, m)[j] = q[j]
        /\ Append(q, m)[Len(q) + 1] = m
    BY AppendFacts
  <2>2. QED BY <1>2, <2>1
<1> DEFINE g == [i \in 0..(n + 1) |-> IF i = n + 1 THEN c ELSE f[i]]
<1>4. g \in [0..(n + 1) -> Nat]
  BY <1>1, <1>2
<1>5. g[0] = a /\ g[n + 1] = c
  BY <1>1, <1>2
<1>6. ASSUME NEW i \in 1..(n + 1)
      PROVE  <<p[i], g[i - 1], g[i]>> \in R
  <2>1. CASE i = n + 1
    <3>1. p[i] = m /\ g[i] = c
      BY <1>3, <2>1
    <3>2. g[i - 1] = f[n]
      BY <1>2, <2>1
    <3>3. QED BY <1>1, <1>2, <3>1, <3>2
  <2>2. CASE i # n + 1
    <3>1. i \in 1..n
      BY <1>2, <2>2
    <3>2. p[i] = q[i] /\ g[i] = f[i] /\ g[i - 1] = f[i - 1]
      BY <1>2, <1>3, <3>1
    <3>3. QED BY <1>1, <1>2, <3>1, <3>2
  <2>3. QED BY <2>1, <2>2
<1>7. QED
  <2> HIDE DEF g
  <2>1. QED BY <1>3, <1>4, <1>5, <1>6 DEF Path

LEMMA PathHead ==
    ASSUME NEW R, NEW T, NEW q \in Seq(T), q # << >>, NEW a, NEW b, Path(R, q, a, b)
    PROVE  \E c \in Nat : <<Head(q), a, c>> \in R /\ Path(R, Tail(q), c, b)
<1>1. PICK f \in [0..Len(q) -> Nat] :
         /\ f[0] = a /\ f[Len(q)] = b
         /\ \A i \in 1..Len(q) : <<q[i], f[i - 1], f[i]>> \in R
  BY DEF Path
<1>2. PICK n \in Nat : n = Len(Tail(q)) /\ Len(q) = n + 1
  BY TailFacts
<1>3. Head(q) = q[1] /\ \A j \in 1..n : Tail(q)[j] = q[j + 1]
  BY <1>2, TailFacts
<1>4. <<Head(q), a, f[1]>> \in R /\ f[1] \in Nat
  <2>1. 1 \in 1..(n + 1) /\ 1 \in 0..(n + 1) /\ 1 - 1 = 0
    BY <1>2
  <2>2. QED BY <1>1, <1>2, <1>3, <2>1
<1> DEFINE g == [i \in 0..n |-> f[i + 1]]
<1>5. g \in [0..n -> Nat] /\ g[0] = f[1] /\ g[n] = b
  BY <1>1, <1>2
<1>6. ASSUME NEW i \in 1..n
      PROVE  <<Tail(q)[i], g[i - 1], g[i]>> \in R
  <2>1. i + 1 \in 1..(n + 1) /\ i - 1 \in 0..n /\ i \in 0..n /\ (i + 1) - 1 = i
    BY <1>2
  <2>2. g[i] = f[i + 1] /\ g[i - 1] = f[i]
    BY <2>1
  <2>3. <<q[i + 1], f[i], f[i + 1]>> \in R
    BY <1>1, <1>2, <2>1
  <2>4. QED BY <1>3, <2>2, <2>3
<1>7. Path(R, Tail(q), f[1], b)
  <2> HIDE DEF g
  <2>1. QED BY <1>2, <1>5, <1>6 DEF Path
<1>8. QED BY <1>4, <1>7

\* One more reply to wait for: all that are on their way have become stale.
LEMMA PathShift ==
    ASSUME NEW q \in Seq(Message), NEW a \in Nat, NEW b \in Nat, NEW n, NEW k,
           Path(Asked(n), q, a, b)
    PROVE  Path(Asked(k), q, a + 1, b + 1)
<1>1. PICK f \in [0..Len(q) -> Nat] :
         /\ f[0] = a /\ f[Len(q)] = b
         /\ \A i \in 1..Len(q) : <<q[i], f[i - 1], f[i]>> \in Asked(n)
  BY DEF Path
<1>2. PICK l \in Nat : l = Len(q)
  OBVIOUS
<1> DEFINE g == [i \in 0..l |-> f[i] + 1]
<1>3. g \in [0..l -> Nat] /\ g[0] = a + 1 /\ g[l] = b + 1
  BY <1>1, <1>2
<1>4. ASSUME NEW i \in 1..l
      PROVE  <<q[i], g[i - 1], g[i]>> \in Asked(k)
  <2>1. i \in 0..l /\ i - 1 \in 0..l
    BY <1>2
  <2>2. PICK x \in Nat, y \in Nat : x = f[i - 1] /\ y = f[i]
    BY <1>1, <1>2, <2>1
  <2>3. g[i - 1] = x + 1 /\ g[i] = y + 1
    BY <2>1, <2>2
  <2>4. PICK m \in Message : m = q[i]
    BY <1>2
  <2>5. <<m, x, y>> \in Asked(n)
    BY <1>1, <1>2, <2>2, <2>4
  <2>6. <<m, x + 1, y + 1>> \in Asked(k)
    BY <2>5 DEF Asked
  <2>7. QED BY <2>3, <2>4, <2>6
<1>5. QED
  <2> HIDE DEF g
  <2>1. QED BY <1>2, <1>3, <1>4 DEF Path

\* What single messages do.
LEMMA ShownMoves ==
    ASSUME NEW m \in Message, NEW x \in Nat, NEW y \in Nat
    PROVE  /\ m.type = "output" =>
                  (<<m, x, y>> \in Shown <=> m.pos = y /\ y = x + 1)
           /\ m.type = "snapshot" => (<<m, x, y>> \in Shown <=> m.pos = y)
           /\ m.type \notin {"output", "snapshot"} =>
                  (<<m, x, y>> \in Shown <=> y = x)
  BY DEF Shown

LEMMA AskedMoves ==
    ASSUME NEW m \in Message, NEW x \in Nat, NEW y \in Nat, NEW n
    PROVE  /\ m.type \in {"history", "history_lines"} =>
                  (<<m, x, y>> \in Asked(n) <=>
                     x = y + 1 /\ (y = 0 => m.next = n))
           /\ m.type \notin {"history", "history_lines"} =>
                  (<<m, x, y>> \in Asked(n) <=> y = x)
  BY DEF Asked

-----------------------------------------------------------------------------
(* What a step does to one client.                                         *)

\* Every step of the system is one of these to each client, so that the
\* invariant need only be shown for them.

LocalTypes(c) ==
    /\ mode[c] \in {"idle", "probed", "connected", "await", "fetching", "live", "ended"}
    /\ app[c] \in App
    /\ up[c] \in Seq(Message) /\ down[c] \in Seq(Message)
    /\ conn[c] \in {"none", "pending", "viewer", "closed"}
    /\ life \in {"running", "exited", "crashed"} /\ pos \in Nat /\ next \in Nat

ClientInv(c) ==
    PlaceInv(c) /\ EndingInv(c) /\ WordsInv(c) /\ StreamInv(c) /\ RepliesInv(c)

LEMMA LocalFacts ==
    ASSUME AttachTypes, NEW c \in Clients
    PROVE  LocalTypes(c)
  BY DEF AttachTypes, LocalTypes

\* The client does nothing.
Unmoved(c) == mode'[c] = mode[c] /\ app'[c] = app[c] /\ outcome'[c] = outcome[c]

\* It is displaced or unserved only if it was.
Marked(c) == (c \in displaced' <=> c \in displaced) /\ (c \in unserved' <=> c \in unserved)

\* It is viewing only if it was, and misses no output.
InView(c) == c \in viewing' => c \in viewing /\ pos' = pos

LifeGoesOn == life' = life \/ life = "running"

\* The wrapper does nothing to c.
Still(c) == conn'[c] = conn[c] /\ Marked(c) /\ InView(c) /\ LifeGoesOn

Idle(c) == Unmoved(c) /\ Still(c) /\ up'[c] = up[c] /\ down'[c] = down[c]

\* The wrapper tells a viewer something,
Heard(c, m) ==
    /\ Unmoved(c) /\ ~Gone(c) /\ Marked(c) /\ life' = life /\ m \in Message
    /\ conn'[c] = conn[c] /\ up'[c] = up[c] /\ down'[c] = Append(down[c], m)
    /\ \/ m.type = "output" /\ c \in viewing /\ m.pos = pos' /\ pos' = pos + 1
       \/ m.type = "snapshot" /\ m.pos = pos /\ pos' = pos

\* drops it,
Cut(c) ==
    /\ Unmoved(c) /\ Gone(c) /\ Marked(c) /\ LifeGoesOn
    /\ conn'[c] = "closed" /\ c \notin viewing' /\ up'[c] = up[c]

\* closes its connection, with or without a last word,
Shut(c, w) ==
    /\ Unmoved(c) /\ LifeGoesOn /\ InView(c)
    /\ conn[c] \in {"pending", "viewer"} /\ conn'[c] = "closed" /\ up'[c] = << >>
    /\ ~Gone(c) => \E e \in {"eof", "reset"} :
          down'[c] = Append(IF w = "none" THEN down[c] ELSE Append(down[c], Plain(w)),
                            Plain(e))
    /\ c \in displaced' <=> (c \in displaced \/ w = "takeover")
    /\ c \in unserved' => c \in unserved \/ life' # "running"
    /\ \/ w \in {"held", "takeover"}
       \/ w = "exit" /\ life' = "exited"
       \/ w = "none" /\ (life' = "crashed" \/ c \in unserved')

\* or reads a message of it, and perhaps answers.
Took(c) ==
    /\ Unmoved(c) /\ Marked(c) /\ life' = life /\ pos' = pos
    /\ conn[c] \in {"pending", "viewer"} /\ up[c] # << >> /\ up'[c] = Tail(up[c])
    /\ LET m == Head(up[c]) IN
       \/ /\ m.type = "init" /\ conn'[c] = "viewer" /\ down'[c] = down[c] /\ InView(c)
       \/ /\ m.type \in {"view", "unview", "input"} /\ conn'[c] = conn[c]
          /\ down'[c] = down[c] /\ InView(c)
       \/ /\ m.type \in {"view", "unview", "input"} /\ conn'[c] = conn[c] /\ ~Gone(c)
          /\ \E x \in Message : /\ down'[c] = Append(down[c], x)
                                /\ \/ x.type = "snapshot" /\ x.pos = pos
                                   \/ x.type = "readonly" /\ InView(c)
       \/ /\ m.type = "history" /\ conn'[c] = conn[c] /\ ~Gone(c) /\ InView(c)
          /\ down'[c] = Append(down[c], Msg("history_lines", 0, m.next))
       \/ Gone(c) /\ conn'[c] = "closed" /\ c \notin viewing'

\* The client has ended as `how` says,
OutcomeTrue(c, how) ==
    /\ how = "takeover" => c \in displaced
    /\ how = "exit" => life = "exited"
    /\ how = "closed" => life = "crashed" \/ c \in unserved
    /\ how \in {"closed", "exit", "held"} => c \notin displaced /\ conn[c] = "closed"

Left(c) ==
    /\ mode'[c] = "ended" /\ app'[c] = NoApp /\ OutcomeTrue(c, outcome'[c]) /\ Still(c)
    /\ up'[c] = up[c] \/ up'[c] = Append(up[c], Plain("unview"))

\* has looked at the session, has connected, or has claimed it,
Looked(c) ==
    /\ mode[c] = "idle" /\ mode'[c] = "probed" /\ app'[c] = app[c] /\ outcome'[c] = outcome[c]
    /\ Still(c) /\ up'[c] = up[c] /\ down'[c] = down[c]
Dialled(c) ==
    /\ mode[c] = "probed" /\ mode'[c] = "connected"
    /\ app'[c] = app[c] /\ outcome'[c] = outcome[c] /\ conn'[c] = "pending"
    /\ Marked(c) /\ InView(c) /\ LifeGoesOn /\ up'[c] = up[c] /\ down'[c] = down[c]
Claimed(c) ==
    /\ mode[c] = "connected" /\ mode'[c] = "await" /\ conn[c] = "pending"
    /\ app'[c] = app[c] /\ outcome'[c] = outcome[c] /\ Still(c) /\ down'[c] = down[c]
    /\ up'[c] = Append(Append(up[c], Plain("init")), Plain("view"))

\* has sent a key,
Kept(c) == app'[c].lastError = app[c].lastError /\ app'[c].exited = app[c].exited
SameView(c) ==
    /\ mode'[c] = mode[c]
    /\ app'[c].snapshot = app[c].snapshot /\ app'[c].pending = app[c].pending
    /\ app'[c].skip = app[c].skip /\ app'[c].mirror = app[c].mirror
    /\ app'[c].printed = app[c].printed

Typed(c) ==
    /\ Running(c) /\ outcome'[c] = outcome[c] /\ Still(c)
    /\ SameView(c) /\ Kept(c) /\ down'[c] = down[c]
    /\ up'[c] = Append(up[c], Plain("input"))

\* or has read a message m and goes on.
Goes(c, m) ==
    /\ Running(c) /\ outcome'[c] = outcome[c] /\ Still(c)
    /\ down[c] # << >> /\ m = Head(down[c]) /\ down'[c] = Tail(down[c])

\* A screen of its own, with the history before it printed.
Screen(c, p, h, n) ==
    /\ mode'[c] = "live" /\ app'[c].mirror = p /\ app'[c].printed = <<h, n>>
    /\ Kept(c) /\ up'[c] = up[c]

\* The messages that start a screen, keep the client waiting, keep it live, or
\* say why the connection will end.
Started(c, m) ==
    \/ m.type = "snapshot" /\ m.next = 0 /\ ~Live(c) /\ Screen(c, m.pos, 0, m.next)
    \/ /\ m.type = "history_lines" /\ mode[c] = "fetching" /\ app[c].skip = 0
       /\ Screen(c, Applied(app[c].snapshot.pos, app[c].pending), m.next, app[c].snapshot.next)

Waits(c, m) ==
    \/ /\ m.type = "snapshot" /\ ~Live(c) /\ mode'[c] = "fetching" /\ conn[c] = "viewer"
       /\ app'[c].snapshot = m /\ app'[c].pending = << >>
       /\ app'[c].skip = (IF mode[c] = "fetching" THEN app[c].skip + 1 ELSE 0) /\ Kept(c)
       /\ up'[c] = Append(up[c], Msg("history", 0, m.next))
    \/ /\ m.type \in {"output", "history_lines"} /\ mode[c] = "await" /\ mode'[c] = "await"
       /\ SameView(c) /\ Kept(c) /\ up'[c] = up[c]
    \/ /\ m.type = "output" /\ mode[c] = "fetching" /\ mode'[c] = "fetching"
       /\ app'[c].pending = Append(app[c].pending, m.pos)
       /\ app'[c].snapshot = app[c].snapshot /\ app'[c].skip = app[c].skip /\ Kept(c)
       /\ up'[c] = up[c]
    \/ /\ m.type = "history_lines" /\ mode[c] = "fetching" /\ mode'[c] = "fetching"
       /\ app[c].skip > 0 /\ app'[c].skip = app[c].skip - 1
       /\ app'[c].snapshot = app[c].snapshot /\ app'[c].pending = app[c].pending /\ Kept(c)
       /\ up'[c] = up[c]

GoesOn(c, m) ==
    /\ Live(c) /\ mode'[c] = "live" /\ up'[c] = up[c] /\ Kept(c)
    /\ app'[c].printed = app[c].printed
    /\ \/ m.type = "snapshot" /\ app'[c].mirror = m.pos
       \/ m.type = "output" /\ app'[c].mirror = Applied(app[c].mirror, <<m.pos>>)
       \/ m.type = "history_lines" /\ app'[c].mirror = app[c].mirror

Notes(c, m) ==
    /\ SameView(c) /\ up'[c] = up[c]
    /\ \/ /\ m.type \in Errors /\ Live(c)
          /\ app'[c].lastError = m.type /\ app'[c].exited = app[c].exited
       \/ /\ m.type = "exit"
          /\ app'[c].lastError = app[c].lastError /\ app'[c].exited = TRUE

-----------------------------------------------------------------------------
(* The wrapper's doing.                                                    *)

LEMMA PlainMessages ==
    ASSUME NEW type \in Kinds, NEW n \in Nat
    PROVE  /\ Plain(type) \in Message /\ Plain(type).type = type
           /\ Msg(type, 0, n) \in Message /\ Msg(type, 0, n).type = type
           /\ Msg(type, 0, n).next = n
  BY DEF Plain, Msg, Message

LEMMA IdleInv ==
    ASSUME NEW c \in Clients, LocalTypes(c), ClientInv(c), Idle(c)
    PROVE  ClientInv(c)'
<1> USE DEF Idle, Still, Unmoved, Marked, InView, LifeGoesOn
<1>1. PlaceInv(c)'
  BY DEF ClientInv, PlaceInv
<1>2. EndingInv(c)'
  BY DEF ClientInv, EndingInv
<1>3. WordsInv(c)'
  BY DEF ClientInv, WordsInv, Explained, Gone
<1>4. StreamInv(c)'
  <2>1. SUFFICES ASSUME ~Gone(c)
                 PROVE  StreamInv(c)'
    BY DEF StreamInv, Gone
  <2>2. PICK a \in Nat, b \in Nat :
           /\ Path(Shown, down[c], a, b)
           /\ c \in viewing => b = pos
           /\ mode[c] = "fetching" =>
                 /\ a = app[c].snapshot.pos + Len(app[c].pending)
                 /\ \A i \in 1..Len(app[c].pending) :
                       app[c].pending[i] = app[c].snapshot.pos + i
           /\ mode[c] = "live" =>
                 app[c].mirror = a /\ app[c].printed[1] = app[c].printed[2]
    BY <2>1 DEF ClientInv, StreamInv
  <2>3. c \in viewing' => b = pos'
    BY <2>2
  <2>4. QED BY <2>2, <2>3 DEF StreamInv
<1>5. RepliesInv(c)'
  BY DEF ClientInv, RepliesInv, Gone, Live, Owed
<1>6. QED BY <1>1, <1>2, <1>3, <1>4, <1>5 DEF ClientInv

LEMMA CutInv ==
    ASSUME NEW c \in Clients, LocalTypes(c), ClientInv(c), Cut(c)
    PROVE  ClientInv(c)'
<1> USE DEF Cut, Unmoved, Marked, LifeGoesOn, Gone
<1>1. PlaceInv(c)'
  BY DEF ClientInv, PlaceInv
<1>2. EndingInv(c)'
  BY DEF ClientInv, EndingInv
<1>3. WordsInv(c)' /\ StreamInv(c)' /\ RepliesInv(c)'
  BY DEF WordsInv, StreamInv, RepliesInv
<1>4. QED BY <1>1, <1>2, <1>3 DEF ClientInv

\* Messages that are no last words may be added without harm.
LEMMA WordsAppend ==
    ASSUME NEW c \in Clients, LocalTypes(c), WordsInv(c), Unmoved(c), NEW m \in Message,
           down'[c] = Append(down[c], m), ~Gone(c), Marked(c), life' = life,
           conn[c] = "closed" => conn'[c] = "closed",
           m.type \notin {"takeover", "held", "exit", "eof"}
    PROVE  WordsInv(c)'
<1>1. PICK q \in Seq(Message) : q = down[c]
  BY DEF LocalTypes
<1>2. PICK n \in Nat : n = Len(q)
  OBVIOUS
<1>3. PICK p \in Seq(Message) :
         /\ p = Append(q, m) /\ Len(p) = n + 1
         /\ \A j \in 1..n : p[j] = q[j]
         /\ p[n + 1] = m
  <2>1. /\ Append(q, m) \in Seq(Message) /\ Len(Append(q, m)) = Len(q) + 1
        /\ \A j \in 1..Len(q) : Append(q, m)[j] = q[j]
        /\ Append(q, m)[Len(q) + 1] = m
    BY AppendFacts
  <2>2. QED BY <1>2, <2>1
<1>4. ASSUME NEW i \in 1..n, Explained(c, i)
      PROVE  Explained(c, i)'
  <2>1. \A j \in 1..(i - 1) : j \in 1..n
    BY <1>2
  <2>2. \A j \in 1..(i - 1) : down'[c][j] = down[c][j]
    BY <1>1, <1>3, <2>1
  <2>3. QED BY <1>4, <2>2 DEF Explained, Unmoved
<1>5. ASSUME NEW i \in 1..(n + 1)
      PROVE  /\ p[i].type = "takeover" => c \in displaced'
             /\ p[i].type = "held" => c \notin displaced' /\ conn'[c] = "closed"
             /\ p[i].type = "exit" =>
                   c \notin displaced' /\ conn'[c] = "closed" /\ life' = "exited"
             /\ p[i].type = "eof" =>
                   /\ conn'[c] = "closed"
                   /\ \/ Explained(c, i)'
                      \/ c \notin displaced' /\ (life' = "crashed" \/ c \in unserved')
  <2>1. CASE i = n + 1
    BY <1>3, <2>1
  <2>2. CASE i # n + 1
    <3>1. i \in 1..n
      BY <1>2, <2>2
    <3>2. p[i] = down[c][i] /\ i \in 1..Len(down[c])
      BY <1>1, <1>2, <1>3, <3>1
    <3>3. QED BY <1>4, <3>1, <3>2 DEF WordsInv, Marked
  <2>3. QED BY <2>1, <2>2
<1>6. down'[c] = p
  BY <1>1, <1>3
<1>7. QED BY <1>3, <1>5, <1>6 DEF WordsInv

\* StreamInv once more, with the numbers named.
Along(c, a, b) ==
    /\ Path(Shown, down[c], a, b)
    /\ c \in viewing => b = pos
    /\ mode[c] = "fetching" =>
          /\ a = app[c].snapshot.pos + Len(app[c].pending)
          /\ \A i \in 1..Len(app[c].pending) :
                app[c].pending[i] = app[c].snapshot.pos + i
    /\ mode[c] = "live" =>
          app[c].mirror = a /\ app[c].printed[1] = app[c].printed[2]

LEMMA StreamAt ==
    ASSUME NEW c
    PROVE  StreamInv(c) <=> (~Gone(c) => \E a, b \in Nat : Along(c, a, b))
  BY DEF StreamInv, Along

LEMMA StreamAppend ==
    ASSUME NEW c \in Clients, LocalTypes(c), StreamInv(c), Unmoved(c), NEW m \in Message,
           ~Gone(c), down'[c] = Append(down[c], m),
           \/ m.type = "output" /\ c \in viewing /\ m.pos = pos' /\ pos' = pos + 1
           \/ m.type = "snapshot" /\ m.pos = pos /\ pos' = pos
           \/ m.type \notin {"output", "snapshot"} /\ InView(c)
    PROVE  StreamInv(c)'
<1>1. PICK a \in Nat, b \in Nat : Along(c, a, b)
  BY StreamAt
<1>2. PICK b2 \in Nat : <<m, b, b2>> \in Shown /\ (c \in viewing' => b2 = pos')
  <2>1. pos \in Nat /\ m.pos \in Nat
    BY DEF LocalTypes, Message
  <2>2. CASE m.type = "output" /\ c \in viewing /\ m.pos = pos' /\ pos' = pos + 1
    <3>1. b = pos
      BY <1>1, <2>2 DEF Along
    <3>2. <<m, b, m.pos>> \in Shown
      BY <2>1, <2>2, <3>1, ShownMoves
    <3>3. QED BY <2>1, <2>2, <3>2
  <2>3. CASE m.type = "snapshot" /\ m.pos = pos /\ pos' = pos
    <3>1. <<m, b, m.pos>> \in Shown
      BY <2>1, <2>3, ShownMoves
    <3>2. QED BY <2>1, <2>3, <3>1
  <2>4. CASE m.type \notin {"output", "snapshot"} /\ InView(c)
    <3>1. <<m, b, b>> \in Shown
      BY <2>4, ShownMoves
    <3>2. c \in viewing' => b = pos'
      BY <1>1, <2>4 DEF Along, InView
    <3>3. QED BY <3>1, <3>2
  <2>5. QED BY <2>2, <2>3, <2>4
<1>3. Path(Shown, Append(down[c], m), a, b2)
  <2>1. down[c] \in Seq(Message) /\ Path(Shown, down[c], a, b)
    BY <1>1 DEF LocalTypes, Along
  <2>2. QED BY <1>2, <2>1, PathAppend
<1>4. Along(c, a, b2)'
  BY <1>1, <1>2, <1>3 DEF Along, Unmoved
<1>5. QED BY <1>4 DEF StreamInv, Along

\* Messages that are no replies change nothing in what is owed.
LEMMA RepliesAppend ==
    ASSUME NEW c \in Clients, LocalTypes(c), RepliesInv(c), Unmoved(c), NEW m \in Message,
           ~Gone(c), down'[c] = Append(down[c], m), m.type \notin {"history", "history_lines"},
           conn'[c] # "closed" => conn[c] # "closed" /\ up'[c] = up[c]
    PROVE  RepliesInv(c)'
<1>1. SUFFICES ASSUME ~Live(c)
               PROVE  RepliesInv(c)'
  BY DEF RepliesInv, Live, Unmoved
<1>2. PICK n : n = app[c].snapshot.next
  OBVIOUS
<1>3. PICK k \in Nat : /\ Path(Asked(n), down[c], Owed(c), k)
                       /\ conn[c] # "closed" => Path(Asked(n), up[c], k, 0)
  BY <1>1, <1>2 DEF RepliesInv
<1>4. <<m, k, k>> \in Asked(n)
  BY AskedMoves
<1>5. Path(Asked(n), Append(down[c], m), Owed(c), k)
  <2>1. down[c] \in Seq(Message)
    BY DEF LocalTypes
  <2>2. QED BY <1>3, <1>4, <2>1, PathAppend
<1>6. Owed(c)' = Owed(c) /\ app'[c].snapshot.next = n
  BY <1>2 DEF Owed, Unmoved
<1>7. QED BY <1>3, <1>5, <1>6 DEF RepliesInv

LEMMA HeardInv ==
    ASSUME NEW c \in Clients, LocalTypes(c), ClientInv(c), NEW m, Heard(c, m)
    PROVE  ClientInv(c)'
<1>1. m \in Message /\ m.type \in {"output", "snapshot"} /\ Unmoved(c) /\ ~Gone(c)
  BY DEF Heard
<1>2. PlaceInv(c)'
  BY DEF ClientInv, PlaceInv, Heard, Unmoved, Marked
<1>3. EndingInv(c)'
  BY DEF ClientInv, EndingInv, Heard, Unmoved, Marked
<1>4. WordsInv(c)'
  BY <1>1, WordsAppend DEF ClientInv, Heard
<1>5. StreamInv(c)'
  BY <1>1, StreamAppend DEF ClientInv, Heard
<1>6. RepliesInv(c)'
  BY <1>1, RepliesAppend DEF ClientInv, Heard
<1>7. QED BY <1>2, <1>3, <1>4, <1>5, <1>6 DEF ClientInv

\* Messages that move neither number.
LEMMA PathQuiet ==
    ASSUME NEW q \in Seq(Message), NEW m \in Message, NEW a \in Nat, NEW b \in Nat, NEW n,
           m.type \notin {"output", "snapshot", "history", "history_lines"}
    PROVE  /\ Path(Shown, q, a, b) => Path(Shown, Append(q, m), a, b)
           /\ Path(Asked(n), q, a, b) => Path(Asked(n), Append(q, m), a, b)
<1>1. <<m, b, b>> \in Shown
  BY ShownMoves
<1>2. <<m, b, b>> \in Asked(n)
  BY AskedMoves
<1>3. Path(Shown, q, a, b) => Path(Shown, Append(q, m), a, b)
  BY <1>1, PathAppend
<1>4. Path(Asked(n), q, a, b) => Path(Asked(n), Append(q, m), a, b)
  BY <1>2, PathAppend
<1>5. QED BY <1>3, <1>4

LEMMA ShutWords ==
    ASSUME NEW c \in Clients, LocalTypes(c), ClientInv(c), NEW w, Shut(c, w), ~Gone(c)
    PROVE  WordsInv(c)'
<1>1. /\ conn[c] # "closed" /\ conn'[c] = "closed" /\ c \notin displaced
      /\ app'[c] = app[c] /\ (c \in displaced' <=> w = "takeover")
  BY DEF Shut, ClientInv, PlaceInv, Unmoved
<1>2. PICK q \in Seq(Message), n \in Nat : q = down[c] /\ n = Len(q)
  BY DEF LocalTypes
<1>3. PICK e \in {"eof", "reset"} :
         down'[c] = Append(IF w = "none" THEN q ELSE Append(q, Plain(w)), Plain(e))
  BY <1>2 DEF Shut
<1>4. ASSUME NEW i \in 1..n
      PROVE  /\ q[i].type \notin {"held", "exit", "eof", "takeover"}
  BY <1>1, <1>2 DEF ClientInv, WordsInv
<1>5. w \in {"none", "held", "takeover", "exit"}
  BY DEF Shut
<1>6. /\ Plain(e) \in Message /\ Plain(e).type = e
      /\ w # "none" => Plain(w) \in Message /\ Plain(w).type = w
  <2>1. e \in Kinds
    BY <1>3 DEF Kinds
  <2>2. w # "none" => w \in Kinds
    BY <1>5 DEF Kinds
  <2>3. QED BY <2>1, <2>2, PlainMessages
<1>7. CASE w = "none"
  <2>1. PICK p \in Seq(Message) :
           /\ p = Append(q, Plain(e)) /\ Len(p) = n + 1
           /\ \A j \in 1..n : p[j] = q[j]
           /\ p[n + 1] = Plain(e)
    <3>1. /\ Append(q, Plain(e)) \in Seq(Message) /\ Len(Append(q, Plain(e))) = Len(q) + 1
          /\ \A j \in 1..Len(q) : Append(q, Plain(e))[j] = q[j]
          /\ Append(q, Plain(e))[Len(q) + 1] = Plain(e)
      BY <1>6, AppendFacts
    <3>2. QED BY <1>2, <3>1
  <2>2. down'[c] = p
    BY <1>3, <1>7, <2>1
  <2>3. c \notin displaced' /\ (life' = "crashed" \/ c \in unserved')
    BY <1>1, <1>7 DEF Shut
  <2>4. \A i \in 1..(n + 1) : p[i].type \notin {"held", "exit", "takeover"}
    <3>1. ASSUME NEW i \in 1..(n + 1)
          PROVE  p[i].type \notin {"held", "exit", "takeover"}
      <4>1. CASE i = n + 1
        BY <1>6, <2>1, <4>1
      <4>2. CASE i # n + 1
        <5>1. i \in 1..n
          BY <4>2
        <5>2. QED BY <1>4, <2>1, <5>1
      <4>3. QED BY <4>1, <4>2
    <3>2. QED BY <3>1
  <2>5. QED BY <1>1, <2>1, <2>2, <2>3, <2>4 DEF WordsInv
<1>8. CASE w # "none"
  <2>1. PICK r \in Seq(Message) :
           /\ r = Append(q, Plain(w)) /\ Len(r) = n + 1
           /\ \A j \in 1..n : r[j] = q[j]
           /\ r[n + 1] = Plain(w)
    <3>1. /\ Append(q, Plain(w)) \in Seq(Message) /\ Len(Append(q, Plain(w))) = Len(q) + 1
          /\ \A j \in 1..Len(q) : Append(q, Plain(w))[j] = q[j]
          /\ Append(q, Plain(w))[Len(q) + 1] = Plain(w)
      BY <1>6, <1>8, AppendFacts
    <3>2. QED BY <1>2, <3>1
  <2>2. PICK p : /\ p = Append(r, Plain(e)) /\ Len(p) = n + 2
                 /\ \A j \in 1..(n + 1) : p[j] = r[j]
                 /\ p[n + 2] = Plain(e)
    <3>1. /\ Len(Append(r, Plain(e))) = Len(r) + 1
          /\ \A j \in 1..Len(r) : Append(r, Plain(e))[j] = r[j]
          /\ Append(r, Plain(e))[Len(r) + 1] = Plain(e)
      BY <1>6, AppendFacts
    <3>2. Len(r) + 1 = n + 2
      BY <2>1
    <3>3. QED BY <2>1, <3>1, <3>2
  <2>3. down'[c] = p
    BY <1>3, <1>8, <2>1, <2>2
  <2>4. n + 1 \in 1..(n + 1) /\ p[n + 1].type = w /\ p[n + 2].type = e
    BY <1>6, <1>8, <2>1, <2>2
  <2>5. w = "exit" => life' = "exited"
    BY DEF Shut
  <2>6. ASSUME NEW i \in 1..(n + 2)
        PROVE  /\ p[i].type = "takeover" => w = "takeover"
               /\ p[i].type = "held" => w = "held"
               /\ p[i].type = "exit" => w = "exit"
               /\ p[i].type = "eof" => n + 1 \in 1..(i - 1)
    <3>1. CASE i = n + 2
      BY <2>4, <3>1
    <3>2. CASE i = n + 1
      BY <1>8, <1>5, <2>4, <3>2
    <3>3. CASE i \in 1..n
      <4>1. p[i] = q[i]
        BY <2>1, <2>2, <3>3
      <4>2. QED BY <1>4, <3>3, <4>1
    <3>4. QED BY <3>1, <3>2, <3>3
  <2>7. ASSUME NEW i \in 1..(n + 2), n + 1 \in 1..(i - 1)
        PROVE  Explained(c, i)'
    BY <1>5, <1>8, <2>3, <2>4, <2>7 DEF Explained
  <2>8. QED BY <1>1, <2>2, <2>3, <2>5, <2>6, <2>7 DEF WordsInv
<1>9. QED BY <1>7, <1>8

LEMMA ShutInv ==
    ASSUME NEW c \in Clients, LocalTypes(c), ClientInv(c), NEW w, Shut(c, w)
    PROVE  ClientInv(c)'
<1>1. PlaceInv(c)'
  <2>1. 1..Len(<< >>) = {}
    OBVIOUS
  <2>2. QED BY <2>1 DEF ClientInv, PlaceInv, Shut, Unmoved, LifeGoesOn
<1>2. EndingInv(c)'
  BY DEF ClientInv, EndingInv, Shut, Unmoved, LifeGoesOn
<1>3. CASE Gone(c)
  <2>1. Gone(c)'
    BY <1>3 DEF Gone, Shut, Unmoved
  <2>2. QED BY <1>1, <1>2, <2>1 DEF ClientInv, WordsInv, StreamInv, RepliesInv
<1>4. CASE ~Gone(c)
  <2>1. PICK q \in Seq(Message) : q = down[c]
    BY DEF LocalTypes
  <2>2. PICK e \in {"eof", "reset"} :
           down'[c] = Append(IF w = "none" THEN q ELSE Append(q, Plain(w)), Plain(e))
    BY <1>4, <2>1 DEF Shut
  <2>3. w \in {"none", "held", "takeover", "exit"}
    BY DEF Shut
  <2>4. /\ Plain(e) \in Message /\ Plain(e).type = e
        /\ w # "none" => Plain(w) \in Message /\ Plain(w).type = w
    <3>1. e \in Kinds
      BY <2>2 DEF Kinds
    <3>2. w # "none" => w \in Kinds
      BY <2>3 DEF Kinds
    <3>3. QED BY <3>1, <3>2, PlainMessages
  <2>5. ASSUME NEW a \in Nat, NEW b \in Nat, NEW n
        PROVE  /\ Path(Shown, q, a, b) => Path(Shown, down'[c], a, b)
               /\ Path(Asked(n), q, a, b) => Path(Asked(n), down'[c], a, b)
    <3>1. PICK r \in Seq(Message) : /\ r = IF w = "none" THEN q ELSE Append(q, Plain(w))
                                    /\ Path(Shown, q, a, b) => Path(Shown, r, a, b)
                                    /\ Path(Asked(n), q, a, b) => Path(Asked(n), r, a, b)
      <4>1. CASE w = "none"
        BY <4>1
      <4>2. CASE w # "none"
        <5>1. Append(q, Plain(w)) \in Seq(Message)
          BY <2>4, <4>2
        <5>2. /\ Path(Shown, q, a, b) => Path(Shown, Append(q, Plain(w)), a, b)
              /\ Path(Asked(n), q, a, b) => Path(Asked(n), Append(q, Plain(w)), a, b)
          BY <2>3, <2>4, <4>2, PathQuiet
        <5>3. QED BY <4>2, <5>1, <5>2
      <4>3. QED BY <4>1, <4>2
    <3>2. down'[c] = Append(r, Plain(e))
      BY <2>2, <3>1
    <3>3. /\ Path(Shown, r, a, b) => Path(Shown, Append(r, Plain(e)), a, b)
          /\ Path(Asked(n), r, a, b) => Path(Asked(n), Append(r, Plain(e)), a, b)
      BY <2>4, PathQuiet
    <3>4. QED BY <3>1, <3>2, <3>3
  <2>6. StreamInv(c)'
    <3>1. PICK a \in Nat, b \in Nat : Along(c, a, b)
      BY <1>4, StreamAt DEF ClientInv
    <3>2. Path(Shown, down'[c], a, b)
      BY <2>1, <2>5, <3>1 DEF Along
    <3>3. c \in viewing' => b = pos'
      BY <3>1 DEF Along, Shut, InView
    <3>4. Along(c, a, b)'
      BY <3>1, <3>2, <3>3 DEF Along, Shut, Unmoved
    <3>5. QED BY <3>4 DEF StreamInv, Along
  <2>7. RepliesInv(c)'
    <3>1. SUFFICES ASSUME ~Live(c)
                   PROVE  RepliesInv(c)'
      BY DEF RepliesInv, Live, Shut, Unmoved
    <3>2. PICK n : n = app[c].snapshot.next
      OBVIOUS
    <3>3. PICK k \in Nat : Path(Asked(n), q, Owed(c), k)
      BY <1>4, <2>1, <3>1, <3>2 DEF ClientInv, RepliesInv
    <3>4. PICK o \in Nat : o = Owed(c)
      BY DEF Owed, LocalTypes, App
    <3>5. Path(Asked(n), down'[c], o, k)
      BY <2>5, <3>3, <3>4
    <3>6. Owed(c)' = o /\ app'[c].snapshot.next = n /\ conn'[c] = "closed"
      BY <3>2, <3>4 DEF Owed, Shut, Unmoved
    <3>7. QED BY <3>5, <3>6 DEF RepliesInv
  <2>8. QED BY <1>1, <1>2, <1>4, <2>6, <2>7, ShutWords DEF ClientInv
<1>5. QED BY <1>3, <1>4

LEMMA TookInv ==
    ASSUME NEW c \in Clients, LocalTypes(c), ClientInv(c), Took(c)
    PROVE  ClientInv(c)'
<1>1. /\ Unmoved(c) /\ Marked(c) /\ life' = life /\ pos' = pos
      /\ conn[c] \in {"pending", "viewer"} /\ up[c] \in Seq(Message) /\ up[c] # << >>
      /\ up'[c] = Tail(up[c]) /\ Head(up[c]) \in Message
  BY TailFacts DEF Took, LocalTypes
<1>2. PICK m \in Message : m = Head(up[c])
  BY <1>1
<1> DEFINE Greeted == /\ m.type = "init" /\ conn'[c] = "viewer" /\ down'[c] = down[c]
                      /\ InView(c)
           Silently == /\ m.type \in {"view", "unview", "input"} /\ conn'[c] = conn[c]
                       /\ down'[c] = down[c] /\ InView(c)
           Told(x) == /\ m.type \in {"view", "unview", "input"} /\ conn'[c] = conn[c] /\ ~Gone(c)
                      /\ x \in Message /\ down'[c] = Append(down[c], x)
                      /\ \/ x.type = "snapshot" /\ x.pos = pos
                         \/ x.type = "readonly" /\ InView(c)
           Answered == /\ m.type = "history" /\ conn'[c] = conn[c] /\ ~Gone(c) /\ InView(c)
                       /\ down'[c] = Append(down[c], Msg("history_lines", 0, m.next))
           Missed == Gone(c) /\ conn'[c] = "closed" /\ c \notin viewing'
<1>3. Greeted \/ Silently \/ (\E x : Told(x)) \/ Answered \/ Missed
  BY <1>2 DEF Took
<1>4. PlaceInv(c)'
  <2>1. \A i \in 1..Len(Tail(up[c])) : Tail(up[c])[i].type # "init"
    <3>1. ASSUME NEW i \in 1..Len(Tail(up[c]))
          PROVE  Tail(up[c])[i].type # "init"
      <4>1. PICK n \in Nat : n = Len(Tail(up[c])) /\ Len(up[c]) = n + 1
        BY <1>1, TailFacts
      <4>2. Tail(up[c])[i] = up[c][i + 1]
        BY <1>1, TailFacts
      <4>3. i + 1 \in 1..Len(up[c]) /\ i + 1 # 1
        BY <4>1
      <4>4. QED BY <4>2, <4>3 DEF ClientInv, PlaceInv
    <3>2. QED BY <3>1
  <2>2. mode[c] \notin {"idle", "probed", "connected"} /\ c \notin displaced
    BY <1>1 DEF ClientInv, PlaceInv
  <2>3. c \in unserved => life # "running"
    BY DEF ClientInv, PlaceInv
  <2>4. QED BY <1>1, <2>1, <2>2, <2>3 DEF PlaceInv, Unmoved, Marked
<1>5. EndingInv(c)'
  BY <1>1 DEF ClientInv, EndingInv, Unmoved, Marked
<1>6. CASE Missed
  <2>1. Gone(c)'
    BY <1>1, <1>6 DEF Gone, Unmoved
  <2>2. QED BY <1>4, <1>5, <2>1 DEF ClientInv, WordsInv, StreamInv, RepliesInv
\* The requests on their way, without the first.
<1>7. ASSUME ~Gone(c), ~Live(c)
      PROVE  \E k, k2 \in Nat :
                /\ Path(Asked(app[c].snapshot.next), down[c], Owed(c), k)
                /\ <<m, k, k2>> \in Asked(app[c].snapshot.next)
                /\ Path(Asked(app[c].snapshot.next), up'[c], k2, 0)
  <2>1. PICK k \in Nat :
           /\ Path(Asked(app[c].snapshot.next), down[c], Owed(c), k)
           /\ Path(Asked(app[c].snapshot.next), up[c], k, 0)
    BY <1>1, <1>7 DEF ClientInv, RepliesInv
  <2>2. PICK k2 \in Nat : /\ <<Head(up[c]), k, k2>> \in Asked(app[c].snapshot.next)
                          /\ Path(Asked(app[c].snapshot.next), Tail(up[c]), k2, 0)
    BY <1>1, <2>1, PathHead
  <2>3. QED BY <1>1, <1>2, <2>1, <2>2
<1>8. Owed(c)' = Owed(c) /\ app'[c].snapshot.next = app[c].snapshot.next
  BY <1>1 DEF Owed, Unmoved
<1>9. CASE Greeted \/ Silently
  <2>1. WordsInv(c)'
    BY <1>1, <1>9 DEF ClientInv, WordsInv, Explained, Gone, Unmoved, Marked
  <2>2. StreamInv(c)'
    <3>1. SUFFICES ASSUME ~Gone(c)
                   PROVE  StreamInv(c)'
      BY <1>1 DEF StreamInv, Gone, Unmoved
    <3>2. PICK a \in Nat, b \in Nat : Along(c, a, b)
      BY <3>1, StreamAt DEF ClientInv
    <3>3. c \in viewing' => b = pos'
      BY <1>9, <3>2 DEF Along, InView
    <3>4. Along(c, a, b)'
      BY <1>1, <1>9, <3>2, <3>3 DEF Along, Unmoved
    <3>5. QED BY <3>4 DEF StreamInv, Along
  <2>3. RepliesInv(c)'
    <3>1. SUFFICES ASSUME ~Gone(c), ~Live(c)
                   PROVE  RepliesInv(c)'
      BY <1>1 DEF RepliesInv, Gone, Live, Unmoved
    <3>2. PICK k \in Nat, k2 \in Nat :
             /\ Path(Asked(app[c].snapshot.next), down[c], Owed(c), k)
             /\ <<m, k, k2>> \in Asked(app[c].snapshot.next)
             /\ Path(Asked(app[c].snapshot.next), up'[c], k2, 0)
      BY <1>7, <3>1
    <3>3. k2 = k
      BY <1>9, <3>2, AskedMoves
    <3>4. down'[c] = down[c]
      BY <1>9
    <3>5. QED BY <1>8, <3>2, <3>3, <3>4 DEF RepliesInv
  <2>4. QED BY <1>4, <1>5, <2>1, <2>2, <2>3 DEF ClientInv
<1>10. ASSUME NEW x, Told(x)
       PROVE  ClientInv(c)'
  <2>1. WordsInv(c)'
    BY <1>1, <1>10, WordsAppend DEF ClientInv
  <2>2. StreamInv(c)'
    BY <1>1, <1>10, StreamAppend DEF ClientInv
  <2>3. RepliesInv(c)'
    <3>1. SUFFICES ASSUME ~Live(c)
                   PROVE  RepliesInv(c)'
      BY <1>1 DEF RepliesInv, Live, Unmoved
    <3>2. PICK k \in Nat, k2 \in Nat :
             /\ Path(Asked(app[c].snapshot.next), down[c], Owed(c), k)
             /\ <<m, k, k2>> \in Asked(app[c].snapshot.next)
             /\ Path(Asked(app[c].snapshot.next), up'[c], k2, 0)
      BY <1>7, <1>10, <3>1
    <3>3. k2 = k
      BY <1>10, <3>2, AskedMoves
    <3>4. <<x, k, k>> \in Asked(app[c].snapshot.next)
      <4>1. x \in Message /\ x.type \notin {"history", "history_lines"}
        BY <1>10
      <4>2. QED BY <4>1, AskedMoves
    <3>5. Path(Asked(app[c].snapshot.next), Append(down[c], x), Owed(c), k)
      <4>1. down[c] \in Seq(Message) /\ x \in Message
        BY <1>10 DEF LocalTypes
      <4>2. QED BY <3>2, <3>4, <4>1, PathAppend
    <3>6. down'[c] = Append(down[c], x)
      BY <1>10
    <3>7. QED BY <1>8, <3>2, <3>3, <3>5, <3>6 DEF RepliesInv
  <2>4. QED BY <1>4, <1>5, <2>1, <2>2, <2>3 DEF ClientInv
<1>11. CASE Answered
  <2>1. PICK x \in Message : /\ x = Msg("history_lines", 0, m.next)
                             /\ x.type = "history_lines" /\ x.next = m.next
    <3>1. m.next \in Nat
      BY DEF Message
    <3>2. "history_lines" \in Kinds
      BY DEF Kinds
    <3>3. QED BY <3>1, <3>2, PlainMessages
  <2>2. WordsInv(c)'
    BY <1>1, <1>11, <2>1, WordsAppend DEF ClientInv
  <2>3. StreamInv(c)'
    BY <1>1, <1>11, <2>1, StreamAppend DEF ClientInv
  <2>4. RepliesInv(c)'
    <3>1. SUFFICES ASSUME ~Live(c)
                   PROVE  RepliesInv(c)'
      BY <1>1 DEF RepliesInv, Live, Unmoved
    <3>2. PICK k \in Nat, k2 \in Nat :
             /\ Path(Asked(app[c].snapshot.next), down[c], Owed(c), k)
             /\ <<m, k, k2>> \in Asked(app[c].snapshot.next)
             /\ Path(Asked(app[c].snapshot.next), up'[c], k2, 0)
      BY <1>7, <1>11, <3>1
    <3>3. k = k2 + 1 /\ (k2 = 0 => m.next = app[c].snapshot.next)
      BY <1>11, <3>2, AskedMoves
    <3>4. <<x, k, k2>> \in Asked(app[c].snapshot.next)
      BY <2>1, <3>3, AskedMoves
    <3>5. Path(Asked(app[c].snapshot.next), Append(down[c], x), Owed(c), k2)
      <4>1. down[c] \in Seq(Message)
        BY DEF LocalTypes
      <4>2. QED BY <3>2, <3>4, <4>1, PathAppend
    <3>6. down'[c] = Append(down[c], x)
      BY <1>11, <2>1
    <3>7. QED BY <1>8, <3>2, <3>5, <3>6 DEF RepliesInv
  <2>5. QED BY <1>4, <1>5, <2>2, <2>3, <2>4 DEF ClientInv
<1>12. QED BY <1>3, <1>6, <1>9, <1>10, <1>11

-----------------------------------------------------------------------------
(* The client's doing.                                                     *)

LEMMA LeftInv ==
    ASSUME NEW c \in Clients, LocalTypes(c), ClientInv(c), Left(c)
    PROVE  ClientInv(c)'
<1>1. PlaceInv(c)'
  <2>1. mode'[c] = "ended" /\ conn'[c] = conn[c]
    BY DEF Left, Still
  <2>2. \A i \in 1..Len(up'[c]) : up'[c][i].type = "init" => i = 1 /\ conn[c] # "viewer"
    <3>1. CASE up'[c] = up[c]
      BY <3>1 DEF ClientInv, PlaceInv
    <3>2. CASE up'[c] = Append(up[c], Plain("unview"))
      <4>1. PICK u \in Seq(Message) : u = up[c]
        BY DEF LocalTypes
      <4>2. Plain("unview") \in Message /\ Plain("unview").type = "unview"
        BY PlainMessages DEF Kinds
      <4>3. /\ Len(Append(u, Plain("unview"))) = Len(u) + 1
            /\ \A j \in 1..Len(u) : Append(u, Plain("unview"))[j] = u[j]
            /\ Append(u, Plain("unview"))[Len(u) + 1] = Plain("unview")
        BY <4>2, AppendFacts
      <4>4. \A i \in 1..Len(u) : u[i].type = "init" => i = 1 /\ conn[c] # "viewer"
        BY <4>1 DEF ClientInv, PlaceInv
      <4>5. \A i \in 1..(Len(u) + 1) : i = Len(u) + 1 \/ i \in 1..Len(u)
        OBVIOUS
      <4>6. QED BY <3>2, <4>1, <4>2, <4>3, <4>4, <4>5
    <3>3. QED BY <3>1, <3>2 DEF Left
  <2>3. QED BY <2>1, <2>2 DEF ClientInv, PlaceInv, Left, Still, Marked, LifeGoesOn
<1>2. EndingInv(c)'
  <2>1. app'[c].lastError = None /\ ~app'[c].exited
    BY DEF Left, NoApp
  <2>2. None # "takeover" /\ None # "held"
    BY AttachAssumption DEF Errors
  <2>3. OutcomeTrue(c, outcome'[c]) /\ Still(c)
    BY DEF Left
  <2>4. QED BY <2>1, <2>2, <2>3 DEF EndingInv, OutcomeTrue, Still, Marked, LifeGoesOn
<1>3. WordsInv(c)' /\ StreamInv(c)' /\ RepliesInv(c)'
  BY DEF WordsInv, StreamInv, RepliesInv, Left, Gone
<1>4. QED BY <1>1, <1>2, <1>3 DEF ClientInv

\* What a client has been sent stays true while nothing more comes.
LEMMA NothingComes ==
    ASSUME NEW c \in Clients, LocalTypes(c), ClientInv(c), ~Gone(c), down'[c] = down[c],
           outcome'[c] = outcome[c], Kept(c), Marked(c), InView(c), LifeGoesOn,
           conn[c] = "closed" => conn'[c] = "closed",
           \/ SameView(c)
           \/ app'[c] = app[c] /\ mode[c] \notin {"fetching", "live"}
                               /\ mode'[c] \notin {"fetching", "live"}
    PROVE  EndingInv(c)' /\ WordsInv(c)' /\ StreamInv(c)'
<1>1. EndingInv(c)'
  BY DEF ClientInv, EndingInv, Kept, Marked, LifeGoesOn
<1>2. WordsInv(c)'
  BY DEF ClientInv, WordsInv, Explained, Kept, Marked, LifeGoesOn
<1>3. StreamInv(c)'
  <2>1. PICK a \in Nat, b \in Nat : Along(c, a, b)
    BY StreamAt DEF ClientInv
  <2>2. c \in viewing' => b = pos'
    BY <2>1 DEF Along, InView
  <2>3. Along(c, a, b)'
    BY <2>1, <2>2 DEF Along, SameView
  <2>4. QED BY <2>3 DEF StreamInv, Along
<1>4. QED BY <1>1, <1>2, <1>3

LEMMA SameAppKept ==
    ASSUME NEW c, app'[c] = app[c]
    PROVE  Kept(c)
  BY DEF Kept

LEMMA ConnectingInv ==
    ASSUME NEW c \in Clients, LocalTypes(c), ClientInv(c), Looked(c) \/ Dialled(c)
    PROVE  ClientInv(c)'
<1>1. /\ mode[c] \in {"idle", "probed"} /\ conn[c] = "none" /\ up[c] = << >>
      /\ app'[c] = app[c] /\ outcome'[c] = outcome[c] /\ down'[c] = down[c] /\ up'[c] = up[c]
      /\ Marked(c) /\ InView(c) /\ LifeGoesOn /\ conn'[c] # "closed" /\ ~Gone(c)
      /\ mode'[c] \in {"probed", "connected"}
  BY DEF ClientInv, PlaceInv, Looked, Dialled, Still, Gone
<1>2. PlaceInv(c)'
  <2>1. 1..Len(<< >>) = {}
    OBVIOUS
  <2>2. c \notin displaced /\ (c \in unserved => life # "running")
    BY <1>1 DEF ClientInv, PlaceInv
  <2>3. mode'[c] = "probed" => conn'[c] = "none"
    BY <1>1 DEF Looked, Dialled, Still
  <2>4. QED BY <1>1, <2>1, <2>2, <2>3 DEF PlaceInv, Marked, LifeGoesOn
<1>3. EndingInv(c)' /\ WordsInv(c)' /\ StreamInv(c)'
  BY <1>1, SameAppKept, NothingComes
<1>4. RepliesInv(c)'
  BY <1>1 DEF ClientInv, RepliesInv, Owed, Live, Gone
<1>5. QED BY <1>2, <1>3, <1>4 DEF ClientInv

LEMMA ClaimedInv ==
    ASSUME NEW c \in Clients, LocalTypes(c), ClientInv(c), Claimed(c)
    PROVE  ClientInv(c)'
<1>1. /\ mode[c] = "connected" /\ mode'[c] = "await" /\ conn[c] = "pending"
      /\ conn'[c] = "pending" /\ app'[c] = app[c] /\ outcome'[c] = outcome[c]
      /\ down'[c] = down[c] /\ Marked(c) /\ InView(c) /\ LifeGoesOn /\ ~Gone(c)
      /\ up[c] = << >> /\ up'[c] = Append(Append(<< >>, Plain("init")), Plain("view"))
  BY DEF ClientInv, PlaceInv, Claimed, Still, Gone
<1>2. PICK i \in Message, v \in Message :
         i = Plain("init") /\ i.type = "init" /\ v = Plain("view") /\ v.type = "view"
  BY PlainMessages DEF Kinds
<1>3. PlaceInv(c)'
  <2>1. PICK u \in Seq(Message) : u = Append(<< >>, i) /\ Len(u) = 1
    <3>1. << >> \in Seq(Message) /\ Len(<< >>) + 1 = 1
      OBVIOUS
    <3>2. /\ Append(<< >>, i) \in Seq(Message)
          /\ Len(Append(<< >>, i)) = Len(<< >>) + 1
      BY <1>2, <3>1, AppendFacts
    <3>3. QED BY <3>1, <3>2
  <2>2. Len(up'[c]) = 2 /\ up'[c][2].type # "init"
    <3>1. Len(Append(u, v)) = Len(u) + 1 /\ Append(u, v)[Len(u) + 1] = v
      BY AppendFacts
    <3>2. up'[c] = Append(u, v) /\ Len(u) + 1 = 2
      BY <1>1, <1>2, <2>1
    <3>3. QED BY <1>2, <3>1, <3>2
  <2>3. \A j \in 1..2 : j = 1 \/ j = 2
    OBVIOUS
  <2>4. c \notin displaced /\ (c \in unserved => life # "running")
    BY <1>1 DEF ClientInv, PlaceInv
  <2>5. QED BY <1>1, <2>2, <2>3, <2>4 DEF PlaceInv, Marked, LifeGoesOn
<1>4. EndingInv(c)' /\ WordsInv(c)' /\ StreamInv(c)'
  BY <1>1, SameAppKept, NothingComes
<1>5. RepliesInv(c)'
  <2>1. PICK n : n = app[c].snapshot.next
    OBVIOUS
  <2>2. PICK k \in Nat : Path(Asked(n), down[c], Owed(c), k) /\ Path(Asked(n), << >>, k, 0)
    BY <1>1, <2>1 DEF ClientInv, RepliesInv, Live
  <2>3. << >> \in Seq(Message) /\ Append(<< >>, i) \in Seq(Message)
    OBVIOUS
  <2>4. Path(Asked(n), Append(<< >>, i), k, 0)
    BY <1>2, <2>2, <2>3, PathQuiet
  <2>5. Path(Asked(n), Append(Append(<< >>, i), v), k, 0)
    BY <1>2, <2>3, <2>4, PathQuiet
  <2>6. Owed(c)' = Owed(c)
    BY <1>1 DEF Owed
  <2>7. QED BY <1>1, <1>2, <2>1, <2>2, <2>5, <2>6 DEF RepliesInv
<1>6. QED BY <1>3, <1>4, <1>5 DEF ClientInv

\* A message that is sent is not another claim.
LEMMA SendsPlace ==
    ASSUME NEW c \in Clients, LocalTypes(c), ClientInv(c), Running(c), Still(c),
           mode'[c] \in {"await", "fetching", "live"},
           \/ up'[c] = up[c]
           \/ \E x \in Message : up'[c] = Append(up[c], x) /\ x.type # "init"
    PROVE  PlaceInv(c)'
<1>1. \A i \in 1..Len(up'[c]) : up'[c][i].type = "init" => i = 1 /\ conn[c] # "viewer"
  <2>1. CASE up'[c] = up[c]
    BY <2>1 DEF ClientInv, PlaceInv
  <2>2. ASSUME NEW x \in Message, up'[c] = Append(up[c], x), x.type # "init"
        PROVE  \A i \in 1..Len(up'[c]) : up'[c][i].type = "init" => i = 1 /\ conn[c] # "viewer"
    <3>1. PICK u \in Seq(Message) : u = up[c]
      BY DEF LocalTypes
    <3>2. /\ Len(Append(u, x)) = Len(u) + 1
          /\ \A j \in 1..Len(u) : Append(u, x)[j] = u[j]
          /\ Append(u, x)[Len(u) + 1] = x
      BY AppendFacts
    <3>3. \A i \in 1..Len(u) : u[i].type = "init" => i = 1 /\ conn[c] # "viewer"
      BY <3>1 DEF ClientInv, PlaceInv
    <3>4. \A i \in 1..(Len(u) + 1) : i = Len(u) + 1 \/ i \in 1..Len(u)
      OBVIOUS
    <3>5. QED BY <2>2, <3>1, <3>2, <3>3, <3>4
  <2>3. QED BY <2>1, <2>2
<1>2. QED BY <1>1 DEF ClientInv, PlaceInv, Still, Marked, LifeGoesOn

LEMMA TypedInv ==
    ASSUME NEW c \in Clients, LocalTypes(c), ClientInv(c), Typed(c)
    PROVE  ClientInv(c)'
<1>1. /\ Running(c) /\ Still(c) /\ SameView(c) /\ Kept(c) /\ ~Gone(c)
      /\ outcome'[c] = outcome[c] /\ down'[c] = down[c] /\ conn'[c] = conn[c]
      /\ Marked(c) /\ InView(c) /\ LifeGoesOn /\ mode'[c] \in {"await", "fetching", "live"}
  BY DEF Typed, Still, SameView, Running, Gone
<1>2. PICK x \in Message : up'[c] = Append(up[c], x) /\ x.type = "input"
  BY PlainMessages DEF Typed, Kinds
<1>3. PlaceInv(c)'
  BY <1>1, <1>2, SendsPlace
<1>4. EndingInv(c)' /\ WordsInv(c)' /\ StreamInv(c)'
  BY <1>1, NothingComes
<1>5. RepliesInv(c)'
  <2>1. SUFFICES ASSUME ~Live(c)
                 PROVE  RepliesInv(c)'
    BY <1>1 DEF RepliesInv, Live, SameView
  <2>2. PICK n : n = app[c].snapshot.next
    OBVIOUS
  <2>3. PICK k \in Nat : /\ Path(Asked(n), down[c], Owed(c), k)
                         /\ conn[c] # "closed" => Path(Asked(n), up[c], k, 0)
    BY <1>1, <2>1, <2>2 DEF ClientInv, RepliesInv
  <2>4. conn[c] # "closed" => Path(Asked(n), Append(up[c], x), k, 0)
    <3>1. up[c] \in Seq(Message)
      BY DEF LocalTypes
    <3>2. QED BY <1>2, <2>3, <3>1, PathQuiet
  <2>5. Owed(c)' = Owed(c) /\ app'[c].snapshot.next = n
    BY <1>1, <2>2 DEF Owed, SameView
  <2>6. QED BY <1>1, <1>2, <2>3, <2>4, <2>5 DEF RepliesInv
<1>6. QED BY <1>3, <1>4, <1>5 DEF ClientInv

-----------------------------------------------------------------------------
(* The client reads.                                                       *)

LEMMA ReadFacts ==
    ASSUME NEW c \in Clients, LocalTypes(c), NEW m, Goes(c, m)
    PROVE  /\ m \in Message /\ m = down[c][1] /\ 1 \in 1..Len(down[c])
           /\ Len(down'[c]) \in Nat /\ Len(down[c]) = Len(down'[c]) + 1
           /\ \A i \in 1..Len(down'[c]) : down'[c][i] = down[c][i + 1]
           /\ ~Gone(c) /\ Marked(c) /\ InView(c) /\ LifeGoesOn /\ conn'[c] = conn[c]
<1>1. down[c] \in Seq(Message) /\ down[c] # << >>
  BY DEF LocalTypes, Goes
<1>2. /\ Len(Tail(down[c])) \in Nat /\ Len(down[c]) = Len(Tail(down[c])) + 1
      /\ Head(down[c]) \in Message /\ Head(down[c]) = down[c][1]
      /\ \A j \in 1..Len(Tail(down[c])) : Tail(down[c])[j] = down[c][j + 1]
  BY <1>1, TailFacts
<1>3. 1 \in 1..Len(down[c])
  BY <1>2
<1>4. QED BY <1>2, <1>3 DEF Goes, Still, Running, Gone

\* What the client has read it has taken note of, or it says nothing.
LEMMA ReadWords ==
    ASSUME NEW c \in Clients, LocalTypes(c), ClientInv(c), NEW m, Goes(c, m),
           \/ Kept(c) /\ m.type \notin {"takeover", "held", "exit"}
           \/ Notes(c, m)
    PROVE  EndingInv(c)' /\ WordsInv(c)'
<1>1. /\ m \in Message /\ m = down[c][1] /\ 1 \in 1..Len(down[c])
      /\ Len(down'[c]) \in Nat /\ Len(down[c]) = Len(down'[c]) + 1
      /\ \A i \in 1..Len(down'[c]) : down'[c][i] = down[c][i + 1]
      /\ ~Gone(c) /\ Marked(c) /\ InView(c) /\ LifeGoesOn /\ conn'[c] = conn[c]
  BY ReadFacts
<1>2. /\ m.type = "takeover" => c \in displaced
      /\ m.type = "held" => c \notin displaced /\ conn[c] = "closed"
      /\ m.type = "exit" => c \notin displaced /\ conn[c] = "closed" /\ life = "exited"
  BY <1>1 DEF ClientInv, WordsInv
<1>3. \/ Kept(c) /\ m.type \notin {"takeover", "held", "exit"}
      \/ /\ m.type \in Errors /\ app'[c].lastError = m.type
         /\ app'[c].exited = app[c].exited
      \/ /\ m.type = "exit" /\ app'[c].exited
         /\ app'[c].lastError = app[c].lastError
  BY DEF Notes
<1>4. outcome'[c] = outcome[c]
  BY DEF Goes
<1>5. EndingInv(c)'
  BY <1>1, <1>2, <1>3, <1>4 DEF ClientInv, EndingInv, Kept, Marked, LifeGoesOn
<1>6. ASSUME NEW i \in 1..Len(down'[c]), Explained(c, i + 1)
      PROVE  Explained(c, i)'
  <2>1. None \notin Errors
    BY AttachAssumption
  <2>2. CASE app[c].exited
    BY <1>3, <2>2 DEF Kept, Explained
  <2>3. CASE app[c].lastError # None
    BY <1>3, <2>1, <2>3 DEF Kept, Explained
  <2>4. ASSUME NEW j \in 1..i, down[c][j].type \in {"held", "takeover", "exit"}
        PROVE  Explained(c, i)'
    <3>1. CASE j = 1
      <4>1. m.type \in {"held", "takeover", "exit"}
        BY <1>1, <2>4, <3>1
      <4>2. app'[c].exited \/ app'[c].lastError # None
        BY <1>3, <2>1, <4>1
      <4>3. QED BY <4>2 DEF Explained
    <3>2. CASE j # 1
      <4>1. PICK k \in 1..(i - 1) : j = k + 1
        <5>1. j - 1 \in 1..(i - 1) /\ j = (j - 1) + 1
          BY <1>1, <3>2
        <5>2. QED BY <5>1
      <4>2. k \in 1..Len(down'[c])
        BY <1>1
      <4>3. down'[c][k].type \in {"held", "takeover", "exit"}
        BY <1>1, <2>4, <4>1, <4>2
      <4>4. QED BY <4>3 DEF Explained
    <3>3. QED BY <3>1, <3>2
  <2>5. (i + 1) - 1 = i
    BY <1>1
  <2>6. QED BY <1>6, <2>2, <2>3, <2>4, <2>5 DEF Explained
<1>7. ASSUME NEW i \in 1..Len(down'[c])
      PROVE  /\ down'[c][i].type = "takeover" => c \in displaced'
             /\ down'[c][i].type = "held" => c \notin displaced' /\ conn'[c] = "closed"
             /\ down'[c][i].type = "exit" =>
                   c \notin displaced' /\ conn'[c] = "closed" /\ life' = "exited"
             /\ down'[c][i].type = "eof" =>
                   /\ conn'[c] = "closed"
                   /\ \/ Explained(c, i)'
                      \/ c \notin displaced' /\ (life' = "crashed" \/ c \in unserved')
  <2>1. i + 1 \in 1..Len(down[c]) /\ down'[c][i] = down[c][i + 1]
    BY <1>1
  <2>2. /\ down[c][i + 1].type = "takeover" => c \in displaced
        /\ down[c][i + 1].type = "held" => c \notin displaced /\ conn[c] = "closed"
        /\ down[c][i + 1].type = "exit" =>
              c \notin displaced /\ conn[c] = "closed" /\ life = "exited"
        /\ down[c][i + 1].type = "eof" =>
              /\ conn[c] = "closed"
              /\ \/ Explained(c, i + 1)
                 \/ c \notin displaced /\ (life = "crashed" \/ c \in unserved)
    BY <1>1, <2>1 DEF ClientInv, WordsInv
  <2>3. QED BY <1>1, <1>6, <2>1, <2>2 DEF Marked, LifeGoesOn
<1>8. QED BY <1>5, <1>7 DEF WordsInv

\* The screen is where the message has taken it.
LEMMA ReadStream ==
    ASSUME NEW c \in Clients, LocalTypes(c), ClientInv(c), NEW m, Goes(c, m)
    PROVE  \E a, d, b \in Nat : /\ Along(c, a, b) /\ <<m, a, d>> \in Shown
                                /\ Path(Shown, down'[c], d, b)
                                /\ c \in viewing' => b = pos'
<1>1. ~Gone(c) /\ InView(c)
  BY ReadFacts
<1>2. PICK a \in Nat, b \in Nat : Along(c, a, b)
  BY <1>1, StreamAt DEF ClientInv
<1>3. /\ down[c] \in Seq(Message) /\ down[c] # << >> /\ m = Head(down[c])
      /\ down'[c] = Tail(down[c])
  BY DEF LocalTypes, Goes
<1>4. Path(Shown, down[c], a, b)
  BY <1>2 DEF Along
<1>5. PICK d \in Nat : <<Head(down[c]), a, d>> \in Shown /\ Path(Shown, Tail(down[c]), d, b)
  BY <1>3, <1>4, PathHead
<1>6. c \in viewing' => b = pos'
  BY <1>1, <1>2 DEF Along, InView
<1>7. QED BY <1>2, <1>3, <1>5, <1>6

\* And one message is owed less, if it is a reply.
LEMMA ReadReplies ==
    ASSUME NEW c \in Clients, LocalTypes(c), ClientInv(c), NEW m, Goes(c, m), ~Live(c), NEW n,
           n = app[c].snapshot.next
    PROVE  \E d, k \in Nat : /\ <<m, Owed(c), d>> \in Asked(n)
                             /\ Path(Asked(n), down'[c], d, k)
                             /\ conn[c] # "closed" => Path(Asked(n), up[c], k, 0)
<1>1. ~Gone(c)
  BY ReadFacts
<1>2. PICK k \in Nat : /\ Path(Asked(n), down[c], Owed(c), k)
                       /\ conn[c] # "closed" => Path(Asked(n), up[c], k, 0)
  BY <1>1 DEF ClientInv, RepliesInv
<1>3. /\ down[c] \in Seq(Message) /\ down[c] # << >> /\ m = Head(down[c])
      /\ down'[c] = Tail(down[c])
  BY DEF LocalTypes, Goes
<1>4. PICK d \in Nat : /\ <<Head(down[c]), Owed(c), d>> \in Asked(n)
                       /\ Path(Asked(n), Tail(down[c]), d, k)
  BY <1>2, <1>3, PathHead
<1>5. QED BY <1>2, <1>3, <1>4

LEMMA OwedType ==
    ASSUME NEW c \in Clients, LocalTypes(c)
    PROVE  /\ Owed(c) \in Nat /\ app[c].skip \in Nat /\ app[c].pending \in Seq(Nat)
           /\ app[c].snapshot.pos \in Nat
  BY DEF LocalTypes, App, Owed, Message

\* A run of outputs that continue a screen applies to it.
LEMMA AppliedRun ==
    ASSUME NEW p \in Nat, NEW ks \in Seq(Nat), \A i \in 1..Len(ks) : ks[i] = p + i
    PROVE  Applied(p, ks) = p + Len(ks)
<1>1. p # Broken
  BY AttachAssumption
<1>2. DOMAIN ks = 1..Len(ks)
  OBVIOUS
<1>3. QED BY <1>1, <1>2 DEF Applied

LEMMA StartedInv ==
    ASSUME NEW c \in Clients, LocalTypes(c), ClientInv(c), NEW m, Goes(c, m), Started(c, m)
    PROVE  ClientInv(c)'
<1>1. /\ m \in Message /\ ~Live(c) /\ mode'[c] = "live" /\ Kept(c) /\ up'[c] = up[c]
      /\ m.type \in {"snapshot", "history_lines"} /\ Running(c) /\ Still(c)
  BY ReadFacts DEF Started, Screen, Goes, Live
<1>2. PlaceInv(c)'
  BY <1>1, SendsPlace
<1>3. EndingInv(c)' /\ WordsInv(c)'
  BY <1>1, ReadWords
<1>4. PICK a \in Nat, d \in Nat, b \in Nat :
         /\ Along(c, a, b) /\ <<m, a, d>> \in Shown /\ Path(Shown, down'[c], d, b)
         /\ c \in viewing' => b = pos'
  BY ReadStream
<1>5. app'[c].mirror = d /\ app'[c].printed[1] = app'[c].printed[2]
  <2>1. CASE /\ m.type = "snapshot" /\ m.next = 0
             /\ Screen(c, m.pos, 0, m.next)
    <3>1. app'[c].mirror = m.pos /\ app'[c].printed = <<0, 0>>
      BY <2>1 DEF Screen
    <3>2. m.pos = d
      BY <1>1, <1>4, <2>1, ShownMoves
    <3>3. QED BY <3>1, <3>2
  <2>2. CASE /\ m.type = "history_lines" /\ mode[c] = "fetching" /\ app[c].skip = 0
             /\ Screen(c, Applied(app[c].snapshot.pos, app[c].pending), m.next,
                       app[c].snapshot.next)
    <3>1. PICK n : n = app[c].snapshot.next
      OBVIOUS
    <3>2. Owed(c) = 1
      BY <2>2 DEF Owed
    <3>3. PICK e \in Nat : <<m, 1, e>> \in Asked(n)
      BY <1>1, <3>1, <3>2, ReadReplies
    <3>4. 1 = e + 1 /\ (e = 0 => m.next = n)
      BY <1>1, <2>2, <3>3, AskedMoves
    <3>5. m.next = n
      BY <3>4
    <3>6. PICK p \in Nat, ks \in Seq(Nat) : p = app[c].snapshot.pos /\ ks = app[c].pending
      BY OwedType
    <3>7. a = p + Len(ks) /\ \A i \in 1..Len(ks) : ks[i] = p + i
      BY <1>4, <2>2, <3>6 DEF Along
    <3>8. Applied(p, ks) = a
      BY <3>7, AppliedRun
    <3>9. d = a
      BY <1>1, <1>4, <2>2, ShownMoves
    <3>10. app'[c].mirror = Applied(p, ks) /\ app'[c].printed = <<m.next, n>>
      BY <2>2, <3>1, <3>6 DEF Screen
    <3>11. QED BY <3>5, <3>8, <3>9, <3>10
  <2>3. QED BY <2>1, <2>2 DEF Started
<1>6. StreamInv(c)'
  <2>1. Along(c, d, b)'
    BY <1>1, <1>4, <1>5 DEF Along
  <2>2. QED BY <2>1 DEF StreamInv, Along
<1>7. RepliesInv(c)'
  BY <1>1 DEF RepliesInv, Live
<1>8. QED BY <1>2, <1>3, <1>6, <1>7 DEF ClientInv

LEMMA GoesOnInv ==
    ASSUME NEW c \in Clients, LocalTypes(c), ClientInv(c), NEW m, Goes(c, m), GoesOn(c, m)
    PROVE  ClientInv(c)'
<1>1. /\ m \in Message /\ mode[c] = "live" /\ mode'[c] = "live" /\ Kept(c) /\ up'[c] = up[c]
      /\ m.type \in {"snapshot", "output", "history_lines"} /\ Running(c) /\ Still(c)
  BY ReadFacts DEF GoesOn, Goes, Live
<1>2. PlaceInv(c)'
  BY <1>1, SendsPlace
<1>3. EndingInv(c)' /\ WordsInv(c)'
  BY <1>1, ReadWords
<1>4. PICK a \in Nat, d \in Nat, b \in Nat :
         /\ Along(c, a, b) /\ <<m, a, d>> \in Shown /\ Path(Shown, down'[c], d, b)
         /\ c \in viewing' => b = pos'
  BY ReadStream
<1>5. app[c].mirror = a /\ app[c].printed[1] = app[c].printed[2]
  BY <1>1, <1>4 DEF Along
<1>6. app'[c].mirror = d
  <2>1. CASE m.type = "snapshot" /\ app'[c].mirror = m.pos
    BY <1>1, <1>4, <2>1, ShownMoves
  <2>2. CASE m.type = "output" /\ app'[c].mirror = Applied(app[c].mirror, <<m.pos>>)
    <3>1. m.pos = d /\ d = a + 1
      BY <1>1, <1>4, <2>2, ShownMoves
    <3>2. PICK ks \in Seq(Nat) : ks = <<d>> /\ Len(ks) = 1 /\ ks[1] = d
      <4>1. <<d>> \in Seq(Nat) /\ Len(<<d>>) = 1 /\ <<d>>[1] = d
        OBVIOUS
      <4>2. QED BY <4>1
    <3>3. \A i \in 1..Len(ks) : ks[i] = a + i
      <4>1. \A i \in 1..1 : i = 1
        OBVIOUS
      <4>2. QED BY <3>1, <3>2, <4>1
    <3>4. Applied(a, ks) = a + Len(ks)
      BY <3>3, AppliedRun
    <3>5. QED BY <1>5, <2>2, <3>1, <3>2, <3>4
  <2>3. CASE m.type = "history_lines" /\ app'[c].mirror = app[c].mirror
    BY <1>1, <1>4, <1>5, <2>3, ShownMoves
  <2>4. QED BY <2>1, <2>2, <2>3 DEF GoesOn
<1>7. StreamInv(c)'
  <2>1. app'[c].printed = app[c].printed
    BY DEF GoesOn
  <2>2. Along(c, d, b)'
    BY <1>1, <1>4, <1>5, <1>6, <2>1 DEF Along
  <2>3. QED BY <2>2 DEF StreamInv, Along
<1>8. RepliesInv(c)'
  BY <1>1 DEF RepliesInv, Live
<1>9. QED BY <1>2, <1>3, <1>7, <1>8 DEF ClientInv

LEMMA NotesInv ==
    ASSUME NEW c \in Clients, LocalTypes(c), ClientInv(c), NEW m, Goes(c, m), Notes(c, m)
    PROVE  ClientInv(c)'
<1>1. /\ m \in Message /\ SameView(c) /\ up'[c] = up[c] /\ Running(c) /\ Still(c)
      /\ m.type \in {"takeover", "held", "readonly", "exit"}
      /\ mode'[c] \in {"await", "fetching", "live"} /\ conn'[c] = conn[c]
  BY ReadFacts DEF Notes, Goes, SameView, Errors, Running
<1>2. PlaceInv(c)'
  BY <1>1, SendsPlace
<1>3. EndingInv(c)' /\ WordsInv(c)'
  BY ReadWords
<1>4. StreamInv(c)'
  <2>1. PICK a \in Nat, d \in Nat, b \in Nat :
           /\ Along(c, a, b) /\ <<m, a, d>> \in Shown /\ Path(Shown, down'[c], d, b)
           /\ c \in viewing' => b = pos'
    BY ReadStream
  <2>2. d = a
    BY <1>1, <2>1, ShownMoves
  <2>3. Along(c, d, b)'
    BY <1>1, <2>1, <2>2 DEF Along, SameView
  <2>4. QED BY <2>3 DEF StreamInv, Along
<1>5. RepliesInv(c)'
  <2>1. SUFFICES ASSUME ~Live(c)
                 PROVE  RepliesInv(c)'
    BY <1>1 DEF RepliesInv, Live, SameView
  <2>2. PICK n : n = app[c].snapshot.next
    OBVIOUS
  <2>3. PICK o \in Nat : o = Owed(c)
    BY OwedType
  <2>4. PICK d \in Nat, k \in Nat :
           /\ <<m, o, d>> \in Asked(n) /\ Path(Asked(n), down'[c], d, k)
           /\ conn[c] # "closed" => Path(Asked(n), up[c], k, 0)
    BY <2>1, <2>2, <2>3, ReadReplies
  <2>5. d = o
    BY <1>1, <2>4, AskedMoves
  <2>6. Owed(c)' = o /\ app'[c].snapshot.next = n
    BY <1>1, <2>2, <2>3 DEF Owed, SameView
  <2>7. QED BY <1>1, <2>4, <2>5, <2>6 DEF RepliesInv
<1>6. QED BY <1>2, <1>3, <1>4, <1>5 DEF ClientInv

\* A client that goes on waiting: d is where its screen is now, e what it is
\* owed, and k what is owed after all that is on its way.
LEMMA StillWaiting ==
    ASSUME NEW c \in Clients, LocalTypes(c), ClientInv(c), NEW m, Goes(c, m), Waits(c, m),
           NEW d \in Nat, NEW b \in Nat, Path(Shown, down'[c], d, b),
           c \in viewing' => b = pos',
           mode'[c] = "fetching" =>
              /\ d = app'[c].snapshot.pos + Len(app'[c].pending)
              /\ \A i \in 1..Len(app'[c].pending) :
                    app'[c].pending[i] = app'[c].snapshot.pos + i,
           NEW n, n = app'[c].snapshot.next, NEW k \in Nat, Path(Asked(n), down'[c], Owed(c)', k),
           conn[c] # "closed" => Path(Asked(n), up'[c], k, 0)
    PROVE  ClientInv(c)'
<1>1. /\ m \in Message /\ m.type \in {"snapshot", "output", "history_lines"} /\ Kept(c)
      /\ mode'[c] \in {"await", "fetching"} /\ Running(c) /\ Still(c) /\ conn'[c] = conn[c]
  BY ReadFacts DEF Waits, Goes
<1>2. \/ up'[c] = up[c]
      \/ \E x \in Message : up'[c] = Append(up[c], x) /\ x.type # "init"
  <2>1. m.next \in Nat /\ "history" \in Kinds
    BY <1>1 DEF Message, Kinds
  <2>2. Msg("history", 0, m.next) \in Message /\ Msg("history", 0, m.next).type = "history"
    BY <2>1, PlainMessages
  <2>3. QED BY <2>2 DEF Waits
<1>3. PlaceInv(c)'
  BY <1>1, <1>2, SendsPlace
<1>4. EndingInv(c)' /\ WordsInv(c)'
  BY <1>1, ReadWords
<1>5. StreamInv(c)'
  <2>1. Along(c, d, b)'
    BY <1>1 DEF Along
  <2>2. QED BY <2>1 DEF StreamInv, Along
<1>6. RepliesInv(c)'
  BY <1>1 DEF RepliesInv
<1>7. QED BY <1>3, <1>4, <1>5, <1>6 DEF ClientInv

LEMMA WaitsInv ==
    ASSUME NEW c \in Clients, LocalTypes(c), ClientInv(c), NEW m, Goes(c, m), Waits(c, m)
    PROVE  ClientInv(c)'
<1>1. m \in Message /\ ~Live(c) /\ down'[c] \in Seq(Message) /\ up[c] \in Seq(Message)
  <2>1. Tail(down[c]) \in Seq(Message)
    BY TailFacts DEF LocalTypes, Goes
  <2>2. QED BY <2>1, ReadFacts DEF Waits, Goes, LocalTypes, Live
<1>2. PICK a \in Nat, d \in Nat, b \in Nat :
         /\ Along(c, a, b) /\ <<m, a, d>> \in Shown /\ Path(Shown, down'[c], d, b)
         /\ c \in viewing' => b = pos'
  BY ReadStream
<1>3. PICK n : n = app[c].snapshot.next
  OBVIOUS
<1>4. PICK o \in Nat : o = Owed(c)
  BY OwedType
<1>5. PICK e \in Nat, k \in Nat :
         /\ <<m, o, e>> \in Asked(n) /\ Path(Asked(n), down'[c], e, k)
         /\ conn[c] # "closed" => Path(Asked(n), up[c], k, 0)
  BY <1>1, <1>3, <1>4, ReadReplies
<1>6. PICK p \in Nat, ks \in Seq(Nat) : p = app[c].snapshot.pos /\ ks = app[c].pending
  BY OwedType
<1>7. mode[c] = "fetching" => a = p + Len(ks) /\ \A i \in 1..Len(ks) : ks[i] = p + i
  BY <1>2, <1>6 DEF Along
\* A new snapshot: everything that is on its way has become stale.
<1>8. CASE /\ m.type = "snapshot" /\ ~Live(c) /\ mode'[c] = "fetching" /\ conn[c] = "viewer"
           /\ app'[c].snapshot = m /\ app'[c].pending = << >>
           /\ app'[c].skip = (IF mode[c] = "fetching" THEN app[c].skip + 1 ELSE 0) /\ Kept(c)
           /\ up'[c] = Append(up[c], Msg("history", 0, m.next))
  <2>1. d = m.pos /\ e = o
    <3>1. m.type = "snapshot"
      BY <1>8
    <3>2. d = m.pos
      BY <1>1, <1>2, <3>1, ShownMoves
    <3>3. e = o
      BY <1>1, <1>5, <3>1, AskedMoves
    <3>4. QED BY <3>2, <3>3
  <2>2. /\ d = app'[c].snapshot.pos + Len(app'[c].pending)
        /\ \A i \in 1..Len(app'[c].pending) :
              app'[c].pending[i] = app'[c].snapshot.pos + i
    <3>1. Len(<< >>) = 0 /\ 1..0 = {}
      OBVIOUS
    <3>2. QED BY <1>8, <2>1, <3>1
  <2>3. Owed(c)' = o + 1
    <3>1. app[c].skip \in Nat
      BY OwedType
    <3>2. QED BY <1>4, <1>8, <3>1 DEF Owed
  <2>4. PICK nn \in Nat : nn = m.next /\ nn = app'[c].snapshot.next
    BY <1>1, <1>8 DEF Message
  <2>5. Path(Asked(nn), down'[c], o + 1, k + 1)
    BY <1>1, <1>5, <2>1, PathShift
  <2>6. Path(Asked(nn), up[c], k + 1, 1)
    <3>1. Path(Asked(n), up[c], k, 0)
      BY <1>5, <1>8
    <3>2. Path(Asked(nn), up[c], k + 1, 0 + 1)
      BY <1>1, <3>1, PathShift
    <3>3. QED BY <3>2
  <2>7. PICK x \in Message : x = Msg("history", 0, nn) /\ x.type = "history" /\ x.next = nn
    BY PlainMessages DEF Kinds
  <2>8. Path(Asked(nn), up'[c], k + 1, 0)
    <3>1. <<x, 1, 0>> \in Asked(nn)
      BY <2>7, AskedMoves
    <3>2. Path(Asked(nn), Append(up[c], x), k + 1, 0)
      BY <1>1, <2>6, <3>1, PathAppend
    <3>3. QED BY <1>8, <2>4, <2>7, <3>2
  <2>9. k + 1 \in Nat
    OBVIOUS
  <2>10. QED BY <1>2, <2>2, <2>3, <2>4, <2>5, <2>8, <2>9, StillWaiting
\* Nothing was owed, so it was no reply.
<1>9. CASE /\ m.type \in {"output", "history_lines"} /\ mode[c] = "await" /\ mode'[c] = "await"
           /\ SameView(c) /\ Kept(c) /\ up'[c] = up[c]
  <2>1. o = 0 /\ Owed(c)' = 0 /\ app'[c].snapshot.next = n
    BY <1>3, <1>4, <1>9 DEF Owed, SameView
  <2>2. e = 0
    <3>1. m.type \in {"output", "history_lines"} /\ <<m, 0, e>> \in Asked(n)
      BY <1>5, <1>9, <2>1
    <3>2. CASE m.type = "output"
      BY <1>1, <1>5, <3>1, <3>2, AskedMoves
    <3>3. CASE m.type = "history_lines"
      <4>1. 0 = e + 1
        BY <1>1, <1>5, <3>1, <3>3, AskedMoves
      <4>2. QED BY <1>5, <4>1
    <3>4. QED BY <3>1, <3>2, <3>3
  <2>3. Path(Asked(n), down'[c], Owed(c)', k) /\ (conn[c] # "closed" => Path(Asked(n), up'[c], k, 0))
    BY <1>5, <1>9, <2>1, <2>2
  <2>4. QED BY <1>2, <1>9, <2>1, <2>3, StillWaiting
\* Output is kept; it continues what was kept before.
<1>10. CASE /\ m.type = "output" /\ mode[c] = "fetching" /\ mode'[c] = "fetching"
            /\ app'[c].pending = Append(app[c].pending, m.pos)
            /\ app'[c].snapshot = app[c].snapshot /\ app'[c].skip = app[c].skip /\ Kept(c)
            /\ up'[c] = up[c]
  <2>1. d = m.pos /\ d = a + 1 /\ e = o
    <3>1. m.type = "output"
      BY <1>10
    <3>2. d = m.pos /\ d = a + 1
      BY <1>1, <1>2, <3>1, ShownMoves
    <3>3. e = o
      BY <1>1, <1>5, <3>1, AskedMoves
    <3>4. QED BY <3>2, <3>3
  <2>2. PICK l \in Nat : l = Len(ks) /\ a = p + l /\ d = p + (l + 1)
    BY <1>7, <1>10, <2>1
  <2>3. PICK kd \in Seq(Nat) : /\ kd = Append(ks, d) /\ Len(kd) = l + 1
                               /\ \A j \in 1..l : kd[j] = ks[j]
                               /\ kd[l + 1] = d
    <3>1. /\ Append(ks, d) \in Seq(Nat) /\ Len(Append(ks, d)) = Len(ks) + 1
          /\ \A j \in 1..Len(ks) : Append(ks, d)[j] = ks[j]
          /\ Append(ks, d)[Len(ks) + 1] = d
      BY AppendFacts
    <3>2. QED BY <2>2, <3>1
  <2>4. \A i \in 1..(l + 1) : kd[i] = p + i
    <3>1. ASSUME NEW i \in 1..(l + 1)
          PROVE  kd[i] = p + i
      <4>1. CASE i = l + 1
        BY <2>2, <2>3, <4>1
      <4>2. CASE i # l + 1
        <5>1. i \in 1..l
          BY <4>2
        <5>2. QED BY <1>7, <1>10, <2>2, <2>3, <5>1
      <4>3. QED BY <4>1, <4>2
    <3>2. QED BY <3>1
  <2>5. app'[c].pending = kd /\ app'[c].snapshot.pos = p /\ app'[c].snapshot.next = n
    BY <1>3, <1>6, <1>10, <2>1, <2>3
  <2>6. Owed(c)' = o
    BY <1>4, <1>10 DEF Owed
  <2>7. Path(Asked(n), down'[c], Owed(c)', k) /\ (conn[c] # "closed" => Path(Asked(n), up'[c], k, 0))
    BY <1>5, <1>10, <2>1, <2>6
  <2>8. /\ d = app'[c].snapshot.pos + Len(app'[c].pending)
        /\ \A i \in 1..Len(app'[c].pending) :
              app'[c].pending[i] = app'[c].snapshot.pos + i
    BY <2>2, <2>3, <2>4, <2>5
  <2>9. QED BY <1>2, <2>5, <2>7, <2>8, StillWaiting
\* A stale reply is counted.
<1>11. CASE /\ m.type = "history_lines" /\ mode[c] = "fetching" /\ mode'[c] = "fetching"
            /\ app[c].skip > 0 /\ app'[c].skip = app[c].skip - 1
            /\ app'[c].snapshot = app[c].snapshot /\ app'[c].pending = app[c].pending /\ Kept(c)
            /\ up'[c] = up[c]
  <2>1. d = a /\ o = e + 1
    <3>1. m.type = "history_lines"
      BY <1>11
    <3>2. d = a
      BY <1>1, <1>2, <3>1, ShownMoves
    <3>3. o = e + 1
      BY <1>1, <1>5, <3>1, AskedMoves
    <3>4. QED BY <3>2, <3>3
  <2>2. Owed(c)' = e
    <3>1. PICK s \in Nat : s = app[c].skip /\ o = s + 1
      BY <1>4, <1>11, OwedType DEF Owed
    <3>2. app'[c].skip + 1 = s
      BY <1>11, <3>1
    <3>3. QED BY <1>11, <2>1, <3>1, <3>2 DEF Owed
  <2>3. app'[c].snapshot.next = n /\ app'[c].snapshot.pos = p /\ app'[c].pending = ks
    BY <1>3, <1>6, <1>11
  <2>4. Path(Asked(n), down'[c], Owed(c)', k) /\ (conn[c] # "closed" => Path(Asked(n), up'[c], k, 0))
    BY <1>5, <1>11, <2>2
  <2>5. /\ d = app'[c].snapshot.pos + Len(app'[c].pending)
        /\ \A i \in 1..Len(app'[c].pending) :
              app'[c].pending[i] = app'[c].snapshot.pos + i
    BY <1>7, <1>11, <2>1, <2>3
  <2>6. QED BY <1>2, <2>3, <2>4, <2>5, StillWaiting
<1>12. QED BY <1>8, <1>9, <1>10, <1>11 DEF Waits

-----------------------------------------------------------------------------
(* What each action does to every client.                                  *)

Reads(c) ==
    \E m : Goes(c, m) /\ (Started(c, m) \/ Waits(c, m) \/ GoesOn(c, m) \/ Notes(c, m))

Effect(c) ==
    \/ Idle(c) \/ Cut(c) \/ Took(c)
    \/ \E m : Heard(c, m)
    \/ \E w : Shut(c, w)
    \/ Left(c) \/ Looked(c) \/ Dialled(c) \/ Claimed(c) \/ Typed(c) \/ Reads(c)

LEMMA EffectInv ==
    ASSUME NEW c \in Clients, LocalTypes(c), ClientInv(c), Effect(c)
    PROVE  ClientInv(c)'
<1>1. CASE Reads(c)
  <2>1. PICK m : Goes(c, m) /\ (Started(c, m) \/ Waits(c, m) \/ GoesOn(c, m) \/ Notes(c, m))
    BY <1>1 DEF Reads
  <2>2. QED BY <2>1, StartedInv, WaitsInv, GoesOnInv, NotesInv
<1>2. ASSUME NEW m, Heard(c, m)
      PROVE  ClientInv(c)'
  BY <1>2, HeardInv
<1>3. ASSUME NEW w, Shut(c, w)
      PROVE  ClientInv(c)'
  BY <1>3, ShutInv
<1>4. CASE Idle(c) \/ Cut(c) \/ Took(c)
  BY <1>4, IdleInv, CutInv, TookInv
<1>5. CASE Left(c) \/ Looked(c) \/ Dialled(c) \/ Claimed(c) \/ Typed(c)
  BY <1>5, LeftInv, ConnectingInv, ClaimedInv, TypedInv
<1>6. QED BY <1>1, <1>2, <1>3, <1>4, <1>5 DEF Effect

LEMMA TellFacts ==
    ASSUME AttachTypes, NEW S \in SUBSET Clients, NEW m \in Message, Tell(S, m)
    PROVE  /\ conn' \in [Clients -> {"none", "pending", "viewer", "closed"}]
           /\ viewing' \subseteq Clients
           /\ down' \in [Clients -> Seq(Message)]
           /\ \A d \in Clients :
                 /\ d \in S /\ ~Gone(d) =>
                       /\ down'[d] = Append(down[d], m) /\ conn'[d] = conn[d]
                       /\ (d \in viewing' <=> d \in viewing)
                 /\ d \in S /\ Gone(d) =>
                       /\ down'[d] = down[d] /\ conn'[d] = "closed" /\ d \notin viewing'
                 /\ d \notin S =>
                       /\ down'[d] = down[d] /\ conn'[d] = conn[d]
                       /\ (d \in viewing' <=> d \in viewing)
<1> USE DEF Tell, Dropped, AttachTypes
<1>1. \A d \in Clients : down[d] \in Seq(Message) /\ Append(down[d], m) \in Seq(Message)
  OBVIOUS
<1>2. down' \in [Clients -> Seq(Message)]
  BY <1>1
<1>3. conn' \in [Clients -> {"none", "pending", "viewer", "closed"}] /\ viewing' \subseteq Clients
  OBVIOUS
<1>4. ASSUME NEW d \in Clients
      PROVE  /\ d \in S /\ ~Gone(d) =>
                   /\ down'[d] = Append(down[d], m) /\ conn'[d] = conn[d]
                   /\ (d \in viewing' <=> d \in viewing)
             /\ d \in S /\ Gone(d) =>
                   /\ down'[d] = down[d] /\ conn'[d] = "closed" /\ d \notin viewing'
             /\ d \notin S =>
                   /\ down'[d] = down[d] /\ conn'[d] = conn[d]
                   /\ (d \in viewing' <=> d \in viewing)
  <2> HIDE DEF Gone
  <2>1. QED OBVIOUS
<1>5. QED BY <1>2, <1>3, <1>4

\* The closing of connections, with a last word or without.
LastWords(S, word) ==
    \A d \in S : \/ word[d] = << >>
                 \/ \E w \in Kinds : word[d] = <<Plain(w)>>

Closed(S, word, ups) ==
    /\ up' \in [Clients -> Seq(Message)] /\ down' \in [Clients -> Seq(Message)]
    /\ \A d \in Clients :
          /\ d \notin S => down'[d] = down[d] /\ up'[d] = ups[d]
          /\ d \in S => up'[d] = << >>
          /\ d \in S /\ ~Gone(d) => \E e \in {"eof", "reset"} :
                /\ word[d] = << >> => down'[d] = Append(down[d], Plain(e))
                /\ \A w \in Kinds : word[d] = <<Plain(w)>> =>
                      down'[d] = Append(Append(down[d], Plain(w)), Plain(e))

LEMMA CloseFacts ==
    ASSUME AttachTypes, NEW S \in SUBSET Clients, NEW word, NEW ups \in [Clients -> Seq(Message)],
           Close(S, word, ups), LastWords(S, word)
    PROVE  Closed(S, word, ups)
<1>1. PICK r :
         /\ down' = [c \in Clients |->
                IF c \in S /\ ~Gone(c)
                THEN down[c] \o word[c] \o <<Plain(IF c \in r THEN "reset" ELSE "eof")>>
                ELSE down[c]]
         /\ up' = [c \in Clients |-> IF c \in S THEN << >> ELSE ups[c]]
  BY DEF Close
<1>2. up' \in [Clients -> Seq(Message)]
  <2>1. << >> \in Seq(Message)
    OBVIOUS
  <2>2. QED BY <1>1, <2>1
<1>3. ASSUME NEW d \in S, ~Gone(d)
      PROVE  /\ down'[d] \in Seq(Message)
             /\ \E e \in {"eof", "reset"} :
                   /\ word[d] = << >> => down'[d] = Append(down[d], Plain(e))
                   /\ \A w \in Kinds : word[d] = <<Plain(w)>> =>
                         down'[d] = Append(Append(down[d], Plain(w)), Plain(e))
  <2>1. PICK e \in {"eof", "reset"} : down'[d] = down[d] \o word[d] \o <<Plain(e)>>
    <3>1. CASE d \in r
      BY <1>1, <1>3, <3>1
    <3>2. CASE d \notin r
      BY <1>1, <1>3, <3>2
    <3>3. QED BY <3>1, <3>2
  <2>2. PICK q \in Seq(Message) : q = down[d]
    BY DEF AttachTypes
  <2>3. PICK x \in Message : x = Plain(e)
    <3>1. e \in Kinds
      BY DEF Kinds
    <3>2. QED BY <3>1, PlainMessages
  <2>4. /\ q \o << >> = q /\ q \o <<x>> = Append(q, x) /\ Append(q, x) \in Seq(Message)
    BY AppendFacts
  <2>5. ASSUME NEW w \in Kinds
        PROVE  /\ q \o <<Plain(w)>> \o <<x>> = Append(Append(q, Plain(w)), x)
               /\ Append(Append(q, Plain(w)), x) \in Seq(Message)
    <3>1. PICK y \in Message : y = Plain(w)
      BY PlainMessages
    <3>2. q \o <<y>> = Append(q, y) /\ Append(q, y) \in Seq(Message)
      BY AppendFacts
    <3>3. /\ Append(q, y) \o <<x>> = Append(Append(q, y), x)
          /\ Append(Append(q, y), x) \in Seq(Message)
      BY <3>2, AppendFacts
    <3>4. QED BY <3>1, <3>2, <3>3
  <2>6. word[d] = << >> => down'[d] = Append(down[d], Plain(e)) /\ down'[d] \in Seq(Message)
    BY <2>1, <2>2, <2>3, <2>4
  <2>7. \A w \in Kinds : word[d] = <<Plain(w)>> =>
           /\ down'[d] = Append(Append(down[d], Plain(w)), Plain(e))
           /\ down'[d] \in Seq(Message)
    BY <2>1, <2>2, <2>3, <2>5
  <2>8. QED BY <1>3, <2>6, <2>7 DEF LastWords
<1>4. down' \in [Clients -> Seq(Message)]
  <2>1. \A d \in Clients : down'[d] \in Seq(Message)
    BY <1>1, <1>3 DEF AttachTypes
  <2>2. QED BY <1>1, <2>1
<1>5. \A d \in Clients :
         /\ d \notin S => down'[d] = down[d] /\ up'[d] = ups[d]
         /\ d \in S => up'[d] = << >>
  BY <1>1
<1>6. QED BY <1>2, <1>3, <1>4, <1>5 DEF Closed
LEMMA ReadsInit ==
    ASSUME AttachTypes, AttachInv, NEW c \in Clients, WrapperReads(c), Head(up[c]).type = "init"
    PROVE  AttachTypes' /\ \A d \in Clients : Effect(d)
<1> DEFINE rest == [up EXCEPT ![c] = Tail(@)]
           holders == {d \in Clients : conn[d] = "viewer"}
<1>1. /\ life = "running" /\ conn[c] \in {"pending", "viewer"} /\ up[c] # << >>
      /\ InitMsg(c, rest)
      /\ UNCHANGED <<client, readonly, life, pos, next, snapshots, unserved>>
  BY DEF WrapperReads
<1>2. mode' = mode /\ app' = app /\ outcome' = outcome
  BY <1>1 DEF client
<1>3. up[c] \in Seq(Message) /\ Tail(up[c]) \in Seq(Message) /\ Head(up[c]) = up[c][1]
      /\ 1 \in 1..Len(up[c])
  <2>1. up[c] \in Seq(Message)
    BY DEF AttachTypes
  <2>2. /\ Tail(up[c]) \in Seq(Message) /\ Head(up[c]) = up[c][1]
        /\ Len(Tail(up[c])) \in Nat /\ Len(up[c]) = Len(Tail(up[c])) + 1
    BY <1>1, <2>1, TailFacts
  <2>3. QED BY <2>1, <2>2
<1>4. conn[c] = "pending"
  BY <1>1, <1>3 DEF AttachInv, PlaceInv
<1>5. rest \in [Clients -> Seq(Message)] /\ rest[c] = Tail(up[c])
      /\ \A d \in Clients : d # c => rest[d] = up[d]
  BY <1>3 DEF AttachTypes
<1> HIDE DEF rest
<1>6. CASE Refuses(c)
  <2>1. /\ Close({c}, Saying("held"), rest) /\ conn' = [conn EXCEPT ![c] = "closed"]
        /\ UNCHANGED <<viewing, displaced>>
    BY <1>1, <1>6 DEF InitMsg
  <2>2. Saying("held")[c] = <<Plain("held")>> /\ "held" \in Kinds
    BY DEF Saying, Kinds
  <2>3. /\ up' \in [Clients -> Seq(Message)] /\ down' \in [Clients -> Seq(Message)]
        /\ \A d \in Clients :
              /\ d # c => down'[d] = down[d] /\ up'[d] = rest[d]
              /\ d = c => up'[d] = << >>
              /\ d = c /\ ~Gone(d) => \E e \in {"eof", "reset"} :
                    down'[d] = Append(Append(down[d], Plain("held")), Plain(e))
    <3>1. {c} \in SUBSET Clients
      OBVIOUS
    <3>2. LastWords({c}, Saying("held"))
      BY <2>2 DEF LastWords
    <3>3. Closed({c}, Saying("held"), rest)
      BY <1>5, <2>1, <3>1, <3>2, CloseFacts
    <3>4. QED BY <2>2, <3>3 DEF Closed
  <2>4. AttachTypes'
    BY <1>1, <1>2, <2>1, <2>3 DEF AttachTypes
  <2>5. Shut(c, "held")
    BY <1>1, <1>2, <2>1, <2>3 DEF Shut, Unmoved, LifeGoesOn, InView, AttachTypes
  <2>6. ASSUME NEW d \in Clients, d # c
        PROVE  Idle(d)
    BY <1>1, <1>2, <1>5, <2>1, <2>3, <2>6
       DEF Idle, Unmoved, Still, Marked, LifeGoesOn, InView, AttachTypes
  <2>7. QED BY <2>4, <2>5, <2>6 DEF Effect
<1>7. CASE ~Refuses(c)
  <2>1. /\ Close(holders, Saying("takeover"), rest)
        /\ conn' = [d \in Clients |->
               IF d = c THEN "viewer" ELSE IF d \in holders THEN "closed" ELSE conn[d]]
        /\ viewing' = viewing \ holders
        /\ displaced' = displaced \cup holders
    BY <1>1, <1>7 DEF InitMsg
  <2>2. /\ \A d \in Clients : Saying("takeover")[d] = <<Plain("takeover")>>
        /\ "takeover" \in Kinds
    BY DEF Saying, Kinds
  <2>3. holders \in SUBSET Clients /\ c \notin holders
    BY <1>4
  <2>4. /\ up' \in [Clients -> Seq(Message)] /\ down' \in [Clients -> Seq(Message)]
        /\ \A d \in Clients :
              /\ d \notin holders => down'[d] = down[d] /\ up'[d] = rest[d]
              /\ d \in holders => up'[d] = << >>
              /\ d \in holders /\ ~Gone(d) => \E e \in {"eof", "reset"} :
                    down'[d] = Append(Append(down[d], Plain("takeover")), Plain(e))
    <3>1. LastWords(holders, Saying("takeover"))
      BY <2>2, <2>3 DEF LastWords
    <3>2. Closed(holders, Saying("takeover"), rest)
      <4> HIDE DEF holders
      <4>1. QED BY <1>5, <2>1, <2>3, <3>1, CloseFacts
    <3>3. QED
      <4> HIDE DEF holders
      <4>1. QED BY <2>2, <3>2 DEF Closed
  <2>5. AttachTypes'
    BY <1>1, <1>2, <2>1, <2>3, <2>4 DEF AttachTypes
  <2>6. Took(c)
    BY <1>1, <1>2, <1>5, <2>1, <2>3, <2>4 DEF Took, Unmoved, Marked, InView, AttachTypes
  <2>7. ASSUME NEW d \in holders
        PROVE  Shut(d, "takeover")
    BY <1>1, <1>2, <2>1, <2>3, <2>4, <2>7 DEF Shut, Unmoved, LifeGoesOn, InView
  <2>8. ASSUME NEW d \in Clients, d # c, d \notin holders
        PROVE  Idle(d)
    BY <1>1, <1>2, <1>5, <2>1, <2>4, <2>8
       DEF Idle, Unmoved, Still, Marked, LifeGoesOn, InView
  <2>9. QED
    <3> HIDE DEF holders
    <3>1. QED BY <2>5, <2>6, <2>7, <2>8 DEF Effect
<1>8. QED BY <1>6, <1>7

LEMMA ReadsOther ==
    ASSUME AttachTypes, AttachInv, NEW c \in Clients, WrapperReads(c), Head(up[c]).type # "init"
    PROVE  AttachTypes' /\ \A d \in Clients : Effect(d)
<1>1. /\ life = "running" /\ conn[c] \in {"pending", "viewer"} /\ up[c] # << >>
      /\ up' = [up EXCEPT ![c] = Tail(@)]
      /\ UNCHANGED <<client, readonly, life, pos, next, snapshots, unserved, displaced>>
  BY DEF WrapperReads
<1>2. mode' = mode /\ app' = app /\ outcome' = outcome
  BY <1>1 DEF client
<1>3. up[c] \in Seq(Message) /\ Tail(up[c]) \in Seq(Message) /\ Head(up[c]) \in Message
  <2>1. up[c] \in Seq(Message)
    BY DEF AttachTypes
  <2>2. QED BY <1>1, <2>1, TailFacts
<1>4. PICK m \in Message : m = Head(up[c])
  BY <1>3
<1>5. up' \in [Clients -> Seq(Message)] /\ up'[c] = Tail(up[c])
      /\ \A d \in Clients : d # c => up'[d] = up[d]
  BY <1>1, <1>3 DEF AttachTypes
<1>6. {c} \in SUBSET Clients
  OBVIOUS
\* What Tell does to the others and, when it is gone, to c.
<1>7. ASSUME NEW x \in Message, Tell({c}, x)
      PROVE  /\ AttachTypes' /\ \A d \in Clients : d # c => Idle(d)
             /\ Gone(c) => Took(c)
             /\ ~Gone(c) => /\ down'[c] = Append(down[c], x) /\ conn'[c] = conn[c]
                            /\ InView(c)
  <2>1. /\ conn' \in [Clients -> {"none", "pending", "viewer", "closed"}]
        /\ viewing' \subseteq Clients /\ down' \in [Clients -> Seq(Message)]
        /\ \A d \in Clients :
              /\ d = c /\ ~Gone(d) =>
                    /\ down'[d] = Append(down[d], x) /\ conn'[d] = conn[d]
                    /\ (d \in viewing' <=> d \in viewing)
              /\ d = c /\ Gone(d) =>
                    /\ down'[d] = down[d] /\ conn'[d] = "closed" /\ d \notin viewing'
              /\ d # c =>
                    /\ down'[d] = down[d] /\ conn'[d] = conn[d]
                    /\ (d \in viewing' <=> d \in viewing)
    BY <1>6, <1>7, TellFacts
  <2>2. AttachTypes'
    BY <1>1, <1>2, <1>5, <2>1 DEF AttachTypes
  <2>3. \A d \in Clients : d # c => Idle(d)
    BY <1>1, <1>2, <1>5, <2>1 DEF Idle, Unmoved, Still, Marked, InView, LifeGoesOn
  <2>4. Gone(c) => Took(c)
    BY <1>1, <1>2, <1>5, <2>1 DEF Took, Unmoved, Marked
  <2>5. ~Gone(c) => down'[c] = Append(down[c], x) /\ conn'[c] = conn[c] /\ InView(c)
    BY <1>1, <2>1 DEF InView
  <2>6. QED BY <2>2, <2>3, <2>4, <2>5
\* A step that says nothing.
<1>8. ASSUME m.type \in {"view", "unview", "input"}, down' = down, conn' = conn,
             viewing' \subseteq viewing, \A d \in Clients : d # c /\ d \in viewing => d \in viewing'
      PROVE  AttachTypes' /\ \A d \in Clients : Effect(d)
  <2>1. AttachTypes'
    BY <1>1, <1>2, <1>5, <1>8 DEF AttachTypes
  <2>2. \A d \in Clients : d # c => Idle(d)
    BY <1>1, <1>2, <1>5, <1>8 DEF Idle, Unmoved, Still, Marked, InView, LifeGoesOn
  <2>3. Took(c)
    BY <1>1, <1>2, <1>4, <1>5, <1>8 DEF Took, Unmoved, Marked, InView
  <2>4. QED BY <2>1, <2>2, <2>3 DEF Effect
<1>9. CASE m.type = "view" /\ ViewMsg(c)
  <2>1. CASE Gone(c)
    <3>1. Tell({c}, Plain("snapshot")) /\ Plain("snapshot") \in Message
      BY <1>9, <2>1, PlainMessages DEF ViewMsg, Kinds
    <3>2. QED BY <1>7, <2>1, <3>1 DEF Effect
  <2>2. CASE ~Gone(c)
    <3>1. PICK x \in Message : x = Msg("snapshot", pos, next)
      BY DEF Msg, Message, Kinds, AttachTypes
    <3>2. x.type = "snapshot" /\ x.pos = pos
      BY <3>1 DEF Msg
    <3>3. /\ viewing' = viewing \cup {c} /\ down' = [down EXCEPT ![c] = Append(@, x)]
          /\ conn' = conn
      BY <1>9, <2>2, <3>1 DEF ViewMsg
    <3>4. down[c] \in Seq(Message) /\ Append(down[c], x) \in Seq(Message)
      BY DEF AttachTypes
    <3>5. down' \in [Clients -> Seq(Message)] /\ down'[c] = Append(down[c], x)
          /\ \A d \in Clients : d # c => down'[d] = down[d]
      BY <3>3, <3>4 DEF AttachTypes
    <3>6. AttachTypes'
      BY <1>1, <1>2, <1>5, <3>3, <3>5 DEF AttachTypes
    <3>7. \A d \in Clients : d # c => Idle(d)
      BY <1>1, <1>2, <1>5, <3>3, <3>5 DEF Idle, Unmoved, Still, Marked, InView, LifeGoesOn
    <3>8. Took(c)
      BY <1>1, <1>2, <1>4, <1>5, <1>9, <2>2, <3>2, <3>3, <3>5 DEF Took, Unmoved, Marked
    <3>9. QED BY <3>6, <3>7, <3>8 DEF Effect
  <2>3. QED BY <2>1, <2>2
<1>10. CASE m.type = "history" /\ Tell({c}, Msg("history_lines", 0, m.next))
  <2>1. Msg("history_lines", 0, m.next) \in Message
    <3>1. m.next \in Nat /\ "history_lines" \in Kinds
      BY DEF Message, Kinds
    <3>2. QED BY <3>1, PlainMessages
  <2>2. Took(c)
    <3>1. CASE Gone(c)
      BY <1>7, <1>10, <2>1, <3>1
    <3>2. CASE ~Gone(c)
      <4>1. down'[c] = Append(down[c], Msg("history_lines", 0, m.next)) /\ conn'[c] = conn[c]
            /\ InView(c)
        BY <1>7, <1>10, <2>1, <3>2
      <4>2. QED BY <1>1, <1>2, <1>4, <1>5, <1>10, <3>2, <4>1 DEF Took, Unmoved, Marked
    <3>3. QED BY <3>1, <3>2
  <2>3. QED BY <1>7, <1>10, <2>1, <2>2 DEF Effect
<1>11. CASE m.type = "input" /\ Tell({c}, Plain("readonly"))
  <2>1. Plain("readonly") \in Message /\ Plain("readonly").type = "readonly"
    BY PlainMessages DEF Kinds
  <2>2. Took(c)
    <3>1. CASE Gone(c)
      BY <1>7, <1>11, <2>1, <3>1
    <3>2. CASE ~Gone(c)
      <4>1. down'[c] = Append(down[c], Plain("readonly")) /\ conn'[c] = conn[c] /\ InView(c)
        BY <1>7, <1>11, <2>1, <3>2
      <4>2. QED BY <1>1, <1>2, <1>4, <1>5, <1>11, <2>1, <3>2, <4>1 DEF Took, Unmoved, Marked
    <3>3. QED BY <3>1, <3>2
  <2>3. QED BY <1>7, <1>11, <2>1, <2>2 DEF Effect
<1>12. CASE m.type = "input" /\ UNCHANGED <<down, conn, viewing>>
  BY <1>8, <1>12
<1>13. CASE m.type = "unview" /\ viewing' = viewing \ {c} /\ UNCHANGED <<down, conn>>
  BY <1>8, <1>13
<1>14. QED BY <1>4, <1>9, <1>10, <1>11, <1>12, <1>13 DEF WrapperReads

LEMMA HangupEffect ==
    ASSUME AttachTypes, NEW c \in Clients, Hangup(c)
    PROVE  AttachTypes' /\ \A d \in Clients : Effect(d)
<1> USE DEF Hangup, EndRead, client, wires, AttachTypes
<1>1. AttachTypes'
  OBVIOUS
<1>2. Cut(c)
  BY DEF Cut, Unmoved, Marked, LifeGoesOn
<1>3. ASSUME NEW d \in Clients, d # c
      PROVE  Idle(d)
  BY <1>3 DEF Idle, Unmoved, Still, Marked, InView, LifeGoesOn
<1>4. QED BY <1>2, <1>3, <1>1 DEF Effect

\* What all viewers are told.
LEMMA ToldEffect ==
    ASSUME AttachTypes, NEW m \in Message, Tell(viewing, m),
           UNCHANGED <<client, up, readonly, life, displaced, unserved>>,
           pos' \in Nat, next' \in Nat,
           \/ m.type = "output" /\ m.pos = pos' /\ pos' = pos + 1
           \/ m.type = "snapshot" /\ m.pos = pos /\ pos' = pos
    PROVE  AttachTypes' /\ \A d \in Clients : Effect(d)
<1>1. /\ conn' \in [Clients -> {"none", "pending", "viewer", "closed"}]
      /\ viewing' \subseteq Clients
      /\ down' \in [Clients -> Seq(Message)]
      /\ \A d \in Clients :
            /\ d \in viewing /\ ~Gone(d) =>
                  /\ down'[d] = Append(down[d], m) /\ conn'[d] = conn[d]
                  /\ (d \in viewing' <=> d \in viewing)
            /\ d \in viewing /\ Gone(d) =>
                  /\ down'[d] = down[d] /\ conn'[d] = "closed" /\ d \notin viewing'
            /\ d \notin viewing =>
                  /\ down'[d] = down[d] /\ conn'[d] = conn[d]
                  /\ (d \in viewing' <=> d \in viewing)
  <2>1. viewing \in SUBSET Clients
    BY DEF AttachTypes
  <2>2. QED BY <2>1, TellFacts
<1>2. mode' = mode /\ app' = app /\ outcome' = outcome /\ up' = up /\ life' = life
      /\ displaced' = displaced /\ unserved' = unserved
  BY DEF client
<1>3. AttachTypes'
  BY <1>1, <1>2 DEF AttachTypes
<1>4. ASSUME NEW d \in Clients
      PROVE  Effect(d)
  <2>1. CASE d \notin viewing
    <3>1. Idle(d)
      BY <1>1, <1>2, <2>1 DEF Idle, Unmoved, Still, Marked, InView, LifeGoesOn
    <3>2. QED BY <3>1 DEF Effect
  <2>2. CASE d \in viewing /\ Gone(d)
    <3>1. Cut(d)
      BY <1>1, <1>2, <2>2 DEF Cut, Unmoved, Marked, LifeGoesOn
    <3>2. QED BY <3>1 DEF Effect
  <2>3. CASE d \in viewing /\ ~Gone(d)
    <3>1. Heard(d, m)
      BY <1>1, <1>2, <2>3 DEF Heard, Unmoved, Marked
    <3>2. QED BY <3>1 DEF Effect
  <2>4. QED BY <2>1, <2>2, <2>3
<1>5. QED BY <1>3, <1>4

LEMMA OutputEffect ==
    ASSUME AttachTypes, Output \/ Resnapshot
    PROVE  AttachTypes' /\ \A d \in Clients : Effect(d)
<1>1. pos \in Nat /\ next \in Nat
  BY DEF AttachTypes
<1>2. CASE Output
  <2>1. PICK p \in Nat : p = pos' /\ p = pos + 1
    BY <1>1, <1>2 DEF Output
  <2>2. PICK m \in Message : m = Msg("output", p, 0) /\ m.type = "output" /\ m.pos = p
    <3>1. /\ Msg("output", p, 0) \in Message /\ Msg("output", p, 0).type = "output"
          /\ Msg("output", p, 0).pos = p
      BY DEF Msg, Message, Kinds
    <3>2. QED BY <3>1
  <2>3. Tell(viewing, m)
    BY <1>2, <2>1, <2>2 DEF Output
  <2>4. /\ UNCHANGED <<client, up, readonly, life, displaced, unserved>>
        /\ next' \in Nat
    BY <1>1, <1>2 DEF Output
  <2>5. QED BY <2>1, <2>2, <2>3, <2>4, ToldEffect
<1>3. CASE Resnapshot
  <2>1. PICK m \in Message : m = Msg("snapshot", pos, next) /\ m.type = "snapshot" /\ m.pos = pos
    <3>1. /\ Msg("snapshot", pos, next) \in Message
          /\ Msg("snapshot", pos, next).type = "snapshot" /\ Msg("snapshot", pos, next).pos = pos
      BY <1>1 DEF Msg, Message, Kinds
    <3>2. QED BY <3>1
  <2>2. Tell(viewing, m)
    BY <1>3, <2>1 DEF Resnapshot
  <2>3. /\ UNCHANGED <<client, up, readonly, life, displaced, unserved>>
        /\ pos' = pos /\ next' = next
    BY <1>3 DEF Resnapshot
  <2>4. QED BY <1>1, <2>1, <2>2, <2>3, ToldEffect
<1>4. QED BY <1>2, <1>3

LEMMA ExitEffect ==
    ASSUME AttachTypes, AttachInv, Exit \/ Crash
    PROVE  AttachTypes' /\ \A d \in Clients : Effect(d)
<1> DEFINE word == [c \in Clients |-> IF conn[c] = "viewer" THEN <<Plain("exit")>> ELSE << >>]
<1>1. /\ life = "running" /\ life' \in {"exited", "crashed"}
      /\ conn' = [c \in Clients |-> IF c \in Open THEN "closed" ELSE conn[c]]
      /\ viewing' = {}
      /\ UNCHANGED <<client, readonly, pos, next, snapshots, displaced>>
  BY DEF Exit, Crash, Ends
<1>2. mode' = mode /\ app' = app /\ outcome' = outcome
  BY <1>1 DEF client
<1>3. Open \in SUBSET Clients /\ up \in [Clients -> Seq(Message)]
      /\ \A d \in Open : conn[d] \in {"pending", "viewer"}
  BY DEF Open, AttachTypes
<1>4. \A d \in Clients : d \notin unserved
  BY <1>1 DEF AttachInv, PlaceInv
<1>5. "exit" \in Kinds
  BY DEF Kinds
<1>6. CASE Exit
  <2>1. life' = "exited" /\ Close(Open, word, up) /\ unserved' = {c \in Clients : conn[c] = "pending"}
    BY <1>6 DEF Exit, Ends
  <2>2. /\ \A d \in Open : conn[d] = "viewer" => word[d] = <<Plain("exit")>>
        /\ \A d \in Open : conn[d] # "viewer" => word[d] = << >>
    BY <1>3
  <2> HIDE DEF word
  <2>3. /\ up' \in [Clients -> Seq(Message)] /\ down' \in [Clients -> Seq(Message)]
        /\ \A d \in Clients :
              /\ d \notin Open => down'[d] = down[d] /\ up'[d] = up[d]
              /\ d \in Open => up'[d] = << >>
              /\ d \in Open /\ ~Gone(d) => \E e \in {"eof", "reset"} :
                    /\ word[d] = << >> => down'[d] = Append(down[d], Plain(e))
                    /\ \A w \in Kinds : word[d] = <<Plain(w)>> =>
                          down'[d] = Append(Append(down[d], Plain(w)), Plain(e))
    <3>1. LastWords(Open, word)
      BY <1>5, <2>2 DEF LastWords
    <3>2. Closed(Open, word, up)
      BY <1>3, <2>1, <3>1, CloseFacts
    <3>3. QED BY <3>2 DEF Closed
  <2>4. AttachTypes'
    BY <1>1, <1>2, <2>1, <2>3 DEF AttachTypes
  <2>5. ASSUME NEW d \in Open, conn[d] = "viewer"
        PROVE  Shut(d, "exit")
    <3>1. ~Gone(d) => \E e \in {"eof", "reset"} :
             down'[d] = Append(Append(down[d], Plain("exit")), Plain(e))
      BY <1>3, <1>5, <2>2, <2>3, <2>5
    <3>2. QED BY <1>1, <1>2, <1>3, <1>4, <2>1, <2>3, <2>5, <3>1
             DEF Shut, Unmoved, LifeGoesOn, InView
  <2>6. ASSUME NEW d \in Open, conn[d] # "viewer"
        PROVE  Shut(d, "none")
    <3>1. ~Gone(d) => \E e \in {"eof", "reset"} : down'[d] = Append(down[d], Plain(e))
      BY <1>3, <2>2, <2>3, <2>6
    <3>2. QED BY <1>1, <1>2, <1>3, <1>4, <2>1, <2>3, <2>6, <3>1
             DEF Shut, Unmoved, LifeGoesOn, InView
  <2>7. ASSUME NEW d \in Clients, d \notin Open
        PROVE  Idle(d)
    <3>1. conn[d] # "pending"
      BY <2>7 DEF Open
    <3>2. QED BY <1>1, <1>2, <1>4, <2>1, <2>3, <2>7, <3>1
             DEF Idle, Unmoved, Still, Marked, InView, LifeGoesOn
  <2>8. QED BY <2>4, <2>5, <2>6, <2>7 DEF Effect
<1>7. CASE Crash
  <2>1. life' = "crashed" /\ Close(Open, Silent, up) /\ unserved' = unserved
    BY <1>7 DEF Crash, Ends
  <2>2. \A d \in Open : Silent[d] = << >>
    BY <1>3 DEF Silent
  <2>3. /\ up' \in [Clients -> Seq(Message)] /\ down' \in [Clients -> Seq(Message)]
        /\ \A d \in Clients :
              /\ d \notin Open => down'[d] = down[d] /\ up'[d] = up[d]
              /\ d \in Open => up'[d] = << >>
              /\ d \in Open /\ ~Gone(d) => \E e \in {"eof", "reset"} :
                    /\ Silent[d] = << >> => down'[d] = Append(down[d], Plain(e))
                    /\ \A w \in Kinds : Silent[d] = <<Plain(w)>> =>
                          down'[d] = Append(Append(down[d], Plain(w)), Plain(e))
    <3>1. LastWords(Open, Silent)
      BY <2>2 DEF LastWords
    <3>2. Closed(Open, Silent, up)
      BY <1>3, <2>1, <3>1, CloseFacts
    <3>3. QED BY <3>2 DEF Closed
  <2>4. AttachTypes'
    BY <1>1, <1>2, <2>1, <2>3 DEF AttachTypes
  <2>5. ASSUME NEW d \in Open
        PROVE  Shut(d, "none")
    <3>1. ~Gone(d) => \E e \in {"eof", "reset"} : down'[d] = Append(down[d], Plain(e))
      BY <1>3, <2>2, <2>3
    <3>2. QED BY <1>1, <1>2, <1>3, <1>4, <2>1, <2>3, <2>5, <3>1
             DEF Shut, Unmoved, LifeGoesOn, InView
  <2>6. ASSUME NEW d \in Clients, d \notin Open
        PROVE  Idle(d)
    BY <1>1, <1>2, <1>4, <2>1, <2>3, <2>6 DEF Idle, Unmoved, Still, Marked, InView, LifeGoesOn
  <2>7. QED BY <2>4, <2>5, <2>6 DEF Effect
<1>8. QED BY <1>6, <1>7
LEMMA EndFacts ==
    ASSUME AttachTypes, NEW c \in Clients, NEW how, End(c, how),
           how \in {"none", "lost", "left", "closed", "exit"} \cup Errors
    PROVE  /\ mode'[c] = "ended" /\ app'[c] = NoApp /\ outcome'[c] = how
           /\ \A d \in Clients : d # c => Unmoved(d)
           /\ mode' \in [Clients -> {"idle", "probed", "connected", "await", "fetching",
                                     "live", "ended"}]
           /\ app' \in [Clients -> App]
           /\ outcome' \in [Clients -> {"none", "lost", "left", "closed", "exit"} \cup Errors]
<1>1. NoApp \in App
  <2>1. Plain("snapshot") \in Message
    BY PlainMessages DEF Kinds
  <2>2. << >> \in Seq(Nat) /\ <<0, 0>> \in Nat \X Nat
    OBVIOUS
  <2>3. QED BY <2>1, <2>2 DEF NoApp, App
<1>2. QED BY <1>1 DEF End, AttachTypes, Unmoved

\* A client whose end is its own affair.
LEMMA LeavesLeft ==
    ASSUME AttachTypes, NEW c \in Clients, NEW how \in {"none", "lost", "left"},
           End(c, how), wrapper' = wrapper,
           up'[c] = up[c] \/ up'[c] = Append(up[c], Plain("unview"))
    PROVE  Left(c)
<1>1. /\ mode'[c] = "ended" /\ app'[c] = NoApp /\ outcome'[c] = how
  BY EndFacts
<1>2. OutcomeTrue(c, how)
  BY DEF OutcomeTrue
<1>3. QED BY <1>1, <1>2 DEF Left, Still, Marked, InView, LifeGoesOn, wrapper

\* What is left alone.
LEMMA OthersIdle ==
    ASSUME NEW c \in Clients, wrapper' = wrapper,
           \A d \in Clients : d # c => /\ Unmoved(d) /\ up'[d] = up[d] /\ down'[d] = down[d]
    PROVE  \A d \in Clients : d # c => Idle(d)
  BY DEF Idle, Still, Marked, InView, LifeGoesOn, wrapper

LEMMA ProbeEffect ==
    ASSUME AttachTypes, NEW c \in Clients, Probe(c)
    PROVE  AttachTypes' /\ \A d \in Clients : Effect(d)
<1>1. mode[c] = "idle" /\ up' = up /\ down' = down /\ wrapper' = wrapper
  BY DEF Probe, wires
<1>2. CASE mode' = [mode EXCEPT ![c] = "probed"] /\ UNCHANGED <<outcome, app>>
  <2>1. AttachTypes'
    BY <1>1, <1>2 DEF AttachTypes, wrapper
  <2>2. Looked(c)
    BY <1>1, <1>2 DEF Looked, Still, Marked, InView, LifeGoesOn, wrapper, AttachTypes
  <2>3. \A d \in Clients : d # c => Unmoved(d)
    BY <1>2 DEF Unmoved, AttachTypes
  <2>4. \A d \in Clients : d # c => Idle(d)
    BY <1>1, <2>3, OthersIdle
  <2>5. QED BY <2>1, <2>2, <2>4 DEF Effect
<1>3. CASE End(c, "none")
  <2>1. AttachTypes'
    BY <1>1, <1>3, EndFacts DEF AttachTypes, wrapper
  <2>2. Left(c)
    BY <1>1, <1>3, LeavesLeft
  <2>3. \A d \in Clients : d # c => Unmoved(d)
    BY <1>3, EndFacts
  <2>4. \A d \in Clients : d # c => Idle(d)
    BY <1>1, <2>3, OthersIdle
  <2>5. QED BY <2>1, <2>2, <2>4 DEF Effect
<1>4. QED BY <1>2, <1>3 DEF Probe

LEMMA ConnectEffect ==
    ASSUME AttachTypes, NEW c \in Clients, Connect(c)
    PROVE  AttachTypes' /\ \A d \in Clients : Effect(d)
<1>1. /\ mode[c] = "probed" /\ up' = up /\ down' = down
      /\ UNCHANGED <<viewing, readonly, life, pos, next, snapshots, displaced, unserved>>
  BY DEF Connect, wires
<1>2. CASE /\ mode' = [mode EXCEPT ![c] = "connected"] /\ conn' = [conn EXCEPT ![c] = "pending"]
           /\ UNCHANGED <<outcome, app>>
  <2>1. AttachTypes'
    BY <1>1, <1>2 DEF AttachTypes
  <2>2. Dialled(c)
    BY <1>1, <1>2 DEF Dialled, Marked, InView, LifeGoesOn, AttachTypes
  <2>3. ASSUME NEW d \in Clients, d # c
        PROVE  Idle(d)
    BY <1>1, <1>2, <2>3
       DEF Idle, Unmoved, Still, Marked, InView, LifeGoesOn, AttachTypes
  <2>4. QED BY <2>1, <2>2, <2>3 DEF Effect
<1>3. CASE End(c, "none") /\ UNCHANGED conn
  <2>1. wrapper' = wrapper
    BY <1>1, <1>3 DEF wrapper
  <2>2. AttachTypes'
    BY <1>1, <1>3, EndFacts DEF AttachTypes
  <2>3. Left(c)
    BY <1>1, <1>3, <2>1, LeavesLeft
  <2>4. \A d \in Clients : d # c => Unmoved(d)
    BY <1>3, EndFacts
  <2>5. \A d \in Clients : d # c => Idle(d)
    BY <1>1, <2>1, <2>4, OthersIdle
  <2>6. QED BY <2>2, <2>3, <2>5 DEF Effect
<1>4. QED BY <1>2, <1>3 DEF Connect

LEMMA AppendTwo ==
    ASSUME NEW s \in Seq(Message), NEW x \in Message, NEW y \in Message
    PROVE  s \o <<x, y>> = Append(Append(s, x), y)
<1>1. PICK n \in Nat : n = Len(s)
  OBVIOUS
<1>2. PICK p \in Seq(Message) : /\ p = Append(s, x) /\ Len(p) = n + 1
                                /\ \A j \in 1..n : p[j] = s[j]
                                /\ p[n + 1] = x
  <2>1. /\ Append(s, x) \in Seq(Message) /\ Len(Append(s, x)) = Len(s) + 1
        /\ \A j \in 1..Len(s) : Append(s, x)[j] = s[j]
        /\ Append(s, x)[Len(s) + 1] = x
    BY AppendFacts
  <2>2. QED BY <1>1, <2>1
<1>3. PICK r \in Seq(Message) : /\ r = Append(p, y) /\ Len(r) = n + 2
                                /\ \A j \in 1..(n + 1) : r[j] = p[j]
                                /\ r[n + 2] = y
  <2>1. /\ Append(p, y) \in Seq(Message) /\ Len(Append(p, y)) = Len(p) + 1
        /\ \A j \in 1..Len(p) : Append(p, y)[j] = p[j]
        /\ Append(p, y)[Len(p) + 1] = y
    BY AppendFacts
  <2>2. Len(p) + 1 = n + 2
    BY <1>2
  <2>3. QED BY <1>2, <2>1, <2>2
<1>4. PICK t \in Seq(Message) : t = <<x, y>> /\ Len(t) = 2 /\ t[1] = x /\ t[2] = y
  <2>1. /\ <<x, y>> \in Seq(Message) /\ Len(<<x, y>>) = 2
        /\ <<x, y>>[1] = x /\ <<x, y>>[2] = y
    OBVIOUS
  <2>2. QED BY <2>1
<1>5. /\ s \o t \in Seq(Message) /\ Len(s \o t) = n + 2
      /\ \A j \in 1..n : (s \o t)[j] = s[j]
      /\ (s \o t)[n + 1] = x /\ (s \o t)[n + 2] = y
  <2>1. /\ s \o t \in Seq(Message) /\ Len(s \o t) = Len(s) + Len(t)
        /\ \A j \in 1..(Len(s) + Len(t)) :
              (s \o t)[j] = IF j <= Len(s) THEN s[j] ELSE t[j - Len(s)]
    OBVIOUS
  <2>2. QED BY <1>1, <1>4, <2>1
<1>6. ASSUME NEW j \in 1..(n + 2)
      PROVE  (s \o t)[j] = r[j]
  <2>1. CASE j = n + 2
    BY <1>3, <1>5, <2>1
  <2>2. CASE j = n + 1
    <3>1. n + 1 \in 1..(n + 1)
      OBVIOUS
    <3>2. QED BY <1>2, <1>3, <1>5, <2>2, <3>1
  <2>3. CASE j # n + 2 /\ j # n + 1
    <3>1. j \in 1..n /\ j \in 1..(n + 1)
      BY <2>3
    <3>2. QED BY <1>2, <1>3, <1>5, <3>1
  <2>4. QED BY <2>1, <2>2, <2>3
<1>7. s \o t = r
  BY <1>3, <1>5, <1>6, SeqEqual
<1>8. QED BY <1>2, <1>3, <1>4, <1>7

LEMMA ClaimEffect ==
    ASSUME AttachTypes, NEW c \in Clients, Claim(c)
    PROVE  AttachTypes' /\ \A d \in Clients : Effect(d)
<1>1. mode[c] = "connected" /\ down' = down /\ wrapper' = wrapper
  BY DEF Claim
<1>2. CASE /\ conn[c] = "pending" /\ mode' = [mode EXCEPT ![c] = "await"]
           /\ Send(c, <<Plain("init"), Plain("view")>>)
           /\ UNCHANGED <<outcome, app>>
  <2>1. PICK i \in Message, v \in Message : i = Plain("init") /\ v = Plain("view")
    BY PlainMessages DEF Kinds
  <2>2. PICK u \in Seq(Message) : u = up[c]
    BY DEF AttachTypes
  <2>3. up' = [up EXCEPT ![c] = u \o <<i, v>>]
    BY <1>2, <2>1, <2>2 DEF Send
  <2>4. u \o <<i, v>> = Append(Append(u, i), v) /\ Append(Append(u, i), v) \in Seq(Message)
    BY AppendTwo
  <2>5. /\ up' \in [Clients -> Seq(Message)] /\ up'[c] = Append(Append(u, i), v)
        /\ \A d \in Clients : d # c => up'[d] = up[d]
    BY <2>3, <2>4 DEF AttachTypes
  <2>6. AttachTypes'
    BY <1>1, <1>2, <2>5 DEF AttachTypes, wrapper
  <2>7. Claimed(c)
    BY <1>1, <1>2, <2>1, <2>2, <2>5
       DEF Claimed, Still, Marked, InView, LifeGoesOn, wrapper, AttachTypes
  <2>8. \A d \in Clients : d # c => Unmoved(d)
    BY <1>2 DEF Unmoved, AttachTypes
  <2>9. \A d \in Clients : d # c => Idle(d)
    BY <1>1, <2>5, <2>8, OthersIdle
  <2>10. QED BY <2>6, <2>7, <2>9 DEF Effect
<1>3. CASE End(c, "lost") /\ UNCHANGED up
  <2>1. AttachTypes'
    BY <1>1, <1>3, EndFacts DEF AttachTypes, wrapper
  <2>2. Left(c)
    BY <1>1, <1>3, LeavesLeft
  <2>3. \A d \in Clients : d # c => Unmoved(d)
    BY <1>3, EndFacts
  <2>4. \A d \in Clients : d # c => Idle(d)
    BY <1>1, <1>3, <2>3, OthersIdle
  <2>5. QED BY <2>1, <2>2, <2>4 DEF Effect
<1>4. QED BY <1>2, <1>3 DEF Claim

LEMMA AppExcept ==
    ASSUME NEW a \in App, NEW n \in Nat
    PROVE  /\ [a EXCEPT !.keys = n] \in App
           /\ [a EXCEPT !.skip = n] \in App
           /\ \A x \in Nat \cup {Broken} : [a EXCEPT !.mirror = x] \in App
           /\ \A x \in Seq(Nat) : [a EXCEPT !.pending = x] \in App
           /\ \A x \in Errors : [a EXCEPT !.lastError = x] \in App
           /\ [a EXCEPT !.exited = TRUE] \in App
<1>1. [a EXCEPT !.keys = n] \in App
  BY DEF App
<1>2. [a EXCEPT !.skip = n] \in App
  BY DEF App
<1>3. \A x \in Nat \cup {Broken} : [a EXCEPT !.mirror = x] \in App
  BY DEF App
<1>4. \A x \in Seq(Nat) : [a EXCEPT !.pending = x] \in App
  BY DEF App
<1>5. \A x \in Errors : [a EXCEPT !.lastError = x] \in App
  BY DEF App
<1>6. [a EXCEPT !.exited = TRUE] \in App
  BY DEF App
<1>7. QED BY <1>1, <1>2, <1>3, <1>4, <1>5, <1>6

LEMMA UserEffect ==
    ASSUME AttachTypes, NEW c \in Clients, UserStep(c)
    PROVE  AttachTypes' /\ \A d \in Clients : Effect(d)
<1>1. wrapper' = wrapper
  BY DEF UserStep, Types, Detach, Dies
<1>2. PICK u \in Seq(Message) : u = up[c]
  BY DEF AttachTypes
\* The ways in which it leaves.
<1>3. ASSUME NEW how \in {"lost", "left"}, Leaves(c, how),
             \/ up' = up
             \/ Send(c, <<Plain("unview")>>)
      PROVE  AttachTypes' /\ \A d \in Clients : Effect(d)
  <2>1. End(c, how) /\ down' = [down EXCEPT ![c] = << >>]
    BY <1>3 DEF Leaves
  <2>2. PICK x \in Message : x = Plain("unview")
    BY PlainMessages DEF Kinds
  <2>3. /\ up' \in [Clients -> Seq(Message)]
        /\ up'[c] = up[c] \/ up'[c] = Append(up[c], x)
        /\ \A d \in Clients : d # c => up'[d] = up[d]
    <3>1. CASE up' = up
      BY <3>1 DEF AttachTypes
    <3>2. CASE Send(c, <<Plain("unview")>>)
      <4>1. u \o <<x>> = Append(u, x) /\ Append(u, x) \in Seq(Message)
        BY AppendFacts
      <4>2. up' = [up EXCEPT ![c] = Append(u, x)]
        BY <1>2, <2>2, <3>2, <4>1 DEF Send
      <4>3. QED BY <1>2, <4>1, <4>2 DEF AttachTypes
    <3>3. QED BY <1>3, <3>1, <3>2
  <2>4. AttachTypes'
    <3>1. << >> \in Seq(Message)
      OBVIOUS
    <3>2. down' \in [Clients -> Seq(Message)]
      BY <2>1, <3>1 DEF AttachTypes
    <3>3. QED BY <1>1, <2>1, <2>3, <3>2, EndFacts DEF AttachTypes, wrapper
  <2>5. Left(c)
    BY <1>1, <2>1, <2>2, <2>3, LeavesLeft
  <2>6. \A d \in Clients : d # c => Unmoved(d) /\ down'[d] = down[d]
    BY <2>1, EndFacts DEF AttachTypes
  <2>7. \A d \in Clients : d # c => Idle(d)
    BY <1>1, <2>3, <2>6, OthersIdle
  <2>8. QED BY <2>4, <2>5, <2>7 DEF Effect
<1>4. CASE Types(c) /\ conn[c] = "closed"
  BY <1>3, <1>4 DEF Types
<1>5. CASE Detach(c)
  BY <1>3, <1>5 DEF Detach
<1>6. CASE Dies(c)
  BY <1>3, <1>6 DEF Dies
<1>7. CASE Types(c) /\ conn[c] # "closed"
  <2>1. /\ Running(c) /\ app' = [app EXCEPT ![c].keys = @ + 1]
        /\ Send(c, <<Plain("input")>>) /\ mode' = mode /\ outcome' = outcome /\ down' = down
    BY <1>7 DEF Types
  <2>2. PICK x \in Message : x = Plain("input")
    BY PlainMessages DEF Kinds
  <2>3. u \o <<x>> = Append(u, x) /\ Append(u, x) \in Seq(Message)
    BY AppendFacts
  <2>4. up' = [up EXCEPT ![c] = Append(u, x)]
    BY <1>2, <2>1, <2>2, <2>3 DEF Send
  <2>5. /\ up' \in [Clients -> Seq(Message)] /\ up'[c] = Append(u, x)
        /\ \A d \in Clients : d # c => up'[d] = up[d]
    BY <2>3, <2>4 DEF AttachTypes
  <2>6. PICK a \in App : a = app[c]
    BY DEF AttachTypes
  <2>7. [a EXCEPT !.keys = @ + 1] \in App
    <3>1. a.keys + 1 \in Nat
      BY DEF App
    <3>2. QED BY <3>1, AppExcept
  <2>8. app' \in [Clients -> App] /\ app'[c] = [a EXCEPT !.keys = @ + 1]
        /\ \A d \in Clients : d # c => app'[d] = app[d]
    BY <2>1, <2>6, <2>7 DEF AttachTypes
  <2>9. AttachTypes'
    BY <1>1, <2>1, <2>5, <2>8 DEF AttachTypes, wrapper
  <2>10. SameView(c) /\ Kept(c)
    BY <2>1, <2>6, <2>8 DEF SameView, Kept, App
  <2>11. Typed(c)
    BY <1>1, <1>2, <2>1, <2>2, <2>5, <2>10
       DEF Typed, Still, Marked, InView, LifeGoesOn, wrapper
  <2>12. \A d \in Clients : d # c => Unmoved(d)
    BY <2>1, <2>8 DEF Unmoved
  <2>13. \A d \in Clients : d # c => Idle(d)
    BY <1>1, <2>1, <2>5, <2>12, OthersIdle
  <2>14. QED BY <2>9, <2>11, <2>13 DEF Effect
<1>8. QED BY <1>4, <1>5, <1>6, <1>7 DEF UserStep
-----------------------------------------------------------------------------
(* A client reads a message.                                               *)

\* What reading leaves alone.
LEMMA ReadingFrame ==
    ASSUME AttachTypes, NEW c \in Clients, ClientReads(c)
    PROVE  /\ Running(c) /\ down[c] \in Seq(Message) /\ down[c] # << >>
           /\ Head(down[c]) \in Message /\ Head(down[c]) = down[c][1] /\ 1 \in 1..Len(down[c])
           /\ wrapper' = wrapper /\ Still(c)
           /\ down' \in [Clients -> Seq(Message)]
           /\ mode'[c] # "ended" => down'[c] = Tail(down[c])
           /\ \A d \in Clients : d # c => down'[d] = down[d]
<1>1. /\ Running(c) /\ down[c] # << >> /\ wrapper' = wrapper
      /\ down' = [down EXCEPT ![c] = IF mode'[c] = "ended" THEN << >> ELSE Tail(@)]
  BY DEF ClientReads
<1>2. down[c] \in Seq(Message)
  BY DEF AttachTypes
<1>3. /\ Tail(down[c]) \in Seq(Message)
      /\ Head(down[c]) \in Message /\ Head(down[c]) = down[c][1]
      /\ Len(Tail(down[c])) \in Nat /\ Len(down[c]) = Len(Tail(down[c])) + 1
  BY <1>1, <1>2, TailFacts
<1>4. 1 \in 1..Len(down[c])
  BY <1>3
<1>5. << >> \in Seq(Message)
  OBVIOUS
<1>6. /\ down' \in [Clients -> Seq(Message)]
      /\ mode'[c] # "ended" => down'[c] = Tail(down[c])
      /\ \A d \in Clients : d # c => down'[d] = down[d]
  BY <1>1, <1>3, <1>5 DEF AttachTypes
<1>7. Still(c)
  BY <1>1 DEF Still, Marked, InView, LifeGoesOn, wrapper
<1>8. QED BY <1>1, <1>2, <1>3, <1>4, <1>6, <1>7

\* What is left to show of a message that is read.
LEMMA ReadingDone ==
    ASSUME AttachTypes, NEW c \in Clients, ClientReads(c),
           mode' \in [Clients -> {"idle", "probed", "connected", "await", "fetching",
                                  "live", "ended"}],
           app' \in [Clients -> App],
           outcome' \in [Clients -> {"none", "lost", "left", "closed", "exit"} \cup Errors],
           up' \in [Clients -> Seq(Message)],
           \A d \in Clients : d # c => Unmoved(d) /\ up'[d] = up[d],
           \/ Left(c)
           \/ /\ mode'[c] # "ended" /\ outcome'[c] = outcome[c]
              /\ \/ Started(c, Head(down[c])) \/ Waits(c, Head(down[c]))
                 \/ GoesOn(c, Head(down[c])) \/ Notes(c, Head(down[c]))
    PROVE  AttachTypes' /\ \A d \in Clients : Effect(d)
<1>1. /\ Running(c) /\ down[c] # << >> /\ wrapper' = wrapper /\ Still(c)
      /\ down' \in [Clients -> Seq(Message)]
      /\ mode'[c] # "ended" => down'[c] = Tail(down[c])
      /\ \A d \in Clients : d # c => down'[d] = down[d]
  BY ReadingFrame
<1>2. AttachTypes'
  BY <1>1 DEF AttachTypes, wrapper
<1>3. \A d \in Clients : d # c => Idle(d)
  BY <1>1, OthersIdle
<1>4. Left(c) \/ Reads(c)
  BY <1>1 DEF Reads, Goes
<1>5. QED BY <1>2, <1>3, <1>4 DEF Effect

\* An attach that ends on a message, and what it reports.
LEMMA EndsReading ==
    ASSUME AttachTypes, NEW c \in Clients, ClientReads(c), NEW how, End(c, how), up' = up,
           how \in {"lost", "closed", "exit"} \cup Errors, OutcomeTrue(c, how)
    PROVE  AttachTypes' /\ \A d \in Clients : Effect(d)
<1>1. /\ mode'[c] = "ended" /\ app'[c] = NoApp /\ outcome'[c] = how
      /\ \A d \in Clients : d # c => Unmoved(d)
      /\ mode' \in [Clients -> {"idle", "probed", "connected", "await", "fetching",
                                "live", "ended"}]
      /\ app' \in [Clients -> App]
      /\ outcome' \in [Clients -> {"none", "lost", "left", "closed", "exit"} \cup Errors]
  BY EndFacts
<1>2. Still(c)
  BY ReadingFrame
<1>3. Left(c)
  BY <1>1, <1>2 DEF Left
<1>4. up' \in [Clients -> Seq(Message)]
  BY DEF AttachTypes
<1>5. QED BY <1>1, <1>3, <1>4, ReadingDone

\* The client goes live.
LEMMA GoesLive ==
    ASSUME AttachTypes, NEW c \in Clients, ClientReads(c),
           NEW s \in Message, NEW h \in Nat, NEW ks \in Seq(Nat), GoLive(c, s, h, ks), up' = up,
           Screen(c, Applied(s.pos, ks), h, s.next) => Started(c, Head(down[c]))
    PROVE  AttachTypes' /\ \A d \in Clients : Effect(d)
<1>1. PICK a \in App : a = app[c]
  BY DEF AttachTypes
<1>2. PICK x \in Nat \cup {Broken} : x = Applied(s.pos, ks)
  <2>1. s.pos \in Nat /\ Len(ks) \in Nat
    BY DEF Message
  <2>2. s.pos + Len(ks) \in Nat
    BY <2>1
  <2>3. QED BY <2>2 DEF Applied
<1>3. PICK y \in Nat \X Nat : y = <<h, s.next>>
  BY DEF Message
<1> DEFINE a2 == [a EXCEPT !.mirror = x, !.printed = y,
                           !.snapshot = NoApp.snapshot, !.pending = << >>, !.skip = 0]
<1>4. a2 \in App
  <2>1. NoApp.snapshot \in Message
    BY PlainMessages DEF NoApp, Kinds
  <2>2. << >> \in Seq(Nat) /\ 0 \in Nat
    OBVIOUS
  <2>3. QED BY <2>1, <2>2 DEF App
<1>5. mode' = [mode EXCEPT ![c] = "live"] /\ app' = [app EXCEPT ![c] = a2] /\ outcome' = outcome
  BY <1>1, <1>2, <1>3 DEF GoLive
<1>6. a2.mirror = x /\ a2.printed = y /\ a2.lastError = a.lastError /\ a2.exited = a.exited
  BY DEF App
<1> HIDE DEF a2
<1>7. Screen(c, x, h, s.next)
  BY <1>1, <1>3, <1>5, <1>6 DEF Screen, Kept, AttachTypes
<1>8. /\ mode' \in [Clients -> {"idle", "probed", "connected", "await", "fetching",
                                "live", "ended"}]
      /\ app' \in [Clients -> App] /\ outcome'[c] = outcome[c] /\ mode'[c] # "ended"
      /\ outcome' \in [Clients -> {"none", "lost", "left", "closed", "exit"} \cup Errors]
      /\ up' \in [Clients -> Seq(Message)]
  BY <1>4, <1>5 DEF AttachTypes
<1>9. \A d \in Clients : d # c => Unmoved(d) /\ up'[d] = up[d]
  BY <1>5 DEF Unmoved, AttachTypes
<1>10. QED BY <1>2, <1>7, <1>8, <1>9, ReadingDone

\* The client changes what it holds and nothing else.
LEMMA HoldsOn ==
    ASSUME AttachTypes, NEW c \in Clients, ClientReads(c), NEW a \in App,
           app' = [app EXCEPT ![c] = a], UNCHANGED <<mode, outcome, up>>,
           (mode'[c] = mode[c] /\ app'[c] = a /\ up'[c] = up[c]) =>
              \/ Started(c, Head(down[c])) \/ Waits(c, Head(down[c]))
              \/ GoesOn(c, Head(down[c])) \/ Notes(c, Head(down[c]))
    PROVE  AttachTypes' /\ \A d \in Clients : Effect(d)
<1>1. /\ app' \in [Clients -> App] /\ app'[c] = a
      /\ \A d \in Clients : d # c => Unmoved(d) /\ up'[d] = up[d]
  BY DEF AttachTypes, Unmoved
<1>2. /\ mode' \in [Clients -> {"idle", "probed", "connected", "await", "fetching",
                                "live", "ended"}]
      /\ outcome' \in [Clients -> {"none", "lost", "left", "closed", "exit"} \cup Errors]
      /\ up' \in [Clients -> Seq(Message)]
      /\ mode'[c] = mode[c] /\ outcome'[c] = outcome[c] /\ up'[c] = up[c]
  BY DEF AttachTypes
<1>3. mode'[c] # "ended"
  BY <1>2, ReadingFrame DEF Running
<1>4. QED BY <1>1, <1>2, <1>3, ReadingDone

LEMMA SnapshotEffect ==
    ASSUME AttachTypes, NEW c \in Clients, ClientReads(c), NEW m, m = Head(down[c]),
           m.type = "snapshot", OnSnapshot(c, m)
    PROVE  AttachTypes' /\ \A d \in Clients : Effect(d)
<1>1. m \in Message /\ Running(c) /\ m.pos \in Nat /\ m.next \in Nat
  BY ReadingFrame DEF Message
<1>2. PICK a \in App : a = app[c]
  BY DEF AttachTypes
<1>3. CASE Live(c) /\ app' = [app EXCEPT ![c].mirror = m.pos] /\ UNCHANGED <<mode, outcome, up>>
  <2>1. PICK b \in App : b = [a EXCEPT !.mirror = m.pos]
    BY <1>1, AppExcept
  <2>2. /\ b.mirror = m.pos /\ b.printed = a.printed
        /\ b.lastError = a.lastError /\ b.exited = a.exited
    BY <2>1 DEF App
  <2>3. app' = [app EXCEPT ![c] = b]
    BY <1>2, <1>3, <2>1
  <2>4. (mode'[c] = mode[c] /\ app'[c] = b /\ up'[c] = up[c]) => GoesOn(c, m)
    BY <1>2, <1>3, <2>2 DEF GoesOn, Live, Kept
  <2>5. QED BY <1>3, <2>3, <2>4, HoldsOn
<1>4. CASE ~Live(c) /\ m.next = 0 /\ GoLive(c, m, 0, KeptOutput(c)) /\ UNCHANGED up
  <2>1. << >> \in Seq(Nat) /\ Len(<< >>) = 0 /\ 1..0 = {}
    OBVIOUS
  <2>2. Applied(m.pos, << >>) = m.pos
    <3>1. PICK ks \in Seq(Nat) : ks = << >> /\ Len(ks) = 0
      BY <2>1
    <3>2. \A i \in 1..Len(ks) : ks[i] = m.pos + i
      BY <2>1, <3>1
    <3>3. Applied(m.pos, ks) = m.pos + Len(ks)
      BY <1>1, <3>2, AppliedRun
    <3>4. QED BY <1>1, <3>1, <3>3
  <2>3. GoLive(c, m, 0, << >>)
    BY <1>4 DEF KeptOutput
  <2>4. Screen(c, Applied(m.pos, << >>), 0, m.next) => Started(c, m)
    BY <1>4, <2>2 DEF Started
  <2>5. QED BY <1>1, <1>4, <2>1, <2>3, <2>4, GoesLive
<1>5. CASE /\ ~Live(c) /\ m.next > 0 /\ conn[c] = "viewer"
           /\ mode' = [mode EXCEPT ![c] = "fetching"]
           /\ app' = [app EXCEPT ![c] =
                  [@ EXCEPT !.snapshot = m, !.pending = KeptOutput(c), !.skip = Stale(c)]]
           /\ Send(c, Request(c, m))
           /\ UNCHANGED outcome
  <2>1. PICK s \in Nat : s = Stale(c)
    BY <1>2 DEF Stale, App
  <2>2. [a EXCEPT !.snapshot = m, !.pending = << >>, !.skip = s] \in App
    <3>1. << >> \in Seq(Nat)
      OBVIOUS
    <3>2. QED BY <1>1, <3>1 DEF App
  <2>3. PICK b \in App : b = [a EXCEPT !.snapshot = m, !.pending = << >>, !.skip = s]
    BY <2>2
  <2>4. /\ b.snapshot = m /\ b.pending = << >> /\ b.skip = s
        /\ b.lastError = a.lastError /\ b.exited = a.exited
    BY <2>3 DEF App
  <2>5. app' = [app EXCEPT ![c] = b]
    BY <1>2, <1>5, <2>1, <2>3 DEF KeptOutput
  <2>6. PICK x \in Message, u \in Seq(Message) : x = Msg("history", 0, m.next) /\ u = up[c]
    BY <1>1, PlainMessages DEF Kinds, AttachTypes
  <2>7. u \o <<x>> = Append(u, x) /\ Append(u, x) \in Seq(Message)
    BY AppendFacts
  <2>8. up' = [up EXCEPT ![c] = Append(u, x)]
    BY <1>5, <2>6, <2>7 DEF Send, Request
  <2>9. /\ up' \in [Clients -> Seq(Message)] /\ up'[c] = Append(u, x)
        /\ app' \in [Clients -> App] /\ app'[c] = b
        /\ mode' \in [Clients -> {"idle", "probed", "connected", "await", "fetching",
                                  "live", "ended"}] /\ mode'[c] = "fetching"
        /\ outcome' \in [Clients -> {"none", "lost", "left", "closed", "exit"} \cup Errors]
        /\ outcome'[c] = outcome[c]
    BY <1>5, <2>5, <2>7, <2>8 DEF AttachTypes
  <2>10. \A d \in Clients : d # c => Unmoved(d) /\ up'[d] = up[d]
    BY <1>5, <2>5, <2>8 DEF Unmoved, AttachTypes
  <2>11. Waits(c, m)
    BY <1>2, <1>5, <2>1, <2>4, <2>6, <2>9 DEF Waits, Kept, Stale
  <2>12. QED BY <2>9, <2>10, <2>11, ReadingDone
<1>6. CASE End(c, "lost") /\ UNCHANGED up
  <2>1. OutcomeTrue(c, "lost")
    BY DEF OutcomeTrue
  <2>2. QED BY <1>6, <2>1, EndsReading
<1>7. QED BY <1>3, <1>4, <1>5, <1>6 DEF OnSnapshot
LEMMA OutputReadEffect ==
    ASSUME AttachTypes, NEW c \in Clients, ClientReads(c), NEW m, m = Head(down[c]),
           m.type = "output", OnOutput(c, m), up' = up
    PROVE  AttachTypes' /\ \A d \in Clients : Effect(d)
<1>1. m \in Message /\ Running(c) /\ m.pos \in Nat
  BY ReadingFrame DEF Message
<1>2. PICK a \in App : a = app[c]
  BY DEF AttachTypes
<1>3. mode' = mode /\ outcome' = outcome
  BY DEF OnOutput
<1>4. CASE mode[c] = "live"
  <2>1. app' = [app EXCEPT ![c].mirror = Applied(@, <<m.pos>>)]
    BY <1>4 DEF OnOutput, Live
  <2>2. PICK x \in Nat \cup {Broken} : x = Applied(a.mirror, <<m.pos>>)
    <3>1. PICK ks \in Seq(Nat) : ks = <<m.pos>> /\ Len(ks) \in Nat
      <4>1. <<m.pos>> \in Seq(Nat) /\ Len(<<m.pos>>) \in Nat
        BY <1>1
      <4>2. QED BY <4>1
    <3>2. a.mirror \in Nat \cup {Broken}
      BY DEF App
    <3>3. a.mirror # Broken => a.mirror + Len(ks) \in Nat
      BY <3>1, <3>2
    <3>4. Applied(a.mirror, ks) \in Nat \cup {Broken}
      BY <3>3 DEF Applied
    <3>5. QED BY <3>1, <3>4
  <2>3. PICK b \in App : b = [a EXCEPT !.mirror = x]
    BY AppExcept, 0 \in Nat
  <2>4. /\ b.mirror = x /\ b.printed = a.printed
        /\ b.lastError = a.lastError /\ b.exited = a.exited
    BY <2>3 DEF App
  <2>5. app' = [app EXCEPT ![c] = b]
    BY <1>2, <2>1, <2>2, <2>3
  <2>6. (mode'[c] = mode[c] /\ app'[c] = b /\ up'[c] = up[c]) => GoesOn(c, m)
    BY <1>2, <1>4, <2>2, <2>4 DEF GoesOn, Live, Kept
  <2>7. QED BY <1>3, <2>5, <2>6, HoldsOn
<1>5. CASE mode[c] = "fetching"
  <2>1. app' = [app EXCEPT ![c].pending = Append(@, m.pos)]
    BY <1>5 DEF OnOutput, Live
  <2>2. PICK ks \in Seq(Nat) : ks = Append(a.pending, m.pos)
    <3>1. a.pending \in Seq(Nat)
      BY DEF App
    <3>2. Append(a.pending, m.pos) \in Seq(Nat)
      BY <1>1, <3>1
    <3>3. QED BY <3>2
  <2>3. PICK b \in App : b = [a EXCEPT !.pending = ks]
    BY AppExcept, 0 \in Nat
  <2>4. /\ b.pending = ks /\ b.snapshot = a.snapshot /\ b.skip = a.skip
        /\ b.lastError = a.lastError /\ b.exited = a.exited
    BY <2>3 DEF App
  <2>5. app' = [app EXCEPT ![c] = b]
    BY <1>2, <2>1, <2>2, <2>3
  <2>6. (mode'[c] = mode[c] /\ app'[c] = b /\ up'[c] = up[c]) => Waits(c, m)
    BY <1>2, <1>5, <2>2, <2>4 DEF Waits, Kept
  <2>7. QED BY <1>3, <2>5, <2>6, HoldsOn
<1>6. CASE mode[c] = "await"
  <2>1. app' = app
    BY <1>6 DEF OnOutput, Live
  <2>2. app' = [app EXCEPT ![c] = a]
    BY <1>2, <2>1 DEF AttachTypes
  <2>3. (mode'[c] = mode[c] /\ app'[c] = a /\ up'[c] = up[c]) => Waits(c, m)
    BY <1>2, <1>6 DEF Waits, SameView, Kept
  <2>4. QED BY <1>3, <2>2, <2>3, HoldsOn
<1>7. QED BY <1>1, <1>4, <1>5, <1>6 DEF Running

LEMMA HistoryReadEffect ==
    ASSUME AttachTypes, NEW c \in Clients, ClientReads(c), NEW m, m = Head(down[c]),
           m.type = "history_lines", OnHistory(c, m), up' = up
    PROVE  AttachTypes' /\ \A d \in Clients : Effect(d)
<1>1. m \in Message /\ Running(c) /\ m.next \in Nat
  BY ReadingFrame DEF Message
<1>2. PICK a \in App : a = app[c]
  BY DEF AttachTypes
<1>3. CASE mode[c] # "fetching" /\ UNCHANGED <<mode, app, outcome>>
  <2>1. app' = [app EXCEPT ![c] = a]
    BY <1>2, <1>3 DEF AttachTypes
  <2>2. mode[c] \in {"await", "live"}
    BY <1>1, <1>3 DEF Running
  <2>3. (mode'[c] = mode[c] /\ app'[c] = a /\ up'[c] = up[c]) =>
           Waits(c, m) \/ GoesOn(c, m)
    BY <1>2, <2>2 DEF Waits, GoesOn, SameView, Kept, Live
  <2>4. QED BY <1>3, <2>1, <2>3, HoldsOn
<1>4. CASE /\ mode[c] = "fetching" /\ app[c].skip > 0
           /\ app' = [app EXCEPT ![c].skip = @ - 1]
           /\ UNCHANGED <<mode, outcome>>
  <2>1. PICK n \in Nat : n = a.skip - 1
    <3>1. a.skip \in Nat /\ a.skip > 0
      BY <1>2, <1>4 DEF App
    <3>2. a.skip - 1 \in Nat
      BY <3>1
    <3>3. QED BY <3>2
  <2>2. PICK b \in App : b = [a EXCEPT !.skip = n]
    BY AppExcept
  <2>3. /\ b.skip = n /\ b.snapshot = a.snapshot /\ b.pending = a.pending
        /\ b.lastError = a.lastError /\ b.exited = a.exited
    BY <2>2 DEF App
  <2>4. app' = [app EXCEPT ![c] = b]
    BY <1>2, <1>4, <2>1, <2>2
  <2>5. (mode'[c] = mode[c] /\ app'[c] = b /\ up'[c] = up[c]) => Waits(c, m)
    BY <1>2, <1>4, <2>1, <2>3 DEF Waits, Kept
  <2>6. QED BY <1>4, <2>4, <2>5, HoldsOn
<1>5. CASE /\ mode[c] = "fetching" /\ app[c].skip = 0
           /\ GoLive(c, app[c].snapshot, m.next, app[c].pending)
  <2>1. app[c].snapshot \in Message /\ app[c].pending \in Seq(Nat)
    BY <1>2 DEF App
  <2>2. Screen(c, Applied(app[c].snapshot.pos, app[c].pending), m.next, app[c].snapshot.next)
           => Started(c, m)
    BY <1>5 DEF Started
  <2>3. QED BY <1>1, <1>5, <2>1, <2>2, GoesLive
<1>6. QED BY <1>3, <1>4, <1>5 DEF OnHistory

LEMMA WordReadEffect ==
    ASSUME AttachTypes, AttachInv, NEW c \in Clients, ClientReads(c), NEW m, m = Head(down[c]),
           up' = up,
           \/ m.type \in Errors /\ OnError(c, m)
           \/ /\ m.type = "exit" /\ app' = [app EXCEPT ![c].exited = TRUE]
              /\ UNCHANGED <<mode, outcome>>
    PROVE  AttachTypes' /\ \A d \in Clients : Effect(d)
<1>1. m \in Message /\ Running(c) /\ m = down[c][1] /\ 1 \in 1..Len(down[c]) /\ ~Gone(c)
  BY ReadingFrame DEF Running, Gone
<1>2. PICK a \in App : a = app[c]
  BY DEF AttachTypes
<1>3. CASE m.type \in Errors /\ Live(c) /\ OnError(c, m)
  <2>1. PICK b \in App : b = [a EXCEPT !.lastError = m.type]
    BY <1>3, AppExcept, 0 \in Nat
  <2>2. /\ b.snapshot = a.snapshot /\ b.pending = a.pending /\ b.skip = a.skip
        /\ b.mirror = a.mirror /\ b.printed = a.printed
        /\ b.lastError = m.type /\ b.exited = a.exited
    BY <2>1 DEF App
  <2>3. app' = [app EXCEPT ![c] = b] /\ mode' = mode /\ outcome' = outcome
    BY <1>2, <1>3, <2>1 DEF OnError, Remembered
  <2>4. (mode'[c] = mode[c] /\ app'[c] = b /\ up'[c] = up[c]) => Notes(c, m)
    BY <1>2, <1>3, <2>2 DEF Notes, SameView
  <2>5. QED BY <2>3, <2>4, HoldsOn
<1>4. CASE m.type \in Errors /\ ~Live(c) /\ OnError(c, m)
  <2>1. End(c, m.type)
    BY <1>4 DEF OnError
  <2>2. /\ m.type = "takeover" => c \in displaced
        /\ m.type = "held" => c \notin displaced /\ conn[c] = "closed"
    BY <1>1 DEF AttachInv, WordsInv
  <2>3. OutcomeTrue(c, m.type)
    BY <1>4, <2>2 DEF OutcomeTrue, Errors
  <2>4. QED BY <1>4, <2>1, <2>3, EndsReading
<1>5. CASE /\ m.type = "exit" /\ app' = [app EXCEPT ![c].exited = TRUE]
           /\ UNCHANGED <<mode, outcome>>
  <2>1. PICK b \in App : b = [a EXCEPT !.exited = TRUE]
    BY AppExcept, 0 \in Nat
  <2>2. /\ b.snapshot = a.snapshot /\ b.pending = a.pending /\ b.skip = a.skip
        /\ b.mirror = a.mirror /\ b.printed = a.printed
        /\ b.lastError = a.lastError /\ b.exited = TRUE
    BY <2>1 DEF App
  <2>3. app' = [app EXCEPT ![c] = b]
    BY <1>2, <1>5, <2>1
  <2>4. (mode'[c] = mode[c] /\ app'[c] = b /\ up'[c] = up[c]) => Notes(c, m)
    BY <1>2, <1>5, <2>2 DEF Notes, SameView
  <2>5. QED BY <1>5, <2>3, <2>4, HoldsOn
<1>6. QED BY <1>3, <1>4, <1>5

LEMMA EndReadEffect ==
    ASSUME AttachTypes, AttachInv, NEW c \in Clients, ClientReads(c), NEW m, m = Head(down[c]),
           up' = up, m.type \in {"eof", "reset"},
           End(c, IF m.type = "eof" THEN ClosedAs(c) ELSE "lost")
    PROVE  AttachTypes' /\ \A d \in Clients : Effect(d)
<1>1. m = down[c][1] /\ 1 \in 1..Len(down[c]) /\ ~Gone(c)
  BY ReadingFrame DEF Running, Gone
<1>2. app[c].lastError \in Errors \cup {None} /\ app[c].exited \in BOOLEAN
  BY DEF AttachTypes, App
<1>3. CASE m.type = "reset"
  <2>1. End(c, "lost") /\ OutcomeTrue(c, "lost")
    BY <1>3 DEF OutcomeTrue
  <2>2. QED BY <2>1, EndsReading
<1>4. CASE m.type = "eof"
  <2>1. End(c, ClosedAs(c))
    BY <1>4
  <2>2. ClosedAs(c) \in {"lost", "closed", "exit"} \cup Errors
    BY <1>2 DEF ClosedAs
  <2>3. /\ app[c].lastError = "takeover" => c \in displaced
        /\ app[c].lastError = "held" => c \notin displaced /\ conn[c] = "closed"
        /\ app[c].exited => c \notin displaced /\ conn[c] = "closed" /\ life = "exited"
    BY DEF AttachInv, EndingInv
  <2>4. CASE app[c].exited
    BY <2>1, <2>2, <2>3, <2>4, EndsReading DEF OutcomeTrue, ClosedAs
  <2>5. CASE ~app[c].exited /\ app[c].lastError # None
    <3>1. ClosedAs(c) = app[c].lastError /\ app[c].lastError \in {"held", "takeover", "readonly"}
      BY <1>2, <2>5 DEF ClosedAs, Errors
    <3>2. OutcomeTrue(c, ClosedAs(c))
      BY <2>3, <3>1 DEF OutcomeTrue
    <3>3. QED BY <2>1, <2>2, <3>2, EndsReading
  <2>6. CASE ~app[c].exited /\ app[c].lastError = None
    <3>1. ~Explained(c, 1)
      <4>1. 1..(1 - 1) = {}
        OBVIOUS
      <4>2. QED BY <2>6, <4>1 DEF Explained
    <3>2. conn[c] = "closed" /\ c \notin displaced /\ (life = "crashed" \/ c \in unserved)
      BY <1>1, <1>4, <3>1 DEF AttachInv, WordsInv
    <3>3. OutcomeTrue(c, ClosedAs(c))
      BY <2>6, <3>2 DEF OutcomeTrue, ClosedAs
    <3>4. QED BY <2>1, <2>2, <3>3, EndsReading
  <2>7. QED BY <1>2, <2>4, <2>5, <2>6
<1>5. QED BY <1>3, <1>4

LEMMA ClientReadsEffect ==
    ASSUME AttachTypes, AttachInv, NEW c \in Clients, ClientReads(c)
    PROVE  AttachTypes' /\ \A d \in Clients : Effect(d)
<1>1. PICK m : m = Head(down[c])
  OBVIOUS
<1>2. \/ m.type = "snapshot" /\ OnSnapshot(c, m)
      \/ m.type = "output" /\ OnOutput(c, m) /\ UNCHANGED up
      \/ m.type = "history_lines" /\ OnHistory(c, m) /\ UNCHANGED up
      \/ m.type \in Errors /\ OnError(c, m) /\ UNCHANGED up
      \/ /\ m.type = "exit"
         /\ app' = [app EXCEPT ![c].exited = TRUE]
         /\ UNCHANGED <<mode, outcome, up>>
      \/ /\ m.type \in {"eof", "reset"}
         /\ End(c, IF m.type = "eof" THEN ClosedAs(c) ELSE "lost")
         /\ UNCHANGED up
  BY <1>1 DEF ClientReads
<1>3. CASE m.type = "snapshot" /\ OnSnapshot(c, m)
  BY <1>1, <1>3, SnapshotEffect
<1>4. CASE m.type = "output" /\ OnOutput(c, m) /\ UNCHANGED up
  BY <1>1, <1>4, OutputReadEffect
<1>5. CASE m.type = "history_lines" /\ OnHistory(c, m) /\ UNCHANGED up
  BY <1>1, <1>5, HistoryReadEffect
<1>6. CASE m.type \in Errors /\ OnError(c, m) /\ UNCHANGED up
  BY <1>1, <1>6, WordReadEffect
<1>7. CASE /\ m.type = "exit"
           /\ app' = [app EXCEPT ![c].exited = TRUE]
           /\ UNCHANGED <<mode, outcome, up>>
  BY <1>1, <1>7, WordReadEffect
<1>8. CASE /\ m.type \in {"eof", "reset"}
           /\ End(c, IF m.type = "eof" THEN ClosedAs(c) ELSE "lost")
           /\ UNCHANGED up
  BY <1>1, <1>8, EndReadEffect
<1>9. QED BY <1>2, <1>3, <1>4, <1>5, <1>6, <1>7, <1>8

-----------------------------------------------------------------------------
(* The system.                                                             *)

LEMMA NextEffect ==
    ASSUME AttachTypes, AttachInv, Next
    PROVE  AttachTypes' /\ \A d \in Clients : Effect(d)
<1>1. ASSUME NEW c \in Clients, WrapperReads(c)
      PROVE  AttachTypes' /\ \A d \in Clients : Effect(d)
  BY <1>1, ReadsInit, ReadsOther
<1>2. ASSUME NEW c \in Clients, Hangup(c)
      PROVE  AttachTypes' /\ \A d \in Clients : Effect(d)
  BY <1>2, HangupEffect
<1>3. ASSUME NEW c \in Clients, ClientStep(c)
      PROVE  AttachTypes' /\ \A d \in Clients : Effect(d)
  BY <1>3, ProbeEffect, ConnectEffect, ClaimEffect, ClientReadsEffect DEF ClientStep
<1>4. ASSUME NEW c \in Clients, UserStep(c)
      PROVE  AttachTypes' /\ \A d \in Clients : Effect(d)
  BY <1>4, UserEffect
<1>5. QED BY <1>1, <1>2, <1>3, <1>4, OutputEffect, ExitEffect DEF Next, WrapperStep

LEMMA InitInv ==
    ASSUME Init
    PROVE  AttachTypes /\ AttachInv
<1>1. NoApp \in App
  <2>1. Plain("snapshot") \in Message
    BY PlainMessages DEF Kinds
  <2>2. << >> \in Seq(Nat) /\ <<0, 0>> \in Nat \X Nat
    OBVIOUS
  <2>3. QED BY <2>1, <2>2 DEF NoApp, App
<1>2. AttachTypes
  <2>1. Silent \in [Clients -> Seq(Message)]
    <3>1. << >> \in Seq(Message)
      OBVIOUS
    <3>2. QED BY <3>1 DEF Silent
  <2>2. QED BY <1>1, <2>1 DEF Init, AttachTypes
<1>3. ASSUME NEW c \in Clients
      PROVE  /\ PlaceInv(c) /\ EndingInv(c) /\ WordsInv(c)
             /\ StreamInv(c) /\ RepliesInv(c)
  <2>1. /\ mode[c] = "idle" /\ app[c] = NoApp /\ outcome[c] = "none"
        /\ up[c] = << >> /\ down[c] = << >> /\ conn[c] = "none"
        /\ viewing = {} /\ life = "running" /\ displaced = {} /\ unserved = {}
    BY DEF Init, Silent
  <2>2. 1..Len(<< >>) = {}
    OBVIOUS
  <2>3. NoApp.lastError = None /\ ~NoApp.exited
    BY DEF NoApp
  <2>4. None # "takeover" /\ None # "held"
    BY AttachAssumption DEF Errors
  <2>5. PlaceInv(c)
    BY <2>1, <2>2 DEF PlaceInv
  <2>6. EndingInv(c)
    BY <2>1, <2>3, <2>4 DEF EndingInv
  <2>7. WordsInv(c)
    BY <2>1, <2>2 DEF WordsInv
  <2>8. StreamInv(c)
    <3>1. Path(Shown, << >>, 0, 0)
      BY PathEmpty
    <3>2. QED BY <2>1, <3>1 DEF StreamInv
  <2>9. RepliesInv(c)
    <3>1. Path(Asked(app[c].snapshot.next), << >>, 0, 0)
      BY PathEmpty
    <3>2. Owed(c) = 0
      BY <2>1 DEF Owed
    <3>3. QED BY <2>1, <3>1, <3>2 DEF RepliesInv
  <2>10. QED BY <2>5, <2>6, <2>7, <2>8, <2>9
<1>4. QED BY <1>2, <1>3 DEF AttachInv

LEMMA StutterInv ==
    ASSUME AttachTypes, AttachInv, UNCHANGED vars
    PROVE  AttachTypes' /\ \A d \in Clients : Effect(d)
<1> USE DEF vars, client, wires, wrapper
<1>1. AttachTypes'
  BY DEF AttachTypes
<1>2. \A d \in Clients : Idle(d)
  BY DEF Idle, Unmoved, Still, Marked, InView, LifeGoesOn
<1>3. QED BY <1>1, <1>2 DEF Effect

LEMMA AttachCorrect == Spec => [](AttachTypes /\ AttachInv)
<1>1. Init => AttachTypes /\ AttachInv
  BY InitInv
<1>2. AttachTypes /\ AttachInv /\ [Next]_vars => (AttachTypes /\ AttachInv)'
  <2>1. SUFFICES ASSUME AttachTypes, AttachInv, [Next]_vars
                 PROVE  (AttachTypes /\ AttachInv)'
    OBVIOUS
  <2>2. AttachTypes' /\ \A c \in Clients : Effect(c)
    <3>1. CASE Next
      BY <2>1, <3>1, NextEffect
    <3>2. CASE UNCHANGED vars
      BY <2>1, <3>2, StutterInv
    <3>3. QED BY <2>1, <3>1, <3>2
  <2>3. ASSUME NEW c \in Clients
        PROVE  ClientInv(c)'
    <3>1. LocalTypes(c) /\ ClientInv(c)
      BY <2>1, LocalFacts DEF AttachInv, ClientInv
    <3>2. QED BY <2>2, <3>1, EffectInv
  <2>4. QED BY <2>2, <2>3 DEF AttachInv, ClientInv
<1>3. QED BY <1>1, <1>2, PTL DEF Spec

\* A live attach shows the history up to its first screen, and from there
\* every output in order: go_live never starts from a reply to an older
\* request, and nothing that was on its way is lost or applied twice.
THEOREM StreamIsGapless == Spec => []Gapless
<1>1. AttachTypes /\ AttachInv => Gapless
  <2>1. SUFFICES ASSUME AttachInv, NEW c \in Clients, Live(c)
                 PROVE  /\ app[c].mirror # Broken
                        /\ app[c].printed[1] = app[c].printed[2]
    BY DEF Gapless
  <2>2. ~Gone(c)
    BY <2>1 DEF Live, Gone
  <2>3. PICK a \in Nat : app[c].mirror = a /\ app[c].printed[1] = app[c].printed[2]
    BY <2>1, <2>2 DEF AttachInv, StreamInv, Live
  <2>4. QED BY <2>3, AttachAssumption
<1>2. QED BY <1>1, AttachCorrect, PTL

\* run_attached tells its user how the attach ended as it was: the wrapper's
\* last word to a client is true of it, and the end of a connection without
\* one is reported as unexpected only when the wrapper died or had not
\* classified the connection.
THEOREM EndingsAreTrue == Spec => []EndingTrue
<1>1. AttachTypes /\ AttachInv => EndingTrue
  BY DEF AttachInv, EndingInv, EndingTrue
<1>2. QED BY <1>1, AttachCorrect, PTL

=============================================================================
