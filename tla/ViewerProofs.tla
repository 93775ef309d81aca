----------------------------- MODULE ViewerProofs ----------------------------
(***************************************************************************)
(* Theorems about Viewer: for any sessions, output and keys, what a live   *)
(* terminal shows is the session it is attached to, gapless, and the       *)
(* history above it ends where it begins.                                  *)
(***************************************************************************)
EXTENDS Viewer, SequenceTheorems, WellFoundedInduction, TLAPS

-----------------------------------------------------------------------------
(* Induction, for sets of numbers.                                         *)

LEMMA CountingUp ==
    ASSUME NEW n \in Nat, NEW S, 0 \in S,
           \A i \in 0..n : i # n /\ i \in S => i + 1 \in S
    PROVE  \A i \in 0..n : i \in S
<1> DEFINE Bad == (0..n) \ S
<1>1. SUFFICES ASSUME Bad # {} PROVE FALSE
  OBVIOUS
<1>2. Bad \subseteq Nat
  OBVIOUS
<1>3. IsWellFoundedOn(OpToRel(<, Nat), Nat)
  BY NatLessThanWellFounded
<1>4. PICK d \in Bad : \A e \in Bad : ~(<<e, d>> \in OpToRel(<, Nat))
  <2> HIDE DEF Bad
  <2> QED BY <1>1, <1>2, <1>3, WFMin
<1>5. d \in 0..n /\ d \notin S /\ d # 0
  BY <1>4
<1>6. d - 1 \in 0..n /\ d - 1 \in Nat /\ d \in Nat /\ d - 1 < d /\ (d - 1) + 1 = d /\ d - 1 # n
  BY <1>5
<1>7. d - 1 \in S
  <2>1. <<d - 1, d>> \in OpToRel(<, Nat)
    BY <1>6 DEF OpToRel
  <2>2. d - 1 \notin Bad
    BY <1>4, <2>1
  <2> QED BY <1>6, <2>2
<1> QED BY <1>5, <1>6, <1>7

-----------------------------------------------------------------------------
(* Queues.                                                                 *)

Kinds == {"connect", "disconnect", "view", "unview", "history", "input", "error",
          "disconnected", "snapshot", "output", "history_lines"}

Message == [type : Kinds, socket : Sockets \cup {None}, pos : Nat, next : Nat]

\* The messages of q, one after the other, take a state from a to b: R says
\* what a message may do to a state.
Path(R, S, q, a, b) ==
    \E f \in [0..Len(q) -> S] :
        /\ f[0] = a /\ f[Len(q)] = b
        /\ \A i \in 1..Len(q) : <<q[i], f[i - 1], f[i]>> \in R

LEMMA AppendFacts ==
    ASSUME NEW T, NEW s \in Seq(T), NEW x \in T
    PROVE  /\ Append(s, x) \in Seq(T) /\ Len(Append(s, x)) = Len(s) + 1
           /\ \A j \in 1..Len(s) : Append(s, x)[j] = s[j]
           /\ Append(s, x)[Len(s) + 1] = x
           /\ s \o <<x>> = Append(s, x)
  OBVIOUS

LEMMA TailFacts ==
    ASSUME NEW T, NEW s \in Seq(T), s # << >>
    PROVE  /\ Tail(s) \in Seq(T) /\ Len(Tail(s)) \in Nat /\ Len(s) = Len(Tail(s)) + 1
           /\ Head(s) \in T /\ Head(s) = s[1]
           /\ \A j \in 1..Len(Tail(s)) : Tail(s)[j] = s[j + 1]
  OBVIOUS

LEMMA PathEmpty ==
    ASSUME NEW R, NEW S, NEW a \in S
    PROVE  Path(R, S, << >>, a, a)
<1>1. PICK f \in [0..0 -> S] : f[0] = a
  <2>1. [i \in 0..0 |-> a] \in [0..0 -> S] /\ [i \in 0..0 |-> a][0] = a
    OBVIOUS
  <2> QED BY <2>1
<1>2. Len(<< >>) = 0 /\ 1..0 = {}
  OBVIOUS
<1> QED BY <1>1, <1>2 DEF Path

LEMMA PathOfNone ==
    ASSUME NEW R, NEW S, NEW a, NEW b, Path(R, S, << >>, a, b)
    PROVE  a = b
  BY DEF Path

LEMMA PathEnds ==
    ASSUME NEW R, NEW S, NEW T, NEW q \in Seq(T), NEW a, NEW b, Path(R, S, q, a, b)
    PROVE  a \in S /\ b \in S
<1>1. Len(q) \in Nat
  OBVIOUS
<1>2. 0 \in 0..Len(q) /\ Len(q) \in 0..Len(q)
  BY <1>1
<1> QED BY <1>2 DEF Path

LEMMA PathAppend ==
    ASSUME NEW R, NEW S, NEW T, NEW q \in Seq(T), NEW m \in T,
           NEW a, NEW b, NEW c \in S, Path(R, S, q, a, b), <<m, b, c>> \in R
    PROVE  Path(R, S, Append(q, m), a, c)
<1>1. PICK f \in [0..Len(q) -> S] :
         /\ f[0] = a /\ f[Len(q)] = b
         /\ \A i \in 1..Len(q) : <<q[i], f[i - 1], f[i]>> \in R
  BY DEF Path
<1>2. PICK n \in Nat : n = Len(q)
  OBVIOUS
<1>3. PICK p \in Seq(T) :
         /\ p = Append(q, m) /\ Len(p) = n + 1
         /\ \A j \in 1..n : p[j] = q[j]
         /\ p[n + 1] = m
  <2>1. /\ Append(q, m) \in Seq(T) /\ Len(Append(q, m)) = Len(q) + 1
        /\ \A j \in 1..Len(q) : Append(q, m)[j] = q[j]
        /\ Append(q, m)[Len(q) + 1] = m
    BY AppendFacts
  <2> QED BY <1>2, <2>1
<1> DEFINE g == [i \in 0..(n + 1) |-> IF i = n + 1 THEN c ELSE f[i]]
<1>4. g \in [0..(n + 1) -> S] /\ g[0] = a /\ g[n + 1] = c
  BY <1>1, <1>2
<1>5. ASSUME NEW i \in 1..(n + 1)
      PROVE  <<p[i], g[i - 1], g[i]>> \in R
  <2>1. CASE i = n + 1
    <3>1. p[i] = m /\ g[i] = c /\ g[i - 1] = f[n]
      BY <1>2, <1>3, <2>1
    <3> QED BY <1>1, <1>2, <3>1
  <2>2. CASE i # n + 1
    <3>1. i \in 1..n
      <4>1. i \in Nat /\ 1 <= i /\ i <= n + 1 /\ i # n + 1
        BY <2>2
      <4> QED BY <4>1
    <3>2. p[i] = q[i] /\ g[i] = f[i] /\ g[i - 1] = f[i - 1]
      BY <1>2, <1>3, <3>1
    <3> QED BY <1>1, <1>2, <3>1, <3>2
  <2> QED BY <2>1, <2>2
<1> HIDE DEF g
<1> QED BY <1>3, <1>4, <1>5 DEF Path

LEMMA PathHead ==
    ASSUME NEW R, NEW S, NEW T, NEW q \in Seq(T), q # << >>, NEW a, NEW b,
           Path(R, S, q, a, b)
    PROVE  \E c \in S : <<Head(q), a, c>> \in R /\ Path(R, S, Tail(q), c, b)
<1>1. PICK f \in [0..Len(q) -> S] :
         /\ f[0] = a /\ f[Len(q)] = b
         /\ \A i \in 1..Len(q) : <<q[i], f[i - 1], f[i]>> \in R
  BY DEF Path
<1>2. PICK n \in Nat : n = Len(Tail(q)) /\ Len(q) = n + 1
  BY TailFacts
<1>3. Head(q) = q[1] /\ \A j \in 1..n : Tail(q)[j] = q[j + 1]
  BY <1>2, TailFacts
<1>4. <<Head(q), a, f[1]>> \in R /\ f[1] \in S
  <2>1. 1 \in 1..(n + 1) /\ 1 \in 0..(n + 1) /\ 1 - 1 = 0
    BY <1>2
  <2> QED BY <1>1, <1>2, <1>3, <2>1
<1> DEFINE g == [i \in 0..n |-> f[i + 1]]
<1>5. g \in [0..n -> S] /\ g[0] = f[1] /\ g[n] = b
  BY <1>1, <1>2
<1>6. ASSUME NEW i \in 1..n
      PROVE  <<Tail(q)[i], g[i - 1], g[i]>> \in R
  <2>1. i + 1 \in 1..(n + 1) /\ i - 1 \in 0..n /\ i \in 0..n /\ (i + 1) - 1 = i
    BY <1>2
  <2>2. g[i] = f[i + 1] /\ g[i - 1] = f[i]
    BY <2>1
  <2>3. <<q[i + 1], f[i], f[i + 1]>> \in R
    BY <1>1, <1>2, <2>1
  <2> QED BY <1>3, <2>2, <2>3
<1> HIDE DEF g
<1>7. Path(R, S, Tail(q), f[1], b)
  BY <1>2, <1>5, <1>6 DEF Path
<1> QED BY <1>4, <1>7

\* R2 keeps step with R under h.
Follows(R2, R, T, S, h) ==
    \A m \in T : \A x, y \in S : <<m, x, y>> \in R => <<m, h[x], h[y]>> \in R2

LEMMA PathMap ==
    ASSUME NEW R, NEW S, NEW R2, NEW S2, NEW T, NEW q \in Seq(T), NEW a, NEW b,
           Path(R, S, q, a, b), NEW h \in [S -> S2], Follows(R2, R, T, S, h)
    PROVE  Path(R2, S2, q, h[a], h[b])
<1>1. PICK f \in [0..Len(q) -> S] :
         /\ f[0] = a /\ f[Len(q)] = b
         /\ \A i \in 1..Len(q) : <<q[i], f[i - 1], f[i]>> \in R
  BY DEF Path
<1>2. PICK n \in Nat : n = Len(q)
  OBVIOUS
<1> DEFINE g == [i \in 0..n |-> h[f[i]]]
<1>3. g \in [0..n -> S2] /\ g[0] = h[a] /\ g[n] = h[b]
  BY <1>1, <1>2
<1>4. ASSUME NEW i \in 1..n
      PROVE  <<q[i], g[i - 1], g[i]>> \in R2
  <2>1. i \in 0..n /\ i - 1 \in 0..n /\ q[i] \in T
    BY <1>2
  <2>2. f[i] \in S /\ f[i - 1] \in S /\ <<q[i], f[i - 1], f[i]>> \in R
    BY <1>1, <1>2, <2>1
  <2>3. g[i] = h[f[i]] /\ g[i - 1] = h[f[i - 1]]
    BY <2>1
  <2> QED BY <2>1, <2>2, <2>3 DEF Follows
<1> HIDE DEF g
<1> QED BY <1>2, <1>3, <1>4 DEF Path

\* Messages do not lead out of P.
StaysIn(P, R, T, S) ==
    \A m \in T : \A x, y \in S : <<m, x, y>> \in R /\ x \in P => y \in P

LEMMA PathWithin ==
    ASSUME NEW R, NEW S, NEW T, NEW q \in Seq(T), NEW a, NEW b,
           Path(R, S, q, a, b), NEW P, a \in P, StaysIn(P, R, T, S)
    PROVE  Path(R, S \cap P, q, a, b) /\ b \in P
<1>1. PICK f \in [0..Len(q) -> S] :
         /\ f[0] = a /\ f[Len(q)] = b
         /\ \A i \in 1..Len(q) : <<q[i], f[i - 1], f[i]>> \in R
  BY DEF Path
<1>2. PICK n \in Nat : n = Len(q)
  OBVIOUS
<1> DEFINE In == {i \in 0..n : f[i] \in P}
<1>3. 0 \in In
  BY <1>1
<1>4. ASSUME NEW i \in 0..n, i # n, i \in In
      PROVE  i + 1 \in In
  <2>1. i + 1 \in 1..n /\ (i + 1) - 1 = i /\ i + 1 \in 0..n
    BY <1>4
  <2>2. q[i + 1] \in T /\ <<q[i + 1], f[i], f[i + 1]>> \in R
    BY <1>1, <1>2, <2>1
  <2>3. f[i] \in S /\ f[i + 1] \in S /\ f[i] \in P
    BY <1>1, <1>2, <1>4, <2>1
  <2>4. f[i + 1] \in P
    BY <2>2, <2>3 DEF StaysIn
  <2> QED BY <2>1, <2>4
<1>5. \A i \in 0..n : i \in In
  <2> HIDE DEF In
  <2> QED BY <1>3, <1>4, CountingUp
<1>6. f \in [0..n -> S \cap P]
  BY <1>1, <1>2, <1>5
<1>7. b \in P
  BY <1>1, <1>2, <1>5
<1> QED BY <1>1, <1>2, <1>6, <1>7 DEF Path

-----------------------------------------------------------------------------
(* The invariant.                                                          *)

\* What a queue has to say of a device is followed as a state: the session it
\* has been told of, the last output of it if it has been told that it views,
\* and how many answers it still waits for.  Nil stands for not viewing, and
\* for answers that are not counted: an attach that has failed, or one that
\* began before the answers to an earlier one were in.
Nil == CHOOSE x : x \notin Nat

States == [session : Sockets \cup {None}, shown : Nat \cup {Nil}, due : Nat \cup {Nil}]

Screens == [socket : Sockets \cup {None}, pos : Nat, next : Nat]

ViewerTypes ==
    /\ mode \in Modes
    /\ snapshot \in Screens /\ pending \in Seq(Message) /\ skip \in Nat
    /\ mirror \in Screens /\ printed \in [history : Screens, screen : Screens]
    /\ up \in Seq(Message) /\ down \in Seq(Message)
    /\ session \in Sockets \cup {None} /\ viewing \in BOOLEAN
    /\ viewing => session # None
    /\ alive \subseteq Sockets
    /\ pos \in [Sockets -> Nat] /\ next \in [Sockets -> Nat]
    /\ overtaken \in BOOLEAN

\* The last answer that is waited for: a greeting, or the history before the
\* snapshot.  Wanted holds the answers and the requests for them.
Greetings == {m \in Message : m.type = "connect"}
HistoryOf(screen) ==
    {m \in Message : /\ m.next = screen.next
                     /\ \/ m.type = "history"
                        \/ m.type = "history_lines" /\ m.socket = screen.socket}
Wanted == IF mode = "fetching" THEN HistoryOf(snapshot) ELSE Greetings

Counted == {"connect", "history", "history_lines"}

\* Message m takes the answers to wait for from x to y.
Counts(W, m, x, y) ==
    IF m.type \in Counted
    THEN x = y + 1 /\ (IF y = 0 THEN m \in W ELSE m.type # "connect")
    ELSE y = x

\* What message m tells a device in state a, which is then in state c.
Tells(m, a, c) ==
    /\ m.type = "connect" =>
          m.socket # None /\ c.session = m.socket /\ c.shown = Nil
    /\ m.type = "disconnected" => c.session = None /\ c.shown = Nil
    /\ m.type = "snapshot" =>
          m.socket # None /\ a.session = m.socket /\ c.session = m.socket /\ c.shown = m.pos
    /\ m.type = "output" => /\ a.session = m.socket /\ c.session = m.socket
                            /\ a.shown \in Nat /\ m.pos = a.shown + 1 /\ c.shown = m.pos
    /\ m.type = "history_lines" => a.session = m.socket
    /\ m.type \notin {"connect", "disconnected", "snapshot", "output"} =>
          c.session = a.session /\ c.shown = a.shown

\* After a failure nothing is counted any more.
Lasts(W, m, a, c) ==
    IF a.due = Nil \/ m.type \in {"error", "disconnected"}
    THEN c.due = Nil
    ELSE c.due \in Nat /\ Counts(W, m, a.due, c.due)

Asks(W) == {t \in Message \X Nat \X Nat : Counts(W, t[1], t[2], t[3])}
Reads(W) == {t \in Message \X States \X States :
                Tells(t[1], t[2], t[3]) /\ Lasts(W, t[1], t[2], t[3])}

\* Down takes the device from a to b, and what it asks for brings the answers
\* to wait for to an end.
Along(W, a, b) ==
    /\ a \in States /\ b \in States
    /\ Path(Reads(W), States, down, a, b)
    /\ b.due \in Nat => Path(Asks(W), Nat, up, b.due, 0)

\* State b is how things are at the server.
Current(b) == b.session = session /\ (viewing => b.shown = pos[session])

Owed == CASE overtaken \/ mode \in {"list", "live"} -> Nil
          [] ~overtaken /\ mode = "connecting"      -> 1
          [] ~overtaken /\ mode = "await"           -> 0
          [] ~overtaken /\ mode = "fetching"        -> skip + 1

\* State a is what the viewer has made of what it was told.
ShownBy(a) ==
    /\ mode = "fetching" =>
          /\ a.session # None /\ snapshot.socket # None
          /\ \A i \in 1..Len(pending) : /\ pending[i].socket = snapshot.socket
                                        /\ pending[i].pos = snapshot.pos + i
          /\ a.shown \in Nat => /\ a.session = snapshot.socket
                                /\ a.shown = snapshot.pos + Len(pending)
          /\ ~overtaken => a.session = snapshot.socket
    /\ mode = "live" =>
          /\ a.session # None /\ mirror.socket # None
          /\ a.shown \in Nat => a.session = mirror.socket /\ a.shown = mirror.pos

StreamInv ==
    \E a, b \in States : Along(Wanted, a, b) /\ Current(b) /\ a.due = Owed /\ ShownBy(a)

\* A viewer past the greeting has asked for a view that the session gives it,
\* or will, unless it is detached by then.
Settles == {"view", "disconnect"}
ViewInv ==
    mode \in {"await", "fetching", "live"} =>
        /\ \A i \in 1..Len(up) : up[i].type \in {"connect", "unview"} =>
              \E j \in 1..Len(up) : i < j /\ up[j].type \in Settles
        /\ viewing \/ session = None \/ \E j \in 1..Len(up) : up[j].type \in Settles

ViewerInv == ViewerTypes /\ StreamInv /\ ViewInv /\ SpliceExact

LEMMA NilIsNoNumber == Nil \notin Nat
  BY NoSetContainsEverything DEF Nil

\* Messages.
LEMMA MessageFacts ==
    ASSUME NEW k \in Kinds, NEW s \in Sockets \cup {None}, NEW p \in Nat, NEW n \in Nat
    PROVE  /\ Msg(k, s, p, n) \in Message
           /\ Msg(k, s, p, n).type = k /\ Msg(k, s, p, n).socket = s
           /\ Msg(k, s, p, n).pos = p /\ Msg(k, s, p, n).next = n
  BY DEF Msg, Message

LEMMA PlainFacts ==
    ASSUME NEW k \in Kinds
    PROVE  Plain(k) \in Message /\ Plain(k).type = k /\ Plain(k).socket = None
  BY MessageFacts DEF Plain

LEMMA ScreenFacts ==
    ASSUME NEW s \in Sockets \cup {None}, NEW p \in Nat, NEW n \in Nat
    PROVE  /\ Screen(s, p, n) \in Screens
           /\ Screen(s, p, n).socket = s /\ Screen(s, p, n).pos = p
           /\ Screen(s, p, n).next = n
           /\ Nothing \in Screens /\ Nothing.socket = None
  BY DEF Screen, Screens, Nothing

\* An attach whose answers are not counted stays so.
LEMMA StaysUncounted ==
    ASSUME NEW W, NEW q \in Seq(Message), NEW a \in States, NEW b \in States,
           Path(Reads(W), States, q, a, b), a.due = Nil
    PROVE  b.due = Nil
<1> DEFINE P == {x \in States : x.due = Nil}
<1>1. StaysIn(P, Reads(W), Message, States)
  BY DEF StaysIn, Reads, Lasts
<1>2. a \in P
  OBVIOUS
<1>3. b \in P
  <2> HIDE DEF P
  <2> QED BY <1>1, <1>2, PathWithin
<1> QED BY <1>3

\* States and what is waited for, when the count is given up,
GivenUp == [x \in States |-> [x EXCEPT !.due = Nil]]

LEMMA GivenUpFacts ==
    /\ GivenUp \in [States -> States]
    /\ \A x \in States : /\ GivenUp[x].due = Nil
                         /\ GivenUp[x].session = x.session /\ GivenUp[x].shown = x.shown
<1>1. GivenUp \in [States -> States]
  BY DEF GivenUp, States
<1>2. \A x \in States : /\ GivenUp[x].due = Nil /\ GivenUp[x].session = x.session
                        /\ GivenUp[x].shown = x.shown
  BY DEF GivenUp, States
<1> QED BY <1>1, <1>2

LEMMA GivesUp ==
    ASSUME NEW W, NEW V, NEW q \in Seq(Message), NEW a \in States, NEW b \in States,
           Path(Reads(W), States, q, a, b)
    PROVE  Path(Reads(V), States, q, GivenUp[a], GivenUp[b])
<1>1. Follows(Reads(V), Reads(W), Message, States, GivenUp)
  <2> SUFFICES ASSUME NEW m \in Message, NEW x \in States, NEW y \in States,
                      <<m, x, y>> \in Reads(W)
               PROVE  <<m, GivenUp[x], GivenUp[y]>> \in Reads(V)
    BY DEF Follows
  <2>1. Tells(m, x, y)
    BY DEF Reads
  <2>2. Tells(m, GivenUp[x], GivenUp[y])
    BY <2>1, GivenUpFacts DEF Tells
  <2>3. Lasts(V, m, GivenUp[x], GivenUp[y])
    BY GivenUpFacts DEF Lasts
  <2> QED BY <2>2, <2>3, GivenUpFacts DEF Reads
<1> QED BY <1>1, GivenUpFacts, PathMap

\* and when there is one more to wait for, all earlier ones having become stale.
OneMore == [x \in States |-> [x EXCEPT !.due = IF @ = Nil THEN Nil ELSE @ + 1]]
Successor == [k \in Nat |-> k + 1]

LEMMA OneMoreFacts ==
    /\ OneMore \in [States -> States]
    /\ \A x \in States : /\ OneMore[x].session = x.session /\ OneMore[x].shown = x.shown
                         /\ x.due = Nil => OneMore[x].due = Nil
                         /\ x.due \in Nat => OneMore[x].due = x.due + 1
<1>1. \A x \in States : [x EXCEPT !.due = IF @ = Nil THEN Nil ELSE @ + 1] \in States
  BY DEF States
<1>2. OneMore \in [States -> States]
  BY <1>1 DEF OneMore
<1>3. ASSUME NEW x \in States
      PROVE  /\ OneMore[x].session = x.session /\ OneMore[x].shown = x.shown
             /\ OneMore[x].due = IF x.due = Nil THEN Nil ELSE x.due + 1
  BY DEF OneMore, States
<1>4. ASSUME NEW x \in States, x.due \in Nat
      PROVE  OneMore[x].due = x.due + 1
  BY <1>3, <1>4, NilIsNoNumber
<1> QED BY <1>2, <1>3, <1>4

\* Without a greeting among the answers to wait for, they can be stale.
Ungreeted(W) == \A m \in W : m.type # "connect"

LEMMA WaitsForMore ==
    ASSUME NEW W, NEW V, NEW q \in Seq(Message), NEW a \in States, NEW b \in States,
           Path(Reads(W), States, q, a, b), Ungreeted(W)
    PROVE  Path(Reads(V), States, q, OneMore[a], OneMore[b])
<1>1. Follows(Reads(V), Reads(W), Message, States, OneMore)
  <2> SUFFICES ASSUME NEW m \in Message, NEW x \in States, NEW y \in States,
                      <<m, x, y>> \in Reads(W)
               PROVE  <<m, OneMore[x], OneMore[y]>> \in Reads(V)
    BY DEF Follows
  <2>1. Tells(m, x, y) /\ Lasts(W, m, x, y)
    BY DEF Reads
  <2>2. Tells(m, OneMore[x], OneMore[y])
    BY <2>1, OneMoreFacts DEF Tells
  <2>3. Lasts(V, m, OneMore[x], OneMore[y])
    <3>1. CASE x.due = Nil \/ m.type \in {"error", "disconnected"}
      <4>1. y.due = Nil
        BY <2>1, <3>1 DEF Lasts
      <4>2. OneMore[y].due = Nil /\ (x.due = Nil => OneMore[x].due = Nil)
        BY <4>1, OneMoreFacts
      <4> QED BY <3>1, <4>2 DEF Lasts
    <3>2. CASE ~(x.due = Nil \/ m.type \in {"error", "disconnected"})
      <4>1. y.due \in Nat /\ Counts(W, m, x.due, y.due)
        BY <2>1, <3>2 DEF Lasts
      <4>2. x.due \in Nat
        BY <3>2 DEF States
      <4>3. OneMore[x].due = x.due + 1 /\ OneMore[y].due = y.due + 1
        BY <4>1, <4>2, OneMoreFacts
      <4>4. Counts(V, m, x.due + 1, y.due + 1)
        BY <4>1, <4>2 DEF Counts, Ungreeted
      <4> QED BY <3>2, <4>1, <4>2, <4>3, <4>4, NilIsNoNumber DEF Lasts
    <3> QED BY <3>1, <3>2
  <2> QED BY <2>2, <2>3, OneMoreFacts DEF Reads
<1> QED BY <1>1, OneMoreFacts, PathMap

LEMMA AsksForMore ==
    ASSUME NEW W, NEW V, NEW q \in Seq(Message), NEW j \in Nat, NEW k \in Nat,
           Path(Asks(W), Nat, q, j, k), Ungreeted(W)
    PROVE  Path(Asks(V), Nat, q, j + 1, k + 1)
<1>1. Successor \in [Nat -> Nat] /\ \A i \in Nat : Successor[i] = i + 1
  BY DEF Successor
<1>2. Follows(Asks(V), Asks(W), Message, Nat, Successor)
  <2> SUFFICES ASSUME NEW m \in Message, NEW x \in Nat, NEW y \in Nat,
                      Counts(W, m, x, y)
               PROVE  Counts(V, m, x + 1, y + 1)
    BY <1>1 DEF Follows, Asks
  <2> QED BY DEF Counts, Ungreeted
<1>3. Path(Asks(V), Nat, q, Successor[j], Successor[k])
  BY <1>1, <1>2, PathMap
<1> QED BY <1>1, <1>3

-----------------------------------------------------------------------------
(* The splice.                                                             *)

\* Output that follows on a screen, one after the other, is applied to the last.
LEMMA ReplayedFacts ==
    ASSUME NEW screen \in Screens, NEW outputs \in Seq(Message),
           \A i \in 1..Len(outputs) : /\ outputs[i].socket = screen.socket
                                      /\ outputs[i].pos = screen.pos + i
    PROVE  Replayed(screen, outputs) = [screen EXCEPT !.pos = screen.pos + Len(outputs)]
<1>1. PICK n \in Nat : n = Len(outputs)
  OBVIOUS
<1> DEFINE g == [i \in 0..n |-> [screen EXCEPT !.pos = screen.pos + i]]
           F(u) == [i \in 0..n |-> IF i = 0 THEN screen ELSE Applied(u[i - 1], outputs[i])]
           upto == CHOOSE u : u = F(u)
<1>2. screen.pos \in Nat
  BY DEF Screens
<1>3. g[0] = screen
  <2>1. 0 \in 0..n /\ screen.pos + 0 = screen.pos
    BY <1>1, <1>2
  <2>2. [screen EXCEPT !.pos = screen.pos] = screen
    BY DEF Screens
  <2> QED BY <2>1, <2>2
<1>4. ASSUME NEW i \in 1..n
      PROVE  g[i] = Applied(g[i - 1], outputs[i])
  <2>1. /\ i \in 0..n /\ i - 1 \in 0..n
        /\ (screen.pos + (i - 1)) + 1 = screen.pos + i
    BY <1>1, <1>2
  <2>2. outputs[i].socket = screen.socket /\ outputs[i].pos = screen.pos + i
    BY <1>1
  <2>3. g[i - 1].socket = screen.socket /\ g[i - 1].pos = screen.pos + (i - 1)
    BY <2>1 DEF Screens
  <2>4. Applied(g[i - 1], outputs[i]) = [g[i - 1] EXCEPT !.pos = outputs[i].pos]
    BY <2>1, <2>2, <2>3 DEF Applied
  <2>5. [g[i - 1] EXCEPT !.pos = outputs[i].pos] = [screen EXCEPT !.pos = screen.pos + i]
    BY <2>1, <2>2 DEF Screens
  <2> QED BY <2>1, <2>4, <2>5
<1>5. g = F(g)
  <2>1. ASSUME NEW i \in 0..n
        PROVE  g[i] = IF i = 0 THEN screen ELSE Applied(g[i - 1], outputs[i])
    <3>1. CASE i = 0
      BY <1>3, <3>1
    <3>2. CASE i # 0
      <4>1. i \in 1..n
        BY <3>2
      <4> HIDE DEF g
      <4> QED BY <1>4, <3>2, <4>1
    <3> QED BY <3>1, <3>2
  <2>2. F(g) = [i \in 0..n |-> g[i]]
    <3> HIDE DEF g
    <3> QED BY <2>1
  <2>3. g = [i \in 0..n |-> g[i]]
    OBVIOUS
  <2> QED BY <2>2, <2>3
<1>6. upto = F(upto)
  <2> HIDE DEF g, F
  <2> QED BY <1>5
<1>7. \A i \in 0..n : upto[i] = IF i = 0 THEN screen ELSE Applied(upto[i - 1], outputs[i])
  <2> HIDE DEF upto
  <2> QED BY <1>6
<1> DEFINE Same == {i \in 0..n : upto[i] = g[i]}
<1> HIDE DEF upto, g
<1>8. 0 \in Same
  BY <1>1, <1>3, <1>7
<1>9. ASSUME NEW i \in 0..n, i # n, i \in Same
      PROVE  i + 1 \in Same
  <2>1. i + 1 \in 1..n /\ i + 1 \in 0..n /\ (i + 1) - 1 = i /\ i + 1 # 0
    BY <1>9
  <2>2. upto[i + 1] = Applied(upto[i], outputs[i + 1])
    BY <1>7, <2>1
  <2>3. g[i + 1] = Applied(g[i], outputs[i + 1])
    BY <1>4, <2>1
  <2> QED BY <1>9, <2>1, <2>2, <2>3
<1>10. \A i \in 0..n : i \in Same
  <2> HIDE DEF Same
  <2> QED BY <1>8, <1>9, CountingUp
<1>11. upto[n] = g[n]
  BY <1>10
<1>12. Replayed(screen, outputs) = upto[n]
  BY <1>1 DEF Replayed, upto
<1>13. g[n] = [screen EXCEPT !.pos = screen.pos + n]
  BY DEF g
<1> QED BY <1>1, <1>11, <1>12, <1>13

-----------------------------------------------------------------------------
(* Init, and steps without effect.                                         *)

LEMMA InitInv == Init => ViewerInv
<1> SUFFICES ASSUME Init PROVE ViewerInv
  OBVIOUS
<1>1. Nothing \in Screens
  BY DEF Nothing, Screen, Screens
<1>2. ViewerTypes
  <2>1. << >> \in Seq(Message) /\ 0 \in Nat
    OBVIOUS
  <2>2. pos \in [Sockets -> Nat] /\ next \in [Sockets -> Nat]
    BY DEF Init
  <2>3. printed \in [history : Screens, screen : Screens]
    BY <1>1 DEF Init, NoSplice
  <2> QED BY <1>1, <2>1, <2>2, <2>3 DEF Init, ViewerTypes, Modes
<1>3. StreamInv
  <2> DEFINE a == [session |-> None, shown |-> Nil, due |-> Nil]
  <2>1. a \in States
    BY DEF States
  <2>2. Path(Reads(Wanted), States, down, a, a)
    BY <2>1, PathEmpty DEF Init
  <2>3. Along(Wanted, a, a)
    BY <2>1, <2>2, NilIsNoNumber DEF Along
  <2>4. Current(a)
    BY DEF Current, Init
  <2>5. a.due = Owed
    BY DEF Owed, Init
  <2>6. ShownBy(a)
    BY DEF ShownBy, Init
  <2> HIDE DEF a
  <2> QED BY <2>1, <2>3, <2>4, <2>5, <2>6 DEF StreamInv
<1>4. ViewInv /\ SpliceExact
  BY DEF ViewInv, SpliceExact, Init, Modes
<1> QED BY <1>2, <1>3, <1>4 DEF ViewerInv

\* A step that leaves the viewer alone.
LEMMA SameViewer ==
    ASSUME UNCHANGED <<app, overtaken>>
    PROVE  /\ Wanted' = Wanted /\ Owed' = Owed
           /\ \A a : ShownBy(a)' = ShownBy(a)
           /\ SpliceExact' = SpliceExact
<1>1. Wanted' = Wanted
  BY DEF app, Wanted
<1>2. Owed' = Owed
  BY DEF app, Owed
<1>3. \A a : ShownBy(a)' = ShownBy(a)
  BY DEF app, ShownBy
<1>4. SpliceExact' = SpliceExact
  BY DEF app, SpliceExact
<1> QED BY <1>1, <1>2, <1>3, <1>4

LEMMA StutterInv == ViewerInv /\ UNCHANGED vars => ViewerInv'
<1> SUFFICES ASSUME ViewerInv, UNCHANGED vars PROVE ViewerInv'
  OBVIOUS
<1>1. UNCHANGED <<app, overtaken>>
  BY DEF vars
<1>2. ViewerTypes'
  BY DEF ViewerInv, ViewerTypes, vars, app, relay, wrapper
<1>3. StreamInv'
  <2>1. PICK a \in States, b \in States :
           Along(Wanted, a, b) /\ Current(b) /\ a.due = Owed /\ ShownBy(a)
    BY DEF ViewerInv, StreamInv
  <2>2. Along(Wanted, a, b)'
    BY <1>1, <2>1, SameViewer DEF Along, vars
  <2>3. Current(b)'
    BY <2>1 DEF Current, vars, relay, wrapper
  <2>4. (a.due = Owed)' /\ ShownBy(a)'
    BY <1>1, <2>1, SameViewer
  <2> QED BY <2>2, <2>3, <2>4 DEF StreamInv
<1>4. ViewInv'
  BY DEF ViewerInv, ViewInv, vars, app, relay
<1>5. SpliceExact'
  BY <1>1, SameViewer DEF ViewerInv
<1> QED BY <1>2, <1>3, <1>4, <1>5 DEF ViewerInv

\* The channels.
LEMMA DownGrows ==
    ASSUME NEW W, NEW m \in Message, NEW a \in States, NEW b \in States, NEW c \in States,
           down \in Seq(Message), Reply(<<m>>),
           Path(Reads(W), States, down, a, b), Tells(m, b, c), Lasts(W, m, b, c)
    PROVE  Path(Reads(W), States, down', a, c) /\ down' \in Seq(Message)
<1>1. down' = Append(down, m) /\ down' \in Seq(Message)
  BY AppendFacts DEF Reply
<1>2. <<m, b, c>> \in Reads(W)
  BY DEF Reads
<1> QED BY <1>1, <1>2, PathAppend

LEMMA UpGrows ==
    ASSUME NEW W, NEW m \in Message, NEW i \in Nat, NEW j \in Nat, NEW k \in Nat,
           up \in Seq(Message), Send(<<m>>),
           Path(Asks(W), Nat, up, i, j), Counts(W, m, j, k)
    PROVE  Path(Asks(W), Nat, up', i, k) /\ up' \in Seq(Message)
<1>1. up' = Append(up, m) /\ up' \in Seq(Message)
  BY AppendFacts DEF Send
<1>2. <<m, j, k>> \in Asks(W)
  BY DEF Asks
<1> QED BY <1>1, <1>2, PathAppend
-----------------------------------------------------------------------------
(* The server's step.                                                      *)

\* While history is waited for, and until a failure, only its session speaks.
LEMMA StaysWithSnapshot ==
    ASSUME NEW q \in Seq(Message), NEW a \in States, NEW b \in States,
           Path(Reads(HistoryOf(snapshot)), States, q, a, b),
           a.session = snapshot.socket, b.due # Nil
    PROVE  b.session = snapshot.socket
<1> DEFINE P == {x \in States : x.due = Nil \/ x.session = snapshot.socket}
           W == HistoryOf(snapshot)
<1>1. StaysIn(P, Reads(W), Message, States)
  <2> SUFFICES ASSUME NEW m \in Message, NEW x \in States, NEW y \in States,
                      <<m, x, y>> \in Reads(W), x \in P
               PROVE  y \in P
    BY DEF StaysIn
  <2>1. Tells(m, x, y) /\ Lasts(W, m, x, y)
    BY DEF Reads
  <2>2. CASE x.due = Nil \/ m.type \in {"error", "disconnected"}
    BY <2>1, <2>2 DEF Lasts
  <2>3. CASE ~(x.due = Nil \/ m.type \in {"error", "disconnected"})
    <3>1. m.type # "connect"
      BY <2>1, <2>3 DEF Lasts, Counts, HistoryOf, Counted
    <3>2. y.session = x.session
      BY <2>1, <2>3, <3>1 DEF Tells
    <3> QED BY <2>3, <3>2
  <2> QED BY <2>2, <2>3
<1>2. a \in P
  OBVIOUS
<1>3. b \in P
  <2> HIDE DEF P, W
  <2> QED BY <1>1, <1>2, PathWithin DEF W
<1> QED BY <1>3

LEMMA ServerStepStream ==
    ASSUME ViewerTypes, StreamInv, ServerStep
    PROVE  StreamInv' /\ ViewerTypes'
<1> DEFINE m == Head(up)
<1>1. m \in Message /\ Tail(up) \in Seq(Message) /\ up' = Tail(up)
  BY TailFacts DEF ViewerTypes, ServerStep
<1>2. UNCHANGED <<app, overtaken>> /\ UNCHANGED wrapper
  BY DEF ServerStep
<1>3. PICK a \in States, b \in States :
         Along(Wanted, a, b) /\ Current(b) /\ a.due = Owed /\ ShownBy(a)
  BY DEF StreamInv
<1>4. b.due = Nil \/ b.due \in Nat
  BY DEF States
<1>5. PICK k \in Nat : b.due \in Nat => /\ Counts(Wanted, m, b.due, k)
                                        /\ Path(Asks(Wanted), Nat, Tail(up), k, 0)
  <2>1. CASE b.due \in Nat
    <3>1. Path(Asks(Wanted), Nat, up, b.due, 0)
      BY <1>3, <2>1 DEF Along
    <3>2. \E j \in Nat : /\ <<Head(up), b.due, j>> \in Asks(Wanted)
                         /\ Path(Asks(Wanted), Nat, Tail(up), j, 0)
      BY <3>1, PathHead DEF ViewerTypes, ServerStep
    <3> QED BY <3>2 DEF Asks
  <2>2. CASE b.due \notin Nat
    BY <2>2
  <2> QED BY <2>1, <2>2
\* It is enough to find the state that the reply leads to.
<1>6. ASSUME NEW c \in States,
             Path(Reads(Wanted), States, down', a, c),
             c.due = Nil \/ (b.due \in Nat /\ c.due = k),
             c.session = session', viewing' => c.shown = pos[session']
      PROVE  StreamInv'
  <2>1. Along(Wanted, a, c)'
    BY <1>1, <1>2, <1>3, <1>5, <1>6, SameViewer, NilIsNoNumber DEF Along
  <2>2. Current(c)'
    BY <1>2, <1>6 DEF Current, wrapper
  <2>3. (a.due = Owed)' /\ ShownBy(a)'
    BY <1>2, <1>3, SameViewer
  <2> QED BY <2>1, <2>2, <2>3 DEF StreamInv
<1>7. ASSUME NEW r \in Message, Reply(<<r>>),
             NEW v \in Nat \cup {Nil}, session' \in Sockets \cup {None},
             viewing' => v = pos[session'],
             \A d : Tells(r, b, [session |-> session', shown |-> v, due |-> d]),
             b.due \in Nat /\ r.type \notin {"error", "disconnected"} =>
                 Counts(Wanted, r, b.due, k)
      PROVE  StreamInv' /\ down' \in Seq(Message)
  <2> DEFINE c == [session |-> session', shown |-> v,
                   due |-> IF b.due = Nil \/ r.type \in {"error", "disconnected"}
                           THEN Nil ELSE k]
  <2>1. c \in States
    BY <1>7 DEF States
  <2>2. Lasts(Wanted, r, b, c)
    BY <1>4, <1>7 DEF Lasts
  <2>3. Tells(r, b, c)
    BY <1>7
  <2>4. c.due = Nil \/ (b.due \in Nat /\ c.due = k)
    BY <1>4
  <2>5. c.session = session' /\ (viewing' => c.shown = pos[session'])
    BY <1>7
  <2> HIDE DEF c
  <2>6. Path(Reads(Wanted), States, down', a, c) /\ down' \in Seq(Message)
    BY <1>3, <1>7, <2>1, <2>2, <2>3, DownGrows DEF Along, ViewerTypes
  <2> QED BY <1>6, <2>1, <2>4, <2>5, <2>6
<1>8. ASSUME UNCHANGED <<session, down>>, viewing' => viewing,
             m.type \notin Counted
      PROVE  StreamInv'
  <2>1. b.due \in Nat => k = b.due
    BY <1>5, <1>8 DEF Counts
  <2>2. b.session = session' /\ (viewing' => b.shown = pos[session'])
    BY <1>3, <1>8 DEF Current
  <2>3. Path(Reads(Wanted), States, down', a, b)
    BY <1>3, <1>8 DEF Along
  <2> QED BY <1>4, <1>6, <2>1, <2>2, <2>3
<1>9. ServerHandles(m)
  BY DEF ServerStep
<1>10. b.shown \in Nat \cup {Nil} /\ b.session = session /\ session \in Sockets \cup {None}
  BY <1>3 DEF Current, States, ViewerTypes
<1>11. CASE m.type = "connect" /\ m.socket \in alive
            /\ session' = m.socket /\ viewing' = FALSE
            /\ Reply(<<Msg("connect", m.socket, 0, 0)>>)
  <2> DEFINE r == Msg("connect", m.socket, 0, 0)
  <2>1. m.socket \in Sockets /\ m.socket # None /\ "connect" \in Kinds
    BY <1>11, ViewerAssumption DEF ViewerTypes, Kinds
  <2>2. r \in Message /\ r.type = "connect" /\ r.socket = m.socket
    BY <2>1, MessageFacts
  <2>3. ASSUME b.due \in Nat PROVE Counts(Wanted, r, b.due, k)
    <3>1. b.due = k + 1 /\ (IF k = 0 THEN m \in Wanted ELSE FALSE)
      BY <1>5, <1>11, <2>3 DEF Counts, Counted
    <3>2. Wanted = Greetings
      BY <1>11, <3>1 DEF Wanted, HistoryOf
    <3>3. r \in Wanted
      BY <2>2, <3>2 DEF Greetings
    <3> QED BY <2>2, <3>1, <3>3 DEF Counts, Counted
  <2> HIDE DEF r
  <2>4. \A d : Tells(r, b, [session |-> session', shown |-> Nil, due |-> d])
    BY <1>11, <2>1, <2>2 DEF Tells
  <2>5. StreamInv' /\ down' \in Seq(Message)
    BY <1>7, <1>11, <2>1, <2>2, <2>3, <2>4 DEF r
  <2> QED BY <1>1, <1>2, <1>11, <2>1, <2>5 DEF ViewerTypes, app, wrapper
<1>12. CASE m.type = "disconnect" /\ session' = None /\ viewing' = FALSE
            /\ Reply(<<Plain("disconnected")>>)
  <2> DEFINE r == Plain("disconnected")
  <2>1. r \in Message /\ r.type = "disconnected"
    BY PlainFacts DEF Kinds
  <2> HIDE DEF r
  <2>2. \A d : Tells(r, b, [session |-> session', shown |-> Nil, due |-> d])
    BY <1>12, <2>1 DEF Tells
  <2>3. StreamInv' /\ down' \in Seq(Message)
    BY <1>7, <1>12, <2>1, <2>2 DEF r
  <2> QED BY <1>1, <1>2, <1>12, <2>3 DEF ViewerTypes, app, wrapper
<1>13. CASE UNCHANGED relay /\ Reply(<<Plain("error")>>)
  <2> DEFINE r == Plain("error")
  <2>1. r \in Message /\ r.type = "error"
    BY PlainFacts DEF Kinds
  <2> HIDE DEF r
  <2>2. session' = session /\ viewing' = viewing
    BY <1>13 DEF relay
  <2>3. \A d : Tells(r, b, [session |-> session', shown |-> b.shown, due |-> d])
    BY <1>10, <2>1, <2>2 DEF Tells
  <2>4. viewing' => b.shown = pos[session']
    BY <1>3, <2>2 DEF Current
  <2>5. StreamInv' /\ down' \in Seq(Message)
    BY <1>7, <1>10, <1>13, <2>1, <2>2, <2>3, <2>4 DEF r
  <2> QED BY <1>1, <1>2, <2>2, <2>5 DEF ViewerTypes, app, wrapper
<1>14. CASE m.type = "view" /\ session # None /\ viewing' = TRUE
            /\ Reply(<<Msg("snapshot", session, pos[session], next[session])>>)
            /\ UNCHANGED session
  <2> DEFINE r == Msg("snapshot", session, pos[session], next[session])
  <2>1. /\ session \in Sockets /\ pos[session] \in Nat /\ next[session] \in Nat
        /\ "snapshot" \in Kinds
    BY <1>14 DEF ViewerTypes, Kinds
  <2>2. /\ r \in Message /\ r.type = "snapshot" /\ r.socket = session
        /\ r.pos = pos[session]
    BY <2>1, MessageFacts
  <2>3. b.due \in Nat => Counts(Wanted, r, b.due, k)
    BY <1>5, <1>14, <2>2 DEF Counts, Counted
  <2> HIDE DEF r
  <2>4. \A d : Tells(r, b, [session |-> session', shown |-> pos[session], due |-> d])
    BY <1>10, <1>14, <2>1, <2>2 DEF Tells
  <2>5. StreamInv' /\ down' \in Seq(Message)
    BY <1>7, <1>14, <2>1, <2>2, <2>3, <2>4 DEF r
  <2> QED BY <1>1, <1>2, <1>14, <2>5 DEF ViewerTypes, app, wrapper
<1>15. CASE m.type = "unview" /\ session # None /\ viewing' = FALSE
            /\ UNCHANGED <<session, down>>
  <2>1. StreamInv'
    BY <1>8, <1>15 DEF Counted
  <2> QED BY <1>1, <1>2, <1>15, <2>1 DEF ViewerTypes, app, wrapper
<1>16. CASE m.type = "history" /\ session # None
            /\ Reply(<<Msg("history_lines", session, 0, m.next)>>) /\ UNCHANGED relay
  <2> DEFINE r == Msg("history_lines", session, 0, m.next)
  <2>1. /\ session \in Sockets \cup {None} /\ m.next \in Nat /\ 0 \in Nat
        /\ "history_lines" \in Kinds /\ session' = session /\ viewing' = viewing
    BY <1>1, <1>16 DEF ViewerTypes, Kinds, Message, relay
  <2>2. r \in Message /\ r.type = "history_lines" /\ r.socket = session /\ r.next = m.next
    BY <2>1, MessageFacts
  <2>3. ASSUME b.due \in Nat PROVE Counts(Wanted, r, b.due, k)
    <3>1. b.due = k + 1 /\ (k = 0 => m \in Wanted)
      BY <1>5, <1>16, <2>3 DEF Counts, Counted
    <3>2. ASSUME k = 0 PROVE r \in Wanted
      <4>1. mode = "fetching" /\ Wanted = HistoryOf(snapshot) /\ m.next = snapshot.next
        BY <1>16, <3>1, <3>2 DEF Wanted, HistoryOf, Greetings
      <4>2. a.due # Nil
        BY <1>3, <2>3, StaysUncounted, NilIsNoNumber DEF Along, ViewerTypes
      <4>3. ~overtaken
        BY <1>3, <4>2 DEF Owed
      <4>4. a.session = snapshot.socket
        BY <1>3, <4>1, <4>3 DEF ShownBy
      <4>5. b.session = snapshot.socket
        BY <1>3, <2>3, <4>1, <4>4, StaysWithSnapshot, NilIsNoNumber DEF Along, ViewerTypes
      <4> QED BY <1>10, <2>2, <4>1, <4>5 DEF HistoryOf
    <3> QED BY <2>2, <3>1, <3>2 DEF Counts, Counted
  <2> HIDE DEF r
  <2>4. \A d : Tells(r, b, [session |-> session', shown |-> b.shown, due |-> d])
    BY <1>10, <2>1, <2>2 DEF Tells
  <2>5. viewing' => b.shown = pos[session']
    BY <1>3, <2>1 DEF Current
  <2>6. StreamInv' /\ down' \in Seq(Message)
    BY <1>7, <1>10, <1>16, <2>1, <2>2, <2>3, <2>4, <2>5 DEF r
  <2> QED BY <1>1, <1>2, <2>1, <2>6 DEF ViewerTypes, app, wrapper
<1>17. CASE m.type = "input" /\ session # None /\ UNCHANGED <<relay, down>>
  <2>1. StreamInv'
    BY <1>8, <1>17 DEF Counted, relay
  <2> QED BY <1>1, <1>2, <1>17, <2>1 DEF ViewerTypes, app, wrapper, relay
<1> HIDE DEF m
<1> QED BY <1>9, <1>11, <1>12, <1>13, <1>14, <1>15, <1>16, <1>17 DEF ServerHandles
-----------------------------------------------------------------------------
(* The sessions' steps.                                                    *)

\* A session speaks: the message leads to a state that is current.
LEMMA SessionSpeaks ==
    ASSUME ViewerTypes, StreamInv, UNCHANGED <<app, overtaken, up>>,
           NEW r \in Message, Reply(<<r>>), r.type \notin Counted,
           NEW v \in Nat \cup {Nil}, session' \in Sockets \cup {None},
           viewing' => v = pos'[session'],
           \A b \in States : Current(b) =>
               \A d : Tells(r, b, [session |-> session', shown |-> v, due |-> d])
    PROVE  StreamInv' /\ down' \in Seq(Message)
<1>1. PICK a \in States, b \in States :
         Along(Wanted, a, b) /\ Current(b) /\ a.due = Owed /\ ShownBy(a)
  BY DEF StreamInv
<1>2. PICK c \in States : /\ Tells(r, b, c) /\ Lasts(Wanted, r, b, c)
                          /\ c.session = session' /\ c.shown = v
                          /\ c.due = Nil \/ c.due = b.due
  <2> DEFINE d == [session |-> session', shown |-> v,
                   due |-> IF r.type \in {"error", "disconnected"} THEN Nil ELSE b.due]
  <2>1. d \in States /\ d.session = session' /\ d.shown = v /\ (d.due = Nil \/ d.due = b.due)
    BY DEF States
  <2>2. Lasts(Wanted, r, b, d)
    <3>1. b.due = Nil \/ b.due \in Nat
      BY DEF States
    <3> QED BY <3>1 DEF Lasts, Counts
  <2>3. Tells(r, b, d)
    BY <1>1
  <2> HIDE DEF d
  <2> QED BY <2>1, <2>2, <2>3
<1>7. Path(Reads(Wanted), States, down', a, c) /\ down' \in Seq(Message)
  BY <1>1, <1>2, DownGrows DEF Along, ViewerTypes
<1>8. Along(Wanted, a, c)'
  BY <1>1, <1>2, <1>7, SameViewer, NilIsNoNumber DEF Along
<1>9. (a.due = Owed)' /\ ShownBy(a)'
  BY <1>1, SameViewer
<1>10. Current(c)'
  BY <1>2 DEF Current
<1> QED BY <1>2, <1>7, <1>8, <1>9, <1>10 DEF StreamInv

LEMMA OutputStream ==
    ASSUME ViewerTypes, StreamInv, Output
    PROVE  StreamInv' /\ ViewerTypes'
<1>1. UNCHANGED <<app, overtaken, up>> /\ UNCHANGED relay
  BY DEF Output
<1>2. /\ viewing /\ session \in Sockets /\ pos[session] \in Nat /\ "output" \in Kinds
      /\ session' = session /\ viewing' = viewing
  BY <1>1 DEF Output, ViewerTypes, Kinds, relay
<1>3. pos' = [pos EXCEPT ![session] = @ + 1] /\ pos'[session] = pos[session] + 1
  BY <1>2 DEF Output, ViewerTypes
<1>4. pos' \in [Sockets -> Nat] /\ next' \in [Sockets -> Nat]
  <2>1. PICK n \in {0, 1} : next' = [next EXCEPT ![session] = @ + n]
    BY DEF Output
  <2>2. next[session] + n \in Nat
    BY <1>2 DEF ViewerTypes
  <2> QED BY <1>2, <1>3, <2>1, <2>2 DEF ViewerTypes
<1> DEFINE r == Msg("output", session, pos'[session], 0)
<1>5. r \in Message /\ r.type = "output" /\ r.socket = session /\ r.pos = pos[session] + 1
  BY <1>2, <1>3, MessageFacts
<1>6. Reply(<<r>>)
  BY DEF Output
<1>7. pos[session] + 1 \in Nat /\ session' \in Sockets \cup {None}
      /\ pos[session] + 1 = pos'[session']
  BY <1>2, <1>3
<1> HIDE DEF r
<1>8. ASSUME NEW b \in States, Current(b), NEW d
      PROVE  Tells(r, b, [session |-> session', shown |-> pos[session] + 1, due |-> d])
  BY <1>2, <1>5, <1>8 DEF Tells, Current
<1>9. r.type \notin Counted
  BY <1>5 DEF Counted
<1>10. StreamInv' /\ down' \in Seq(Message)
  BY <1>1, <1>5, <1>6, <1>7, <1>8, <1>9, SessionSpeaks
<1> QED BY <1>1, <1>2, <1>4, <1>10 DEF ViewerTypes, app, Output

LEMMA ResizeStream ==
    ASSUME ViewerTypes, StreamInv, Resize
    PROVE  StreamInv' /\ ViewerTypes'
<1>1. UNCHANGED <<app, overtaken, up>> /\ UNCHANGED relay
  BY DEF Resize
<1>2. /\ viewing /\ session \in Sockets /\ pos[session] \in Nat /\ next[session] \in Nat
      /\ "snapshot" \in Kinds
      /\ session' = session /\ viewing' = viewing /\ pos' = pos
  BY <1>1 DEF Resize, ViewerTypes, Kinds, relay
<1> DEFINE r == Msg("snapshot", session, pos[session], next[session])
<1>3. r \in Message /\ r.type = "snapshot" /\ r.socket = session /\ r.pos = pos[session]
  BY <1>2, MessageFacts
<1>4. Reply(<<r>>)
  BY DEF Resize
<1>5. session # None
  BY <1>2, ViewerAssumption
<1> HIDE DEF r
<1>6. ASSUME NEW b \in States, Current(b), NEW d
      PROVE  Tells(r, b, [session |-> session', shown |-> pos[session], due |-> d])
  BY <1>2, <1>3, <1>5, <1>6 DEF Tells, Current
<1>7. r.type \notin Counted
  BY <1>3 DEF Counted
<1>8. StreamInv' /\ down' \in Seq(Message)
  BY <1>1, <1>2, <1>3, <1>4, <1>6, <1>7, SessionSpeaks
<1> QED BY <1>1, <1>2, <1>8 DEF ViewerTypes, app, Resize

LEMMA EndsStream ==
    ASSUME ViewerTypes, StreamInv, NEW s \in Sockets, Ends(s)
    PROVE  StreamInv' /\ ViewerTypes'
<1>1. UNCHANGED <<app, overtaken, up>> /\ alive' \subseteq Sockets /\ UNCHANGED <<pos, next>>
  BY DEF Ends, ViewerTypes
<1>2. CASE session = s
  <2>1. session' = None /\ viewing' = FALSE /\ Reply(<<Plain("disconnected")>>)
    BY <1>2 DEF Ends
  <2> DEFINE r == Plain("disconnected")
  <2>2. r \in Message /\ r.type = "disconnected"
    BY PlainFacts DEF Kinds
  <2> HIDE DEF r
  <2>3. ASSUME NEW b \in States, NEW d
        PROVE  Tells(r, b, [session |-> session', shown |-> Nil, due |-> d])
    BY <2>1, <2>2 DEF Tells
  <2>4. r.type \notin Counted
    BY <2>2 DEF Counted
  <2>5. StreamInv' /\ down' \in Seq(Message)
    BY <1>1, <2>1, <2>2, <2>3, <2>4, SessionSpeaks DEF r
  <2> QED BY <1>1, <2>1, <2>5 DEF ViewerTypes, app
<1>3. CASE session # s
  <2>1. UNCHANGED <<session, viewing, down>>
    BY <1>3 DEF Ends, relay
  <2>2. PICK a \in States, b \in States :
           Along(Wanted, a, b) /\ Current(b) /\ a.due = Owed /\ ShownBy(a)
    BY DEF StreamInv
  <2>3. Along(Wanted, a, b)'
    BY <1>1, <2>1, <2>2, SameViewer DEF Along
  <2>4. Current(b)'
    BY <1>1, <2>1, <2>2 DEF Current
  <2>5. (a.due = Owed)' /\ ShownBy(a)'
    BY <1>1, <2>2, SameViewer
  <2>6. StreamInv'
    BY <2>3, <2>4, <2>5 DEF StreamInv
  <2> QED BY <1>1, <2>1, <2>6 DEF ViewerTypes, app
<1> QED BY <1>2, <1>3

-----------------------------------------------------------------------------
(* The user's steps.                                                       *)

\* Keys that leave the viewer alone.
LEMMA KeyStream ==
    ASSUME ViewerTypes, StreamInv, Abort \/ Type
    PROVE  StreamInv' /\ ViewerTypes'
<1>1. UNCHANGED <<app, overtaken, down>> /\ UNCHANGED relay /\ UNCHANGED wrapper
  BY DEF Abort, Type
<1>2. PICK m \in Message : m.type \notin Counted /\ Send(<<m>>)
  <2>1. CASE Abort
    <3>1. /\ Plain("disconnect") \in Message /\ Plain("disconnect").type \notin Counted
          /\ Send(<<Plain("disconnect")>>)
      BY <2>1, PlainFacts DEF Kinds, Counted, Abort
    <3> QED BY <3>1
  <2>2. CASE Type
    <3>1. /\ Plain("input") \in Message /\ Plain("input").type \notin Counted
          /\ Send(<<Plain("input")>>)
      BY <2>2, PlainFacts DEF Kinds, Counted, Type
    <3> QED BY <3>1
  <2> QED BY <2>1, <2>2
<1>3. PICK a \in States, b \in States :
         Along(Wanted, a, b) /\ Current(b) /\ a.due = Owed /\ ShownBy(a)
  BY DEF StreamInv
<1>4. up' = Append(up, m) /\ up' \in Seq(Message)
  BY <1>2, AppendFacts DEF ViewerTypes, Send
<1>5. b.due \in Nat => Path(Asks(Wanted), Nat, up', b.due, 0)
  <2>1. Counts(Wanted, m, 0, 0)
    BY <1>2 DEF Counts
  <2> QED BY <1>2, <1>3, <2>1, UpGrows DEF Along, ViewerTypes
<1>6. Along(Wanted, a, b)'
  BY <1>1, <1>3, <1>5, SameViewer DEF Along
<1>7. Current(b)'
  BY <1>1, <1>3 DEF Current, relay, wrapper
<1>8. (a.due = Owed)' /\ ShownBy(a)'
  BY <1>1, <1>3, SameViewer
<1>9. StreamInv'
  BY <1>6, <1>7, <1>8 DEF StreamInv
<1> QED BY <1>1, <1>4, <1>9 DEF ViewerTypes, app, relay, wrapper

LEMMA DetachStream ==
    ASSUME ViewerTypes, StreamInv, Detach
    PROVE  StreamInv' /\ ViewerTypes'
<1>1. /\ UNCHANGED <<snapshot, pending, skip, selected, down, overtaken>>
      /\ UNCHANGED relay /\ UNCHANGED wrapper
      /\ mode = "live" /\ mode' = "list"
  BY DEF Detach
<1>2. up' \in Seq(Message)
  <2>1. Plain("unview") \in Message /\ Plain("disconnect") \in Message
    BY PlainFacts DEF Kinds
  <2> QED BY <2>1 DEF Detach, Send, ViewerTypes
<1>3. ViewerTypes'
  <2>1. Nothing \in Screens
    BY DEF Nothing, Screen, Screens
  <2>2. mirror' \in Screens /\ printed' \in [history : Screens, screen : Screens]
    BY <2>1 DEF Detach, NoSplice
  <2> QED BY <1>1, <1>2, <2>2 DEF ViewerTypes, relay, wrapper, Modes
<1>4. PICK a \in States, b \in States :
         Along(Wanted, a, b) /\ Current(b) /\ a.due = Owed /\ ShownBy(a)
  BY DEF StreamInv
<1>5. a.due = Nil
  BY <1>1, <1>4 DEF Owed
<1>6. b.due = Nil
  BY <1>4, <1>5, StaysUncounted DEF Along, ViewerTypes
<1>7. Wanted' = Wanted
  BY <1>1 DEF Wanted
<1>8. Along(Wanted, a, b)'
  BY <1>1, <1>4, <1>6, <1>7, NilIsNoNumber DEF Along
<1>9. Current(b)'
  BY <1>1, <1>4 DEF Current, relay, wrapper
<1>10. (a.due = Owed)' /\ ShownBy(a)'
  BY <1>1, <1>5 DEF Owed, ShownBy
<1> QED BY <1>3, <1>8, <1>9, <1>10 DEF StreamInv

\* A session is chosen: with nothing under way, one greeting is waited for.
LEMMA EnterStream ==
    ASSUME ViewerTypes, StreamInv, NEW s \in Sockets, Enter(s)
    PROVE  StreamInv' /\ ViewerTypes'
<1>1. /\ UNCHANGED <<snapshot, pending, skip, mirror, printed, down>>
      /\ UNCHANGED relay /\ UNCHANGED wrapper
      /\ mode = "list" /\ mode' = "connecting"
      /\ overtaken' = (overtaken \/ ~Quiet)
  BY DEF Enter
<1> DEFINE m == Msg("connect", s, 0, 0)
<1>2. m \in Message /\ m.type = "connect"
  BY MessageFacts DEF Kinds
<1>3. Send(<<m>>)
  BY DEF Enter
<1> HIDE DEF m
<1>4. up' = Append(up, m) /\ up' \in Seq(Message)
  BY <1>2, <1>3, AppendFacts DEF ViewerTypes, Send
<1>5. ViewerTypes'
  BY <1>1, <1>4 DEF ViewerTypes, relay, wrapper, Modes, Quiet
<1>6. PICK a \in States, b \in States :
         Along(Wanted, a, b) /\ Current(b) /\ a.due = Owed /\ ShownBy(a)
  BY DEF StreamInv
<1>7. Wanted = Greetings /\ Wanted' = Greetings
  BY <1>1 DEF Wanted
<1>8. a.due = Nil
  BY <1>1, <1>6 DEF Owed
<1>9. CASE overtaken'
  <2>1. b.due = Nil
    BY <1>6, <1>8, StaysUncounted DEF Along, ViewerTypes
  <2>2. Along(Wanted, a, b)'
    BY <1>1, <1>6, <1>7, <2>1, NilIsNoNumber DEF Along
  <2>3. Current(b)'
    BY <1>1, <1>6 DEF Current, relay, wrapper
  <2>4. (a.due = Owed)' /\ ShownBy(a)'
    BY <1>1, <1>8, <1>9 DEF Owed, ShownBy
  <2> QED BY <1>5, <2>2, <2>3, <2>4 DEF StreamInv
<1>10. CASE ~overtaken'
  <2>1. up = << >> /\ down = << >> /\ down' = << >>
    BY <1>1, <1>10 DEF Quiet
  <2>2. a = b
    BY <1>6, <2>1, PathOfNone DEF Along
  <2> DEFINE c == [b EXCEPT !.due = 1]
  <2>3. /\ c \in States /\ c.due = 1 /\ c.session = b.session /\ c.shown = b.shown
    BY DEF States
  <2> HIDE DEF c
  <2>4. Path(Reads(Greetings), States, down', c, c)
    BY <2>1, <2>3, PathEmpty
  <2>5. Path(Asks(Greetings), Nat, up', 1, 0)
    <3>1. Path(Asks(Greetings), Nat, up, 1, 1)
      BY <2>1, PathEmpty
    <3>2. Counts(Greetings, m, 1, 0)
      BY <1>2 DEF Counts, Counted, Greetings
    <3> QED BY <1>2, <1>3, <3>1, <3>2, UpGrows DEF ViewerTypes
  <2>6. Along(Wanted, c, c)'
    BY <1>7, <2>3, <2>4, <2>5 DEF Along
  <2>7. Current(c)'
    BY <1>1, <1>6, <2>3 DEF Current, relay, wrapper
  <2>8. (c.due = Owed)' /\ ShownBy(c)'
    BY <1>1, <1>10, <2>3 DEF Owed, ShownBy
  <2> QED BY <1>5, <2>3, <2>6, <2>7, <2>8 DEF StreamInv
<1> QED BY <1>9, <1>10
-----------------------------------------------------------------------------
(* The viewer's step.                                                      *)

\* The next message takes the device from a to c; the rest leads on to b.
Receives(a, c, b) ==
    /\ a \in States /\ b \in States /\ c \in States
    /\ Tells(Head(down), a, c) /\ Lasts(Wanted, Head(down), a, c)
    /\ Path(Reads(Wanted), States, Tail(down), c, b)
    /\ b.due \in Nat => Path(Asks(Wanted), Nat, up, b.due, 0)
    /\ Current(b) /\ a.due = Owed /\ ShownBy(a)

Receiving ==
    /\ down # << >> /\ down' = Tail(down) /\ overtaken' = overtaken
    /\ UNCHANGED <<session, viewing, alive, pos, next>>

LEMMA StepReceives ==
    ASSUME ViewerTypes, StreamInv, ViewerStep
    PROVE  /\ Receiving /\ Head(down) \in Message /\ Tail(down) \in Seq(Message)
           /\ ViewerHandles(Head(down)) /\ selected' = selected
           /\ \E a, b, c \in States : Receives(a, c, b)
<1>1. Receiving /\ ViewerHandles(Head(down)) /\ selected' = selected
  BY DEF Receiving, ViewerStep, relay, wrapper
<1>2. Head(down) \in Message /\ Tail(down) \in Seq(Message)
  BY <1>1, TailFacts DEF Receiving, ViewerTypes
<1>3. PICK a \in States, b \in States :
         Along(Wanted, a, b) /\ Current(b) /\ a.due = Owed /\ ShownBy(a)
  BY DEF StreamInv
<1>4. \E c \in States : /\ <<Head(down), a, c>> \in Reads(Wanted)
                        /\ Path(Reads(Wanted), States, Tail(down), c, b)
  BY <1>1, <1>3, PathHead DEF Along, Receiving, ViewerTypes
<1>5. PICK c \in States : /\ <<Head(down), a, c>> \in Reads(Wanted)
                          /\ Path(Reads(Wanted), States, Tail(down), c, b)
  BY <1>4
<1>6. Receives(a, c, b)
  BY <1>3, <1>5 DEF Receives, Along, Reads
<1> QED BY <1>1, <1>2, <1>6

\* The rest of the messages and of the requests, for the viewer's next state.
LEMMA Continues ==
    ASSUME Receiving, NEW c \in States, NEW b \in States,
           Path(Reads(Wanted'), States, Tail(down), c, b),
           b.due \in Nat => Path(Asks(Wanted'), Nat, up', b.due, 0),
           Current(b), c.due = Owed', ShownBy(c)'
    PROVE  StreamInv'
<1>1. Along(Wanted, c, b)'
  BY DEF Along, Receiving
<1>2. Current(b)'
  BY DEF Current, Receiving
<1> QED BY <1>1, <1>2 DEF StreamInv

\* Nothing more is counted: the list, a live terminal, an attach overtaken.
LEMMA ContinuesUncounted ==
    ASSUME Receiving, NEW a, NEW c, NEW b, Receives(a, c, b), Tail(down) \in Seq(Message),
           Owed' = Nil,
           \A d \in States : d.session = c.session /\ d.shown = c.shown => ShownBy(d)'
    PROVE  StreamInv'
<1>1. /\ GivenUp[c] \in States /\ GivenUp[b] \in States
      /\ GivenUp[c].due = Nil /\ GivenUp[b].due = Nil
      /\ GivenUp[c].session = c.session /\ GivenUp[c].shown = c.shown
      /\ GivenUp[b].session = b.session /\ GivenUp[b].shown = b.shown
      /\ Path(Reads(Wanted'), States, Tail(down), GivenUp[c], GivenUp[b])
  <2>1. c \in States /\ b \in States /\ Path(Reads(Wanted), States, Tail(down), c, b)
    BY DEF Receives
  <2>2. ASSUME NEW V PROVE Path(Reads(V), States, Tail(down), GivenUp[c], GivenUp[b])
    BY <2>1, GivesUp
  <2>3. /\ GivenUp[c] \in States /\ GivenUp[b] \in States
        /\ GivenUp[c].due = Nil /\ GivenUp[b].due = Nil
        /\ GivenUp[c].session = c.session /\ GivenUp[c].shown = c.shown
        /\ GivenUp[b].session = b.session /\ GivenUp[b].shown = b.shown
    BY <2>1, GivenUpFacts
  <2> QED BY <2>2, <2>3
<1>2. Current(GivenUp[b])
  BY <1>1 DEF Current, Receives
<1>3. ShownBy(GivenUp[c])'
  BY <1>1
<1>4. PICK d \in States, e \in States : d = GivenUp[c] /\ e = GivenUp[b]
  BY <1>1
<1> QED BY <1>1, <1>2, <1>3, <1>4, Continues, NilIsNoNumber

\* A message that the mode has no use for.
LEMMA ContinuesSame ==
    ASSUME Receiving, NEW a, NEW c, NEW b, Receives(a, c, b), UNCHANGED <<app, up>>,
           c.due = Owed, ShownBy(c)
    PROVE  StreamInv'
<1>1. Wanted' = Wanted /\ Owed' = Owed /\ ShownBy(c)' = ShownBy(c)
  BY SameViewer DEF Receiving
<1> QED BY <1>1, Continues DEF Receives

\* Where nothing counted can come, whatever may be waited for.
LEMMA NoneWanted ==
    ASSUME NEW W, NEW q \in Seq(Message), NEW a \in States, NEW b \in States,
           Path(Reads(W), States, q, a, b), a.due = 0
    PROVE  Path(Reads({}), States, q, a, b) /\ b.due \in {0, Nil}
<1> DEFINE P == {x \in States : x.due \in {0, Nil}}
           h == [x \in States \cap P |-> x]
<1>1. StaysIn(P, Reads(W), Message, States)
  <2> SUFFICES ASSUME NEW m \in Message, NEW x \in States, NEW y \in States,
                      Lasts(W, m, x, y), x.due \in {0, Nil}
               PROVE  y.due \in {0, Nil}
    BY DEF StaysIn, Reads
  <2> QED BY DEF Lasts, Counts
<1>2. a \in P
  OBVIOUS
<1>3. Path(Reads(W), States \cap P, q, a, b) /\ b \in P
  <2> HIDE DEF P
  <2> QED BY <1>1, <1>2, PathWithin
<1>4. Follows(Reads({}), Reads(W), Message, States \cap P, h)
  <2> SUFFICES ASSUME NEW m \in Message, NEW x \in States, NEW y \in States,
                      x \in P, y \in P, <<m, x, y>> \in Reads(W)
               PROVE  <<m, x, y>> \in Reads({})
    BY DEF Follows
  <2>1. Tells(m, x, y) /\ Lasts(W, m, x, y)
    BY DEF Reads
  <2>2. Lasts({}, m, x, y)
    BY <2>1 DEF Lasts, Counts
  <2> QED BY <2>1, <2>2 DEF Reads
<1>5. h \in [States \cap P -> States] /\ h[a] = a /\ h[b] = b
  BY <1>2, <1>3
<1>6. Path(Reads({}), States, q, h[a], h[b])
  <2> HIDE DEF h, P
  <2> QED BY <1>3, <1>4, <1>5, PathMap
<1> QED BY <1>3, <1>5, <1>6

LEMMA NoneAsked ==
    ASSUME NEW W, NEW q \in Seq(Message), Path(Asks(W), Nat, q, 0, 0)
    PROVE  Path(Asks({}), Nat, q, 0, 0)
<1> DEFINE h == [x \in Nat \cap {0} |-> x]
<1>1. StaysIn({0}, Asks(W), Message, Nat)
  BY DEF StaysIn, Asks, Counts
<1>2. Path(Asks(W), Nat \cap {0}, q, 0, 0)
  BY <1>1, PathWithin
<1>3. Follows(Asks({}), Asks(W), Message, Nat \cap {0}, h)
  BY DEF Follows, Asks, Counts
<1>4. h \in [Nat \cap {0} -> Nat] /\ h[0] = 0
  OBVIOUS
<1>5. Path(Asks({}), Nat, q, h[0], h[0])
  <2> HIDE DEF h
  <2> QED BY <1>2, <1>3, <1>4, PathMap
<1> QED BY <1>4, <1>5
\* Greetings.
LEMMA GreetingStream ==
    ASSUME ViewerTypes, Receiving, Tail(down) \in Seq(Message),
           NEW a, NEW c, NEW b, Receives(a, c, b), Head(down).type = "connect", OnGreeting,
           selected' = selected
    PROVE  StreamInv'
<1>1. a \in States /\ c \in States /\ b \in States
  BY DEF Receives
<1>2. c.session # None /\ c.shown = Nil
  BY DEF Receives, Tells
<1>3. IF a.due = Nil THEN c.due = Nil
      ELSE /\ c.due \in Nat /\ a.due = c.due + 1
           /\ IF c.due = 0 THEN Head(down) \in Wanted ELSE FALSE
  BY DEF Receives, Lasts, Counts, Counted
<1>4. CASE mode = "connecting"
  <2>1. mode' = "await" /\ Send(<<Plain("view")>>) /\ UNCHANGED snapshot
    BY <1>4 DEF OnGreeting
  <2>2. Wanted = Greetings /\ Wanted' = Greetings
    BY <1>4, <2>1 DEF Wanted
  <2>3. c.due = Owed'
    <3>1. CASE overtaken
      BY <1>3, <2>1, <3>1 DEF Owed, Receives, Receiving
    <3>2. CASE ~overtaken
      <4>1. a.due = 1 /\ a.due # Nil
        BY <1>4, <3>2, NilIsNoNumber DEF Owed, Receives
      <4>2. c.due = 0
        BY <1>3, <4>1
      <4> QED BY <2>1, <3>2, <4>2 DEF Owed, Receiving
    <3> QED BY <3>1, <3>2
  <2>4. ShownBy(c)'
    BY <2>1 DEF ShownBy
  <2>5. b.due \in Nat => Path(Asks(Wanted'), Nat, up', b.due, 0)
    <3>1. Plain("view") \in Message /\ Plain("view").type = "view"
      BY PlainFacts DEF Kinds
    <3>2. Counts(Wanted, Plain("view"), 0, 0)
      BY <3>1 DEF Counts, Counted
    <3>3. b.due \in Nat => Path(Asks(Wanted), Nat, up, b.due, 0)
      BY DEF Receives
    <3> QED BY <2>1, <2>2, <3>1, <3>2, <3>3, UpGrows DEF ViewerTypes
  <2>6. Path(Reads(Wanted'), States, Tail(down), c, b) /\ Current(b)
    BY <2>2 DEF Receives
  <2> QED BY <1>1, <2>3, <2>4, <2>5, <2>6, Continues
<1>5. CASE mode # "connecting"
  <2>1. UNCHANGED <<app, up>>
    BY <1>5 DEF OnGreeting
  <2>2. a.due = Nil
    <3>1. SUFFICES ASSUME a.due # Nil PROVE FALSE
      OBVIOUS
    <3>2. c.due = 0 /\ a.due = 1 /\ Head(down) \in Wanted
      BY <1>3, <3>1
    <3>3. mode \in {"await", "fetching"} /\ ~overtaken /\ a.due = Owed
      BY <1>5, <3>1 DEF Owed, Receives, ViewerTypes, Modes
    <3>4. mode # "fetching"
      BY <3>2 DEF Wanted, HistoryOf
    <3>5. Owed = 0
      BY <3>3, <3>4 DEF Owed
    <3> QED BY <3>2, <3>3, <3>5
  <2>3. c.due = Owed
    BY <1>3, <2>2 DEF Receives
  <2>4. ShownBy(c)
    <3>1. mode = "fetching" => overtaken
      <4>1. ASSUME mode = "fetching", ~overtaken PROVE FALSE
        <5>1. a.due = skip + 1 /\ skip \in Nat
          BY <4>1 DEF Owed, Receives, ViewerTypes
        <5> QED BY <2>2, <5>1, NilIsNoNumber
      <4> QED BY <4>1
    <3> QED BY <1>2, <3>1, NilIsNoNumber DEF ShownBy, Receives
  <2> QED BY <2>1, <2>3, <2>4, ContinuesSame
<1> QED BY <1>4, <1>5

\* Snapshots.
LEMMA FirstOrLaterSnapshot ==
    ASSUME ViewerTypes, Receiving, Tail(down) \in Seq(Message),
           NEW a, NEW c, NEW b, Receives(a, c, b), NEW m, m = Head(down), m \in Message,
           m.type = "snapshot",
           mode \in {"await", "fetching"}, mode' = "fetching",
           snapshot' = Screen(m.socket, m.pos, m.next), pending' = << >>,
           skip' = IF mode = "await" THEN 0 ELSE skip + 1,
           Send(<<Msg("history", None, 0, m.next)>>)
    PROVE  StreamInv'
<1>1. a \in States /\ c \in States /\ b \in States
  BY DEF Receives
<1>2. m.socket \in Sockets \cup {None} /\ m.pos \in Nat /\ m.next \in Nat
  BY DEF Message
<1>3. m.socket # None /\ c.session = m.socket /\ c.shown = m.pos
  BY DEF Receives, Tells
<1>4. c.due = a.due /\ a.due = Owed
  BY <1>1 DEF Receives, Lasts, Counts, Counted
<1>5. ASSUME NEW d \in States, d.session = c.session, d.shown = c.shown
      PROVE  ShownBy(d)'
  <2>1. snapshot'.socket = m.socket /\ snapshot'.pos = m.pos
    BY DEF Screen
  <2>2. Len(pending') = 0 /\ 1..0 = {} /\ m.pos + 0 = m.pos
    BY <1>2
  <2> QED BY <1>3, <1>5, <2>1, <2>2 DEF ShownBy
<1>6. CASE overtaken
  <2>1. Owed' = Nil
    BY <1>6 DEF Owed, Receiving
  <2> QED BY <1>5, <2>1, ContinuesUncounted
<1>7. CASE ~overtaken
  <2> DEFINE W == IF mode = "await" THEN {} ELSE HistoryOf(snapshot)
  <2>1. Ungreeted(W)
    BY DEF Ungreeted, HistoryOf
  <2>2. /\ Path(Reads(W), States, Tail(down), c, b)
        /\ b.due \in Nat => Path(Asks(W), Nat, up, b.due, 0)
    <3>1. CASE mode = "await"
      <4>1. c.due = 0
        BY <1>4, <1>7, <3>1 DEF Owed
      <4>2. Path(Reads({}), States, Tail(down), c, b) /\ b.due \in {0, Nil}
        BY <1>1, <4>1, NoneWanted DEF Receives
      <4>3. b.due \in Nat => b.due = 0 /\ Path(Asks({}), Nat, up, 0, 0)
        BY <4>2, NoneAsked, NilIsNoNumber DEF Receives, ViewerTypes
      <4> QED BY <3>1, <4>2, <4>3
    <3>2. CASE mode = "fetching"
      BY <3>2 DEF Receives, Wanted
    <3> QED BY <3>1, <3>2
  <2>3. c.due \in Nat /\ c.due + 1 = Owed'
    <3>1. Owed' = skip' + 1
      BY <1>7 DEF Owed, Receiving
    <3>2. CASE mode = "await"
      BY <1>4, <1>7, <3>1, <3>2 DEF Owed
    <3>3. CASE mode = "fetching"
      <4>1. c.due = skip + 1 /\ skip' = skip + 1 /\ skip \in Nat
        BY <1>4, <1>7, <3>3 DEF Owed, ViewerTypes
      <4> QED BY <3>1, <4>1
    <3> QED BY <3>2, <3>3
  <2> HIDE DEF W
  <2>4. PICK d \in States, e \in States : d = OneMore[c] /\ e = OneMore[b]
    BY <1>1, OneMoreFacts
  <2>5. /\ d.session = c.session /\ d.shown = c.shown /\ d.due = Owed'
        /\ e.session = b.session /\ e.shown = b.shown
        /\ b.due \in Nat => e.due = b.due + 1
        /\ b.due = Nil => e.due = Nil
    BY <1>1, <2>3, <2>4, OneMoreFacts
  <2>6. Path(Reads(Wanted'), States, Tail(down), d, e)
    BY <1>1, <2>1, <2>2, <2>4, WaitsForMore
  <2>7. e.due \in Nat => Path(Asks(Wanted'), Nat, up', e.due, 0)
    <3>1. SUFFICES ASSUME e.due \in Nat PROVE Path(Asks(Wanted'), Nat, up', e.due, 0)
      OBVIOUS
    <3>2. b.due \in Nat /\ e.due = b.due + 1
      BY <1>1, <2>5, <3>1, NilIsNoNumber DEF States
    <3>3. Path(Asks(Wanted'), Nat, up, b.due + 1, 0 + 1)
      BY <2>1, <2>2, <3>2, AsksForMore DEF ViewerTypes
    <3> DEFINE r == Msg("history", None, 0, m.next)
    <3>4. r \in Message /\ r.type = "history" /\ r.next = m.next
      <4>1. "history" \in Kinds /\ None \in Sockets \cup {None} /\ 0 \in Nat
        BY DEF Kinds
      <4>2. r.type = "history" /\ r.next = m.next
        BY DEF Msg
      <4>3. r \in Message
        BY <1>2, <4>1, MessageFacts
      <4> QED BY <4>2, <4>3
    <3>5. Counts(Wanted', r, 1, 0)
      <4>1. r \in Wanted'
        <5>1. snapshot'.next = m.next
          BY DEF Screen
        <5>2. Wanted' = {x \in Message :
                          /\ x.next = snapshot'.next
                          /\ \/ x.type = "history"
                             \/ x.type = "history_lines" /\ x.socket = snapshot'.socket}
          BY DEF Wanted, HistoryOf
        <5> QED BY <3>4, <5>1, <5>2
      <4> QED BY <3>4, <4>1 DEF Counts, Counted
    <3> HIDE DEF r
    <3>6. Send(<<r>>)
      BY DEF r
    <3>7. Path(Asks(Wanted'), Nat, up, b.due + 1, 1)
      BY <3>3
    <3> QED BY <3>2, <3>4, <3>5, <3>6, <3>7, UpGrows DEF ViewerTypes
  <2>8. Current(e)
    BY <2>5 DEF Current, Receives
  <2>9. ShownBy(d)'
    BY <1>5, <2>5
  <2> QED BY <2>5, <2>6, <2>7, <2>8, <2>9, Continues
<1> QED BY <1>6, <1>7

\* A terminal that goes live, or is live, with the last snapshot and the output
\* since: from then on nothing is counted.
LEMMA LiveStream ==
    ASSUME Receiving, Tail(down) \in Seq(Message),
           NEW a, NEW c, NEW b, Receives(a, c, b), mode' = "live",
           c.session # None, mirror'.socket # None,
           c.shown \in Nat => c.session = mirror'.socket /\ c.shown = mirror'.pos
    PROVE  StreamInv'
<1>1. Owed' = Nil
  BY DEF Owed
<1>2. \A d \in States : d.session = c.session /\ d.shown = c.shown => ShownBy(d)'
  BY DEF ShownBy
<1> QED BY <1>1, <1>2, ContinuesUncounted

LEMMA SnapshotStream ==
    ASSUME ViewerTypes, SpliceExact, Receiving, Tail(down) \in Seq(Message),
           NEW a, NEW c, NEW b, Receives(a, c, b), NEW m, m = Head(down), m \in Message,
           m.type = "snapshot", OnSnapshot(m), selected' = selected
    PROVE  StreamInv' /\ ViewerTypes' /\ SpliceExact'
<1>1. a \in States /\ c \in States /\ b \in States
  BY DEF Receives
<1>2. m.socket \in Sockets \cup {None} /\ m.pos \in Nat /\ m.next \in Nat
  BY DEF Message
<1>3. m.socket # None /\ c.session = m.socket /\ c.shown = m.pos
  BY DEF Receives, Tells
<1>4. c.due = a.due /\ a.due = Owed
  BY <1>1 DEF Receives, Lasts, Counts, Counted
<1> DEFINE screen == Screen(m.socket, m.pos, m.next)
           request == Msg("history", None, 0, m.next)
<1>5. /\ screen \in Screens /\ screen.socket = m.socket /\ screen.pos = m.pos
      /\ screen.next = m.next /\ Nothing \in Screens
  <2>1. screen.socket = m.socket /\ screen.pos = m.pos /\ screen.next = m.next
    BY DEF Screen
  <2>2. screen \in Screens
    BY <1>2, ScreenFacts
  <2>3. Nothing \in Screens
    BY <1>2, ScreenFacts
  <2> QED BY <2>1, <2>2, <2>3
<1>6. request \in Message
  <2>1. "history" \in Kinds /\ None \in Sockets \cup {None} /\ 0 \in Nat
    BY DEF Kinds
  <2> QED BY <1>2, <2>1, MessageFacts
<1>7. Replayed(screen, << >>) = screen
  <2>1. << >> \in Seq(Message) /\ Len(<< >>) = 0 /\ 1..0 = {}
    OBVIOUS
  <2>2. Replayed(screen, << >>) = [screen EXCEPT !.pos = screen.pos + 0]
    <3> HIDE DEF screen
    <3> QED BY <1>5, <2>1, ReplayedFacts
  <2> HIDE DEF screen
  <2> QED BY <1>5, <2>2 DEF Screens
<1> HIDE DEF screen, request
<1>8. CASE mode \in {"await", "fetching"} /\ m.next > 0
  <2>1. /\ mode' = "fetching" /\ snapshot' = screen /\ pending' = << >>
        /\ skip' = IF mode = "await" THEN 0 ELSE skip + 1
        /\ Send(<<request>>) /\ UNCHANGED <<mirror, printed>>
    BY <1>2, <1>8 DEF OnSnapshot, KeptOutput, Stale, screen, request
  <2>2. StreamInv'
    BY <1>8, <2>1, FirstOrLaterSnapshot DEF screen, request
  <2>3. up' \in Seq(Message)
    BY <1>6, <2>1, AppendFacts DEF Send, ViewerTypes
  <2>4. down' \in Seq(Message) /\ pending' \in Seq(Message) /\ skip' \in Nat
    BY <2>1 DEF Receiving, ViewerTypes
  <2> QED BY <1>5, <2>1, <2>2, <2>3, <2>4 DEF ViewerTypes, Receiving, Modes, SpliceExact
<1>9. CASE mode \in {"await", "fetching"} /\ m.next = 0
  <2>1. /\ mode' = "live" /\ mirror' = screen
        /\ printed' = [history |-> Nothing, screen |-> screen]
        /\ snapshot' = Nothing /\ pending' = << >> /\ skip' = 0 /\ up' = up
    BY <1>7, <1>9 DEF OnSnapshot, GoLive, KeptOutput, screen
  <2>2. StreamInv'
    BY <1>3, <1>5, <2>1, LiveStream
  <2>3. SpliceExact'
    BY <1>5, <1>9, <2>1 DEF SpliceExact
  <2>4. pending' \in Seq(Message) /\ skip' \in Nat
    BY <2>1
  <2> QED BY <1>5, <2>1, <2>2, <2>3, <2>4 DEF ViewerTypes, Receiving, Modes
<1>10. CASE mode = "live"
  <2>1. mirror' = screen /\ UNCHANGED <<mode, snapshot, pending, skip, printed, up>>
    BY <1>10 DEF OnSnapshot, screen
  <2>2. StreamInv'
    BY <1>3, <1>5, <1>10, <2>1, LiveStream
  <2> QED BY <1>5, <2>1, <2>2 DEF ViewerTypes, Receiving, SpliceExact
<1>11. CASE mode \in {"list", "connecting"}
  <2>1. UNCHANGED <<mode, snapshot, pending, skip, mirror, printed, up>>
    BY <1>11 DEF OnSnapshot
  <2>2. UNCHANGED <<app, up>>
    BY <2>1 DEF app
  <2>3. StreamInv'
    BY <1>4, <1>11, <2>2, ContinuesSame DEF ShownBy
  <2> QED BY <2>1, <2>3 DEF ViewerTypes, Receiving, SpliceExact
<1>12. mode \in {"await", "fetching"} \/ mode = "live" \/ mode \in {"list", "connecting"}
  BY DEF ViewerTypes, Modes
<1>13. m.next > 0 \/ m.next = 0
  BY <1>2
<1> QED BY <1>8, <1>9, <1>10, <1>11, <1>12, <1>13
\* Output.
LEMMA OutputReceived ==
    ASSUME ViewerTypes, SpliceExact, Receiving, Tail(down) \in Seq(Message),
           NEW a, NEW c, NEW b, Receives(a, c, b), NEW m, m = Head(down), m \in Message,
           m.type = "output", OnOutput(m), selected' = selected
    PROVE  StreamInv' /\ ViewerTypes' /\ SpliceExact'
<1>1. a \in States /\ c \in States /\ b \in States /\ m.pos \in Nat
  BY DEF Receives, Message
<1>2. /\ a.session = m.socket /\ c.session = m.socket
      /\ a.shown \in Nat /\ m.pos = a.shown + 1 /\ c.shown = m.pos
  BY DEF Receives, Tells
<1>3. c.due = a.due /\ a.due = Owed /\ ShownBy(a)
  BY <1>1 DEF Receives, Lasts, Counts, Counted
<1>4. UNCHANGED <<mode, snapshot, skip, printed, up, selected>>
  BY DEF OnOutput
<1>5. SpliceExact'
  BY <1>4 DEF SpliceExact, Receiving
<1>6. CASE mode = "fetching"
  <2>1. pending' = Append(pending, m) /\ mirror' = mirror
    BY <1>6 DEF OnOutput
  <2>2. /\ pending' \in Seq(Message) /\ Len(pending') = Len(pending) + 1
        /\ \A j \in 1..Len(pending) : pending'[j] = pending[j]
        /\ pending'[Len(pending) + 1] = m
        /\ Len(pending) \in Nat
    BY <2>1, AppendFacts DEF ViewerTypes
  <2>3. Wanted' = Wanted /\ Owed' = Owed
    BY <1>4 DEF Wanted, Owed, Receiving
  <2>4. /\ a.session # None /\ snapshot.socket # None /\ a.session = snapshot.socket
        /\ a.shown = snapshot.pos + Len(pending) /\ snapshot.pos \in Nat
        /\ \A i \in 1..Len(pending) : /\ pending[i].socket = snapshot.socket
                                      /\ pending[i].pos = snapshot.pos + i
    BY <1>2, <1>3, <1>6 DEF ShownBy, ViewerTypes, Screens
  <2>5. m.socket = snapshot.socket /\ m.pos = snapshot.pos + (Len(pending) + 1)
    <3>1. \A x, y \in Nat : (x + y) + 1 = x + (y + 1)
      OBVIOUS
    <3>2. m.pos = (snapshot.pos + Len(pending)) + 1
      BY <1>2, <2>4
    <3> QED BY <1>2, <2>2, <2>4, <3>1, <3>2
  <2>6. ASSUME NEW i \in 1..Len(pending')
        PROVE  pending'[i].socket = snapshot.socket /\ pending'[i].pos = snapshot.pos + i
    <3>1. CASE i = Len(pending) + 1
      BY <2>2, <2>5, <3>1
    <3>2. CASE i # Len(pending) + 1
      <4>1. i \in 1..Len(pending)
        <5>1. i \in Nat /\ 1 <= i /\ i <= Len(pending) + 1
          BY <2>2
        <5> QED BY <2>2, <3>2, <5>1
      <4> QED BY <2>2, <2>4, <4>1
    <3> QED BY <3>1, <3>2
  <2>7. ShownBy(c)'
    BY <1>2, <1>4, <1>6, <2>2, <2>4, <2>5, <2>6 DEF ShownBy
  <2>8. StreamInv'
    <3>1. /\ Path(Reads(Wanted'), States, Tail(down), c, b) /\ Current(b)
          /\ b.due \in Nat => Path(Asks(Wanted'), Nat, up', b.due, 0)
      BY <1>4, <2>3 DEF Receives
    <3> QED BY <1>1, <1>3, <2>3, <2>7, <3>1, Continues
  <2> QED BY <1>4, <1>5, <2>1, <2>2, <2>8 DEF ViewerTypes, Receiving
<1>7. CASE mode = "live"
  <2>1. pending' = pending /\ mirror' = Applied(mirror, m)
    BY <1>7 DEF OnOutput
  <2>2. mirror \in Screens /\ mirror.socket = m.socket /\ mirror.socket # None
        /\ m.pos = mirror.pos + 1
    BY <1>2, <1>3, <1>7 DEF ShownBy, ViewerTypes
  <2>3. mirror' = [mirror EXCEPT !.pos = m.pos]
    BY <2>1, <2>2 DEF Applied
  <2>4. mirror' \in Screens /\ mirror'.socket = m.socket /\ mirror'.pos = m.pos
    BY <1>1, <2>2, <2>3 DEF Screens
  <2>5. StreamInv'
    BY <1>2, <1>4, <1>7, <2>2, <2>4, LiveStream
  <2> QED BY <1>4, <1>5, <2>1, <2>4, <2>5 DEF ViewerTypes, Receiving
<1>8. CASE mode \notin {"fetching", "live"}
  <2>1. UNCHANGED <<app, up>>
    BY <1>4, <1>8 DEF OnOutput, app
  <2>2. StreamInv'
    BY <1>3, <1>8, <2>1, ContinuesSame DEF ShownBy
  <2> QED BY <1>5, <2>1, <2>2 DEF ViewerTypes, Receiving, app
<1> QED BY <1>6, <1>7, <1>8

\* Replies to history requests.
LEMMA HistoryReceived ==
    ASSUME ViewerTypes, SpliceExact, Receiving, Tail(down) \in Seq(Message),
           NEW a, NEW c, NEW b, Receives(a, c, b), NEW m, m = Head(down), m \in Message,
           m.type = "history_lines", OnHistory(m), selected' = selected
    PROVE  StreamInv' /\ ViewerTypes' /\ SpliceExact'
<1>1. a \in States /\ c \in States /\ b \in States
      /\ m.next \in Nat /\ m.socket \in Sockets \cup {None}
  BY DEF Receives, Message
<1>2. c.session = a.session /\ c.shown = a.shown
  BY DEF Receives, Tells
<1>3. a.due = Owed /\ ShownBy(a)
  BY DEF Receives
<1>4. IF a.due = Nil THEN c.due = Nil
      ELSE /\ c.due \in Nat /\ a.due = c.due + 1
           /\ c.due = 0 => m \in Wanted
  BY DEF Receives, Lasts, Counts, Counted
<1>5. CASE mode = "fetching" /\ skip > 0
  <2>1. /\ skip' = skip - 1 /\ skip' \in Nat
        /\ UNCHANGED <<mode, snapshot, pending, mirror, printed, up>>
    BY <1>5 DEF OnHistory, ViewerTypes
  <2>2. Wanted' = Wanted
    BY <2>1 DEF Wanted
  <2>3. c.due = Owed'
    <3>1. CASE overtaken
      BY <1>3, <1>4, <3>1 DEF Owed, Receiving
    <3>2. CASE ~overtaken
      <4>1. a.due = skip + 1 /\ skip \in Nat /\ Owed' = skip' + 1
        BY <1>3, <1>5, <2>1, <3>2 DEF Owed, Receiving, ViewerTypes
      <4>2. a.due # Nil
        BY <4>1, NilIsNoNumber
      <4>3. c.due \in Nat /\ skip + 1 = c.due + 1 /\ Owed' = (skip - 1) + 1
        BY <1>4, <2>1, <4>1, <4>2
      <4> QED BY <4>1, <4>3
    <3> QED BY <3>1, <3>2
  <2>4. ShownBy(c)'
    BY <1>2, <1>3, <2>1 DEF ShownBy, Receiving
  <2>5. /\ Path(Reads(Wanted'), States, Tail(down), c, b) /\ Current(b)
        /\ b.due \in Nat => Path(Asks(Wanted'), Nat, up', b.due, 0)
    BY <2>1, <2>2 DEF Receives
  <2>6. StreamInv'
    BY <1>1, <2>3, <2>4, <2>5, Continues
  <2> QED BY <2>1, <2>6 DEF ViewerTypes, Receiving, SpliceExact
<1>6. CASE mode = "fetching" /\ ~(skip > 0)
  <2> DEFINE history == Screen(m.socket, 0, m.next)
  <2>1. /\ mode' = "live" /\ mirror' = Replayed(snapshot, pending)
        /\ printed' = [history |-> history, screen |-> snapshot]
        /\ snapshot' = Nothing /\ pending' = << >> /\ skip' = 0 /\ up' = up
    BY <1>6 DEF OnHistory, GoLive
  <2>2. history \in Screens /\ history.socket = m.socket /\ history.next = m.next
    <3>1. history \in Screens
      BY <1>1, ScreenFacts
    <3>2. history.socket = m.socket /\ history.next = m.next
      BY DEF Screen
    <3> QED BY <3>1, <3>2
  <2> HIDE DEF history
  <2>3. /\ a.session # None /\ snapshot.socket # None
        /\ \A i \in 1..Len(pending) : /\ pending[i].socket = snapshot.socket
                                      /\ pending[i].pos = snapshot.pos + i
        /\ a.shown \in Nat => /\ a.session = snapshot.socket
                              /\ a.shown = snapshot.pos + Len(pending)
    BY <1>3, <1>6 DEF ShownBy
  <2>4. snapshot \in Screens /\ pending \in Seq(Message) /\ snapshot.pos \in Nat
        /\ Len(pending) \in Nat
    BY DEF ViewerTypes, Screens
  <2>5. mirror' = [snapshot EXCEPT !.pos = snapshot.pos + Len(pending)]
    BY <2>1, <2>3, <2>4, ReplayedFacts
  <2>6. /\ mirror' \in Screens /\ mirror'.socket = snapshot.socket
        /\ mirror'.pos = snapshot.pos + Len(pending)
    BY <2>4, <2>5 DEF Screens
  <2>7. StreamInv'
    BY <1>2, <2>1, <2>3, <2>6, LiveStream
  <2>8. SpliceExact'
    <3>1. ASSUME ~overtaken
          PROVE  m.next = snapshot.next /\ m.socket = snapshot.socket
      <4>1. a.due = 1 /\ a.due # Nil
        BY <1>3, <1>6, <3>1, NilIsNoNumber DEF Owed, ViewerTypes
      <4>2. c.due = 0 /\ m \in Wanted
        BY <1>4, <4>1
      <4> QED BY <1>6, <4>2 DEF Wanted, HistoryOf
    <3> QED BY <2>1, <2>2, <3>1 DEF SpliceExact, Receiving
  <2>9. /\ snapshot' \in Screens /\ pending' \in Seq(Message) /\ skip' \in Nat
        /\ printed' \in [history : Screens, screen : Screens]
    <3>1. Nothing \in Screens
      BY DEF Nothing, Screen, Screens
    <3> QED BY <2>1, <2>2, <2>4, <3>1
  <2> QED BY <2>1, <2>6, <2>7, <2>8, <2>9 DEF ViewerTypes, Receiving, Modes
<1>7. CASE mode # "fetching"
  <2>1. UNCHANGED <<app, up>>
    BY <1>7 DEF OnHistory
  <2>2. a.due = Nil
    <3>1. SUFFICES ASSUME a.due # Nil PROVE FALSE
      OBVIOUS
    <3>2. a.due \in {0, 1}
      BY <1>3, <1>7, <3>1 DEF Owed, ViewerTypes, Modes
    <3>3. c.due = 0 /\ m \in Wanted
      BY <1>4, <3>1, <3>2
    <3> QED BY <1>7, <3>3 DEF Wanted, Greetings
  <2>3. c.due = Owed
    BY <1>3, <1>4, <2>2
  <2>4. ShownBy(c)
    BY <1>2, <1>3, <1>7 DEF ShownBy
  <2>5. StreamInv'
    BY <2>1, <2>3, <2>4, ContinuesSame
  <2> QED BY <2>1, <2>5 DEF ViewerTypes, Receiving, app, SpliceExact
<1> QED BY <1>5, <1>6, <1>7

\* Back to the list.
LEMMA ListStream ==
    ASSUME ViewerTypes, Receiving, Tail(down) \in Seq(Message),
           NEW a, NEW c, NEW b, Receives(a, c, b), BackToList
    PROVE  StreamInv' /\ ViewerTypes' /\ SpliceExact'
<1>1. mode' = "list" /\ up' = up
  BY DEF BackToList
<1>2. Owed' = Nil /\ \A d \in States : ShownBy(d)'
  BY <1>1 DEF Owed, ShownBy
<1>3. StreamInv'
  BY <1>2, ContinuesUncounted
<1>4. Nothing \in Screens
  BY DEF Nothing, Screen, Screens
<1>5. /\ snapshot' \in Screens /\ pending' \in Seq(Message) /\ skip' \in Nat
      /\ mirror' \in Screens /\ printed' \in [history : Screens, screen : Screens]
  BY <1>4 DEF BackToList, Forgotten, NoSplice
<1> QED BY <1>1, <1>3, <1>5 DEF ViewerTypes, Receiving, Modes, SpliceExact

LEMMA ViewerStepStream ==
    ASSUME ViewerTypes, StreamInv, SpliceExact, ViewerStep
    PROVE  StreamInv' /\ ViewerTypes' /\ SpliceExact'
<1>1. /\ Receiving /\ Head(down) \in Message /\ Tail(down) \in Seq(Message)
      /\ ViewerHandles(Head(down)) /\ selected' = selected
  BY StepReceives
<1>2. PICK a \in States, b \in States, c \in States : Receives(a, c, b)
  BY StepReceives
<1>3. PICK m \in Message : m = Head(down)
  BY <1>1
<1>4. CASE m.type = "connect" /\ OnGreeting
  <2>1. StreamInv'
    BY <1>1, <1>2, <1>3, <1>4, GreetingStream
  <2>2. ViewerTypes' /\ SpliceExact'
    <3>1. CASE mode = "connecting"
      <4>1. /\ mode' = "await" /\ Send(<<Plain("view")>>)
            /\ UNCHANGED <<snapshot, pending, skip, mirror, printed>>
        BY <1>4, <3>1 DEF OnGreeting
      <4>2. up' \in Seq(Message)
        <5>1. Plain("view") \in Message
          BY PlainFacts DEF Kinds
        <5> QED BY <4>1, <5>1, AppendFacts DEF Send, ViewerTypes
      <4> QED BY <1>1, <4>1, <4>2 DEF ViewerTypes, Receiving, Modes, SpliceExact
    <3>2. CASE mode # "connecting"
      <4>1. UNCHANGED <<app, up>>
        BY <1>4, <3>2 DEF OnGreeting
      <4> QED BY <1>1, <4>1 DEF ViewerTypes, Receiving, app, SpliceExact
    <3> QED BY <3>1, <3>2
  <2> QED BY <2>1, <2>2
<1>5. CASE m.type = "snapshot" /\ OnSnapshot(m)
  BY <1>1, <1>2, <1>3, <1>5, SnapshotStream
<1>6. CASE m.type = "output" /\ OnOutput(m)
  BY <1>1, <1>2, <1>3, <1>6, OutputReceived
<1>7. CASE m.type = "history_lines" /\ OnHistory(m)
  BY <1>1, <1>2, <1>3, <1>7, HistoryReceived
<1>8. CASE BackToList
  BY <1>1, <1>2, <1>8, ListStream
<1>9. CASE m.type = "error" /\ mode \notin ErrorModes /\ UNCHANGED <<app, up>>
  <2>1. mode \in {"list", "live"}
    BY <1>9 DEF ErrorModes, ViewerTypes, Modes
  <2>2. c.due = Nil /\ c.session = a.session /\ c.shown = a.shown /\ ShownBy(a)
    BY <1>2, <1>3, <1>9 DEF Receives, Lasts, Tells
  <2>3. c.due = Owed /\ ShownBy(c)
    BY <2>1, <2>2 DEF Owed, ShownBy
  <2>4. StreamInv'
    BY <1>1, <1>2, <1>9, <2>3, ContinuesSame
  <2> QED BY <1>1, <1>9, <2>4 DEF ViewerTypes, Receiving, app, SpliceExact
<1>10. ~(mode \notin EndedModes)
  BY DEF ViewerTypes, EndedModes
<1> QED BY <1>1, <1>3, <1>4, <1>5, <1>6, <1>7, <1>8, <1>9, <1>10 DEF ViewerHandles
-----------------------------------------------------------------------------
(* A view that is wanted.                                                  *)

\* The part of ViewInv that says what the requests under way come to.
Settled(q) ==
    /\ \A i \in 1..Len(q) : q[i].type \in {"connect", "unview"} =>
          \E j \in 1..Len(q) : i < j /\ q[j].type \in Settles
Settling(q) == \E j \in 1..Len(q) : q[j].type \in Settles

\* A request to view, or to disconnect, settles all before it; input needs it not.
LEMMA SettlesAll ==
    ASSUME NEW q \in Seq(Message), NEW m \in Message, m.type \in Settles
    PROVE  Settled(Append(q, m)) /\ Settling(Append(q, m))
<1>1. PICK n \in Nat : n = Len(q)
  OBVIOUS
<1>2. Len(Append(q, m)) = n + 1 /\ Append(q, m)[n + 1] = m
  BY <1>1
<1>3. \A i \in 1..(n + 1) : i # n + 1 => i < n + 1
  OBVIOUS
<1>4. n + 1 \in 1..(n + 1)
  OBVIOUS
<1> QED BY <1>2, <1>3, <1>4 DEF Settled, Settling, Settles

LEMMA SettledGrows ==
    ASSUME NEW q \in Seq(Message), NEW m \in Message, m.type \notin {"connect", "unview"}
    PROVE  /\ Settled(q) => Settled(Append(q, m))
           /\ Settling(q) => Settling(Append(q, m))
<1>1. PICK n \in Nat : n = Len(q)
  OBVIOUS
<1>2. /\ Len(Append(q, m)) = n + 1 /\ Append(q, m)[n + 1] = m
      /\ \A j \in 1..n : Append(q, m)[j] = q[j]
  BY <1>1
<1>3. \A i \in 1..(n + 1) : i # n + 1 => i \in 1..n
  OBVIOUS
<1>4. \A i \in 1..n : i \in 1..(n + 1)
  OBVIOUS
<1> QED BY <1>1, <1>2, <1>3, <1>4 DEF Settled, Settling

\* What is left when the first request has been handled.
LEMMA SettledTail ==
    ASSUME NEW q \in Seq(Message), q # << >>, Settled(q)
    PROVE  /\ Settled(Tail(q))
           /\ Head(q).type \in {"connect", "unview"} => Settling(Tail(q))
           /\ Settling(q) => Head(q).type \in Settles \/ Settling(Tail(q))
<1>1. PICK n \in Nat : n = Len(Tail(q)) /\ Len(q) = n + 1
  BY TailFacts
<1>2. Head(q) = q[1] /\ \A j \in 1..n : Tail(q)[j] = q[j + 1]
  BY <1>1, TailFacts
<1>3. ASSUME NEW j \in 1..(n + 1), j # 1
      PROVE  j - 1 \in 1..n /\ (j - 1) + 1 = j /\ Tail(q)[j - 1] = q[j]
  <2>1. j - 1 \in 1..n /\ (j - 1) + 1 = j
    BY <1>3
  <2> QED BY <1>2, <2>1
<1>4. ASSUME NEW i \in 1..n, Tail(q)[i].type \in {"connect", "unview"}
      PROVE  \E j \in 1..n : i < j /\ Tail(q)[j].type \in Settles
  <2>1. i + 1 \in 1..(n + 1) /\ q[i + 1].type \in {"connect", "unview"}
    <3>1. i + 1 \in 1..(n + 1)
      OBVIOUS
    <3>2. Tail(q)[i] = q[i + 1]
      BY <1>2
    <3> QED BY <1>4, <3>1, <3>2
  <2>2. PICK j \in 1..(n + 1) : i + 1 < j /\ q[j].type \in Settles
    BY <1>1, <2>1 DEF Settled
  <2>3. j # 1 /\ i < j - 1
    BY <2>2
  <2> QED BY <1>3, <2>2, <2>3
<1>5. ASSUME Head(q).type \in {"connect", "unview"}
      PROVE  Settling(Tail(q))
  <2>1. 1 \in 1..(n + 1)
    OBVIOUS
  <2>2. PICK j \in 1..(n + 1) : 1 < j /\ q[j].type \in Settles
    BY <1>1, <1>2, <1>5, <2>1 DEF Settled
  <2>3. j # 1
    BY <2>2
  <2> QED BY <1>1, <1>3, <2>2, <2>3 DEF Settling
<1>6. ASSUME Settling(q), Head(q).type \notin Settles
      PROVE  Settling(Tail(q))
  <2>1. PICK j \in 1..(n + 1) : q[j].type \in Settles
    BY <1>1, <1>6 DEF Settling
  <2>2. j # 1
    BY <1>2, <1>6, <2>1
  <2> QED BY <1>1, <1>3, <2>1, <2>2 DEF Settling
<1> QED BY <1>1, <1>4, <1>5, <1>6 DEF Settled

LEMMA ViewingKept ==
    ASSUME ViewerTypes, ViewInv, Next
    PROVE  ViewInv'
<1>1. CASE \E s \in Sockets : Enter(s)
  BY <1>1 DEF Enter, ViewInv
<1>2. CASE Abort
  <2>1. /\ Send(<<Plain("disconnect")>>)
        /\ Plain("disconnect") \in Message /\ Plain("disconnect").type \in Settles
    BY <1>2, PlainFacts DEF Abort, Kinds, Settles
  <2>2. up' = Append(up, Plain("disconnect"))
    BY <2>1, AppendFacts DEF Send, ViewerTypes
  <2>3. Settled(up') /\ Settling(up')
    BY <2>1, <2>2, SettlesAll DEF ViewerTypes
  <2> QED BY <2>3 DEF ViewInv, Settled, Settling
<1>3. CASE Detach
  BY <1>3 DEF Detach, ViewInv
<1>4. CASE Type
  <2>1. /\ Send(<<Plain("input")>>) /\ UNCHANGED <<mode, session, viewing>>
        /\ Plain("input") \in Message /\ Plain("input").type = "input"
    BY <1>4, PlainFacts DEF Type, Kinds, app, relay
  <2>2. up' = Append(up, Plain("input"))
    BY <2>1, AppendFacts DEF Send, ViewerTypes
  <2>3. (Settled(up) => Settled(up')) /\ (Settling(up) => Settling(up'))
    BY <2>1, <2>2, SettledGrows DEF ViewerTypes
  <2> QED BY <2>1, <2>3 DEF ViewInv, Settled, Settling
<1>5. CASE ServerStep
  <2> DEFINE m == Head(up)
  <2>1. up # << >> /\ up' = Tail(up) /\ ServerHandles(m) /\ mode' = mode
    BY <1>5 DEF ServerStep, app
  <2>2. SUFFICES ASSUME mode \in {"await", "fetching", "live"}
                 PROVE  Settled(up') /\ (viewing' \/ session' = None \/ Settling(up'))
    BY <2>1 DEF ViewInv, Settled, Settling
  <2>3. Settled(up) /\ (viewing \/ session = None \/ Settling(up))
    BY <2>2 DEF ViewInv, Settled, Settling
  <2>4. /\ Settled(up')
        /\ m.type \in {"connect", "unview"} => Settling(up')
        /\ Settling(up) => m.type \in Settles \/ Settling(up')
    BY <2>1, <2>3, SettledTail DEF ViewerTypes
  <2>5. m.type = "disconnect" => session' = None
    BY <2>1 DEF ServerHandles
  <2>6. m.type = "view" => viewing' \/ session' = None
    BY <2>1 DEF ServerHandles, relay
  <2>7. m.type \notin {"connect", "unview", "disconnect", "view"} =>
           session' = session /\ viewing' = viewing
    BY <2>1 DEF ServerHandles, relay
  <2> HIDE DEF m
  <2> QED BY <2>3, <2>4, <2>5, <2>6, <2>7 DEF Settles
<1>6. CASE Output \/ Resize
  BY <1>6 DEF Output, Resize, ViewInv, app, relay
<1>7. CASE \E s \in Sockets : Ends(s)
  <2>1. UNCHANGED <<mode, up>> /\ (session' = None \/ UNCHANGED <<session, viewing>>)
    BY <1>7 DEF Ends, app, relay
  <2> QED BY <2>1 DEF ViewInv
<1>8. CASE ViewerStep
  <2> DEFINE m == Head(down)
  <2>1. ViewerHandles(m) /\ UNCHANGED <<session, viewing>>
    BY <1>8 DEF ViewerStep, relay
  <2>2. CASE UNCHANGED <<mode, up>>
    BY <2>1, <2>2 DEF ViewInv
  <2>3. CASE mode' \in {"list", "connecting"}
    BY <2>3 DEF ViewInv
  <2>4. CASE mode' = "await" /\ Send(<<Plain("view")>>)
    <3>1. Plain("view") \in Message /\ Plain("view").type \in Settles
      BY PlainFacts DEF Kinds, Settles
    <3>2. up' = Append(up, Plain("view"))
      BY <2>4, <3>1, AppendFacts DEF Send, ViewerTypes
    <3>3. Settled(up') /\ Settling(up')
      BY <3>1, <3>2, SettlesAll DEF ViewerTypes
    <3> QED BY <3>3 DEF ViewInv, Settled, Settling
  <2>5. CASE mode \in {"await", "fetching"} /\ mode' = "live" /\ up' = up
    BY <2>1, <2>5 DEF ViewInv
  <2>6. CASE /\ mode \in {"await", "fetching"} /\ mode' = "fetching"
             /\ Send(<<Msg("history", None, 0, Head(down).next)>>)
    <3>1. Head(down) \in Message
      BY <1>8, TailFacts DEF ViewerStep, ViewerTypes
    <3> DEFINE r == Msg("history", None, 0, Head(down).next)
    <3>2. r \in Message /\ r.type = "history"
      <4>1. Head(down).next \in Nat /\ "history" \in Kinds /\ 0 \in Nat
        BY <3>1 DEF Message, Kinds
      <4>2. r \in Message
        BY <4>1, MessageFacts
      <4> QED BY <4>2 DEF Msg
    <3>3. up' = Append(up, r)
      BY <2>6, <3>2, AppendFacts DEF Send, ViewerTypes
    <3> HIDE DEF r
    <3>4. (Settled(up) => Settled(up')) /\ (Settling(up) => Settling(up'))
      BY <3>2, <3>3, SettledGrows DEF ViewerTypes
    <3> QED BY <2>1, <2>6, <3>4 DEF ViewInv, Settled, Settling
  <2>7. \/ UNCHANGED <<mode, up>>
        \/ mode' = "list"
        \/ mode' = "await" /\ Send(<<Plain("view")>>)
        \/ mode \in {"await", "fetching"} /\ mode' = "live" /\ up' = up
        \/ /\ mode \in {"await", "fetching"} /\ mode' = "fetching"
           /\ Send(<<Msg("history", None, 0, m.next)>>)
    <3>1. CASE OnGreeting
      BY <3>1 DEF OnGreeting, app
    <3>2. CASE OnSnapshot(m)
      <4> HIDE DEF m
      <4> QED BY <3>2 DEF OnSnapshot, GoLive
    <3>3. CASE OnOutput(m)
      BY <3>3 DEF OnOutput
    <3>4. CASE OnHistory(m)
      BY <3>4 DEF OnHistory, GoLive, app
    <3>5. CASE BackToList \/ UNCHANGED <<app, up>>
      BY <3>5 DEF BackToList, app
    <3> QED BY <2>1, <3>1, <3>2, <3>3, <3>4, <3>5 DEF ViewerHandles
  <2> QED BY <2>2, <2>3, <2>4, <2>5, <2>6, <2>7
<1> QED BY <1>1, <1>2, <1>3, <1>4, <1>5, <1>6, <1>7, <1>8 DEF Next, User, Session

-----------------------------------------------------------------------------
(* The theorems.                                                           *)

LEMMA NextInv == ViewerInv /\ [Next]_vars => ViewerInv'
<1> SUFFICES ASSUME ViewerInv, Next PROVE ViewerInv'
  BY StutterInv
<1>1. ViewerTypes /\ StreamInv /\ ViewInv /\ SpliceExact
  BY DEF ViewerInv
<1>2. ViewInv'
  BY <1>1, ViewingKept
<1>3. StreamInv' /\ ViewerTypes' /\ SpliceExact'
  <2>1. CASE \E s \in Sockets : Enter(s)
    <3>1. SpliceExact'
      BY <2>1 DEF Enter, SpliceExact
    <3> QED BY <1>1, <2>1, <3>1, EnterStream
  <2>2. CASE Abort \/ Type
    <3>1. SpliceExact'
      BY <1>1, <2>2, SameViewer DEF Abort, Type
    <3> QED BY <1>1, <2>2, <3>1, KeyStream
  <2>3. CASE Detach
    <3>1. SpliceExact'
      BY <2>3 DEF Detach, SpliceExact
    <3> QED BY <1>1, <2>3, <3>1, DetachStream
  <2>4. CASE ServerStep
    <3>1. SpliceExact'
      BY <1>1, <2>4, SameViewer DEF ServerStep
    <3> QED BY <1>1, <2>4, <3>1, ServerStepStream
  <2>5. CASE Output
    <3>1. SpliceExact'
      BY <1>1, <2>5, SameViewer DEF Output
    <3> QED BY <1>1, <2>5, <3>1, OutputStream
  <2>6. CASE Resize
    <3>1. SpliceExact'
      BY <1>1, <2>6, SameViewer DEF Resize
    <3> QED BY <1>1, <2>6, <3>1, ResizeStream
  <2>7. CASE \E s \in Sockets : Ends(s)
    <3>1. SpliceExact'
      BY <1>1, <2>7, SameViewer DEF Ends
    <3> QED BY <1>1, <2>7, <3>1, EndsStream
  <2>8. CASE ViewerStep
    BY <1>1, <2>8, ViewerStepStream
  <2> QED BY <2>1, <2>2, <2>3, <2>4, <2>5, <2>6, <2>7, <2>8 DEF Next, User, Session
<1> QED BY <1>2, <1>3 DEF ViewerInv

\* When nothing is under way, what the viewer made of the messages is how
\* things are at the server.
LEMMA InvInStep == ViewerInv => LiveInStep
<1> SUFFICES ASSUME ViewerInv, mode = "live"
             PROVE  /\ mirror # Nothing
                    /\ Quiet => /\ session = mirror.socket /\ viewing
                                /\ mirror.pos = pos[session]
  BY DEF LiveInStep
<1>1. PICK a \in States, b \in States :
         Along(Wanted, a, b) /\ Current(b) /\ a.due = Owed /\ ShownBy(a)
  BY DEF ViewerInv, StreamInv
<1>2. /\ a.session # None /\ mirror.socket # None
      /\ a.shown \in Nat => a.session = mirror.socket /\ a.shown = mirror.pos
  BY <1>1 DEF ShownBy
<1>3. mirror # Nothing
  BY <1>2 DEF Nothing, Screen
<1>4. ASSUME Quiet
      PROVE  session = mirror.socket /\ viewing /\ mirror.pos = pos[session]
  <2>1. a = b
    BY <1>1, <1>4, PathOfNone DEF Along, Quiet
  <2>2. a.session = session /\ (viewing => a.shown = pos[session])
    BY <1>1, <2>1 DEF Current
  <2>3. viewing
    <3>1. Len(up) = 0
      BY <1>4 DEF Quiet
    <3> QED BY <1>2, <2>2, <3>1 DEF ViewerInv, ViewInv
  <2>4. pos[session] \in Nat
    <3>1. session \in Sockets
      BY <1>2, <2>2 DEF ViewerInv, ViewerTypes
    <3> QED BY <3>1 DEF ViewerInv, ViewerTypes
  <2> QED BY <1>2, <2>2, <2>3, <2>4
<1> QED BY <1>3, <1>4

\* The inductive invariant: the messages under way, handled one after the other,
\* bring a device from what the viewer shows to how things are at the server.
THEOREM StreamsLead == Spec => []ViewerInv
<1>1. Init => ViewerInv
  BY InitInv
<1>2. ViewerInv /\ [Next]_vars => ViewerInv'
  BY NextInv
<1> QED BY <1>1, <1>2, PTL DEF Spec

\* A live terminal applies every output of its session once and in order, through
\* any snapshots and detaches, and when nothing is under way it shows all of it.
THEOREM LiveShowsSession == Spec => []LiveInStep
<1>1. ViewerInv => LiveInStep
  BY InvInStep
<1> QED BY <1>1, StreamsLead, PTL

\* The history printed above the first live screen ends where that begins, however
\* many replies became stale, unless an attach overtook an earlier one.
THEOREM HistoryMeetsScreen == Spec => []SpliceExact
<1>1. ViewerInv => SpliceExact
  BY DEF ViewerInv
<1> QED BY <1>1, StreamsLead, PTL
=============================================================================
