-------------------------- MODULE ScrollbackProofs ---------------------------
(***************************************************************************)
(* Theorems about the lines a session's program scrolls away: how they get *)
(* into the archive, and how a client gets them out.  About Mirror: for    *)
(* every staging buffer, slice and set of heights, and however the program *)
(* scrolls and switches screens.  About History, from "The archive" on:    *)
(* for every cap, budget and limit, the pages of a client that goes        *)
(* backwards through the archive join up, and it has everything retained   *)
(* when it stops.  The two modules share no variable.                      *)
(*                                                                         *)
(* How many lines a reply holds is a sum over a set, which the provers     *)
(* cannot compute.  The proofs about History need only that it is one of   *)
(* the numbers that the limit and the archive allow.                       *)
(***************************************************************************)
EXTENDS Mirror, History, FiniteSetTheorems, SequenceTheorems,
        WellFoundedInduction, TLAPS

-----------------------------------------------------------------------------
(* Sequences of lines.                                                     *)

\* Lines(a, b) are the numbers after a, up to b.
LEMMA LinesRange ==
    ASSUME NEW a \in Nat, NEW b \in Nat, a <= b
    PROVE  /\ Lines(a, b) \in Seq(Nat)
           /\ Len(Lines(a, b)) = b - a
           /\ \A i \in 1..b - a : Lines(a, b)[i] = a + i
<1>1. Monus(b, a) = b - a /\ b - a \in Nat BY DEF Monus
<1>2. Lines(a, b) = [i \in 1..b - a |-> a + i] BY <1>1 DEF Lines
<1>3. \A i \in 1..b - a : a + i \in Nat OBVIOUS
<1> QED BY <1>1, <1>2, <1>3

\* A log and what is appended to it.
LEMMA ConcatLength ==
    ASSUME NEW s \in Seq(Nat), NEW u \in Seq(Nat)
    PROVE  Len(s \o u) = Len(s) + Len(u)
OBVIOUS

\* What Scrollback promises of a step: log n continues log s, up to line b.
Grown(s, n, b) ==
    /\ n \in Seq(Nat)
    /\ Len(s) <= Len(n)
    /\ \A i \in 1..Len(s) : n[i] = s[i]
    /\ Promise!Increasing(n)
    /\ \A i \in 1..Len(n) : n[i] \in 1..b

\* A log whose lines are at most a, followed by the lines a+1 .. b.
LEMMA LogGrows ==
    ASSUME NEW s \in Seq(Nat), NEW a \in Nat, NEW b \in Nat, a <= b,
           Promise!Increasing(s),
           \A i \in 1..Len(s) : s[i] \in 1..a
    PROVE  Grown(s, s \o Lines(a, b), b)
<1>1. PICK u \in Seq(Nat) : /\ u = Lines(a, b)
                            /\ Len(u) = b - a
                            /\ \A i \in 1..b - a : u[i] = a + i
  BY LinesRange
<1>2. Len(s \o u) = Len(s) + (b - a) BY <1>1, ConcatLength
<1>3. Len(s) \in Nat /\ b - a \in Nat OBVIOUS
<1>4. \A i \in 1..Len(s) : (s \o u)[i] = s[i] BY <1>1
<1>5. \A i \in Len(s) + 1..Len(s) + (b - a) : (s \o u)[i] = a + (i - Len(s))
  <2> TAKE i \in Len(s) + 1..Len(s) + (b - a)
  <2>1. (s \o u)[i] = u[i - Len(s)] BY <1>1, <1>3
  <2>2. i - Len(s) \in 1..b - a BY <1>3
  <2> QED BY <1>1, <2>1, <2>2
<1>6. \A i \in 1..Len(s \o u) : (s \o u)[i] \in 1..b
  <2> TAKE i \in 1..Len(s \o u)
  <2>1. CASE i <= Len(s) BY <2>1, <1>3, <1>4
  <2>2. CASE i > Len(s) BY <2>2, <1>2, <1>3, <1>5
  <2> QED BY <2>1, <2>2, <1>2, <1>3
<1>7. Promise!Increasing(s \o u)
  <2> SUFFICES ASSUME NEW i \in 1..Len(s \o u) - 1
               PROVE  (s \o u)[i] < (s \o u)[i + 1]
    BY DEF Promise!Increasing
  <2>1. CASE i + 1 <= Len(s)
    <3>1. s[i] < s[i + 1] BY <2>1, <1>3 DEF Promise!Increasing
    <3> QED BY <2>1, <3>1, <1>3, <1>4
  <2>2. CASE i = Len(s)
    <3>1. /\ i \in 1..Len(s)
          /\ i + 1 \in Len(s) + 1..Len(s) + (b - a)
          /\ (i + 1) - Len(s) = 1
      BY <2>2, <1>2, <1>3
    <3>2. (s \o u)[i] = s[i] /\ s[i] \in 1..a BY <3>1, <1>4
    <3>3. (s \o u)[i + 1] = a + ((i + 1) - Len(s)) BY <3>1, <1>5
    <3> QED BY <3>1, <3>2, <3>3
  <2>3. CASE i > Len(s)
    <3>1. /\ i \in Len(s) + 1..Len(s) + (b - a)
          /\ i + 1 \in Len(s) + 1..Len(s) + (b - a)
      BY <2>3, <1>2, <1>3
    <3>2. (s \o u)[i] = a + (i - Len(s)) BY <3>1, <1>5
    <3>3. (s \o u)[i + 1] = a + ((i + 1) - Len(s)) BY <3>1, <1>5
    <3> QED BY <3>1, <3>2, <3>3, <1>3
  <2>4. i \in Nat BY <1>2, <1>3
  <2> QED BY <2>1, <2>2, <2>3, <2>4, <1>3
<1>8. s \o u \in Seq(Nat) BY <1>1
<1>9. Len(s) <= Len(s \o u) BY <1>2, <1>3
<1> QED BY <1>1, <1>4, <1>6, <1>7, <1>8, <1>9 DEF Grown

\* Continuing a log twice is continuing it.
LEMMA GrownTwice ==
    ASSUME NEW s \in Seq(Nat), NEW n, NEW m, NEW a, NEW b,
           Grown(s, n, a), Grown(n, m, b)
    PROVE  Grown(s, m, b)
BY DEF Grown

\* Pointwise agreement is agreement of the prefix, as Scrollback has it.
LEMMA GrownKeepsPrefix ==
    ASSUME NEW s \in Seq(Nat), NEW n, NEW b, Grown(s, n, b)
    PROVE  SubSeq(n, 1, Len(s)) = s
<1>1. n \in Seq(Nat) /\ Len(s) <= Len(n) /\ \A i \in 1..Len(s) : n[i] = s[i]
  BY DEF Grown
<1> QED BY <1>1

-----------------------------------------------------------------------------
(* What the counter says is new.  Stated over constants, for the values    *)
(* before a step as well as after it.                                      *)

Count(armed, at, n, seen) == IF armed THEN Monus(at, 1) ELSE Monus(n, seen)

\* A difference that stops at zero.
LEMMA MonusBounds ==
    ASSUME NEW m \in Nat, NEW n \in Nat
    PROVE  Monus(m, n) \in Nat /\ Monus(m, m) = 0
BY DEF Monus

\* The counter counts.
LEMMA CountIsNat ==
    ASSUME NEW armed \in BOOLEAN, NEW at \in Nat, NEW n \in Nat, NEW seen \in Nat
    PROVE  Count(armed, at, n, seen) \in Nat
BY MonusBounds DEF Count

\* Every line of the log is older than the k newest of n lines.
Older(log, k, n) ==
    /\ k <= n
    /\ \A i \in 1..Len(log) : log[i] \in 1..n - k

\* More lines may scroll off than are counted as new.
LEMMA OlderLater ==
    ASSUME NEW log \in Seq(Nat), NEW k \in Nat, NEW n \in Nat,
           NEW j \in Nat, NEW m \in Nat, n <= m, j <= k + (m - n),
           Older(log, k, n)
    PROVE  Older(log, j, m)
<1>1. j <= m /\ n - k <= m - j /\ n - k \in Nat /\ m - j \in Nat
  BY DEF Older
<1>2. \A i \in 1..Len(log) : log[i] \in 1..m - j
  BY <1>1 DEF Older
<1> QED BY <1>1, <1>2 DEF Older

\* A log that stays as it is, continues itself.
LEMMA OlderGrows ==
    ASSUME NEW log \in Seq(Nat), Promise!Increasing(log),
           NEW k \in Nat, NEW n \in Nat, NEW m \in Nat, n <= m, Older(log, k, n)
    PROVE  Grown(log, log, m)
<1>1. Older(log, 0, m) BY OlderLater
<1> QED BY <1>1 DEF Older, Grown

\* When nothing is new, all lines may be in the log.
LEMMA GrownIsOlder ==
    ASSUME NEW s, NEW n, NEW b \in Nat, Grown(s, n, b)
    PROVE  Older(n, 0, b)
BY DEF Grown, Older

-----------------------------------------------------------------------------
(* The invariant: what the counter says is new has not been archived.      *)

CaptureTypes ==
    /\ rows \in Nat /\ hostRows \in Nat
    /\ staged \in Nat /\ offset \in Nat /\ stagedSeen \in Nat /\ scrolled \in Nat
    /\ alt \in BOOLEAN /\ parked \in BOOLEAN
    /\ archived \in Seq(Nat)

CaptureInv ==
    /\ CaptureTypes
    /\ Promise!Increasing(archived)
    /\ Older(archived, Count(parked, offset, staged, stagedSeen), scrolled)

\* Mirror's count.
LEMMA NewRowsIsCount == NewRows = Count(parked, offset, staged, stagedSeen)
BY DEF NewRows, Count

\* A harvest continues the log.
LEMMA HarvestGrows ==
    ASSUME CaptureInv PROVE Grown(archived, HarvestedLines, scrolled)
<1> DEFINE k == Least(NewRows, staged)
<1>1. /\ NewRows \in Nat /\ staged \in Nat /\ scrolled \in Nat
      /\ Older(archived, NewRows, scrolled)
  BY NewRowsIsCount, CountIsNat DEF CaptureInv, CaptureTypes
<1>2. k \in Nat /\ k <= NewRows BY <1>1 DEF Least
<1>3. archived \in Seq(Nat) /\ Promise!Increasing(archived)
  BY DEF CaptureInv, CaptureTypes
<1>4. CASE alt
  <2>1. HarvestedLines = archived BY <1>4 DEF HarvestedLines
  <2> QED BY <2>1, <1>1, <1>3, OlderGrows
<1>5. CASE ~alt
  <2>1. HarvestedLines = archived \o Lines(scrolled - k, scrolled)
    BY <1>5 DEF HarvestedLines, Unarchived
  <2> HIDE DEF k
  <2>2. Older(archived, k, scrolled) BY <1>1, <1>2, <1>3, OlderLater
  <2>3. scrolled - k \in Nat /\ scrolled - k <= scrolled
    BY <1>1, <1>2, <2>2 DEF Older
  <2>4. \A i \in 1..Len(archived) : archived[i] \in 1..scrolled - k
    BY <2>2 DEF Older
  <2> QED BY <2>1, <2>3, <2>4, <1>1, <1>3, LogGrows
<1> QED BY <1>4, <1>5

-----------------------------------------------------------------------------
(* Every step keeps the invariant and continues the log.                   *)

\* What a step promises to Scrollback.
Continues ==
    /\ scrolled' \in Nat /\ scrolled <= scrolled'
    /\ Grown(archived, archived', scrolled')

NewCount == Count(parked', offset', staged', stagedSeen')

\* What a step has to show.
LEMMA KeepsInv ==
    ASSUME CaptureTypes', Continues, Older(archived', NewCount, scrolled')
    PROVE  CaptureInv'
BY DEF CaptureInv, Continues, Grown, NewCount, Promise!Increasing

\* A step that leaves the log alone and does not count more than the lines
\* that scrolled off in it.
LEMMA QuietStep ==
    ASSUME CaptureInv, CaptureTypes', archived' = archived,
           NEW more \in Nat, scrolled' = scrolled + more,
           NewCount <= Count(parked, offset, staged, stagedSeen) + more
    PROVE  Continues /\ CaptureInv'
<1> DEFINE k == Count(parked, offset, staged, stagedSeen)
<1>1. k \in Nat /\ NewCount \in Nat
  BY CountIsNat DEF CaptureInv, CaptureTypes, NewCount
<1>2. /\ archived \in Seq(Nat) /\ Promise!Increasing(archived)
      /\ scrolled \in Nat /\ Older(archived, k, scrolled)
  BY DEF CaptureInv, CaptureTypes
<1> HIDE DEF k
<1>3. scrolled + more \in Nat /\ scrolled <= scrolled + more
      /\ (scrolled + more) - scrolled = more
  BY <1>2
<1>4. Continues BY <1>1, <1>2, <1>3, OlderGrows DEF Continues
<1>5. NewCount <= k + ((scrolled + more) - scrolled) BY <1>3 DEF k
<1>6. Older(archived, NewCount, scrolled + more)
  BY <1>1, <1>2, <1>3, <1>5, OlderLater
<1> QED BY <1>4, <1>6, KeepsInv

\* A step after which nothing is counted as new.
LEMMA FreshStep ==
    ASSUME CaptureInv, CaptureTypes', Continues, NewCount = 0
    PROVE  CaptureInv'
BY GrownIsOlder, KeepsInv DEF Continues

\* A rebuild, which archives what is new and the rows that it crops.
LEMMA RebuildGrows ==
    ASSUME CaptureInv, scrolled' \in Nat, scrolled <= scrolled',
           archived' = HarvestedLines \o Lines(scrolled, scrolled')
    PROVE  Continues
<1>1. scrolled \in Nat /\ archived \in Seq(Nat) BY DEF CaptureInv, CaptureTypes
<1>2. Grown(archived, HarvestedLines, scrolled) BY HarvestGrows
<1>3. Grown(HarvestedLines, archived', scrolled')
  <2>1. /\ HarvestedLines \in Seq(Nat) /\ Promise!Increasing(HarvestedLines)
        /\ \A i \in 1..Len(HarvestedLines) : HarvestedLines[i] \in 1..scrolled
    BY <1>2 DEF Grown
  <2> QED BY <1>1, <2>1, LogGrows
<1> QED BY <1>1, <1>2, <1>3, GrownTwice DEF Continues

\* A harvest, as EndSlice and the rebuilds do it.
LEMMA HarvestContinues ==
    ASSUME CaptureInv, archived' = HarvestedLines, scrolled' = scrolled
    PROVE  Continues
<1>1. scrolled \in Nat BY DEF CaptureInv, CaptureTypes
<1> QED BY <1>1, HarvestGrows DEF Continues

\* After a harvest nothing is new, unless the alternate screen defers it.
LEMMA HarvestStep ==
    ASSUME CaptureInv, CaptureTypes',
           archived' = HarvestedLines, stagedSeen' = HarvestedSeen,
           parked' = (alt /\ parked), offset' = IF alt THEN offset ELSE 0,
           scrolled' = scrolled, staged' = staged
    PROVE  Continues /\ CaptureInv'
<1>1. /\ staged \in Nat /\ offset \in Nat /\ stagedSeen \in Nat
      /\ parked \in BOOLEAN /\ scrolled \in Nat
  BY DEF CaptureInv, CaptureTypes
<1>2. CASE alt
  <2>1. archived' = archived BY <1>2 DEF HarvestedLines
  <2>2. NewCount = Count(parked, offset, staged, stagedSeen)
    BY <1>1, <1>2 DEF NewCount, HarvestedSeen
  <2>3. Count(parked, offset, staged, stagedSeen) \in Nat BY <1>1, CountIsNat
  <2>4. /\ scrolled' = scrolled + 0
        /\ NewCount <= Count(parked, offset, staged, stagedSeen) + 0
    BY <1>1, <2>2, <2>3
  <2> QED BY <2>1, <2>4, QuietStep
<1>3. CASE ~alt
  <2>1. NewCount = Count(FALSE, 0, staged, staged)
    BY <1>3 DEF NewCount, HarvestedSeen
  <2>2. NewCount = 0 BY <1>1, <2>1, MonusBounds DEF Count
  <2> QED BY <2>2, FreshStep, HarvestContinues
<1> QED BY <1>2, <1>3

\* A new parser has nothing to count.
LEMMA RebuildCounts ==
    ASSUME NEW h, Rebuild(h) PROVE NewCount = 0
BY DEF Rebuild, ResetSeen, NewCount, Count, Monus

\* The smaller of two numbers.
LEMMA LeastIsNat ==
    ASSUME NEW m \in Nat, NEW n \in Nat
    PROVE  Least(m, n) \in Nat /\ Least(m, n) <= m /\ Least(m, n) <= n
BY DEF Least

\* Arming the counter: it then counts nothing, or what it counted before.
LEMMA BeginSliceStep ==
    ASSUME CaptureInv, BeginSlice PROVE Continues /\ CaptureInv'
<1>1. CaptureTypes BY DEF CaptureInv
<1>2. UNCHANGED <<rows, staged, alt, hostRows, stagedSeen, scrolled, archived>>
  BY DEF BeginSlice
<1>3. \/ UNCHANGED <<offset, parked>>
      \/ parked' = TRUE /\ offset' = 1
      \/ parked = FALSE /\ parked' = FALSE /\ offset' = 0
  BY <1>1 DEF BeginSlice, Park, CaptureTypes
<1>4. CaptureTypes'
  <2>1. offset' \in Nat BY <1>1, <1>3 DEF CaptureTypes
  <2>2. parked' \in BOOLEAN BY <1>1, <1>3 DEF CaptureTypes
  <2> QED BY <1>1, <1>2, <2>1, <2>2 DEF CaptureTypes
<1>5. \/ NewCount = 0
      \/ NewCount = Count(parked, offset, staged, stagedSeen)
  BY <1>2, <1>3 DEF NewCount, Count, Monus
<1>6. Count(parked, offset, staged, stagedSeen) \in Nat
  BY <1>1, CountIsNat DEF CaptureTypes
<1>7. NewCount <= Count(parked, offset, staged, stagedSeen) + 0
  BY <1>5, <1>6
<1>8. scrolled' = scrolled + 0 BY <1>1, <1>2 DEF CaptureTypes
<1> QED BY <1>2, <1>4, <1>7, <1>8, QuietStep

\* One line scrolls off: the counter moves by at most one.
LEMMA ScrollStep ==
    ASSUME CaptureInv, Scroll PROVE Continues /\ CaptureInv'
<1>1. CaptureTypes BY DEF CaptureInv
<1>2. /\ UNCHANGED <<rows, alt, hostRows, archived, parked, stagedSeen>>
      /\ scrolled' = scrolled + 1
  BY DEF Scroll, counter
<1>3. staged' \in Nat /\ staged' <= staged + 1
  <2>1. Least(Stage, staged + 1) \in Nat /\ Least(Stage, staged + 1) <= staged + 1
    <3>1. Stage \in Nat /\ staged + 1 \in Nat
      BY <1>1, MirrorAssumption DEF CaptureTypes
    <3> QED BY <3>1, LeastIsNat
  <2> QED BY <2>1 DEF Scroll
<1>4. offset' \in Nat /\ (offset' = 0 \/ (offset > 0 /\ offset' <= offset + 1))
  <2>1. CASE offset > 0
    <3>1. offset' = Least(staged', offset + 1) BY <2>1 DEF Scroll
    <3>2. Least(staged', offset + 1) \in Nat /\ Least(staged', offset + 1) <= offset + 1
      <4>1. offset + 1 \in Nat BY <1>1 DEF CaptureTypes
      <4> QED BY <1>3, <4>1, LeastIsNat
    <3> QED BY <2>1, <3>1, <3>2
  <2>2. CASE ~(offset > 0) BY <2>2 DEF Scroll
  <2> QED BY <2>1, <2>2
<1>5. CaptureTypes'
  <2>1. scrolled' \in Nat BY <1>1, <1>2 DEF CaptureTypes
  <2> QED BY <1>1, <1>2, <1>3, <1>4, <2>1 DEF CaptureTypes
<1>6. NewCount <= Count(parked, offset, staged, stagedSeen) + 1
  <2>1. ASSUME NEW n \in Nat, n <= staged + 1
        PROVE  Monus(n, stagedSeen) <= Monus(staged, stagedSeen) + 1
    BY <1>1, <2>1 DEF CaptureTypes, Monus
  <2>2. ASSUME NEW n \in Nat, n = 0 \/ (offset > 0 /\ n <= offset + 1)
        PROVE  Monus(n, 1) <= Monus(offset, 1) + 1
    BY <1>1, <2>2 DEF CaptureTypes, Monus
  <2>3. CASE parked
    <3>1. NewCount = Monus(offset', 1) BY <1>2, <2>3 DEF NewCount, Count
    <3> QED BY <1>4, <2>2, <2>3, <3>1 DEF Count
  <2>4. CASE ~parked
    <3>1. NewCount = Monus(staged', stagedSeen) BY <1>2, <2>4 DEF NewCount, Count
    <3> QED BY <1>3, <2>1, <2>4, <3>1 DEF Count
  <2> QED BY <2>3, <2>4
<1> QED BY <1>2, <1>5, <1>6, QuietStep

\* A step that changes neither the parser's primary screen nor the counter.
LEMMA IdleStep ==
    ASSUME CaptureInv, rows' \in Nat, hostRows' \in Nat, alt' \in BOOLEAN,
           UNCHANGED <<staged, offset, scrolled, archived, parked, stagedSeen>>
    PROVE  Continues /\ CaptureInv'
<1>1. CaptureTypes BY DEF CaptureInv
<1>2. CaptureTypes' BY <1>1 DEF CaptureTypes
<1>3. NewCount = Count(parked, offset, staged, stagedSeen) BY DEF NewCount
<1>4. Count(parked, offset, staged, stagedSeen) \in Nat
  BY <1>1, CountIsNat DEF CaptureTypes
<1>5. /\ NewCount <= Count(parked, offset, staged, stagedSeen) + 0
      /\ scrolled' = scrolled + 0
  BY <1>1, <1>3, <1>4 DEF CaptureTypes
<1> QED BY <1>2, <1>5, QuietStep

\* The step of HarvestStep is well typed.
LEMMA HarvestTypes ==
    ASSUME CaptureInv, rows' \in Nat, hostRows' \in Nat,
           archived' = HarvestedLines, stagedSeen' = HarvestedSeen,
           parked' = (alt /\ parked), offset' = IF alt THEN offset ELSE 0,
           UNCHANGED <<scrolled, staged, alt>>
    PROVE  CaptureTypes'
<1>1. CaptureTypes BY DEF CaptureInv
<1>2. HarvestedLines \in Seq(Nat) BY HarvestGrows DEF Grown
<1> QED BY <1>1, <1>2 DEF CaptureTypes, HarvestedSeen

\* The harvest at the end of a slice.
LEMMA EndSliceStep ==
    ASSUME CaptureInv, EndSlice PROVE Continues /\ CaptureInv'
<1>1. /\ rows' \in Nat /\ hostRows' \in Nat
      /\ archived' = HarvestedLines /\ stagedSeen' = HarvestedSeen
      /\ parked' = (alt /\ parked) /\ offset' = IF alt THEN offset ELSE 0
      /\ UNCHANGED <<scrolled, staged, alt>>
  BY DEF EndSlice, CaptureInv, CaptureTypes
<1> QED BY <1>1, HarvestTypes, HarvestStep

\* A resize of the host harvests unless a device views.
LEMMA HostResizedStep ==
    ASSUME CaptureInv, NEW h \in Heights, HostResized(h)
    PROVE  Continues /\ CaptureInv'
<1>1. h \in Nat BY MirrorAssumption
<1>2. CASE view = None
  <2>1. /\ rows' \in Nat /\ hostRows' \in Nat
        /\ archived' = HarvestedLines /\ stagedSeen' = HarvestedSeen
        /\ parked' = (alt /\ parked) /\ offset' = IF alt THEN offset ELSE 0
        /\ UNCHANGED <<scrolled, staged, alt>>
    BY <1>1, <1>2 DEF HostResized
  <2> QED BY <2>1, HarvestTypes, HarvestStep
<1>3. CASE view # None
  <2>1. /\ rows' \in Nat /\ hostRows' \in Nat /\ alt' \in BOOLEAN
        /\ UNCHANGED <<staged, offset, scrolled, archived, parked, stagedSeen>>
    BY <1>1, <1>3 DEF HostResized, CaptureInv, CaptureTypes, counter
  <2> QED BY <2>1, IdleStep
<1> QED BY <1>2, <1>3

\* Both rebuilds, once their log is known to continue.
LEMMA RebuildStep ==
    ASSUME CaptureInv, NEW h \in Nat, Rebuild(h), hostRows' = hostRows, Continues
    PROVE  CaptureInv'
<1>1. CaptureTypes'
  BY DEF CaptureInv, CaptureTypes, Continues, Grown, Rebuild, ResetSeen
<1> QED BY <1>1, RebuildCounts, FreshStep

\* A view starts: a harvest, the rows above the crop, a rebuild.
LEMMA StartViewStep ==
    ASSUME CaptureInv, NEW h \in Heights, StartView(h)
    PROVE  Continues /\ CaptureInv'
<1>1. h \in Nat /\ rows \in Nat /\ scrolled \in Nat
  BY MirrorAssumption DEF CaptureInv, CaptureTypes
<1>2. PICK crop \in 0..(IF alt THEN 0 ELSE Monus(rows, h)) :
          /\ scrolled' = scrolled + crop
          /\ archived' = HarvestedLines \o Lines(scrolled, scrolled')
  BY DEF StartView
<1>3. crop \in Nat BY <1>1, <1>2, MonusBounds
<1>4. scrolled' \in Nat /\ scrolled <= scrolled' BY <1>1, <1>2, <1>3
<1>5. Continues BY <1>2, <1>4, RebuildGrows
<1>6. Rebuild(h) /\ hostRows' = hostRows BY DEF StartView
<1> QED BY <1>1, <1>5, <1>6, RebuildStep

\* A view ends: a harvest and a rebuild.
LEMMA EndViewStep ==
    ASSUME CaptureInv, EndView PROVE Continues /\ CaptureInv'
<1>1. /\ archived' = HarvestedLines /\ scrolled' = scrolled
      /\ Rebuild(hostRows) /\ hostRows' = hostRows
  BY DEF EndView
<1>2. hostRows \in Nat BY DEF CaptureInv, CaptureTypes
<1> QED BY <1>1, <1>2, HarvestContinues, RebuildStep

-----------------------------------------------------------------------------
\* The invariant holds at the start.
LEMMA CaptureInit == Init => CaptureInv /\ Promise!Init
<1> SUFFICES ASSUME Init PROVE CaptureInv /\ Promise!Init OBVIOUS
<1>1. hostRows \in Nat BY MirrorAssumption DEF Init
<1>2. CaptureTypes
  <2>1. archived \in Seq(Nat)
    <3>1. << >> \in Seq(Nat) OBVIOUS
    <3> QED BY <3>1 DEF Init
  <2> QED BY <1>1, <2>1 DEF Init, CaptureTypes
<1>3. Promise!Increasing(archived) BY DEF Init, Promise!Increasing
<1>4. Older(archived, Count(parked, offset, staged, stagedSeen), scrolled)
  BY DEF Init, Older, Count, Monus
<1> QED BY <1>2, <1>3, <1>4 DEF Init, CaptureInv, Promise!Init

\* Every step keeps it and continues the log.
LEMMA CaptureStep ==
    ASSUME CaptureInv, [Next]_vars PROVE Continues /\ CaptureInv'
<1>1. CASE BeginSlice BY <1>1, BeginSliceStep
<1>2. CASE Scroll BY <1>2, ScrollStep
<1>3. CASE SwitchScreen
  <2>1. /\ alt' \in BOOLEAN
        /\ UNCHANGED <<rows, hostRows, staged, offset, scrolled, archived,
                       parked, stagedSeen>>
    BY <1>3 DEF SwitchScreen, counter
  <2>2. rows' \in Nat /\ hostRows' \in Nat
    BY <2>1 DEF CaptureInv, CaptureTypes
  <2> QED BY <2>1, <2>2, IdleStep
<1>4. CASE EndSlice BY <1>4, EndSliceStep
<1>5. ASSUME NEW h \in Heights, StartView(h) PROVE Continues /\ CaptureInv'
  BY <1>5, StartViewStep
<1>6. ASSUME NEW h \in Heights, HostResized(h) PROVE Continues /\ CaptureInv'
  BY <1>6, HostResizedStep
<1>7. CASE EndView BY <1>7, EndViewStep
<1>8. CASE UNCHANGED vars
  BY <1>8, IdleStep DEF vars, parser, counter, CaptureInv, CaptureTypes
<1> QED BY <1>1, <1>2, <1>3, <1>4, <1>5, <1>6, <1>7, <1>8 DEF Next

\* process, start_view, end_view and host_resized implement Scrollback: a
\* line is archived at most once, in the order in which the lines scrolled
\* off, and never changed, for every size of the staging buffer.
THEOREM CaptureImplementsScrollback == Spec => ArchiveAppends
<1>1. ASSUME CaptureInv, [Next]_vars
      PROVE  Continues /\ CaptureInv'
  BY <1>1, CaptureStep
<1>2. ASSUME CaptureInv, Continues PROVE Promise!Next
  <2>1. archived \in Seq(Nat) /\ Promise!Increasing(archived)
    BY <1>2 DEF CaptureInv, CaptureTypes
  <2>2. SubSeq(archived', 1, Len(archived)) = archived
    BY <1>2, <2>1, GrownKeepsPrefix DEF Continues
  <2> QED BY <1>2, <2>2 DEF Continues, Grown, Promise!Next, Promise!ScrollOff,
                            Promise!Kept, Promise!Increasing
<1> QED BY <1>1, <1>2, CaptureInit, PTL DEF Spec, ArchiveAppends, Promise!Spec

-----------------------------------------------------------------------------
(* Nothing is forgotten: the counter is exact.                             *)

\* The log and what was thrown away are all but the k newest of n lines.
Covers(log, gone, k, n) == Range(log) \cup gone = 1..n - k

New == Count(parked, offset, staged, stagedSeen)

\* The growth of the buffer is only counted while it has room: without the
\* parked offset, a slice or a stay on the alternate screen began with an
\* empty buffer.
CounterExact ==
    /\ pc \in {"idle", "slice"}
    /\ staged <= Stage
    /\ New <= staged
    /\ parked => 0 < offset /\ offset <= staged
    /\ pc = "idle" /\ ~alt => ~parked /\ stagedSeen = staged
    /\ ~parked /\ (pc = "slice" \/ alt) => stagedSeen = 0

ForgetInv == CounterExact /\ Covers(archived, discarded, New, scrolled)

\* The lines of two logs.
LEMMA RangeAppends ==
    ASSUME NEW s \in Seq(Nat), NEW u \in Seq(Nat)
    PROVE  Range(s \o u) = Range(s) \cup Range(u)
<1>1. Len(s \o u) = Len(s) + Len(u) BY ConcatLength
<1>2. \A i \in 1..Len(s) : (s \o u)[i] = s[i] OBVIOUS
<1>3. \A j \in 1..Len(u) : (s \o u)[Len(s) + j] = u[j] OBVIOUS
<1>4. \A i \in 1..Len(s) + Len(u) :
          i \in 1..Len(s) \/ \E j \in 1..Len(u) : i = Len(s) + j
  <2> TAKE i \in 1..Len(s) + Len(u)
  <2>1. CASE i <= Len(s) BY <2>1
  <2>2. CASE i > Len(s)
    <3>1. i - Len(s) \in 1..Len(u) /\ i = Len(s) + (i - Len(s)) BY <2>2
    <3> QED BY <3>1
  <2> QED BY <2>1, <2>2
<1>5. /\ \A i \in 1..Len(s) : i \in 1..Len(s) + Len(u)
      /\ \A j \in 1..Len(u) : Len(s) + j \in 1..Len(s) + Len(u)
  OBVIOUS
<1>6. /\ DOMAIN (s \o u) = 1..Len(s) + Len(u)
      /\ DOMAIN s = 1..Len(s) /\ DOMAIN u = 1..Len(u)
  BY <1>1
<1>7. ASSUME NEW x \in Range(s \o u) PROVE x \in Range(s) \cup Range(u)
  <2>1. PICK i \in 1..Len(s) + Len(u) : x = (s \o u)[i] BY <1>6 DEF Range
  <2>2. CASE i \in 1..Len(s) BY <2>1, <2>2, <1>2, <1>6 DEF Range
  <2>3. CASE \E j \in 1..Len(u) : i = Len(s) + j
    <3>1. PICK j \in 1..Len(u) : i = Len(s) + j BY <2>3
    <3>2. x = u[j] BY <2>1, <3>1, <1>3
    <3> QED BY <3>2, <1>6 DEF Range
  <2> QED BY <2>2, <2>3, <1>4
<1>8. ASSUME NEW x \in Range(s) PROVE x \in Range(s \o u)
  <2>1. PICK i \in 1..Len(s) : x = s[i] BY <1>6 DEF Range
  <2>2. x = (s \o u)[i] /\ i \in 1..Len(s) + Len(u) BY <2>1, <1>2, <1>5
  <2> QED BY <2>2, <1>6 DEF Range
<1>9. ASSUME NEW x \in Range(u) PROVE x \in Range(s \o u)
  <2>1. PICK j \in 1..Len(u) : x = u[j] BY <1>6 DEF Range
  <2>2. x = (s \o u)[Len(s) + j] /\ Len(s) + j \in 1..Len(s) + Len(u)
    BY <2>1, <1>3, <1>5
  <2> QED BY <2>2, <1>6 DEF Range
<1> QED BY <1>7, <1>8, <1>9

LEMMA RangeOfLines ==
    ASSUME NEW a \in Nat, NEW b \in Nat, a <= b
    PROVE  Range(Lines(a, b)) = a + 1..b
<1>1. /\ DOMAIN Lines(a, b) = 1..b - a
      /\ \A i \in 1..b - a : Lines(a, b)[i] = a + i
  BY LinesRange
<1>2. \A n \in a + 1..b : n - a \in 1..b - a /\ n = a + (n - a) OBVIOUS
<1>3. \A i \in 1..b - a : a + i \in a + 1..b OBVIOUS
<1>4. ASSUME NEW n \in a + 1..b PROVE n \in Range(Lines(a, b))
  <2>1. n - a \in 1..b - a /\ Lines(a, b)[n - a] = a + (n - a) BY <1>1, <1>2
  <2>2. Lines(a, b)[n - a] = n BY <2>1
  <2> QED BY <2>1, <2>2, <1>1 DEF Range
<1>5. ASSUME NEW n \in Range(Lines(a, b)) PROVE n \in a + 1..b
  <2>1. PICK i \in 1..b - a : n = Lines(a, b)[i] BY <1>1 DEF Range
  <2> QED BY <2>1, <1>1, <1>3
<1> QED BY <1>4, <1>5

\* Archiving the k newest lines.
LEMMA CoversMore ==
    ASSUME NEW log \in Seq(Nat), NEW gone, NEW k \in Nat, NEW n \in Nat, NEW m \in Nat,
           k <= n, n <= m, Covers(log, gone, k, n)
    PROVE  Covers(log \o Lines(n - k, m), gone, 0, m)
<1>1. n - k \in Nat /\ n - k <= m OBVIOUS
<1>2. Range(log \o Lines(n - k, m)) = Range(log) \cup ((n - k) + 1..m)
  <2>1. Lines(n - k, m) \in Seq(Nat) BY <1>1, LinesRange
  <2>2. Range(Lines(n - k, m)) = (n - k) + 1..m BY <1>1, RangeOfLines
  <2> QED BY <2>1, <2>2, RangeAppends
<1>3. (1..n - k) \cup ((n - k) + 1..m) = 1..m - 0 BY <1>1
<1> QED BY <1>2, <1>3 DEF Covers

\* The counter, and the kinds of what it is computed from.
LEMMA NewIsNat ==
    ASSUME CaptureInv
    PROVE  /\ New \in Nat /\ New <= scrolled
           /\ staged \in Nat /\ offset \in Nat /\ stagedSeen \in Nat
           /\ scrolled \in Nat /\ alt \in BOOLEAN /\ parked \in BOOLEAN
           /\ archived \in Seq(Nat)
BY CountIsNat DEF CaptureInv, CaptureTypes, New, Older

\* What StagingPremise counts.
LEMMA PendingIsNew ==
    ASSUME CaptureInv, ForgetInv
    PROVE  /\ Pending = (scrolled - New) + 1..scrolled
           /\ Cardinality(Pending) = New
<1>1. /\ New \in Nat /\ scrolled \in Nat /\ New <= scrolled
      /\ Range(archived) \cup discarded = 1..scrolled - New
  BY NewIsNat DEF ForgetInv, Covers
<1>2. (1..scrolled) \ (1..scrolled - New) = (scrolled - New) + 1..scrolled
  BY <1>1
<1>3. Pending = (scrolled - New) + 1..scrolled BY <1>1, <1>2 DEF Pending
<1>4. (scrolled - New) + 1 \in Int /\ scrolled \in Int BY <1>1
<1>5. Cardinality((scrolled - New) + 1..scrolled)
          = IF (scrolled - New) + 1 > scrolled THEN 0
            ELSE scrolled - ((scrolled - New) + 1) + 1
  BY <1>4, FS_Interval
<1> QED BY <1>1, <1>3, <1>5

\* A harvest archives everything that waits; the alternate screen defers it.
LEMMA HarvestCovers ==
    ASSUME CaptureInv, ForgetInv, ~alt
    PROVE  Covers(HarvestedLines, discarded, 0, scrolled)
<1>1. /\ New \in Nat /\ scrolled \in Nat /\ New <= scrolled /\ staged \in Nat
      /\ New <= staged /\ archived \in Seq(Nat)
  BY NewIsNat DEF ForgetInv, CounterExact
<1>2. Least(NewRows, staged) = New
  BY <1>1, NewRowsIsCount DEF New, Least
<1>3. HarvestedLines = archived \o Lines(scrolled - New, scrolled)
  BY <1>2 DEF HarvestedLines, Unarchived
<1>4. Covers(archived, discarded, New, scrolled) BY DEF ForgetInv
<1> QED BY <1>1, <1>3, <1>4, CoversMore

\* A line scrolls off: the count goes up by one, for the buffer has room.
LEMMA ForgetScroll ==
    ASSUME CaptureInv, ForgetInv, Scroll PROVE ForgetInv'
<1>1. /\ New \in Nat /\ New <= scrolled /\ staged \in Nat /\ offset \in Nat
      /\ stagedSeen \in Nat /\ scrolled \in Nat /\ parked \in BOOLEAN
      /\ Stage \in Nat
  BY NewIsNat, MirrorAssumption
<1>2. New < Stage - 1 BY PendingIsNew DEF Scroll, StagingPremise
<1>3. /\ UNCHANGED <<pc, alt, archived, discarded, parked, stagedSeen>>
      /\ scrolled' = scrolled + 1 /\ pc = "slice"
      /\ staged' = Least(Stage, staged + 1)
      /\ offset' = IF offset > 0 THEN Least(staged', offset + 1) ELSE 0
  BY DEF Scroll, counter
<1>4. /\ staged <= Stage /\ New <= staged
      /\ parked => 0 < offset /\ offset <= staged
      /\ ~parked => stagedSeen = 0
  BY <1>3 DEF ForgetInv, CounterExact
<1>5. /\ Least(Stage, staged + 1) \in Nat /\ Least(Stage, staged + 1) <= Stage
      /\ parked => offset + 1 <= Least(Stage, staged + 1)
      /\ New + 1 <= Least(Stage, staged + 1)
      /\ ~parked => Least(Stage, staged + 1) = New + 1
  BY <1>1, <1>2, <1>4 DEF Least, New, Count, Monus
<1>6. parked => offset' = offset + 1
  BY <1>1, <1>3, <1>4, <1>5 DEF Least
<1>7. New' = New + 1
  <2>1. CASE parked
    <3>1. New' = Monus(offset + 1, 1) BY <2>1, <1>3, <1>6 DEF New, Count
    <3>2. New = Monus(offset, 1) BY <2>1 DEF New, Count
    <3> QED BY <2>1, <3>1, <3>2, <1>1, <1>4 DEF Monus
  <2>2. CASE ~parked
    <3>1. New' = Monus(New + 1, 0) BY <2>2, <1>3, <1>4, <1>5 DEF New, Count
    <3> QED BY <3>1, <1>1 DEF Monus
  <2> QED BY <2>1, <2>2
<1>8. CounterExact'
  <2>1. /\ staged' <= Stage /\ New' <= staged'
        /\ parked => 0 < offset' /\ offset' <= staged'
    BY <1>1, <1>3, <1>5, <1>6, <1>7
  <2> QED BY <1>3, <1>4, <2>1 DEF CounterExact
<1>9. Covers(archived, discarded, New + 1, scrolled + 1)
  <2>1. (scrolled + 1) - (New + 1) = scrolled - New BY <1>1
  <2> QED BY <2>1 DEF ForgetInv, Covers
<1>10. Covers(archived, discarded, New, scrolled)'
  BY <1>3, <1>7, <1>9 DEF Covers
<1> QED BY <1>8, <1>10 DEF ForgetInv

\* A step after which nothing is new.
LEMMA ForgetFresh ==
    ASSUME CounterExact', New' = 0, Covers(archived', discarded', 0, scrolled')
    PROVE  ForgetInv'
BY DEF ForgetInv, Covers

\* A step that changes nothing the counter is computed from.
LEMMA ForgetIdle ==
    ASSUME ForgetInv, CounterExact',
           UNCHANGED <<parked, offset, staged, stagedSeen, archived, discarded, scrolled>>
    PROVE  ForgetInv'
BY DEF ForgetInv, Covers, New

\* A slice begins with nothing new, unless the harvest is still deferred.
LEMMA ForgetBeginSlice ==
    ASSUME CaptureInv, ForgetInv, BeginSlice PROVE ForgetInv'
<1>1. /\ UNCHANGED <<staged, alt, stagedSeen, scrolled, archived, discarded>>
      /\ pc = "idle" /\ pc' = "slice" /\ Park
  BY DEF BeginSlice, ghosts
<1>2. staged \in Nat /\ offset \in Nat /\ parked \in BOOLEAN /\ alt \in BOOLEAN
  BY NewIsNat
<1>3. CASE alt
  <2>1. UNCHANGED <<offset, parked>> BY <1>1, <1>3 DEF Park
  <2>2. CounterExact' BY <1>1, <1>3, <2>1 DEF ForgetInv, CounterExact, New
  <2> QED BY <1>1, <2>1, <2>2, ForgetIdle
<1>4. CASE ~alt
  <2>1. ~parked /\ stagedSeen = staged
    BY <1>1, <1>4 DEF ForgetInv, CounterExact
  <2>2. New = 0 BY <1>2, <2>1, MonusBounds DEF New, Count
  <2>3. \/ staged > 0 /\ parked' /\ offset' = 1
        \/ staged = 0 /\ ~parked' /\ offset' = 0
    BY <1>1, <1>2, <1>4, <2>1 DEF Park
  <2>4. New' = 0
    <3>1. CASE parked' /\ offset' = 1
      BY <3>1 DEF New, Count, Monus
    <3>2. CASE staged = 0 /\ ~parked'
      <4>1. New' = Monus(staged, staged) BY <1>1, <2>1, <3>2 DEF New, Count
      <4> QED BY <1>2, <4>1, MonusBounds
    <3> QED BY <2>3, <3>1, <3>2
  <2>5. CounterExact'
    BY <1>1, <1>2, <2>1, <2>3, <2>4 DEF ForgetInv, CounterExact
  <2>6. Covers(archived', discarded', 0, scrolled')
    BY <1>1, <2>2 DEF ForgetInv, Covers
  <2> QED BY <2>4, <2>5, <2>6, ForgetFresh
<1> QED BY <1>2, <1>3, <1>4

\* The harvests of EndSlice and host_resized.
LEMMA ForgetHarvest ==
    ASSUME CaptureInv, ForgetInv, pc' = "idle",
           archived' = HarvestedLines, stagedSeen' = HarvestedSeen,
           parked' = (alt /\ parked), offset' = IF alt THEN offset ELSE 0,
           UNCHANGED <<scrolled, staged, alt, discarded>>
    PROVE  ForgetInv'
<1>1. staged \in Nat /\ offset \in Nat /\ parked \in BOOLEAN /\ alt \in BOOLEAN
  BY NewIsNat
<1>2. CASE alt
  <2>1. UNCHANGED <<archived, stagedSeen, parked, offset>>
    BY <1>1, <1>2 DEF HarvestedLines, HarvestedSeen
  <2>2. CounterExact' BY <1>2, <2>1 DEF ForgetInv, CounterExact, New
  <2> QED BY <2>1, <2>2, ForgetIdle
<1>3. CASE ~alt
  <2>1. ~parked' /\ stagedSeen' = staged BY <1>3 DEF HarvestedSeen
  <2>2. New' = Monus(staged, staged) BY <2>1 DEF New, Count
  <2>3. New' = 0 BY <1>1, <2>2, MonusBounds
  <2>4. CounterExact' BY <1>1, <1>3, <2>1, <2>3 DEF ForgetInv, CounterExact
  <2>5. Covers(HarvestedLines, discarded, 0, scrolled) BY <1>3, HarvestCovers
  <2> QED BY <2>3, <2>4, <2>5, ForgetFresh
<1> QED BY <1>1, <1>2, <1>3

\* A rebuild: what a deferred harvest would still archive is thrown away.
LEMMA ForgetRebuild ==
    ASSUME CaptureInv, ForgetInv, NEW h, Rebuild(h), pc' = "idle",
           NEW crop \in Nat, alt => crop = 0, scrolled' = scrolled + crop,
           archived' = HarvestedLines \o Lines(scrolled, scrolled')
    PROVE  ForgetInv'
<1>1. /\ ~parked' /\ staged' = 0 /\ stagedSeen' = 0 /\ offset' = 0 /\ ~alt'
      /\ discarded' = IF alt THEN discarded \cup Pending ELSE discarded
  BY DEF Rebuild, ResetSeen
<1>2. New' = 0 BY <1>1 DEF New, Count, Monus
<1>3. CounterExact'
  <2>1. 0 <= Stage BY MirrorAssumption
  <2> QED BY <1>1, <1>2, <2>1 DEF CounterExact
<1>4. scrolled \in Nat /\ archived \in Seq(Nat) /\ New \in Nat /\ New <= scrolled
  BY NewIsNat
<1>5. HarvestedLines \in Seq(Nat) BY HarvestGrows DEF Grown
<1>6. CASE alt
  <2>1. scrolled' = scrolled BY <1>4, <1>6
  <2>2. HarvestedLines = archived BY <1>6 DEF HarvestedLines
  <2>3. Lines(scrolled, scrolled) \in Seq(Nat) BY <1>4, LinesRange
  <2>4. Range(Lines(scrolled, scrolled)) = {}
    <3>1. Range(Lines(scrolled, scrolled)) = scrolled + 1..scrolled
      BY <1>4, RangeOfLines
    <3>2. scrolled + 1..scrolled = {} BY <1>4
    <3> QED BY <3>1, <3>2
  <2>5. Range(archived') = Range(archived)
    <3>1. archived' = archived \o Lines(scrolled, scrolled) BY <2>1, <2>2
    <3>2. Range(archived \o Lines(scrolled, scrolled))
              = Range(archived) \cup Range(Lines(scrolled, scrolled))
      BY <1>4, <2>3, RangeAppends
    <3> QED BY <3>1, <3>2, <2>4
  <2>6. discarded' = discarded \cup ((scrolled - New) + 1..scrolled)
    BY <1>1, <1>6, PendingIsNew
  <2>7. Range(archived) \cup discarded = 1..scrolled - New
    BY DEF ForgetInv, Covers
  <2>8. (1..scrolled - New) \cup ((scrolled - New) + 1..scrolled) = 1..scrolled - 0
    BY <1>4
  <2>9. Range(archived') \cup discarded' = 1..scrolled - 0
    BY <2>5, <2>6, <2>7, <2>8
  <2> QED BY <1>2, <1>3, <2>1, <2>9, ForgetFresh DEF Covers
<1>7. CASE ~alt
  <2>1. Covers(HarvestedLines, discarded, 0, scrolled) BY <1>7, HarvestCovers
  <2>2. /\ scrolled + crop \in Nat /\ scrolled <= scrolled + crop
        /\ scrolled - 0 = scrolled /\ 0 <= scrolled /\ 0 \in Nat
    BY <1>4
  <2>3. Covers(HarvestedLines \o Lines(scrolled - 0, scrolled + crop), discarded, 0,
               scrolled + crop)
    BY <1>4, <1>5, <2>1, <2>2, CoversMore
  <2>4. Covers(archived', discarded', 0, scrolled')
    BY <1>1, <1>7, <2>2, <2>3
  <2> QED BY <1>2, <1>3, <2>4, ForgetFresh
<1>8. alt \in BOOLEAN BY NewIsNat
<1> QED BY <1>6, <1>7, <1>8

\* A view ends: a rebuild that crops nothing.
LEMMA ForgetEndView ==
    ASSUME CaptureInv, ForgetInv, EndView PROVE ForgetInv'
<1>1. /\ archived' = HarvestedLines /\ scrolled' = scrolled
      /\ Rebuild(hostRows) /\ pc' = "idle"
  BY DEF EndView
<1>2. scrolled \in Nat BY NewIsNat
<1>3. HarvestedLines \in Seq(Nat) BY HarvestGrows DEF Grown
<1>4. HarvestedLines \o Lines(scrolled, scrolled) = HarvestedLines
  <2>1. Lines(scrolled, scrolled) \in Seq(Nat) /\ Len(Lines(scrolled, scrolled)) = 0
    BY <1>2, LinesRange
  <2> QED BY <1>3, <2>1
<1>5. scrolled' = scrolled + 0 BY <1>1, <1>2
<1> QED BY <1>1, <1>4, <1>5, ForgetRebuild

\* Every step keeps the counter exact.
LEMMA ForgetStep ==
    ASSUME CaptureInv, ForgetInv, [Next]_vars PROVE ForgetInv'
<1>1. CASE BeginSlice BY <1>1, ForgetBeginSlice
<1>2. CASE Scroll BY <1>2, ForgetScroll
<1>3. CASE SwitchScreen
  <2>1. /\ pc = "slice" /\ pc' = "slice"
        /\ UNCHANGED <<parked, offset, staged, stagedSeen, archived, discarded, scrolled>>
    BY <1>3 DEF SwitchScreen, counter
  <2>2. CounterExact' BY <2>1 DEF ForgetInv, CounterExact, New
  <2> QED BY <2>1, <2>2, ForgetIdle
<1>4. CASE EndSlice
  <2>1. /\ pc' = "idle"
        /\ archived' = HarvestedLines /\ stagedSeen' = HarvestedSeen
        /\ parked' = (alt /\ parked) /\ offset' = IF alt THEN offset ELSE 0
        /\ UNCHANGED <<scrolled, staged, alt, discarded>>
    BY <1>4 DEF EndSlice, ghosts
  <2> QED BY <2>1, ForgetHarvest
<1>5. ASSUME NEW h \in Heights, StartView(h) PROVE ForgetInv'
  <2>1. PICK crop \in 0..(IF alt THEN 0 ELSE Monus(rows, h)) :
            /\ scrolled' = scrolled + crop
            /\ archived' = HarvestedLines \o Lines(scrolled, scrolled')
    BY <1>5 DEF StartView
  <2>2. Rebuild(h) /\ pc' = "idle" BY <1>5 DEF StartView
  <2>3. crop \in Nat /\ (alt => crop = 0)
    <3>1. h \in Nat /\ rows \in Nat
      BY MirrorAssumption DEF CaptureInv, CaptureTypes
    <3> QED BY <2>1, <3>1, MonusBounds
  <2> QED BY <2>1, <2>2, <2>3, ForgetRebuild
<1>6. ASSUME NEW h \in Heights, HostResized(h) PROVE ForgetInv'
  <2>1. CASE view = None
    <3>1. /\ pc' = "idle"
          /\ archived' = HarvestedLines /\ stagedSeen' = HarvestedSeen
          /\ parked' = (alt /\ parked) /\ offset' = IF alt THEN offset ELSE 0
          /\ UNCHANGED <<scrolled, staged, alt, discarded>>
      BY <1>6, <2>1 DEF HostResized, ghosts
    <3> QED BY <3>1, ForgetHarvest
  <2>2. CASE view # None
    <3>1. UNCHANGED <<pc, alt, parked, offset, staged, stagedSeen, archived,
                      discarded, scrolled>>
      BY <1>6, <2>2 DEF HostResized, counter, ghosts
    <3>2. CounterExact' BY <3>1 DEF ForgetInv, CounterExact, New
    <3> QED BY <3>1, <3>2, ForgetIdle
  <2> QED BY <2>1, <2>2
<1>7. CASE EndView BY <1>7, ForgetEndView
<1>8. CASE UNCHANGED vars
  <2>1. UNCHANGED <<pc, alt, parked, offset, staged, stagedSeen, archived,
                    discarded, scrolled>>
    BY <1>8 DEF vars, parser, counter, ghosts
  <2>2. CounterExact' BY <2>1 DEF ForgetInv, CounterExact, New
  <2> QED BY <2>1, <2>2, ForgetIdle
<1> QED BY <1>1, <1>2, <1>3, <1>4, <1>5, <1>6, <1>7, <1>8 DEF Next

\* For every staging buffer, slice, height and order of events in which fewer
\* lines than the buffer holds wait for a harvest (StagingPremise): whenever
\* the program is back on the primary screen after a slice, every line that
\* scrolled off has been archived or was thrown away by a rebuild on the
\* alternate screen.
THEOREM NothingIsForgotten == Spec => []NothingForgotten
<1>1. Init => ForgetInv
  <2> SUFFICES ASSUME Init PROVE ForgetInv OBVIOUS
  <2>1. New = 0 BY DEF Init, New, Count, Monus
  <2>2. CounterExact
    <3>1. 0 <= Stage BY MirrorAssumption
    <3> QED BY <2>1, <3>1 DEF Init, CounterExact
  <2>3. Range(archived) = {}
    <3>1. Range(<< >>) = {} BY DEF Range
    <3> QED BY <3>1 DEF Init
  <2>4. 1..0 - 0 = {} OBVIOUS
  <2>5. Covers(archived, discarded, New, scrolled)
    BY <2>1, <2>3, <2>4 DEF Init, Covers
  <2> QED BY <2>2, <2>5 DEF ForgetInv
<1>2. ASSUME CaptureInv, ForgetInv, [Next]_vars
      PROVE  CaptureInv' /\ ForgetInv'
  BY <1>2, CaptureStep, ForgetStep
<1>3. ASSUME CaptureInv, ForgetInv PROVE NothingForgotten
  <2> SUFFICES ASSUME pc = "idle", ~alt
               PROVE  Range(archived) \cup discarded = 1..scrolled
    BY DEF NothingForgotten
  <2>1. ~parked /\ stagedSeen = staged BY <1>3 DEF ForgetInv, CounterExact
  <2>2. staged \in Nat /\ scrolled \in Nat BY <1>3, NewIsNat
  <2>3. New = 0 BY <2>1, <2>2, MonusBounds DEF New, Count
  <2> QED BY <1>3, <2>2, <2>3 DEF ForgetInv, Covers
<1> QED BY <1>1, <1>2, <1>3, CaptureInit, PTL DEF Spec

-----------------------------------------------------------------------------
(* The archive.                                                            *)

-----------------------------------------------------------------------------
(* Largest and smallest.                                                   *)

\* A set of numbers that is not empty and has a bound has a largest number:
\* its distance from the bound is least, and < is well-founded.
LEMMA LargestExists ==
    ASSUME NEW n \in Nat, NEW S \in SUBSET (0..n), S # {}
    PROVE  \E x \in S : \A y \in S : x >= y
<1> DEFINE T == {n - x : x \in S}
<1>1. T \subseteq Nat /\ T # {}
  <2>1. T \subseteq Nat
    OBVIOUS
  <2>2. PICK x \in S : TRUE
    OBVIOUS
  <2>3. n - x \in T
    OBVIOUS
  <2>4. QED BY <2>1, <2>3
<1>2. IsWellFoundedOn(OpToRel(<, Nat), Nat)
  BY NatLessThanWellFounded
<1>3. PICK d \in T : \A e \in T : ~(<<e, d>> \in OpToRel(<, Nat))
  <2> HIDE DEF T
  <2>1. QED BY <1>1, <1>2, WFMin
<1>4. \A e \in T : ~(e < d)
  BY <1>1, <1>3 DEF OpToRel
<1>5. PICK x \in S : d = n - x
  BY <1>3
<1>6. \A y \in S : ~(n - y < n - x)
  BY <1>4, <1>5
<1>7. ASSUME NEW y \in S
      PROVE  x >= y
  <2>1. ~(n - y < n - x) /\ x \in 0..n /\ y \in 0..n
    BY <1>6
  <2>2. QED BY <2>1
<1>8. QED BY <1>7

LEMMA MaxIsLargest ==
    ASSUME NEW n \in Nat, NEW S \in SUBSET (0..n), S # {}
    PROVE  Max(S) \in S /\ \A y \in S : Max(S) >= y
  BY LargestExists DEF Max

LEMMA PairBounds ==
    ASSUME NEW a \in Nat, NEW b \in Nat
    PROVE  /\ Max({a, b}) = IF a >= b THEN a ELSE b
           /\ Min({a, b}) = IF a <= b THEN a ELSE b
<1>1. \E m : m = Max({a, b})
  OBVIOUS
<1>2. Max({a, b}) \in {a, b} /\ \A y \in {a, b} : Max({a, b}) >= y
  <2>1. \E x \in {a, b} : \A y \in {a, b} : x >= y
    OBVIOUS
  <2>2. QED BY <2>1 DEF Max
<1>3. Min({a, b}) \in {a, b} /\ \A y \in {a, b} : Min({a, b}) <= y
  <2>1. \E x \in {a, b} : \A y \in {a, b} : x <= y
    OBVIOUS
  <2>2. QED BY <2>1 DEF Min
<1>4. QED BY <1>2, <1>3

-----------------------------------------------------------------------------
(* What a request returns.                                                 *)

Retained == [index : Nat, size : Nat]

HistoryTypes ==
    /\ lines \in Seq(Retained) /\ next \in Nat /\ Len(lines) <= next
    /\ splice \in Nat /\ before \in Nat \cup {Unset} /\ got \in Seq(Nat)

\* The lines of the archive are consecutive: each is the one its index names.
Consecutive == \A j \in 1..Len(lines) : lines[j].index = oldest + j - 1

LEMMA AppendFacts ==
    ASSUME NEW T, NEW s \in Seq(T), NEW x \in T
    PROVE  /\ Append(s, x) \in Seq(T) /\ Len(Append(s, x)) = Len(s) + 1
           /\ \A j \in 1..Len(s) : Append(s, x)[j] = s[j]
           /\ Append(s, x)[Len(s) + 1] = x
  OBVIOUS

LEMMA TailFacts ==
    ASSUME NEW T, NEW s \in Seq(T), s # << >>
    PROVE  /\ Tail(s) \in Seq(T) /\ Len(Tail(s)) = Len(s) - 1
           /\ \A j \in 1..(Len(s) - 1) : Tail(s)[j] = s[j + 1]
  OBVIOUS

LEMMA ConcatFacts ==
    ASSUME NEW T, NEW s \in Seq(T), NEW t \in Seq(T)
    PROVE  /\ s \o t \in Seq(T) /\ Len(s \o t) = Len(s) + Len(t)
           /\ \A j \in 1..Len(s) : (s \o t)[j] = s[j]
           /\ \A j \in 1..Len(t) : (s \o t)[Len(s) + j] = t[j]
  OBVIOUS

LEMMA OldestType ==
    ASSUME HistoryTypes
    PROVE  oldest \in Nat /\ oldest <= next /\ next - oldest = Len(lines)
  BY DEF HistoryTypes, oldest

LEMMA LimitType ==
    ASSUME NEW limit \in Limits \cup {Unset}
    PROVE  Limit(limit) \in Nat
<1>1. FetchLimit \in Nat /\ Limits \subseteq Nat
  BY HistoryAssumption
<1>2. CASE limit = Unset
  BY <1>1, <1>2 DEF Limit
<1>3. CASE limit # Unset
  BY <1>1, <1>3, PairBounds DEF Limit
<1>4. QED BY <1>2, <1>3

\* Whatever the budget, fetch returns retained lines, and no more than the
\* limit; and it returns at least one if there is one and the limit allows.
LEMMA StartInRange ==
    ASSUME HistoryTypes, NEW end \in Nat, NEW limit \in Nat, oldest <= end
    PROVE  /\ Start(end, limit) \in oldest..end
           /\ end - Start(end, limit) <= limit
           /\ oldest < end /\ limit # 0 => Start(end, limit) < end
<1>1. oldest \in Nat
  BY OldestType
<1>a. PICK d \in Nat : d = end - oldest
  BY <1>1
<1>2. PICK n \in Nat : /\ n = Min({limit, d})
                       /\ n <= limit /\ n <= d
                       /\ n = limit \/ n = d
  <2>1. Min({limit, d}) = IF limit <= d THEN limit ELSE d
    BY PairBounds
  <2>2. QED BY <2>1
<1> DEFINE S == {k \in 0..n : Fits(end, k)}
<1>3. S \in SUBSET (0..n)
  OBVIOUS
<1>4. 0 \in S
  <2>1. (end - 0)..(end - 2) = {}
    OBVIOUS
  <2>2. Fits(end, 0)
    BY <2>1 DEF Fits
  <2>3. QED BY <2>2
<1>5. n # 0 => 1 \in S
  <2>1. (end - 1)..(end - 2) = {}
    OBVIOUS
  <2>2. Fits(end, 1)
    BY <2>1 DEF Fits
  <2>3. QED BY <2>2
<1>6. Start(end, limit) = end - Max(S)
  BY <1>a, <1>2 DEF Start
<1>7. Max(S) \in S /\ \A y \in S : Max(S) >= y
  <2> HIDE DEF S
  <2>1. QED BY <1>3, <1>4, MaxIsLargest
<1>8. PICK k \in 0..n : k = Max(S) /\ (n # 0 => k >= 1)
  BY <1>5, <1>7
<1>9. Start(end, limit) = end - k
  BY <1>6, <1>8
<1>10. PICK low \in Nat : low = oldest
  BY <1>1
<1>11. d = end - low /\ low <= end
  BY <1>a, <1>10
<1>12. k \in Nat /\ k <= n /\ k <= d /\ k <= limit
  BY <1>2, <1>8
<1>13. end - k \in low..end /\ end - (end - k) <= limit
  BY <1>11, <1>12
<1>14. low < end /\ limit # 0 => end - k < end
  BY <1>2, <1>8, <1>11
<1>15. QED BY <1>9, <1>10, <1>13, <1>14

\* A request ends at a retained line, or where the last page began.
LEMMA EndInRange ==
    ASSUME HistoryTypes, NEW b \in Nat, b <= next
    PROVE  EndOf(b) = IF b <= oldest THEN oldest ELSE b
<1>1. oldest \in Nat /\ oldest <= next /\ next \in Nat
  BY OldestType DEF HistoryTypes
<1>2. Min({b, next}) = b
  BY <1>1, PairBounds
<1>3. Max({oldest, b}) = IF oldest >= b THEN oldest ELSE b
  BY <1>1, PairBounds
<1>4. QED BY <1>1, <1>2, <1>3 DEF EndOf

-----------------------------------------------------------------------------
(* The paging client.                                                      *)

\* While the client is paging, the page it asks for next ends where what it
\* holds begins; when it has stopped, nothing older than that is retained.
\* So a page never overlaps or leaves a gap, and eviction, which only raises
\* `oldest`, cannot bring a missed line back.
PagingInv ==
    /\ HistoryTypes
    /\ Consecutive
    /\ PagesJoin
    /\ splice <= next
    /\ Len(got) <= splice
    /\ before # Unset => before = splice - Len(got)
    /\ before = Unset => splice - Len(got) <= oldest

LEMMA PushInv ==
    ASSUME PagingInv, NEW size \in LineSizes, Push(size)
    PROVE  PagingInv'
<1>1. /\ lines \in Seq(Retained) /\ next \in Nat /\ Len(lines) \in Nat
      /\ Len(lines) <= next /\ next' = next + 1
      /\ splice \in Nat /\ got \in Seq(Nat) /\ UNCHANGED <<splice, before, got>>
  BY DEF PagingInv, HistoryTypes, Push
<1>2. PICK x \in Retained : x = [index |-> next, size |-> size] /\ x.index = next
  <2>1. size \in Nat
    BY HistoryAssumption
  <2>2. [index |-> next, size |-> size] \in Retained
    BY <1>1, <2>1 DEF Retained
  <2>3. QED BY <2>2
<1>3. PICK all \in Seq(Retained) :
         /\ all = Append(lines, x) /\ Len(all) = Len(lines) + 1
         /\ \A j \in 1..Len(lines) : all[j] = lines[j]
         /\ all[Len(lines) + 1] = x
  <2>1. lines \in Seq(Retained)
    BY <1>1
  <2>2. QED BY <2>1, AppendFacts
<1>4. lines' = all \/ lines' = Tail(all)
  BY <1>2, <1>3 DEF Push
<1>5. \A j \in 1..Len(all) : all[j].index = next - Len(lines) + j - 1
  <2>1. ASSUME NEW j \in 1..Len(all)
        PROVE  all[j].index = next - Len(lines) + j - 1
    <3>1. CASE j = Len(lines) + 1
      BY <1>1, <1>2, <1>3, <3>1
    <3>2. CASE j \in 1..Len(lines)
      <4>1. lines[j].index = next - Len(lines) + j - 1
        BY <3>2 DEF PagingInv, Consecutive, oldest
      <4>2. QED BY <1>3, <3>2, <4>1
    <3>3. QED BY <1>1, <1>3, <3>1, <3>2
  <2>2. QED BY <2>1
<1>6. /\ lines' \in Seq(Retained) /\ Len(lines') <= next'
      /\ Consecutive' /\ oldest <= oldest'
  <2>1. CASE lines' = all
    BY <1>1, <1>3, <1>5, <2>1 DEF Consecutive, oldest
  <2>2. CASE lines' = Tail(all)
    <3>1. PICK r \in Seq(Retained) :
             /\ r = Tail(all) /\ Len(r) = Len(lines)
             /\ \A j \in 1..Len(r) : r[j] = all[j + 1]
      <4>1. all # << >> /\ Len(all) - 1 = Len(lines)
        BY <1>1, <1>3
      <4>2. /\ Tail(all) \in Seq(Retained) /\ Len(Tail(all)) = Len(all) - 1
            /\ \A j \in 1..(Len(all) - 1) : Tail(all)[j] = all[j + 1]
        BY <4>1, TailFacts
      <4>3. QED BY <4>1, <4>2
    <3>2. \A j \in 1..Len(r) : r[j].index = next - Len(lines) + j
      <4>1. ASSUME NEW j \in 1..Len(r)
            PROVE  r[j].index = next - Len(lines) + j
        <5>1. j + 1 \in 1..Len(all)
          BY <1>1, <1>3, <3>1
        <5>2. all[j + 1].index = next - Len(lines) + (j + 1) - 1
          BY <1>5, <5>1
        <5>3. QED BY <1>1, <3>1, <5>2
      <4>2. QED BY <4>1
    <3>3. PICK n \in Nat, m \in Nat : n = next /\ m = Len(lines) /\ m <= n
      BY <1>1
    <3>4. next' = n + 1 /\ lines' = r /\ Len(r) = m
      BY <1>1, <2>2, <3>1, <3>3
    <3>5. oldest = n - m /\ oldest' = n + 1 - m
      BY <3>3, <3>4 DEF oldest
    <3>6. \A j \in 1..m : r[j].index = n - m + j
      BY <3>1, <3>2, <3>3
    <3>7. \A j \in 1..m : r[j].index = (n + 1 - m) + j - 1
      BY <3>3, <3>6
    <3>8. Consecutive'
      BY <3>4, <3>5, <3>7 DEF Consecutive
    <3>9. r \in Seq(Retained) /\ m <= n + 1 /\ n - m <= n + 1 - m
      BY <3>1, <3>3
    <3>10. QED BY <3>4, <3>5, <3>8, <3>9
  <2>3. QED BY <1>4, <2>1, <2>2
<1>7. oldest \in Nat /\ oldest' \in Int
  BY <1>1, <1>6 DEF oldest
<1>8. HistoryTypes'
  BY <1>1, <1>6 DEF PagingInv, HistoryTypes
<1>9. PagesJoin' /\ splice' <= next' /\ Len(got') <= splice'
  BY <1>1 DEF PagingInv, PagesJoin
<1>10. before' # Unset => before' = splice' - Len(got')
  BY <1>1 DEF PagingInv
<1>11. ASSUME before' = Unset
       PROVE  splice' - Len(got') <= oldest'
  <2>1. splice - Len(got) <= oldest /\ Len(got) \in Nat
    BY <1>1, <1>11 DEF PagingInv
  <2>2. QED BY <1>1, <1>6, <1>7, <2>1
<1>12. QED BY <1>6, <1>8, <1>9, <1>10, <1>11 DEF PagingInv

LEMMA SnapshotInv ==
    ASSUME PagingInv, Snapshot
    PROVE  PagingInv'
<1>1. /\ next \in Nat /\ splice' = next /\ before' = next /\ got' = << >>
      /\ UNCHANGED <<lines, next>> /\ << >> \in Seq(Nat) /\ Len(got') = 0
  BY DEF PagingInv, HistoryTypes, Snapshot
<1>2. before' # Unset
  BY <1>1, HistoryAssumption
<1>3. HistoryTypes' /\ Consecutive'
  BY <1>1 DEF PagingInv, HistoryTypes, Consecutive, oldest
<1>4. PagesJoin'
  BY <1>1 DEF PagesJoin
<1>5. QED BY <1>1, <1>2, <1>3, <1>4 DEF PagingInv

LEMMA FetchInv ==
    ASSUME PagingInv, NEW limit \in Limits \cup {Unset}, Fetch(limit)
    PROVE  PagingInv'
<1>1. /\ HistoryTypes /\ lines \in Seq(Retained) /\ next \in Nat
      /\ splice \in Nat /\ before \in Nat /\ got \in Seq(Nat) /\ Len(got) \in Nat
      /\ splice <= next /\ Len(got) <= splice /\ before = splice - Len(got)
      /\ UNCHANGED <<lines, next, splice>>
  BY DEF PagingInv, HistoryTypes, Fetch
<1>2. /\ oldest \in Nat /\ oldest <= next /\ next - oldest = Len(lines)
      /\ Len(lines) \in Nat
  BY <1>1, OldestType
<1>3. oldest' = oldest
  BY <1>1 DEF oldest
\* The numbers of the step: the first retained line, the number of lines the
\* client holds and where they begin.
<1>4. PICK low \in Nat : low = oldest
  BY <1>2
<1>5. PICK held \in Nat : held = Len(got)
  BY <1>1
<1>6. PICK b \in Nat : b = before /\ b = splice - held /\ b <= next
  <2>1. PICK b \in Nat : b = before
    BY <1>1
  <2>2. PICK s \in Nat : s = splice /\ held <= s /\ s <= next
    BY <1>1, <1>5
  <2>3. b = s - held
    BY <1>1, <1>5, <2>1, <2>2
  <2>4. b <= s
    BY <2>2, <2>3
  <2>5. b <= next
    BY <1>1, <2>2, <2>4
  <2>6. QED BY <2>1, <2>2, <2>3, <2>5
<1>7. PICK end \in Nat : /\ end = EndOf(before) /\ low <= end /\ end <= next
                         /\ end = b \/ (b <= low /\ end = low)
  <2>1. EndOf(b) = IF b <= oldest THEN oldest ELSE b
    BY <1>1, <1>6, EndInRange
  <2>2. EndOf(before) = IF b <= low THEN low ELSE b
    BY <1>4, <1>6, <2>1
  <2>3. low <= next
    BY <1>2, <1>4
  <2>4. CASE b <= low
    BY <2>2, <2>3, <2>4
  <2>5. CASE ~(b <= low)
    BY <1>6, <2>2, <2>5
  <2>6. QED BY <2>4, <2>5
<1>8. PICK start \in Nat : /\ start = Start(end, Limit(limit))
                           /\ low <= start /\ start <= end
  <2>1. Limit(limit) \in Nat
    BY LimitType
  <2>2. oldest <= end
    BY <1>4, <1>7
  <2>3. Start(end, Limit(limit)) \in oldest..end
    BY <1>1, <2>1, <2>2, StartInRange
  <2>4. Start(end, Limit(limit)) \in low..end
    BY <1>4, <2>3
  <2>5. QED BY <2>4
<1>9. PICK n \in Nat : n = end - start
  BY <1>8
<1>10. /\ got' = [i \in 1..n |-> LineAt(start + i - 1).index] \o got
       /\ before' = IF start = low THEN Unset ELSE start
  BY <1>4, <1>7, <1>8, <1>9 DEF Fetch
<1>11. ASSUME NEW i \in 1..n
       PROVE  LineAt(start + i - 1).index = start + i - 1
  <2>1. PICK len \in Nat : len = Len(lines) /\ next = low + len
    BY <1>1, <1>2, <1>4
  <2>2. PICK j \in Int : j = start + i - 1 - low + 1
    BY <1>8
  <2>3. start + i - 1 = low + j - 1 /\ j \in 1..len
    <3>1. end <= low + len /\ low <= start /\ start <= end
      BY <1>7, <1>8, <2>1
    <3>2. QED BY <1>9, <2>2, <3>1
  <2>4. lines[j].index = low + j - 1
    BY <1>4, <2>1, <2>3 DEF PagingInv, Consecutive
  <2>5. LineAt(start + i - 1) = lines[j]
    BY <1>4, <2>2 DEF LineAt
  <2>6. QED BY <2>3, <2>4, <2>5
<1>12. PICK page \in Seq(Nat) : /\ page = [i \in 1..n |-> LineAt(start + i - 1).index]
                                /\ Len(page) = n
                                /\ \A i \in 1..n : page[i] = start + i - 1
  <2>1. \A i \in 1..n : LineAt(start + i - 1).index = start + i - 1
    BY <1>11
  <2>2. \A i \in 1..n : start + i - 1 \in Nat
    BY <1>8
  <2>3. [i \in 1..n |-> LineAt(start + i - 1).index] = [i \in 1..n |-> start + i - 1]
    BY <2>1
  <2>4. /\ [i \in 1..n |-> start + i - 1] \in Seq(Nat)
        /\ Len([i \in 1..n |-> start + i - 1]) = n
    BY <2>2
  <2>5. QED BY <2>3, <2>4
<1>13. PICK all \in Seq(Nat) :
         /\ got' = all /\ Len(all) = n + held
         /\ \A i \in 1..n : all[i] = start + i - 1
         /\ \A i \in 1..held : all[n + i] = got[i]
  <2>1. got' = page \o got /\ got \in Seq(Nat)
    BY <1>1, <1>10, <1>12
  <2>2. /\ page \o got \in Seq(Nat) /\ Len(page \o got) = Len(page) + Len(got)
        /\ \A j \in 1..Len(page) : (page \o got)[j] = page[j]
        /\ \A j \in 1..Len(got) : (page \o got)[Len(page) + j] = got[j]
    BY <2>1, ConcatFacts
  <2>3. PICK both \in Seq(Nat) : both = page \o got
    BY <2>2
  <2>4. Len(both) = n + held
    BY <1>5, <1>12, <2>2, <2>3
  <2>5. \A i \in 1..n : both[i] = start + i - 1
    BY <1>12, <2>2, <2>3
  <2>6. \A i \in 1..held : both[n + i] = got[i]
    BY <1>5, <1>12, <2>2, <2>3
  <2>7. QED BY <2>1, <2>3, <2>4, <2>5, <2>6
\* The page ends where what the client holds begins, unless all of that has
\* been evicted and the page is empty.
<1>14. PICK s \in Nat : s = splice /\ b = s - held
  BY <1>1, <1>6
<1>15. n = 0 \/ end = b
  BY <1>7, <1>8, <1>9
<1>16. n + held <= s
  BY <1>8, <1>9, <1>14, <1>15
<1>17. ASSUME NEW i \in 1..(n + held)
       PROVE  all[i] = s - (n + held) + i - 1
  <2>1. CASE i \in 1..n
    <3>1. all[i] = start + i - 1 /\ n # 0
      BY <1>13, <2>1
    <3>2. start = s - (n + held)
      <4>1. end = s - held /\ start \in Nat
        BY <1>14, <1>15, <3>1
      <4>2. QED BY <1>9, <1>14, <4>1
    <3>3. QED BY <3>1, <3>2
  <2>2. CASE i \notin 1..n
    <3>1. PICK j \in 1..held : i = n + j
      <4>1. i - n \in 1..held /\ i = n + (i - n)
        BY <2>2
      <4>2. QED BY <4>1
    <3>2. got[j] = s - held + j - 1
      BY <1>5, <1>14 DEF PagingInv, PagesJoin
    <3>3. all[i] = s - held + j - 1
      BY <1>13, <3>1, <3>2
    <3>4. QED BY <1>14, <3>1, <3>3
  <2>3. QED BY <2>1, <2>2
<1>18. splice' = s /\ Len(got') = n + held
  BY <1>1, <1>13, <1>14
<1>19. PagesJoin'
  BY <1>13, <1>17, <1>18 DEF PagesJoin
<1>20. before' # Unset => before' = s - (n + held)
  <2>1. SUFFICES ASSUME before' # Unset
                 PROVE  before' = s - (n + held)
    OBVIOUS
  <2>2. before' = start /\ start # low
    BY <1>10, <2>1
  <2>3. end = b
    BY <1>7, <1>8, <2>2
  <2>4. start = s - (n + held)
    BY <1>8, <1>9, <1>14, <2>3
  <2>5. QED BY <2>2, <2>4
<1>21. before' = Unset => s - (n + held) <= low
  <2>1. SUFFICES ASSUME before' = Unset
                 PROVE  s - (n + held) <= low
    OBVIOUS
  <2>2. start = low
    BY <1>8, <1>10, <2>1, HistoryAssumption
  <2>3. n = end - low
    BY <1>9, <2>2
  <2>4. b <= end
    <3>1. b <= low => b <= end
      BY <1>8, <2>2
    <3>2. QED BY <1>7, <3>1
  <2>5. b = s - held
    BY <1>14
  <2>6. QED BY <2>3, <2>4, <2>5
<1>22. before' \in Nat \cup {Unset}
  BY <1>8, <1>10
<1>23. HistoryTypes' /\ Consecutive'
  BY <1>1, <1>3, <1>13, <1>22 DEF PagingInv, HistoryTypes, Consecutive
<1>24. /\ splice' <= next' /\ Len(got') <= splice'
       /\ before' # Unset => before' = splice' - Len(got')
       /\ before' = Unset => splice' - Len(got') <= oldest'
  <2>1. splice' <= next'
    BY <1>1
  <2>2. Len(got') <= splice'
    BY <1>16, <1>18
  <2>3. before' # Unset => before' = splice' - Len(got')
    BY <1>18, <1>20
  <2>4. before' = Unset => splice' - Len(got') <= oldest'
    BY <1>3, <1>4, <1>18, <1>21
  <2>5. QED BY <2>1, <2>2, <2>3, <2>4
<1>25. QED BY <1>19, <1>23, <1>24 DEF PagingInv

LEMMA PagingCorrect == HistorySpec => []PagingInv
<1>1. HistoryInit => PagingInv
  <2>1. SUFFICES ASSUME HistoryInit
                 PROVE  PagingInv
    OBVIOUS
  <2>2. /\ lines = << >> /\ next = 0 /\ splice = 0 /\ before = Unset /\ got = << >>
        /\ << >> \in Seq(Retained) /\ << >> \in Seq(Nat) /\ Len(<< >>) = 0
    BY <2>1 DEF HistoryInit
  <2>3. QED BY <2>2 DEF PagingInv, HistoryTypes, Consecutive, PagesJoin, oldest
<1>2. PagingInv /\ [HistoryNext]_historyVars => PagingInv'
  <2>1. ASSUME PagingInv, UNCHANGED historyVars
        PROVE  PagingInv'
    BY <2>1 DEF historyVars, PagingInv, HistoryTypes, Consecutive, PagesJoin, oldest
  <2>2. QED BY <2>1, PushInv, SnapshotInv, FetchInv DEF HistoryNext
<1>3. QED BY <1>1, <1>2, PTL DEF HistorySpec

\* For every cap, budget and limit, the pages a client has put in front of one
\* another are a gapless run of lines that ends at its splice point.
THEOREM PagesAlwaysJoin == HistorySpec => []PagesJoin
<1>1. PagingInv => PagesJoin
  BY DEF PagingInv
<1>2. QED BY <1>1, PagingCorrect, PTL

\* When `start = oldest` ends the paging, every line that is still retained
\* from before the splice point has been received.
THEOREM NothingIsMissed == HistorySpec => []NothingRetainedIsMissed
<1>1. PagingInv => NothingRetainedIsMissed
  <2>1. SUFFICES ASSUME PagingInv, before = Unset, NEW i \in oldest..(splice - 1)
                 PROVE  \E j \in 1..Len(got) : got[j] = i
    BY DEF NothingRetainedIsMissed
  <2>2. /\ splice \in Nat /\ oldest \in Nat /\ Len(got) \in Nat
        /\ splice - Len(got) <= oldest
    BY <2>1, OldestType DEF PagingInv, HistoryTypes
  <2>3. PICK j \in 1..Len(got) : j = i - (splice - Len(got)) + 1
    BY <2>2
  <2>4. got[j] = splice - Len(got) + j - 1
    BY <2>1 DEF PagingInv, PagesJoin
  <2>5. QED BY <2>2, <2>3, <2>4
<1>2. QED BY <1>1, PagingCorrect, PTL
=============================================================================
