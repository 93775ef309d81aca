---------------------------- MODULE HostViewProofs ---------------------------
(***************************************************************************)
(* Theorems about HostView: for every set of heights, however scrolls,     *)
(* diffs, view changes, resizes and refreshes follow each other, the host  *)
(* terminal shows the view's rows, and keeps the lines that scrolled off   *)
(* them.                                                                   *)
(***************************************************************************)
EXTENDS HostView, SequenceTheorems, WellFoundedInduction, TLAPS

-----------------------------------------------------------------------------
\* A screen of n rows.
Screen(s, n) == s \in Seq(Nat) /\ Len(s) = n

\* Subtraction that stops at 0.
LEMMA LessIsNat ==
    ASSUME NEW m \in Nat, NEW n \in Nat
    PROVE  /\ Less(m, n) \in Nat
           /\ Less(m, n) = IF m <= n THEN 0 ELSE m - n
BY DEF Less

\* The live region is at the bottom of the host's h rows; what of the view's
\* v rows does not fit is cropped.
LEMMA RegionFits ==
    ASSUME NEW v \in Nat, NEW h \in Nat
    PROVE  /\ RegionRows(v, h) \in 0..h
           /\ RegionRows(v, h) = IF v <= h THEN v ELSE h
           /\ Offset(v, h) \in 0..h
           /\ Offset(v, h) + RegionRows(v, h) = h
           /\ Crop(v, h) \in 0..v
           /\ Crop(v, h) + RegionRows(v, h) = v
BY DEF Less, Least, RegionRows, Offset, Crop

\* n blank rows.
LEMMA BlanksAreRows == \A n \in Nat : Screen(Blanks(n), n)
<1> TAKE n \in Nat
<1>1. Blanks(n) \in [1..n -> Nat] BY DEF Blanks
<1>2. Blanks(n) \in Seq(Nat) BY <1>1
<1>3. Len(Blanks(n)) = n BY <1>2, <1>1, LenProperties
<1> QED BY <1>2, <1>3 DEF Screen

\* The first n rows.
LEMMA TopRows ==
    ASSUME NEW s \in Seq(Nat), NEW n \in 0..Len(s)
    PROVE  /\ Screen(Top(s, n), n)
           /\ \A i \in 1..n : Top(s, n)[i] = s[i]
<1>1. Len(s) \in Nat /\ n \in Int BY LenProperties
<1>2. \A i \in 1..n : s[i] \in Nat BY <1>1, ElementOfSeq
<1>3. /\ SubSeq(s, 1, n) \in Seq(Nat)
      /\ Len(SubSeq(s, 1, n)) = IF 1 <= n THEN n - 1 + 1 ELSE 0
      /\ \A i \in 1..n - 1 + 1 : SubSeq(s, 1, n)[i] = s[1 + i - 1]
  BY <1>1, <1>2, SubSeqProperties
<1>4. \A i \in 1..n : SubSeq(s, 1, n)[i] = s[i] BY <1>3, <1>1
<1> QED BY <1>1, <1>3, <1>4 DEF Top, Screen

\* The rows from the i-th on.
LEMMA FromRows ==
    ASSUME NEW s \in Seq(Nat), NEW i \in Nat \ {0}
    PROVE  /\ Screen(From(s, i), IF i <= Len(s) THEN Len(s) - i + 1 ELSE 0)
           /\ \A k \in 1..Len(s) - i + 1 : From(s, i)[k] = s[i + k - 1]
<1>1. Len(s) \in Nat BY LenProperties
<1>2. \A k \in i..Len(s) : s[k] \in Nat BY <1>1, ElementOfSeq
<1>3. /\ SubSeq(s, i, Len(s)) \in Seq(Nat)
      /\ Len(SubSeq(s, i, Len(s))) = IF i <= Len(s) THEN Len(s) - i + 1 ELSE 0
      /\ \A k \in 1..Len(s) - i + 1 : SubSeq(s, i, Len(s))[k] = s[i + k - 1]
  BY <1>1, <1>2, SubSeqProperties
<1> QED BY <1>3 DEF From, Screen

\* The last n rows.
LEMMA BottomRows ==
    ASSUME NEW s \in Seq(Nat), NEW n \in 0..Len(s)
    PROVE  Screen(Bottom(s, n), n)
<1>1. Len(s) \in Nat /\ n \in Nat BY LenProperties
<1>2. Len(s) - n + 1 \in Nat \ {0} BY <1>1
<1>3. Screen(From(s, Len(s) - n + 1),
             IF Len(s) - n + 1 <= Len(s) THEN Len(s) - (Len(s) - n + 1) + 1 ELSE 0)
  BY <1>2, FromRows
<1>4. n = IF Len(s) - n + 1 <= Len(s) THEN Len(s) - (Len(s) - n + 1) + 1 ELSE 0
  BY <1>1
<1>5. Bottom(s, n) = From(s, Len(s) - n + 1) BY DEF Bottom, From
<1> QED BY <1>3, <1>4, <1>5

\* One screen over another: the m rows of s, then the n rows of u.
Joined(j, s, m, u, n) ==
    /\ Screen(j, m + n)
    /\ \A i \in 1..m : j[i] = s[i]
    /\ \A i \in 1..n : j[m + i] = u[i]

LEMMA JoinedRows ==
    ASSUME NEW m \in Nat, NEW n \in Nat, NEW s, NEW u, Screen(s, m), Screen(u, n)
    PROVE  Joined(s \o u, s, m, u, n)
<1>1. /\ s \o u \in Seq(Nat)
      /\ Len(s \o u) = m + n
      /\ \A i \in 1..m + n : (s \o u)[i] = IF i <= m THEN s[i] ELSE u[i - m]
  BY ConcatProperties DEF Screen
<1>2. \A i \in 1..m : (s \o u)[i] = s[i] BY <1>1
<1>3. ASSUME NEW i \in 1..n PROVE (s \o u)[m + i] = u[i]
  <2>1. m + i \in 1..m + n /\ ~(m + i <= m) /\ m + i - m = i OBVIOUS
  <2> QED BY <1>1, <2>1
<1> QED BY <1>1, <1>2, <1>3 DEF Screen, Joined

\* A terminal of h rows.
Terminal(t, h) ==
    /\ t = [back |-> t.back, rows |-> t.rows]
    /\ t.back \in Seq(Nat)
    /\ Screen(t.rows, h)

\* Newlines scroll: the screen keeps its height.
LEMMA NewlinesKeep ==
    ASSUME NEW t, NEW h \in Nat, NEW n \in Nat, Terminal(t, h)
    PROVE  Terminal(Newlines(t, n), h)
<1> DEFINE all == t.rows \o Blanks(n)
<1>1. Screen(Blanks(n), n) BY BlanksAreRows
<1>2. Screen(all, h + n) BY <1>1, JoinedRows DEF Terminal, Joined
<1>3. all \in Seq(Nat) /\ Len(all) = h + n BY <1>2 DEF Screen
<1> HIDE DEF all
<1>4. Screen(Top(all, n), n)
  <2>1. n \in 0..Len(all) BY <1>3
  <2> QED BY <1>3, <2>1, TopRows
<1>5. Screen(From(all, n + 1), h)
  <2>1. Screen(From(all, n + 1),
               IF n + 1 <= Len(all) THEN Len(all) - (n + 1) + 1 ELSE 0)
    <3>1. n + 1 \in Nat \ {0} OBVIOUS
    <3> QED BY <1>3, <3>1, FromRows
  <2>2. h = IF n + 1 <= Len(all) THEN Len(all) - (n + 1) + 1 ELSE 0 BY <1>3
  <2> QED BY <2>1, <2>2
<1>6. t.back \o Top(all, n) \in Seq(Nat)
  BY <1>4, ConcatProperties DEF Terminal, Screen
<1>7. Newlines(t, n)
        = [back |-> t.back \o Top(all, n), rows |-> From(all, n + 1)]
  BY DEF Newlines, all
<1> QED BY <1>5, <1>6, <1>7 DEF Terminal

\* Deleting the lines below row `at` blanks them.
LEMMA DeleteLinesKeeps ==
    ASSUME NEW t, NEW h \in Nat, NEW at \in Nat, NEW n \in Nat, at + n = h,
           Terminal(t, h)
    PROVE  Terminal(DeleteLines(t, at, n), h)
<1>1. t.rows \in Seq(Nat) /\ Len(t.rows) = h BY DEF Terminal, Screen
<1>2. Screen(Top(t.rows, at), at)
  <2>1. at \in 0..Len(t.rows) BY <1>1
  <2> QED BY <1>1, <2>1, TopRows
<1>3. Screen(From(t.rows, at + n + 1), 0)
  <2>1. Screen(From(t.rows, at + n + 1), IF at + n + 1 <= Len(t.rows)
                        THEN Len(t.rows) - (at + n + 1) + 1 ELSE 0)
    <3>1. at + n + 1 \in Nat \ {0} OBVIOUS
    <3> QED BY <1>1, <3>1, FromRows
  <2>2. ~(at + n + 1 <= Len(t.rows)) BY <1>1
  <2> QED BY <2>1, <2>2
<1>4. Screen(Blanks(n), n) BY BlanksAreRows
<1> DEFINE kept == Top(t.rows, at) \o From(t.rows, at + n + 1)
<1>5. Screen(kept, at + 0) BY <1>2, <1>3, JoinedRows DEF Joined
<1>6. at + 0 = at OBVIOUS
<1>7. Screen(kept, at) BY <1>5, <1>6
<1>8. Screen(kept \o Blanks(n), at + n) BY <1>7, <1>4, JoinedRows DEF Joined
<1>9. DeleteLines(t, at, n) = [t EXCEPT !.rows = kept \o Blanks(n)]
  BY DEF DeleteLines
<1> HIDE DEF kept
<1>10. DeleteLines(t, at, n) = [back |-> t.back, rows |-> kept \o Blanks(n)]
  BY <1>9 DEF Terminal
<1> QED BY <1>8, <1>10 DEF Terminal

\* Flowing text keeps the height, whether it scrolls the screen or not.
LEMMA FlowKeeps ==
    ASSUME NEW t, NEW h \in Nat, NEW at \in 0..h, NEW text \in Seq(Nat),
           Terminal(t, h)
    PROVE  Terminal(Flow(t, at, text), h)
<1> DEFINE m == at + Len(text)
           all == Top(t.rows, at) \o text
           up == Less(m, h)
<1>1. t.rows \in Seq(Nat) /\ Len(t.rows) = h BY DEF Terminal, Screen
<1>2. Len(text) \in Nat /\ at \in Nat /\ m \in Nat BY LenProperties
<1>3. Screen(Top(t.rows, at), at)
  <2>1. at \in 0..Len(t.rows) BY <1>1
  <2> QED BY <1>1, <2>1, TopRows
<1>4. Screen(text, Len(text)) BY DEF Screen
<1>5. Screen(all, m) BY <1>2, <1>3, <1>4, JoinedRows DEF Joined
<1>6. all \in Seq(Nat) /\ Len(all) = m BY <1>5 DEF Screen
<1>7. up \in Nat /\ up = IF m <= h THEN 0 ELSE m - h BY <1>2, LessIsNat
<1>8. Flow(t, at, text)
        = [back |-> t.back \o Top(all, up),
           rows |-> From(all, up + 1) \o From(t.rows, m + 1)]
  BY <1>1, <1>6 DEF Flow
<1> HIDE DEF m, all, up
<1>9. Screen(Top(all, up), up)
  <2>1. up \in 0..Len(all) BY <1>2, <1>6, <1>7
  <2> QED BY <1>6, <2>1, TopRows
<1>10. Screen(From(all, up + 1), m - up)
  <2>1. Screen(From(all, up + 1),
               IF up + 1 <= Len(all) THEN Len(all) - (up + 1) + 1 ELSE 0)
    <3>1. up + 1 \in Nat \ {0} BY <1>7
    <3> QED BY <1>6, <3>1, FromRows
  <2>2. m - up = IF up + 1 <= Len(all) THEN Len(all) - (up + 1) + 1 ELSE 0
    BY <1>2, <1>6, <1>7
  <2> QED BY <2>1, <2>2
<1>11. Screen(From(t.rows, m + 1), Less(h, m))
  <2>1. Screen(From(t.rows, m + 1),
               IF m + 1 <= Len(t.rows) THEN Len(t.rows) - (m + 1) + 1 ELSE 0)
    <3>1. m + 1 \in Nat \ {0} BY <1>2
    <3> QED BY <1>1, <3>1, FromRows
  <2>2. Less(h, m) = IF m + 1 <= Len(t.rows) THEN Len(t.rows) - (m + 1) + 1 ELSE 0
    <3>1. Less(h, m) = IF h <= m THEN 0 ELSE h - m BY <1>2, LessIsNat
    <3> QED BY <3>1, <1>1, <1>2
  <2> QED BY <2>1, <2>2
<1>12. m - up \in Nat /\ Less(h, m) \in Nat /\ (m - up) + Less(h, m) = h
  <2>1. /\ Less(h, m) \in Nat
        /\ Less(h, m) = IF h <= m THEN 0 ELSE h - m
    BY <1>2, LessIsNat
  <2> QED BY <2>1, <1>2, <1>7
<1>13. Screen(From(all, up + 1) \o From(t.rows, m + 1),
              (m - up) + Less(h, m))
  BY <1>10, <1>11, <1>12, JoinedRows DEF Joined
<1>14. t.back \o Top(all, up) \in Seq(Nat)
  BY <1>9, ConcatProperties DEF Terminal, Screen
<1> QED BY <1>8, <1>12, <1>13, <1>14 DEF Terminal

\* The rows t.rows shows in the live region of a view whose screen is `shown`.
Region(t, shown, h) == From(t.rows, Offset(Len(shown), h) + 1)

\* What of `shown` fits in the region.
LEMMA VisibleRows ==
    ASSUME NEW shown \in Seq(Nat), NEW h \in Nat
    PROVE  Screen(Visible(shown, h), RegionRows(Len(shown), h))
<1>1. Len(shown) \in Nat BY LenProperties
<1> DEFINE c == Crop(Len(shown), h)
<1>2. /\ c \in 0..Len(shown)
      /\ c + RegionRows(Len(shown), h) = Len(shown)
      /\ RegionRows(Len(shown), h) \in 0..h
  BY <1>1, RegionFits
<1>3. Visible(shown, h) = From(shown, c + 1) BY DEF Visible
<1> HIDE DEF c
<1>4. Screen(From(shown, c + 1),
             IF c + 1 <= Len(shown) THEN Len(shown) - (c + 1) + 1 ELSE 0)
  <2>1. c + 1 \in Nat \ {0} BY <1>1, <1>2
  <2> QED BY <2>1, FromRows
<1>5. RegionRows(Len(shown), h)
        = IF c + 1 <= Len(shown) THEN Len(shown) - (c + 1) + 1 ELSE 0
  BY <1>1, <1>2
<1> QED BY <1>3, <1>4, <1>5

\* A region of r rows below row `at` shows what stands there.
LEMMA RegionReads ==
    ASSUME NEW s \in Seq(Nat), NEW u \in Seq(Nat), NEW at \in Nat,
           Len(s) = at + Len(u),
           \A i \in 1..Len(u) : s[at + i] = u[i]
    PROVE  From(s, at + 1) = u
<1>1. Len(u) \in Nat BY LenProperties
<1>2. at + 1 \in Nat \ {0} OBVIOUS
<1>3. /\ Screen(From(s, at + 1),
                IF at + 1 <= Len(s) THEN Len(s) - (at + 1) + 1 ELSE 0)
      /\ \A k \in 1..Len(s) - (at + 1) + 1 : From(s, at + 1)[k] = s[at + 1 + k - 1]
  BY <1>2, FromRows
<1>4. Len(u) = (IF at + 1 <= Len(s) THEN Len(s) - (at + 1) + 1 ELSE 0)
      /\ Len(u) = Len(s) - (at + 1) + 1
  BY <1>1
<1>5. From(s, at + 1) \in Seq(Nat) /\ Len(From(s, at + 1)) = Len(u)
  BY <1>3, <1>4 DEF Screen
<1>6. ASSUME NEW k \in 1..Len(u) PROVE From(s, at + 1)[k] = u[k]
  <2>1. From(s, at + 1)[k] = s[at + 1 + k - 1] BY <1>3, <1>4
  <2>2. at + 1 + k - 1 = at + k OBVIOUS
  <2> QED BY <2>1, <2>2
<1> QED BY <1>5, <1>6, SeqEqual

\* A full repaint of the region.
LEMMA RenderFullShows ==
    ASSUME NEW t, NEW h \in Nat, NEW shown \in Seq(Nat), Terminal(t, h)
    PROVE  /\ Terminal(RenderFull(t, shown, h), h)
           /\ Region(RenderFull(t, shown, h), shown, h) = Visible(shown, h)
<1> DEFINE at == Offset(Len(shown), h)
           r == RegionRows(Len(shown), h)
           new == Visible(shown, h)
           top == Top(t.rows, at)
           rest == From(t.rows, at + Len(new) + 1)
<1>1. t.rows \in Seq(Nat) /\ Len(t.rows) = h BY DEF Terminal, Screen
<1>2. at \in 0..h /\ r \in 0..h /\ at + r = h
  <2>1. Len(shown) \in Nat BY LenProperties
  <2> QED BY <2>1, RegionFits
<1>3. Screen(new, r) BY VisibleRows
<1>4. Len(new) = r /\ new \in Seq(Nat) BY <1>3 DEF Screen
<1>5. RenderFull(t, shown, h) = [t EXCEPT !.rows = top \o new \o rest]
  BY DEF RenderFull, Paint
<1>6. RenderFull(t, shown, h) = [back |-> t.back, rows |-> top \o new \o rest]
  <2> HIDE DEF top, new, rest
  <2> QED BY <1>5 DEF Terminal
<1>7. Screen(top, at)
  <2> HIDE DEF at
  <2>1. at \in 0..Len(t.rows) BY <1>1, <1>2
  <2> QED BY <1>1, <2>1, TopRows
<1> HIDE DEF at, r, new, top
<1>8. Screen(rest, 0)
  <2>1. at + Len(new) + 1 \in Nat \ {0} BY <1>2, <1>4
  <2>2. Screen(From(t.rows, at + Len(new) + 1), IF at + Len(new) + 1 <= Len(t.rows)
                  THEN Len(t.rows) - (at + Len(new) + 1) + 1 ELSE 0)
    BY <1>1, <2>1, FromRows
  <2>3. ~(at + Len(new) + 1 <= Len(t.rows)) BY <1>1, <1>2, <1>4
  <2> QED BY <2>2, <2>3
<1> HIDE DEF rest
<1>9. at \in Nat /\ r \in Nat /\ at + r \in Nat BY <1>2
<1>10. Joined(top \o new, top, at, new, r) BY <1>3, <1>7, <1>9, JoinedRows
<1>11. Joined(top \o new \o rest, top \o new, at + r, rest, 0)
  <2>1. Screen(top \o new, at + r) BY <1>10 DEF Joined
  <2> QED BY <2>1, <1>8, <1>9, JoinedRows
<1>12. at + r + 0 = h BY <1>2
<1>13. Screen(top \o new \o rest, h) BY <1>11, <1>12 DEF Joined
<1>14. ASSUME NEW i \in 1..Len(new) PROVE (top \o new \o rest)[at + i] = new[i]
  <2>1. at + i \in 1..at + r BY <1>4, <1>9
  <2> QED BY <2>1, <1>4, <1>10, <1>11 DEF Joined
<1>15. From(top \o new \o rest, at + 1) = new
  <2>1. top \o new \o rest \in Seq(Nat) /\ Len(top \o new \o rest) = at + Len(new)
    BY <1>13, <1>2, <1>4 DEF Screen
  <2> QED BY <2>1, <1>4, <1>9, <1>14, RegionReads
<1>16. Terminal(RenderFull(t, shown, h), h) BY <1>6, <1>13 DEF Terminal
<1>17. RenderFull(t, shown, h).rows = top \o new \o rest BY <1>6
<1> QED BY <1>15, <1>16, <1>17 DEF Region, at, new

\* A repaint of the rows that changed, when the region shows the old ones.
LEMMA RenderDiffShows ==
    ASSUME NEW t, NEW h \in Nat, NEW shown \in Seq(Nat), NEW prev \in Seq(Nat),
           Terminal(t, h), Len(prev) = Len(shown),
           Region(t, prev, h) = Visible(prev, h)
    PROVE  /\ Terminal(RenderDiff(t, shown, prev, h), h)
           /\ Region(RenderDiff(t, shown, prev, h), shown, h)
                = Visible(shown, h)
<1> DEFINE at == Offset(Len(shown), h)
           r == RegionRows(Len(shown), h)
           new == Visible(shown, h)
           old == Visible(prev, h)
           drawn == [i \in DOMAIN t.rows |->
                       IF i > at /\ new[i - at] # old[i - at] THEN new[i - at]
                       ELSE t.rows[i]]
<1>1. t.rows \in Seq(Nat) /\ Len(t.rows) = h /\ DOMAIN t.rows = 1..h
  BY LenProperties DEF Terminal, Screen
<1>2. at \in 0..h /\ r \in 0..h /\ at + r = h
  <2>1. Len(shown) \in Nat BY LenProperties
  <2> QED BY <2>1, RegionFits
<1>3. Screen(new, r) BY VisibleRows
<1>4. Screen(old, r) BY VisibleRows
<1>5. RenderDiff(t, shown, prev, h) = [t EXCEPT !.rows = drawn]
  BY DEF RenderDiff
<1>6. From(t.rows, at + 1) = old BY DEF Region
<1> HIDE DEF at, r, new, old
<1>7. RenderDiff(t, shown, prev, h) = [back |-> t.back, rows |-> drawn]
  <2> HIDE DEF drawn
  <2> QED BY <1>5 DEF Terminal
<1>8. ASSUME NEW i \in 1..h, i > at PROVE new[i - at] \in Nat
  <2>1. i - at \in 1..r BY <1>2, <1>8
  <2>2. new \in Seq(Nat) /\ Len(new) = r BY <1>3 DEF Screen
  <2> QED BY <2>1, <2>2, ElementOfSeq
<1>9. ASSUME NEW i \in 1..h PROVE t.rows[i] \in Nat BY <1>1, ElementOfSeq
<1>10. drawn \in [1..h -> Nat] BY <1>1, <1>8, <1>9
<1>11. Screen(drawn, h)
  <2> HIDE DEF drawn
  <2>1. drawn \in Seq(Nat) BY <1>10
  <2> QED BY <2>1, <1>10, LenProperties DEF Screen
<1>12. ASSUME NEW k \in 1..r PROVE drawn[at + k] = new[k]
  <2>1. at + k \in 1..h /\ at + k > at /\ at + k - at = k BY <1>2
  <2>2. drawn[at + k] = IF new[k] # old[k] THEN new[k] ELSE t.rows[at + k]
    <3>1. at + k \in DOMAIN t.rows BY <1>1, <2>1
    <3> DEFINE Drawn(i) == IF i > at /\ new[i - at] # old[i - at] THEN new[i - at]
                           ELSE t.rows[i]
    <3>2. \A i \in DOMAIN t.rows : drawn[i] = Drawn(i) OBVIOUS
    <3>3. Drawn(at + k) = IF new[k] # old[k] THEN new[k] ELSE t.rows[at + k]
      BY <1>2, <2>1
    <3> HIDE DEF drawn, Drawn
    <3>4. drawn[at + k] = Drawn(at + k) BY <3>1, <3>2
    <3> QED BY <3>3, <3>4
  <2>3. t.rows[at + k] = old[k]
    <3>1. \A j \in 1..Len(t.rows) - (at + 1) + 1 :
             From(t.rows, at + 1)[j] = t.rows[at + 1 + j - 1]
      <4>1. at + 1 \in Nat \ {0} BY <1>2
      <4> QED BY <1>1, <4>1, FromRows
    <3>2. k \in 1..Len(t.rows) - (at + 1) + 1 /\ at + 1 + k - 1 = at + k
      BY <1>1, <1>2
    <3> QED BY <3>1, <3>2, <1>6
  <2> QED BY <2>2, <2>3
<1> HIDE DEF drawn
<1>13. From(drawn, at + 1) = new
  <2>1. drawn \in Seq(Nat) /\ new \in Seq(Nat) /\ Len(new) = r BY <1>3, <1>11 DEF Screen
  <2>2. Len(drawn) = at + Len(new) /\ at \in Nat BY <2>1, <1>2, <1>11 DEF Screen
  <2> QED BY <2>1, <2>2, <1>12, RegionReads
<1>14. Terminal(RenderDiff(t, shown, prev, h), h)
  BY <1>7, <1>11 DEF Terminal
<1>15. RenderDiff(t, shown, prev, h).rows = drawn BY <1>7
<1> QED BY <1>13, <1>14, <1>15 DEF Region, at, new

\* What the user's resize leaves of a terminal.
LEMMA ResizedKeeps ==
    ASSUME NEW t, NEW n \in Nat, NEW h \in Nat, NEW p \in Nat, Terminal(t, n),
           p <= Less(h, n), p <= Len(t.back)
    PROVE  Terminal(Resized(t, h, p), h)
<1>1. t.rows \in Seq(Nat) /\ Len(t.rows) = n BY DEF Terminal, Screen
<1>2. t.back \in Seq(Nat) /\ Len(t.back) \in Nat BY LenProperties DEF Terminal
<1>3. CASE h <= n
  <2>1. Resized(t, h, p) = [back |-> t.back \o Top(t.rows, n - h),
                                 rows |-> Bottom(t.rows, h)]
    BY <1>1, <1>3 DEF Resized
  <2>2. h \in 0..Len(t.rows) /\ n - h \in 0..Len(t.rows) BY <1>1, <1>3
  <2>3. Screen(Bottom(t.rows, h), h) BY <1>1, <2>2, BottomRows
  <2>4. Top(t.rows, n - h) \in Seq(Nat) BY <1>1, <2>2, TopRows DEF Screen
  <2>5. t.back \o Top(t.rows, n - h) \in Seq(Nat) BY <1>2, <2>4, ConcatProperties
  <2> QED BY <2>1, <2>3, <2>5 DEF Terminal
<1>4. CASE ~(h <= n)
  <2>1. Less(h, n) = h - n BY <1>4, LessIsNat
  <2>2. h - n - p \in Nat BY <1>4, <2>1
  <2> DEFINE taken == Bottom(t.back, p)
  <2>3. Resized(t, h, p)
          = [back |-> Top(t.back, Len(t.back) - p),
             rows |-> taken \o t.rows \o Blanks(h - n - p)]
    BY <1>1, <1>4 DEF Resized
  <2>4. p \in 0..Len(t.back) /\ Len(t.back) - p \in 0..Len(t.back) BY <1>2
  <2>5. Screen(taken, p) BY <1>2, <2>4, BottomRows
  <2>6. Top(t.back, Len(t.back) - p) \in Seq(Nat) BY <1>2, <2>4, TopRows DEF Screen
  <2>7. Screen(Blanks(h - n - p), h - n - p) BY <2>2, BlanksAreRows
  <2> HIDE DEF taken
  <2>8. Screen(taken \o t.rows, p + n)
    BY <2>5, JoinedRows DEF Terminal, Joined
  <2>9. Screen(taken \o t.rows \o Blanks(h - n - p), (p + n) + (h - n - p))
    <3>1. p + n \in Nat OBVIOUS
    <3>2. Joined(taken \o t.rows \o Blanks(h - n - p), taken \o t.rows, p + n,
                 Blanks(h - n - p), h - n - p)
      BY <2>2, <2>7, <2>8, <3>1, JoinedRows
    <3> QED BY <3>2 DEF Joined
  <2>10. (p + n) + (h - n - p) = h OBVIOUS
  <2> QED BY <2>3, <2>6, <2>9, <2>10 DEF Terminal
<1> QED BY <1>3, <1>4

\* Pushing rows into the scrollback and clearing the screen keep the height.
LEMMA PushCropKeeps ==
    ASSUME NEW t, NEW h \in Nat, NEW k \in Nat, NEW shown \in Seq(Nat), Terminal(t, k)
    PROVE  Terminal(PushCrop(t, shown, h), k)
<1>1. Len(shown) \in Nat BY LenProperties
<1>2. Crop(Len(shown), h) \in 0..Len(shown) BY <1>1, RegionFits
<1>3. Hidden(shown, h) \in Seq(Nat) BY <1>2, TopRows DEF Hidden, Screen
<1>4. t.back \o Hidden(shown, h) \in Seq(Nat)
  BY <1>3, ConcatProperties DEF Terminal
<1> DEFINE hid == t.back \o Hidden(shown, h)
<1>5. PushCrop(t, shown, h) = [t EXCEPT !.back = hid] BY DEF PushCrop
<1> HIDE DEF hid
<1>6. PushCrop(t, shown, h) = [back |-> hid, rows |-> t.rows]
  BY <1>5 DEF Terminal
<1>7. hid \in Seq(Nat) BY <1>4 DEF hid
<1> QED BY <1>6, <1>7 DEF Terminal

LEMMA PushZoneKeeps ==
    ASSUME NEW t, NEW v \in Nat, NEW h \in Nat, NEW k \in Nat, Terminal(t, k)
    PROVE  Terminal(PushZone(t, v, h), k)
<1>1. Offset(v, h) \in Nat
  <2>1. Offset(v, h) \in 0..h BY RegionFits
  <2> QED BY <2>1
<1>2. Terminal(Newlines(t, Offset(v, h)), k) BY <1>1, NewlinesKeep
<1> QED BY <1>2 DEF PushZone

LEMMA ClearKeeps ==
    ASSUME NEW t, NEW h \in Nat, Terminal(t, h)
    PROVE  Terminal(Clear(t), h)
<1>1. Len(t.rows) = h BY DEF Terminal, Screen
<1>2. Screen(Blanks(h), h) BY BlanksAreRows
<1>3. Clear(t) = [t EXCEPT !.rows = Blanks(h)] BY <1>1 DEF Clear
<1>4. Clear(t) = [back |-> t.back, rows |-> Blanks(h)]
  BY <1>3 DEF Terminal
<1> QED BY <1>2, <1>4 DEF Terminal

-----------------------------------------------------------------------------
(* What a device sees: HostView's invariant.                               *)

\* What the terminal is told, once it has the height that the mirror knows.
ScreenShown ==
    /\ Terminal(term, hostRows)
    /\ view # None => Region(term, model, hostRows) = Visible(model, hostRows)

\* While the wrapper runs: the model's screen has the height of the view, or
\* of the host without one; the shadow that diffs start from is the model
\* itself; and, but while a resize is not handled yet, what the region shows
\* was rendered from it.
ScreensAgree ==
    /\ hostRows \in Nat \ {0}
    /\ written \in Nat
    /\ resized \in BOOLEAN
    /\ view # None => view \in Nat \ {0} /\ shadow = model
    /\ Screen(model, IF view = None THEN hostRows ELSE view)
    /\ Len(term.rows) \in Nat \ {0} /\ Terminal(term, Len(term.rows))
    /\ ~resized => ScreenShown

HostInv == running => ScreensAgree

LEMMA ModelIsRows ==
    ASSUME ScreensAgree
    PROVE  /\ model \in Seq(Nat) /\ Len(model) \in Nat \ {0}
           /\ Len(model) = IF view = None THEN hostRows ELSE view
           /\ DOMAIN model = 1..Len(model)
<1>1. model \in Seq(Nat) /\ Len(model) = IF view = None THEN hostRows ELSE view
  BY DEF ScreensAgree, Screen
<1>2. DOMAIN model = 1..Len(model) BY <1>1, LenProperties
<1>3. Len(model) \in Nat \ {0} BY <1>1 DEF ScreensAgree
<1> QED BY <1>1, <1>2, <1>3

\* The terminal of a settled host has the height that the mirror knows.
LEMMA SettledHeight ==
    ASSUME ScreensAgree, ~resized
    PROVE  /\ hostRows \in Nat \ {0} /\ Len(term.rows) = hostRows
           /\ Terminal(term, hostRows)
BY DEF ScreensAgree, ScreenShown, Terminal, Screen

\* What is drawn for another height only adds to the scrollback.
LEMMA GarbledKeeps ==
    ASSUME NEW h \in Nat, Terminal(term, h), resized, NEW t, Draws(t)
    PROVE  /\ Terminal(term', h)
           /\ \E w \in Seq(Nat) : term'.back = term.back \o w
<1>1. PICK n \in 0..MaxScroll : term' = Garbled(n) BY DEF Draws
<1>2. n \in Nat BY <1>1, HostViewAssumption
<1>3. Len(term.rows) = h BY DEF Terminal, Screen
<1>4. PICK w \in Seq(Nat) : w = Blanks(n) BY <1>2, BlanksAreRows DEF Screen
<1>5. Screen(Blanks(h), h) BY BlanksAreRows
<1> DEFINE more == term.back \o w
<1>6. more \in Seq(Nat) BY ConcatProperties DEF Terminal
<1>7. term' = [back |-> more, rows |-> Blanks(h)] BY <1>1, <1>3, <1>4 DEF Garbled
<1> HIDE DEF more
<1>8. Terminal(term', h) BY <1>5, <1>6, <1>7 DEF Terminal
<1>9. term'.back = more BY <1>7
<1> QED BY <1>8, <1>9 DEF more

LEMMA DelayedAgrees ==
    ASSUME ScreensAgree, resized, resized' = resized, hostRows' = hostRows,
           written' \in Nat, NEW t, Draws(t),
           view' # None => view' \in Nat \ {0} /\ shadow' = model',
           Screen(model', IF view' = None THEN hostRows' ELSE view')
    PROVE  ScreensAgree'
<1>1. PICK h \in Nat \ {0} : h = Len(term.rows) /\ Terminal(term, h)
  BY DEF ScreensAgree
<1>2. Terminal(term', h) BY <1>1, GarbledKeeps
<1>3. Len(term'.rows) = h BY <1>2 DEF Terminal, Screen
<1> QED BY <1>1, <1>2, <1>3 DEF ScreensAgree

\* A step that leaves a terminal with the height the mirror knows.
LEMMA SettledAgrees ==
    ASSUME hostRows' \in Nat \ {0}, written' \in Nat, resized' \in BOOLEAN,
           view' # None => view' \in Nat \ {0} /\ shadow' = model',
           Screen(model', IF view' = None THEN hostRows' ELSE view'),
           Terminal(term', hostRows'),
           view' # None => Region(term', model', hostRows') = Visible(model', hostRows')
    PROVE  ScreensAgree'
<1>1. Len(term'.rows) = hostRows' BY DEF Terminal, Screen
<1> QED BY <1>1 DEF ScreensAgree, ScreenShown

\* A step that ends with a full repaint for a view of height v.
LEMMA RepaintAgrees ==
    ASSUME NEW t, NEW h \in Nat \ {0}, NEW v \in Nat \ {0}, Terminal(t, h),
           Screen(model', v), shadow' = model', view' = v, hostRows' = h,
           resized' \in BOOLEAN,
           written' \in Nat, v # None, term' = RenderFull(t, model', h)
    PROVE  ScreensAgree'
<1>1. model' \in Seq(Nat) BY DEF Screen
<1>2. /\ Terminal(RenderFull(t, model', h), h)
      /\ Region(RenderFull(t, model', h), model', h) = Visible(model', h)
  BY <1>1, RenderFullShows
<1>3. Terminal(term', hostRows') BY <1>2
<1>4. Region(term', model', hostRows') = Visible(model', hostRows') BY <1>2
<1>5. Screen(model', IF view' = None THEN hostRows' ELSE view') OBVIOUS
<1> QED BY <1>3, <1>4, <1>5, SettledAgrees

LEMMA HostInitially == Init => HostInv
<1> SUFFICES ASSUME Init PROVE ScreensAgree
  BY DEF HostInv
<1>1. hostRows \in Nat \ {0} BY HostViewAssumption DEF Init
<1>2. Screen(Blanks(hostRows), hostRows) BY <1>1, BlanksAreRows
<1>3. /\ view = None /\ written = 0 /\ model = Blanks(hostRows) /\ resized = FALSE
      /\ term = [back |-> << >>, rows |-> Blanks(hostRows)]
  BY DEF Init
<1>4. Terminal(term, hostRows) BY <1>2, <1>3, EmptySeq DEF Terminal
<1>5. Len(term.rows) = hostRows BY <1>4 DEF Terminal, Screen
<1> QED BY <1>1, <1>2, <1>3, <1>4, <1>5 DEF ScreensAgree, ScreenShown

\* The text that flows: what the archive retains, one line taking two rows.
LEMMA TextRows ==
    ASSUME NEW s \in Seq(Nat), NEW wide \in BOOLEAN
    PROVE  Wrapped(Retained(s), wide) \in Seq(Nat)
<1> DEFINE kept == Retained(s)
<1>1. kept \in Seq(Nat)
  <2> DEFINE k == Least(Len(s), HistoryLimit)
  <2>1. k \in 0..Len(s) BY HostViewAssumption, LenProperties DEF Least
  <2> HIDE DEF k
  <2>2. Bottom(s, k) \in Seq(Nat) BY <2>1, BottomRows DEF Screen
  <2> QED BY <2>2 DEF Retained, k
<1> HIDE DEF kept
<1>2. CASE ~(wide /\ kept # << >>) BY <1>1, <1>2 DEF Wrapped, kept
<1>3. CASE wide /\ kept # << >>
  <2>1. kept[1] \in Nat
    <3>1. Len(kept) \in Nat /\ Len(kept) # 0 BY <1>1, <1>3, LenProperties, EmptySeq
    <3>2. 1 \in 1..Len(kept) BY <3>1
    <3> QED BY <1>1, <3>2, ElementOfSeq
  <2>2. <<kept[1]>> \in Seq(Nat) BY <2>1
  <2> DEFINE one == <<kept[1]>>
  <2> HIDE DEF one
  <2>3. one \o kept \in Seq(Nat) BY <1>1, <2>2, ConcatProperties DEF one
  <2> QED BY <1>3, <2>3 DEF Wrapped, kept, one
<1> QED BY <1>2, <1>3

\* What `process` does when n lines scroll off.
LEMMA ScrollsAgree ==
    ASSUME NEW n \in Nat, NEW wide \in BOOLEAN, ScreensAgree, Scrolls(n, wide),
           None \notin Nat
    PROVE  ScreensAgree'
<1> DEFINE fresh == Fresh(n)
           both == model \o fresh
           lines == Top(both, n)
           text == Wrapped(Retained(lines), wide)
<1>1. /\ n > 0 /\ written' = written + n /\ view' = view /\ hostRows' = hostRows
      /\ resized' = resized
  BY DEF Scrolls
<1>2. written \in Nat /\ hostRows \in Nat \ {0} /\ resized \in BOOLEAN
  BY DEF ScreensAgree
<1>3. fresh \in Seq(Nat) /\ Len(fresh) = n
  <2>1. fresh \in [1..n -> Nat] BY <1>2 DEF Fresh
  <2> HIDE DEF fresh
  <2>2. fresh \in Seq(Nat) BY <2>1
  <2> QED BY <2>1, <2>2, LenProperties
<1>4. model' = From(both, n + 1) BY DEF Scrolls
<1>5. /\ view = None => Draws(Flow(term, hostRows, fresh))
      /\ view # None => Draws(ScrollHost(n, text, model')) /\ shadow' = model'
  BY DEF Scrolls
<1> HIDE DEF fresh
<1>6. both \in Seq(Nat) /\ Len(both) = Len(model) + n
  BY <1>3, ModelIsRows, ConcatProperties
<1> HIDE DEF both
<1>7. Screen(model', Len(model))
  <2>1. Len(model) \in Nat BY ModelIsRows
  <2>2. Screen(From(both, n + 1),
               IF n + 1 <= Len(both) THEN Len(both) - (n + 1) + 1 ELSE 0)
    <3>1. n + 1 \in Nat \ {0} OBVIOUS
    <3> QED BY <3>1, <1>6, FromRows
  <2>3. Len(model) = IF n + 1 <= Len(both) THEN Len(both) - (n + 1) + 1 ELSE 0
    BY <1>6, <2>1, ModelIsRows
  <2> QED BY <2>2, <2>3, <1>4
<1>8. Screen(model', IF view' = None THEN hostRows' ELSE view')
  BY <1>1, <1>7, ModelIsRows
<1>9. view # None => view \in Nat \ {0} BY DEF ScreensAgree
<1>10. lines \in Seq(Nat) /\ Len(lines) = n
  <2>1. n \in 0..Len(both) BY <1>6, ModelIsRows
  <2> QED BY <2>1, <1>6, TopRows DEF Screen
<1> HIDE DEF lines
<1>11. text \in Seq(Nat) BY <1>10, TextRows
<1> HIDE DEF text
<1>12. CASE resized
  <2>1. CASE view = None BY <1>1, <1>2, <1>5, <1>8, <1>12, <2>1, DelayedAgrees
  <2>2. CASE view # None BY <1>1, <1>2, <1>5, <1>8, <1>9, <1>12, <2>2, DelayedAgrees
  <2> QED BY <2>1, <2>2
<1>13. CASE ~resized /\ view = None
  <2>1. term' = Flow(term, hostRows, fresh) BY <1>5, <1>13 DEF Draws
  <2>2. hostRows \in 0..hostRows BY <1>2
  <2>3. Terminal(Flow(term, hostRows, fresh), hostRows)
    BY <1>2, <1>3, <1>13, <2>2, SettledHeight, FlowKeeps
  <2>4. Terminal(term', hostRows') BY <1>1, <2>1, <2>3
  <2> QED BY <1>1, <1>2, <1>8, <1>13, <2>4, SettledAgrees
<1>14. CASE ~resized /\ view # None
  <2> DEFINE at == Offset(view, hostRows)
             region == RegionRows(view, hostRows)
             bare == DeleteLines(term, at, region)
             flowed == Flow(bare, at, text)
             moved == ClearingScroll(n, region)
             clear == Newlines(flowed, moved)
  <2>1. view \in Nat \ {0} /\ Len(model) = view BY <1>14, ModelIsRows DEF ScreensAgree
  <2>2. at \in 0..hostRows /\ region \in 0..hostRows /\ at + region = hostRows
    BY <1>2, <2>1, RegionFits
  <2>3. term' = ScrollHost(n, text, model') /\ shadow' = model'
    BY <1>5, <1>14 DEF Draws
  <2>4. term' = RenderFull(clear, model', hostRows)
    BY <2>3 DEF ScrollHost
  <2>5. moved \in Nat BY <2>2 DEF ClearingScroll, Least
  <2>6. Terminal(term, hostRows) BY <1>14, SettledHeight
  <2> HIDE DEF at, region, moved
  <2>7. Terminal(bare, hostRows) BY <1>2, <2>2, <2>6, DeleteLinesKeeps
  <2> HIDE DEF bare
  <2>8. Terminal(flowed, hostRows) BY <1>2, <1>11, <2>2, <2>7, FlowKeeps
  <2> HIDE DEF flowed
  <2>9. Terminal(clear, hostRows) BY <1>2, <2>5, <2>8, NewlinesKeep
  <2> HIDE DEF clear
  <2> QED BY <1>1, <1>2, <1>7, <1>14, <2>1, <2>3, <2>4, <2>9, RepaintAgrees
<1> QED BY <1>2, <1>12, <1>13, <1>14

\* What it does when a row is rewritten: a diff from the shadow.
LEMMA EditsAgree ==
    ASSUME NEW r \in DOMAIN model, ScreensAgree, Edits(r)
    PROVE  ScreensAgree'
<1>1. /\ written' = written + 1 /\ view' = view /\ hostRows' = hostRows
      /\ resized' = resized /\ model' = [model EXCEPT ![r] = written']
  BY DEF Edits
<1>2. /\ view = None => Draws([term EXCEPT !.rows[r] = written'])
      /\ view # None => /\ Draws(RenderDiff(term, model', shadow, hostRows))
                        /\ shadow' = model'
  BY DEF Edits
<1>3. /\ written \in Nat /\ written' \in Nat /\ hostRows \in Nat \ {0}
      /\ resized \in BOOLEAN /\ (view # None => view \in Nat \ {0})
  BY <1>1 DEF ScreensAgree
<1>4. model \in Seq(Nat) /\ r \in 1..Len(model) BY ModelIsRows
<1>5. model' \in Seq(Nat) /\ Len(model') = Len(model)
  BY <1>1, <1>3, <1>4, ExceptSeq
<1>6. Screen(model', IF view' = None THEN hostRows' ELSE view')
  BY <1>1, <1>5 DEF ScreensAgree, Screen
<1>7. CASE resized
  <2>1. CASE view = None BY <1>1, <1>2, <1>3, <1>6, <1>7, <2>1, DelayedAgrees
  <2>2. CASE view # None BY <1>1, <1>2, <1>3, <1>6, <1>7, <2>2, DelayedAgrees
  <2> QED BY <2>1, <2>2
<1>8. CASE ~resized /\ view = None
  <2>1. term' = [term EXCEPT !.rows[r] = written'] BY <1>2, <1>8 DEF Draws
  <2>2. Terminal(term, hostRows) BY <1>8, SettledHeight
  <2> DEFINE drawn == [term.rows EXCEPT ![r] = written']
  <2>3. term' = [term EXCEPT !.rows = drawn] BY <2>1
  <2>4. term.rows \in Seq(Nat) /\ r \in 1..Len(term.rows)
    BY <1>4, <1>8, <2>2 DEF Terminal, ScreensAgree, Screen
  <2>5. Screen(drawn, hostRows) BY <1>3, <2>2, <2>4, ExceptSeq DEF Terminal, Screen
  <2> HIDE DEF drawn
  <2>6. term' = [back |-> term.back, rows |-> drawn] BY <2>2, <2>3 DEF Terminal
  <2>7. Terminal(term', hostRows') BY <1>1, <2>2, <2>5, <2>6 DEF Terminal
  <2> QED BY <1>1, <1>3, <1>6, <1>8, <2>7, SettledAgrees
<1>9. CASE ~resized /\ view # None
  <2>1. term' = RenderDiff(term, model', shadow, hostRows) /\ shadow' = model'
    BY <1>2, <1>9 DEF Draws
  <2>2. /\ shadow = model /\ Terminal(term, hostRows)
        /\ Region(term, model, hostRows) = Visible(model, hostRows)
    BY <1>9 DEF ScreensAgree, ScreenShown
  <2>3. /\ Terminal(RenderDiff(term, model', model, hostRows), hostRows)
        /\ Region(RenderDiff(term, model', model, hostRows), model', hostRows)
             = Visible(model', hostRows)
    BY <1>3, <1>4, <1>5, <2>2, RenderDiffShows
  <2>4. Terminal(term', hostRows') BY <1>1, <2>1, <2>2, <2>3
  <2>5. Region(term', model', hostRows') = Visible(model', hostRows')
    BY <1>1, <2>1, <2>2, <2>3
  <2> QED BY <1>1, <1>3, <1>6, <1>9, <2>1, <2>4, <2>5, SettledAgrees
<1> QED BY <1>3, <1>7, <1>8, <1>9

\* A view starts from a snapshot of its height and a full repaint.
LEMMA StartViewAgrees ==
    ASSUME NEW v \in Nat \ {0}, ScreensAgree, StartView(v), None \notin Nat
    PROVE  ScreensAgree'
<1>1. /\ model' = SnapshotRows(v) /\ shadow' = model' /\ view' = v
      /\ hostRows' = hostRows /\ written' = written /\ resized' = resized
      /\ Draws(RenderFull(PushCrop(term, model', hostRows), model', hostRows))
  BY DEF StartView
<1>2. model \in Seq(Nat) /\ Len(model) \in Nat BY ModelIsRows
<1>3. Screen(model', v)
  <2>1. CASE Len(model) >= v
    <3>1. v \in 0..Len(model) BY <1>2, <2>1
    <3>2. Screen(Bottom(model, v), v) BY <1>2, <3>1, BottomRows
    <3> QED BY <3>2, <2>1, <1>1 DEF SnapshotRows
  <2>2. CASE ~(Len(model) >= v)
    <3>1. v - Len(model) \in Nat BY <1>2, <2>2
    <3>2. Screen(Blanks(v - Len(model)), v - Len(model)) BY <3>1, BlanksAreRows
    <3>3. Screen(model, Len(model)) BY <1>2 DEF Screen
    <3>4. Screen(model \o Blanks(v - Len(model)), Len(model) + (v - Len(model)))
      BY <1>2, <3>1, <3>2, <3>3, JoinedRows DEF Joined
    <3>5. Len(model) + (v - Len(model)) = v BY <1>2
    <3>6. model' = model \o Blanks(v - Len(model))
      BY <1>1, <2>2 DEF SnapshotRows
    <3> QED BY <3>4, <3>5, <3>6
  <2> QED BY <2>1, <2>2
<1>4. hostRows \in Nat \ {0} /\ written' \in Nat /\ resized \in BOOLEAN
  BY <1>1 DEF ScreensAgree
<1>5. v # None /\ Screen(model', IF view' = None THEN hostRows' ELSE view')
  BY <1>1, <1>3
<1>6. CASE resized BY <1>1, <1>4, <1>5, <1>6, DelayedAgrees
<1>7. CASE ~resized
  <2>1. term' = RenderFull(PushCrop(term, model', hostRows), model', hostRows)
    BY <1>1, <1>7 DEF Draws
  <2>2. Terminal(term, hostRows) BY <1>7, SettledHeight
  <2>3. Terminal(PushCrop(term, model', hostRows), hostRows)
    BY <1>3, <1>4, <2>2, PushCropKeeps DEF Screen
  <2> QED BY <1>1, <1>3, <1>4, <1>5, <2>1, <2>3, RepaintAgrees
<1> QED BY <1>4, <1>6, <1>7

\* The view ends: the screen is the program's own again, of the host's height.
LEMMA EndViewAgrees ==
    ASSUME ScreensAgree, EndView
    PROVE  ScreensAgree'
<1>1. /\ view # None /\ view' = None /\ hostRows' = hostRows /\ written' = written
      /\ resized' = resized /\ model' = Blanks(hostRows)
      /\ Draws(Clear(PushZone(term, view, hostRows)))
  BY DEF EndView
<1>2. /\ hostRows \in Nat \ {0} /\ written \in Nat /\ view \in Nat \ {0}
      /\ resized \in BOOLEAN
  BY <1>1 DEF ScreensAgree
<1>3. Screen(model', IF view' = None THEN hostRows' ELSE view')
  BY <1>1, <1>2, BlanksAreRows
<1>4. CASE resized BY <1>1, <1>2, <1>3, <1>4, DelayedAgrees
<1>5. CASE ~resized
  <2>1. term' = Clear(PushZone(term, view, hostRows)) BY <1>1, <1>5 DEF Draws
  <2>2. Terminal(term, hostRows) BY <1>5, SettledHeight
  <2>3. Terminal(PushZone(term, view, hostRows), hostRows) BY <1>2, <2>2, PushZoneKeeps
  <2>4. Terminal(term', hostRows') BY <1>1, <1>2, <2>1, <2>3, ClearKeeps
  <2> QED BY <1>1, <1>2, <1>3, <2>4, SettledAgrees
<1> QED BY <1>2, <1>4, <1>5

\* The host's terminal has a new height, of which the mirror knows nothing yet.
LEMMA TerminalResizesAgrees ==
    ASSUME NEW h \in Nat \ {0}, NEW p \in Nat, ScreensAgree, TerminalResizes(h, p)
    PROVE  ScreensAgree'
<1>1. /\ p <= Less(h, Len(term.rows)) /\ p <= Len(term.back)
      /\ term' = Resized(term, h, p) /\ resized' = TRUE
      /\ model' = model /\ shadow' = shadow /\ view' = view
      /\ hostRows' = hostRows /\ written' = written
  BY DEF TerminalResizes, mirrorState
<1>2. PICK n \in Nat \ {0} : n = Len(term.rows) /\ Terminal(term, n)
  BY DEF ScreensAgree
<1>3. Terminal(term', h)
  <2>1. n \in Nat /\ h \in Nat /\ p <= Less(h, n) BY <1>1, <1>2
  <2> QED BY <1>1, <1>2, <2>1, ResizedKeeps
<1>4. Len(term'.rows) = h BY <1>3 DEF Terminal, Screen
<1> QED BY <1>1, <1>3, <1>4 DEF ScreensAgree

\* SIGWINCH: the region is laid out afresh.
LEMMA HostResizedAgrees ==
    ASSUME ScreensAgree, HostResized
    PROVE  ScreensAgree'
<1>1. PICK h \in Nat \ {0} : h = Len(term.rows) /\ Terminal(term, h)
  BY DEF ScreensAgree
<1> DEFINE pushed == PushZone(term, view, h)
           cropped == PushCrop(pushed, model, h)
           cleared == Clear(cropped)
<1>2. /\ hostRows' = h /\ view' = view /\ shadow' = shadow /\ written' = written
      /\ resized' = FALSE
  BY <1>1 DEF HostResized
<1>3. written \in Nat BY DEF ScreensAgree
<1>4. model \in Seq(Nat) /\ Len(model) \in Nat BY ModelIsRows
<1>5. CASE view = None
  <2> DEFINE more == Blanks(Less(h, Len(model)))
             padded == model \o more
  <2>1. term' = term /\ model' = Top(padded, h) BY <1>1, <1>5 DEF HostResized
  <2>2. /\ Less(h, Len(model)) \in Nat
        /\ Less(h, Len(model)) = IF h <= Len(model) THEN 0 ELSE h - Len(model)
    BY <1>4, LessIsNat
  <2>3. more \in Seq(Nat) /\ Len(more) = Less(h, Len(model))
    BY <2>2, BlanksAreRows DEF Screen
  <2> HIDE DEF more
  <2>4. padded \in Seq(Nat) /\ Len(padded) = Len(model) + Len(more)
    BY <1>4, <2>3, ConcatProperties
  <2> HIDE DEF padded
  <2>5. h \in 0..Len(padded) BY <1>4, <2>2, <2>3, <2>4
  <2>6. Screen(model', h) BY <2>1, <2>4, <2>5, TopRows
  <2> QED BY <1>1, <1>2, <1>3, <1>5, <2>1, <2>6, SettledAgrees
<1>6. CASE view # None
  <2>1. term' = RenderFull(cleared, model, h) /\ model' = model
    BY <1>1, <1>6 DEF HostResized
  <2>2. view \in Nat \ {0} /\ shadow = model /\ Screen(model, view)
    BY <1>6 DEF ScreensAgree
  <2>3. Terminal(pushed, h) BY <1>1, <2>2, PushZoneKeeps
  <2> HIDE DEF pushed
  <2>4. Terminal(cropped, h) BY <1>4, <2>3, PushCropKeeps
  <2> HIDE DEF cropped
  <2>5. Terminal(cleared, h) BY <2>4, ClearKeeps
  <2> HIDE DEF cleared
  <2> QED BY <1>1, <1>2, <1>3, <1>6, <2>1, <2>2, <2>5, RepaintAgrees
<1> QED BY <1>5, <1>6

\* Ctrl+L paints the region again.
LEMMA RefreshAgrees ==
    ASSUME ScreensAgree, RefreshScrollback
    PROVE  ScreensAgree'
<1>1. /\ view # None /\ model' = model /\ shadow' = shadow /\ view' = view
      /\ hostRows' = hostRows /\ written' = written /\ resized' = resized
      /\ Draws(RenderFull(PushCrop(term, model, hostRows), model, hostRows))
  BY DEF RefreshScrollback, mirrorState
<1>2. /\ hostRows \in Nat \ {0} /\ written \in Nat /\ view \in Nat \ {0}
      /\ shadow = model /\ Screen(model, view) /\ resized \in BOOLEAN
  BY <1>1 DEF ScreensAgree
<1>3. CASE resized
  <2>1. Screen(model', IF view' = None THEN hostRows' ELSE view') BY <1>1, <1>2
  <2> QED BY <1>1, <1>2, <1>3, <2>1, DelayedAgrees
<1>4. CASE ~resized
  <2>1. term' = RenderFull(PushCrop(term, model, hostRows), model, hostRows)
    BY <1>1, <1>4 DEF Draws
  <2>2. Terminal(term, hostRows) BY <1>4, SettledHeight
  <2>3. Terminal(PushCrop(term, model, hostRows), hostRows)
    BY <1>2, <2>2, PushCropKeeps DEF Screen
  <2> QED BY <1>1, <1>2, <2>1, <2>3, RepaintAgrees
<1> QED BY <1>2, <1>3, <1>4

LEMMA HostStep ==
    ASSUME HostInv, [Next]_vars
    PROVE  HostInv'
<1>1. None \notin Nat /\ \A h \in Heights : h \in Nat \ {0}
  BY HostViewAssumption
<1>2. MaxLines \in Nat BY HostViewAssumption
<1>3. ASSUME NEW n \in 1..MaxLines, NEW wide \in BOOLEAN, Scrolls(n, wide)
      PROVE  HostInv'
  <2>1. ScreensAgree BY <1>3 DEF HostInv, Scrolls
  <2> QED BY <1>1, <1>2, <1>3, <2>1, ScrollsAgree DEF HostInv
<1>4. ASSUME NEW r \in DOMAIN model, Edits(r) PROVE HostInv'
  <2>1. ScreensAgree BY <1>4 DEF HostInv, Edits
  <2> QED BY <1>4, <2>1, EditsAgree DEF HostInv
<1>5. ASSUME NEW v \in Heights, StartView(v) PROVE HostInv'
  <2>1. ScreensAgree BY <1>5 DEF HostInv, StartView, Turn
  <2> QED BY <1>1, <1>5, <2>1, StartViewAgrees DEF HostInv
<1>6. ASSUME EndView PROVE HostInv'
  <2>1. ScreensAgree BY <1>6 DEF HostInv, EndView, Turn
  <2> QED BY <1>6, <2>1, EndViewAgrees DEF HostInv
<1>7. ASSUME NEW h \in Heights, NEW p \in 0..MaxLines, TerminalResizes(h, p)
      PROVE  HostInv'
  <2>1. ScreensAgree BY <1>7 DEF HostInv, TerminalResizes, Turn
  <2>2. p \in Nat BY <1>2
  <2> QED BY <1>1, <1>7, <2>1, <2>2, TerminalResizesAgrees DEF HostInv
<1>8. ASSUME HostResized PROVE HostInv'
  <2>1. ScreensAgree BY <1>8 DEF HostInv, HostResized
  <2> QED BY <1>8, <2>1, HostResizedAgrees DEF HostInv
<1>9. ASSUME RefreshScrollback PROVE HostInv'
  <2>1. ScreensAgree BY <1>9 DEF HostInv, RefreshScrollback, Turn
  <2> QED BY <1>9, <2>1, RefreshAgrees DEF HostInv
<1>10. CASE Cleanup BY <1>10 DEF HostInv, Cleanup
<1>11. CASE UNCHANGED vars
  BY <1>11 DEF HostInv, ScreensAgree, ScreenShown, vars, mirrorState, Screen,
               Terminal, Region, Visible, From, Crop, Offset, Less,
               RegionRows, Least
<1> QED BY <1>3, <1>4, <1>5, <1>6, <1>7, <1>8, <1>9, <1>10, <1>11 DEF Next

LEMMA HostInvShows == HostInv => HostShowsModel
<1> SUFFICES ASSUME HostInv, running, view # None, ~resized
             PROVE  From(term.rows, Offset(view, hostRows) + 1)
                      = Visible(model, hostRows)
  BY DEF HostShowsModel
<1>1. ScreensAgree BY DEF HostInv
<1>2. Len(model) = view BY <1>1, ModelIsRows
<1> QED BY <1>1, <1>2 DEF ScreensAgree, ScreenShown, Region

\* The live region shows the bottom of the view's screen, row for row, after
\* any mix of scrolls, diffs, view changes, host resizes and refreshes, but
\* while a resize of the host is not handled yet (mirror.rs: `process`,
\* `render_rows`, `host_resized`).
THEOREM RegionShowsScreen == Spec => []HostShowsModel
<1>1. Init => HostInv BY HostInitially
<1>2. HostInv /\ [Next]_vars => HostInv' BY HostStep
<1> QED BY <1>1, <1>2, HostInvShows, PTL DEF Spec

-----------------------------------------------------------------------------
(* What the host keeps: pieces of sequences.                               *)

\* Three pieces, in either grouping.
LEMMA Regroup == \A s, t, u \in Seq(Nat) : (s \o t) \o u = s \o (t \o u)
<1> TAKE s, t, u \in Seq(Nat)
<1> QED BY ConcatAssociative

\* The first rows of what starts with s.
LEMMA TopOfJoined ==
    ASSUME NEW s \in Seq(Nat), NEW u \in Seq(Nat), NEW n \in 0..Len(s)
    PROVE  Top(s \o u, n) = Top(s, n)
<1>1. /\ s \o u \in Seq(Nat) /\ Len(s) \in Nat /\ Len(u) \in Nat
      /\ Len(s \o u) = Len(s) + Len(u)
      /\ \A i \in 1..Len(s) + Len(u) :
            (s \o u)[i] = IF i <= Len(s) THEN s[i] ELSE u[i - Len(s)]
  BY ConcatProperties, LenProperties
<1>2. Screen(Top(s, n), n) /\ \A i \in 1..n : Top(s, n)[i] = s[i]
  BY TopRows
<1>3. Screen(Top(s \o u, n), n) /\ \A i \in 1..n : Top(s \o u, n)[i] = (s \o u)[i]
  <2>1. n \in 0..Len(s \o u) BY <1>1
  <2> QED BY <1>1, <2>1, TopRows
<1>4. \A i \in 1..n : Top(s \o u, n)[i] = Top(s, n)[i]
  <2> TAKE i \in 1..n
  <2>1. i \in 1..Len(s) + Len(u) /\ i <= Len(s) BY <1>1
  <2> QED BY <1>1, <1>2, <1>3, <2>1
<1> QED BY <1>2, <1>3, <1>4, SeqEqual DEF Screen

\* The first rows, one part after the other.
LEMMA TopInParts ==
    ASSUME NEW s \in Seq(Nat), NEW a \in Nat, NEW b \in Nat, a + b <= Len(s)
    PROVE  Top(s, a) \o Top(From(s, a + 1), b) = Top(s, a + b)
<1>1. Len(s) \in Nat BY LenProperties
<1>2. Screen(Top(s, a), a) /\ \A i \in 1..a : Top(s, a)[i] = s[i]
  <2>1. a \in 0..Len(s) BY <1>1
  <2> QED BY <2>1, TopRows
<1>3. /\ Screen(From(s, a + 1), IF a + 1 <= Len(s) THEN Len(s) - (a + 1) + 1 ELSE 0)
      /\ \A k \in 1..Len(s) - (a + 1) + 1 : From(s, a + 1)[k] = s[a + 1 + k - 1]
  <2>1. a + 1 \in Nat \ {0} OBVIOUS
  <2> QED BY <2>1, FromRows
<1> DEFINE rest == From(s, a + 1)
<1>4. rest \in Seq(Nat) /\ Len(rest) = Len(s) - a
  <2>1. Len(s) - a = IF a + 1 <= Len(s) THEN Len(s) - (a + 1) + 1 ELSE 0
    BY <1>1
  <2> QED BY <1>3, <2>1 DEF Screen
<1>5. \A k \in 1..b : rest[k] = s[a + k]
  <2> TAKE k \in 1..b
  <2>1. k \in 1..Len(s) - (a + 1) + 1 /\ a + 1 + k - 1 = a + k BY <1>1
  <2> QED BY <1>3, <2>1
<1> HIDE DEF rest
<1>6. Screen(Top(rest, b), b) /\ \A i \in 1..b : Top(rest, b)[i] = rest[i]
  <2>1. b \in 0..Len(rest) BY <1>1, <1>4
  <2> QED BY <1>4, <2>1, TopRows
<1>7. Joined(Top(s, a) \o Top(rest, b), Top(s, a), a, Top(rest, b), b)
  BY <1>2, <1>6, JoinedRows
<1>8. Screen(Top(s, a + b), a + b) /\ \A i \in 1..a + b : Top(s, a + b)[i] = s[i]
  <2>1. a + b \in 0..Len(s) BY <1>1
  <2> QED BY <2>1, TopRows
<1>9. ASSUME NEW i \in 1..a + b
      PROVE  (Top(s, a) \o Top(rest, b))[i] = Top(s, a + b)[i]
  <2>1. CASE i <= a
    <3>1. i \in 1..a BY <2>1
    <3> QED BY <1>2, <1>7, <1>8, <3>1 DEF Joined
  <2>2. CASE ~(i <= a)
    <3>1. PICK k \in 1..b : i = a + k
      <4>1. i - a \in 1..b /\ i = a + (i - a) BY <2>2
      <4> QED BY <4>1
    <3>2. (Top(s, a) \o Top(rest, b))[a + k] = s[a + k]
      BY <1>5, <1>6, <1>7 DEF Joined
    <3> QED BY <1>8, <3>1, <3>2
  <2> QED BY <2>1, <2>2
<1>10. Top(s, a) \o Top(rest, b) = Top(s, a + b)
  <2> DEFINE both == Top(s, a) \o Top(rest, b)
  <2>1. /\ both \in Seq(Nat) /\ Top(s, a + b) \in Seq(Nat)
        /\ Len(both) = a + b /\ Len(Top(s, a + b)) = a + b
    BY <1>7, <1>8 DEF Joined, Screen
  <2>2. \A i \in 1..a + b : both[i] = Top(s, a + b)[i] BY <1>9
  <2> HIDE DEF both
  <2>3. both = Top(s, a + b) BY <2>1, <2>2, SeqEqual
  <2> QED BY <2>3 DEF both
<1> QED BY <1>10 DEF rest

\* The first rows of s and then u, beyond s.
LEMMA TopBeyond ==
    ASSUME NEW s \in Seq(Nat), NEW u \in Seq(Nat), NEW n \in 0..Len(u)
    PROVE  Top(s \o u, Len(s) + n) = s \o Top(u, n)
<1>1. /\ Len(s) \in Nat /\ Len(u) \in Nat /\ n \in Nat
      /\ s \o u \in Seq(Nat) /\ Len(s \o u) = Len(s) + Len(u)
  BY ConcatProperties, LenProperties
<1>2. Joined(s \o u, s, Len(s), u, Len(u)) BY <1>1, JoinedRows DEF Screen
<1>3. Top(s, Len(s)) = s BY SubSeqFull DEF Top
<1>4. Top(s \o u, Len(s)) = s
  <2>1. Len(s) \in 0..Len(s) BY <1>1
  <2> QED BY <1>3, <2>1, TopOfJoined
<1>5. From(s \o u, Len(s) + 1) = u
  BY <1>1, <1>2, RegionReads DEF Joined
<1>6. Top(s \o u, Len(s)) \o Top(From(s \o u, Len(s) + 1), n) = Top(s \o u, Len(s) + n)
  <2>1. Len(s) + n <= Len(s \o u)
    <3>1. n <= Len(u) BY <1>1
    <3> QED BY <1>1, <3>1
  <2> QED BY <1>1, <2>1, TopInParts
<1> QED BY <1>4, <1>5, <1>6

\* A sequence in two parts.
LEMMA TwoParts ==
    ASSUME NEW s \in Seq(Nat), NEW n \in 0..Len(s)
    PROVE  /\ Top(s, n) \o From(s, n + 1) = s
           /\ Top(s, n) \in Seq(Nat) /\ From(s, n + 1) \in Seq(Nat)
           /\ Len(Top(s, n)) = n /\ Len(From(s, n + 1)) = Len(s) - n
<1>1. Len(s) \in Nat /\ n \in Nat /\ Len(s) - n \in Nat BY LenProperties
<1>2. Screen(Top(s, n), n) BY TopRows
<1>3. Screen(From(s, n + 1), IF n + 1 <= Len(s) THEN Len(s) - (n + 1) + 1 ELSE 0)
  <2>1. n + 1 \in Nat \ {0} BY <1>1
  <2> QED BY <2>1, FromRows
<1>4. Len(s) - n = IF n + 1 <= Len(s) THEN Len(s) - (n + 1) + 1 ELSE 0
  BY <1>1
<1>5. From(s, n + 1) \in Seq(Nat) /\ Len(From(s, n + 1)) = Len(s) - n
  BY <1>3, <1>4 DEF Screen
<1>6. Top(From(s, n + 1), Len(s) - n) = From(s, n + 1)
  BY <1>5, SubSeqFull DEF Top
<1>7. Top(s, n) \o Top(From(s, n + 1), Len(s) - n) = Top(s, n + (Len(s) - n))
  BY <1>1, TopInParts
<1>8. n + (Len(s) - n) = Len(s) BY <1>1
<1>9. Top(s, Len(s)) = s BY SubSeqFull DEF Top
<1> QED BY <1>2, <1>5, <1>6, <1>7, <1>8, <1>9 DEF Screen

\* The rows from a place on, and then from a later one.
LEMMA FromInParts ==
    ASSUME NEW s \in Seq(Nat), NEW a \in Nat, NEW b \in Nat, a + b <= Len(s)
    PROVE  From(From(s, a + 1), b + 1) = From(s, a + b + 1)
<1>1. Len(s) \in Nat BY LenProperties
<1>2. a \in 0..Len(s) /\ a + b \in 0..Len(s) /\ b \in 0..(Len(s) - a) BY <1>1
<1> DEFINE rest == From(s, a + 1)
<1>3. rest \in Seq(Nat) /\ Len(rest) = Len(s) - a BY <1>2, TwoParts
<1>4. \A k \in 1..Len(rest) : rest[k] = s[a + k]
  <2>1. a + 1 \in Nat \ {0} OBVIOUS
  <2>2. \A k \in 1..Len(s) - (a + 1) + 1 : rest[k] = s[a + 1 + k - 1]
    BY <2>1, FromRows
  <2> TAKE k \in 1..Len(rest)
  <2>3. k \in 1..Len(s) - (a + 1) + 1 /\ a + 1 + k - 1 = a + k BY <1>1, <1>3
  <2> QED BY <2>2, <2>3
<1>5. From(s, a + b + 1) \in Seq(Nat) /\ Len(From(s, a + b + 1)) = Len(s) - (a + b)
  BY <1>2, TwoParts
<1>6. \A k \in 1..Len(s) - (a + b) : From(s, a + b + 1)[k] = s[a + b + k]
  <2>1. a + b + 1 \in Nat \ {0} OBVIOUS
  <2>2. \A k \in 1..Len(s) - (a + b + 1) + 1 :
           From(s, a + b + 1)[k] = s[a + b + 1 + k - 1]
    BY <2>1, FromRows
  <2> TAKE k \in 1..Len(s) - (a + b)
  <2>3. k \in 1..Len(s) - (a + b + 1) + 1 /\ a + b + 1 + k - 1 = a + b + k BY <1>1
  <2> QED BY <2>2, <2>3
<1> HIDE DEF rest
<1>7. Len(rest) = b + Len(From(s, a + b + 1))
  <2>1. PICK n \in Nat : n = Len(s) BY <1>1
  <2>2. Len(rest) = n - a /\ Len(From(s, a + b + 1)) = n - (a + b)
    BY <1>3, <1>5, <2>1
  <2>3. n - a = b + (n - (a + b)) BY <2>1
  <2> QED BY <2>2, <2>3
<1>8. \A k \in 1..Len(From(s, a + b + 1)) : rest[b + k] = From(s, a + b + 1)[k]
  <2> TAKE k \in 1..Len(From(s, a + b + 1))
  <2>1. k \in 1..Len(s) - (a + b) /\ b + k \in 1..Len(rest) /\ a + (b + k) = a + b + k
    BY <1>1, <1>3, <1>5
  <2> QED BY <1>4, <1>6, <2>1
<1>9. From(rest, b + 1) = From(s, a + b + 1)
  BY <1>3, <1>5, <1>7, <1>8, RegionReads
<1> QED BY <1>9 DEF rest

-----------------------------------------------------------------------------
(* What the host keeps: lines found in order.                              *)

\* The lines of m that are neither blank nor among those in l.
Kept(m, l) == {i \in 1..Len(m) : m[i] # 0 /\ m[i] \notin l}

\* They are all in t, in order: line i at place f[i].
Places(m, l, t, f) ==
    /\ f \in [Kept(m, l) -> 1..Len(t)]
    /\ \A i \in Kept(m, l) : t[f[i]] = m[i]
    /\ \A i, j \in Kept(m, l) : i < j => f[i] < f[j]

Carried(m, l, t) == \E f \in [Kept(m, l) -> 1..Len(t)] : Places(m, l, t, f)

\* What follows, and more lines that are excepted, change nothing.
LEMMA CarriedOn ==
    ASSUME NEW m \in Seq(Nat), NEW t \in Seq(Nat), NEW w \in Seq(Nat),
           NEW l, NEW more, l \subseteq more, Carried(m, l, t)
    PROVE  Carried(m, more, t \o w)
<1>1. PICK f \in [Kept(m, l) -> 1..Len(t)] : Places(m, l, t, f)
  BY DEF Carried
<1>2. Kept(m, more) \subseteq Kept(m, l) BY DEF Kept
<1> DEFINE g == [i \in Kept(m, more) |-> f[i]]
<1>3. /\ Len(t \o w) = Len(t) + Len(w) /\ Len(t) \in Nat /\ Len(w) \in Nat
      /\ \A k \in 1..Len(t) + Len(w) :
            (t \o w)[k] = IF k <= Len(t) THEN t[k] ELSE w[k - Len(t)]
  BY ConcatProperties, LenProperties
<1>4. \A k \in 1..Len(t) : k \in 1..Len(t \o w) /\ (t \o w)[k] = t[k]
  <2> TAKE k \in 1..Len(t)
  <2>1. k \in 1..Len(t) + Len(w) /\ k <= Len(t) BY <1>3
  <2> QED BY <1>3, <2>1
<1>5. g \in [Kept(m, more) -> 1..Len(t \o w)] BY <1>2, <1>4
<1>6. Places(m, more, t \o w, g)
  <2>1. \A i \in Kept(m, more) : (t \o w)[g[i]] = m[i]
    BY <1>1, <1>2, <1>4 DEF Places
  <2>2. \A i, j \in Kept(m, more) : i < j => g[i] < g[j]
    BY <1>1, <1>2 DEF Places
  <2> QED BY <1>5, <2>1, <2>2 DEF Places
<1> QED BY <1>5, <1>6 DEF Carried

\* What ends is not missed if all of its lines are excepted.
LEMMA CarriedBefore ==
    ASSUME NEW m \in Seq(Nat), NEW t \in Seq(Nat), NEW w \in Seq(Nat),
           NEW l, NEW more, l \subseteq more, Carried(m, l, t \o w),
           \A k \in 1..Len(w) : w[k] \in Range(m) => w[k] \in more
    PROVE  Carried(m, more, t)
<1>1. PICK f \in [Kept(m, l) -> 1..Len(t \o w)] : Places(m, l, t \o w, f)
  BY DEF Carried
<1>2. Kept(m, more) \subseteq Kept(m, l) BY DEF Kept
<1> DEFINE g == [i \in Kept(m, more) |-> f[i]]
<1>3. /\ Len(t \o w) = Len(t) + Len(w) /\ Len(t) \in Nat /\ Len(w) \in Nat
      /\ \A k \in 1..Len(t) + Len(w) :
            (t \o w)[k] = IF k <= Len(t) THEN t[k] ELSE w[k - Len(t)]
  BY ConcatProperties, LenProperties
<1>4. ASSUME NEW i \in Kept(m, more)
      PROVE  f[i] \in 1..Len(t) /\ t[f[i]] = m[i]
  <2>1. PICK k \in 1..Len(t) + Len(w) : k = f[i] BY <1>2, <1>3
  <2>2. (t \o w)[k] = m[i] BY <1>1, <1>2, <2>1 DEF Places
  <2>3. k <= Len(t)
    <3> SUFFICES ASSUME ~(k <= Len(t)) PROVE FALSE OBVIOUS
    <3>1. k - Len(t) \in 1..Len(w) BY <1>3
    <3>2. m[i] = w[k - Len(t)] BY <1>3, <2>2
    <3>3. m[i] \in Range(m)
      <4>1. DOMAIN m = 1..Len(m) BY LenProperties
      <4> QED BY <4>1 DEF Kept, Range
    <3>4. m[i] \in more BY <3>1, <3>2, <3>3
    <3> QED BY <3>4 DEF Kept
  <2> QED BY <1>3, <2>1, <2>2, <2>3
<1>5. g \in [Kept(m, more) -> 1..Len(t)] BY <1>4
<1>6. Places(m, more, t, g)
  <2>1. \A i \in Kept(m, more) : t[g[i]] = m[i] BY <1>4
  <2>2. \A i, j \in Kept(m, more) : i < j => g[i] < g[j]
    BY <1>1, <1>2 DEF Places
  <2> QED BY <1>5, <2>1, <2>2 DEF Places
<1> QED BY <1>5, <1>6 DEF Carried

\* What is put in between moves the rest on.
LEMMA CarriedAround ==
    ASSUME NEW m \in Seq(Nat), NEW t \in Seq(Nat), NEW w \in Seq(Nat),
           NEW c \in Seq(Nat), NEW l, Carried(m, l, t \o w)
    PROVE  Carried(m, l, (t \o c) \o w)
<1>1. PICK f \in [Kept(m, l) -> 1..Len(t \o w)] : Places(m, l, t \o w, f)
  BY DEF Carried
<1> DEFINE u == (t \o c) \o w
           Moved(k) == IF k <= Len(t) THEN k ELSE k + Len(c)
           g == [i \in Kept(m, l) |-> Moved(f[i])]
<1>2. Len(t) \in Nat /\ Len(w) \in Nat /\ Len(c) \in Nat BY LenProperties
<1>3. Joined(t \o w, t, Len(t), w, Len(w)) BY <1>2, JoinedRows DEF Screen
<1>4. Joined(t \o c, t, Len(t), c, Len(c)) BY <1>2, JoinedRows DEF Screen
<1>5. Joined(u, t \o c, Len(t) + Len(c), w, Len(w))
  BY <1>2, <1>4, JoinedRows DEF Screen, Joined
<1>6. Len(t \o w) = Len(t) + Len(w) /\ Len(u) = (Len(t) + Len(c)) + Len(w)
  BY <1>3, <1>5 DEF Joined, Screen
<1> HIDE DEF u
<1>7. ASSUME NEW k \in 1..Len(t \o w)
      PROVE  Moved(k) \in 1..Len(u) /\ u[Moved(k)] = (t \o w)[k]
  <2>1. CASE k <= Len(t)
    <3>1. k \in 1..Len(t) /\ k \in 1..Len(t) + Len(c) /\ k \in 1..Len(u)
      BY <1>2, <1>6, <2>1
    <3>2. u[k] = t[k] BY <1>4, <1>5, <3>1 DEF Joined
    <3>3. (t \o w)[k] = t[k] BY <1>3, <3>1 DEF Joined
    <3> QED BY <2>1, <3>1, <3>2, <3>3
  <2>2. CASE ~(k <= Len(t))
    <3>1. PICK j \in 1..Len(w) : k = Len(t) + j
      <4>1. k - Len(t) \in 1..Len(w) /\ k = Len(t) + (k - Len(t))
        BY <1>2, <1>6, <2>2
      <4> QED BY <4>1
    <3>2. k + Len(c) = (Len(t) + Len(c)) + j /\ k + Len(c) \in 1..Len(u)
      BY <1>2, <1>6, <3>1
    <3>3. u[k + Len(c)] = w[j] BY <1>5, <3>2 DEF Joined
    <3>4. (t \o w)[k] = w[j] BY <1>3, <3>1 DEF Joined
    <3> QED BY <2>2, <3>2, <3>3, <3>4
  <2> QED BY <2>1, <2>2
<1>8. \A k, j \in 1..Len(t \o w) : k < j => Moved(k) < Moved(j)
  BY <1>2, <1>6
<1> HIDE DEF Moved
<1>9. g \in [Kept(m, l) -> 1..Len(u)] BY <1>7
<1>10. Places(m, l, u, g)
  <2>1. \A i \in Kept(m, l) : u[g[i]] = m[i] BY <1>1, <1>7 DEF Places
  <2>2. ASSUME NEW i \in Kept(m, l), NEW j \in Kept(m, l), i < j
        PROVE  g[i] < g[j]
    <3>1. f[i] < f[j] /\ f[i] \in 1..Len(t \o w) /\ f[j] \in 1..Len(t \o w)
      BY <1>1, <2>2 DEF Places
    <3> QED BY <1>8, <3>1
  <2> QED BY <1>9, <2>1, <2>2 DEF Places
<1>11. Carried(m, l, u) BY <1>9, <1>10 DEF Carried
<1> QED BY <1>11 DEF u

\* New lines s that are written at the end, but for those that are excepted.
LEMMA CarriedLines ==
    ASSUME NEW m \in Seq(Nat), NEW t \in Seq(Nat), NEW w \in Seq(Nat),
           NEW s \in Seq(Nat), NEW l, NEW more, NEW d \in Nat,
           l \subseteq more, Carried(m, l, t),
           \A i \in 1..Len(s) : \/ s[i] \in more
                                \/ d + i <= Len(w) /\ w[d + i] = s[i]
    PROVE  Carried(m \o s, more, t \o w)
<1>1. PICK f \in [Kept(m, l) -> 1..Len(t)] : Places(m, l, t, f)
  BY DEF Carried
<1> DEFINE u == t \o w
           both == m \o s
           g == [i \in Kept(both, more) |->
                    IF i <= Len(m) THEN f[i] ELSE Len(t) + d + (i - Len(m))]
<1>2. Len(t) \in Nat /\ Len(w) \in Nat /\ Len(m) \in Nat /\ Len(s) \in Nat
  BY LenProperties
<1>3. Joined(u, t, Len(t), w, Len(w)) BY <1>2, JoinedRows DEF Screen
<1>4. Joined(both, m, Len(m), s, Len(s)) BY <1>2, JoinedRows DEF Screen
<1>5. Len(u) = Len(t) + Len(w) /\ Len(both) = Len(m) + Len(s)
  BY <1>3, <1>4 DEF Joined, Screen
<1> HIDE DEF u, both
<1>6. ASSUME NEW i \in Kept(both, more), i <= Len(m)
      PROVE  i \in Kept(m, l) /\ f[i] \in 1..Len(t) /\ u[f[i]] = both[i]
  <2>1. i \in 1..Len(m) /\ both[i] = m[i]
    <3>1. i \in 1..Len(m) BY <1>2, <1>6 DEF Kept
    <3> QED BY <1>4, <3>1 DEF Joined
  <2>2. i \in Kept(m, l) BY <2>1 DEF Kept
  <2>3. f[i] \in 1..Len(t) /\ t[f[i]] = m[i] BY <1>1, <2>2 DEF Places
  <2> QED BY <1>3, <2>1, <2>2, <2>3 DEF Joined
<1>7. ASSUME NEW i \in Kept(both, more), ~(i <= Len(m))
      PROVE  /\ Len(t) + d + (i - Len(m)) \in 1..Len(u)
             /\ u[Len(t) + d + (i - Len(m))] = both[i]
  <2>1. PICK j \in 1..Len(s) : i = Len(m) + j
    <3>1. i \in 1..Len(both) BY DEF Kept
    <3>2. i - Len(m) \in 1..Len(s) /\ i = Len(m) + (i - Len(m))
      BY <1>2, <1>5, <1>7, <3>1
    <3> QED BY <3>2
  <2>2. both[i] = s[j] BY <1>4, <2>1 DEF Joined
  <2>3. d + j <= Len(w) /\ w[d + j] = s[j] BY <2>1, <2>2 DEF Kept
  <2>4. d + j \in 1..Len(w) /\ Len(t) + d + (i - Len(m)) = Len(t) + (d + j)
    BY <1>2, <2>1, <2>3
  <2>5. u[Len(t) + (d + j)] = w[d + j] BY <1>3, <2>4 DEF Joined
  <2>6. Len(t) + (d + j) \in 1..Len(u) BY <1>2, <1>5, <2>4
  <2> QED BY <2>2, <2>3, <2>4, <2>5, <2>6
<1>8. ASSUME NEW i \in Kept(both, more)
      PROVE  g[i] \in 1..Len(u) /\ u[g[i]] = both[i]
  <2>1. g[i] = IF i <= Len(m) THEN f[i] ELSE Len(t) + d + (i - Len(m)) OBVIOUS
  <2>2. CASE i <= Len(m)
    <3>1. f[i] \in 1..Len(u) BY <1>2, <1>5, <1>6, <2>2
    <3> QED BY <1>6, <2>1, <2>2, <3>1
  <2>3. CASE ~(i <= Len(m)) BY <1>7, <2>1, <2>3
  <2> QED BY <2>2, <2>3
<1>9. ASSUME NEW i \in Kept(both, more), NEW j \in Kept(both, more), i < j
      PROVE  g[i] < g[j]
  <2>1. i \in Nat /\ j \in Nat BY <1>2, <1>5 DEF Kept
  <2>2. /\ g[i] = IF i <= Len(m) THEN f[i] ELSE Len(t) + d + (i - Len(m))
        /\ g[j] = IF j <= Len(m) THEN f[j] ELSE Len(t) + d + (j - Len(m))
    OBVIOUS
  <2>3. CASE j <= Len(m)
    <3>1. i <= Len(m) BY <1>2, <1>9, <2>1, <2>3
    <3>2. i \in Kept(m, l) /\ j \in Kept(m, l) BY <1>6, <2>3, <3>1
    <3>3. f[i] < f[j] BY <1>1, <1>9, <3>2 DEF Places
    <3> QED BY <2>2, <2>3, <3>1, <3>3
  <2>4. CASE ~(j <= Len(m)) /\ i <= Len(m)
    <3>1. f[i] \in 1..Len(t) BY <1>6, <2>4
    <3>2. f[i] < Len(t) + d + (j - Len(m)) BY <1>2, <2>1, <2>4, <3>1
    <3> QED BY <2>2, <2>4, <3>2
  <2>5. CASE ~(j <= Len(m)) /\ ~(i <= Len(m))
    <3>1. Len(t) + d + (i - Len(m)) < Len(t) + d + (j - Len(m))
      BY <1>2, <1>9, <2>1
    <3> QED BY <2>2, <2>5, <3>1
  <2> QED BY <2>3, <2>4, <2>5
<1>10. g \in [Kept(both, more) -> 1..Len(u)]
  <2> DEFINE G(i) == IF i <= Len(m) THEN f[i] ELSE Len(t) + d + (i - Len(m))
  <2>1. \A i \in Kept(both, more) : G(i) \in 1..Len(u) BY <1>8
  <2>2. g = [i \in Kept(both, more) |-> G(i)] OBVIOUS
  <2> HIDE DEF g, G
  <2> QED BY <2>1, <2>2
<1> HIDE DEF g
<1>11. Places(both, more, u, g) BY <1>8, <1>9, <1>10 DEF Places
<1>12. Carried(both, more, u) BY <1>10, <1>11 DEF Carried
<1> QED BY <1>12 DEF u, both

-----------------------------------------------------------------------------
(* What the host keeps: the first place of each line.                      *)

\* Induction, for sets of numbers.
LEMMA CountingUp ==
    ASSUME NEW n \in Nat, NEW S, 0 \in S,
           \A i \in 0..n : i # n /\ i \in S => i + 1 \in S
    PROVE  \A i \in 0..n : i \in S
<1> DEFINE Bad == (0..n) \ S
<1>1. SUFFICES ASSUME Bad # {} PROVE FALSE OBVIOUS
<1>2. Bad \subseteq Nat OBVIOUS
<1>3. IsWellFoundedOn(OpToRel(<, Nat), Nat) BY NatLessThanWellFounded
<1>4. PICK d \in Bad : \A e \in Bad : ~(<<e, d>> \in OpToRel(<, Nat))
  <2> HIDE DEF Bad
  <2> QED BY <1>1, <1>2, <1>3, WFMin
<1>5. d \in 0..n /\ d \notin S /\ d # 0 BY <1>4
<1>6. d - 1 \in 0..n /\ d - 1 \in Nat /\ d \in Nat /\ d - 1 < d /\ (d - 1) + 1 = d /\ d - 1 # n
  BY <1>5
<1>7. d - 1 \in S
  <2>1. <<d - 1, d>> \in OpToRel(<, Nat) BY <1>6 DEF OpToRel
  <2>2. d - 1 \notin Bad BY <1>4, <2>1
  <2> QED BY <1>6, <2>2
<1> QED BY <1>5, <1>6, <1>7

\* A set of numbers has a smallest.
LEMMA MinFacts ==
    ASSUME NEW S \in SUBSET Nat, S # {}
    PROVE  Min(S) \in S /\ \A y \in S : Min(S) <= y
<1>1. IsWellFoundedOn(OpToRel(<, Nat), Nat) BY NatLessThanWellFounded
<1>2. PICK x \in S : \A y \in S : ~(<<y, x>> \in OpToRel(<, Nat))
  BY <1>1, WFMin
<1>3. \A y \in S : x <= y
  <2> TAKE y \in S
  <2>1. x \in Nat /\ y \in Nat BY <1>2
  <2>2. ~(y < x) BY <1>2, <2>1 DEF OpToRel
  <2> QED BY <2>1, <2>2
<1> QED BY <1>3 DEF Min

\* The first place is at most any other.
LEMMA FoundAtFacts ==
    ASSUME NEW t \in Seq(Nat), NEW x, NEW n \in Nat
    PROVE  /\ FoundAt(t, x, n) \in 1..Len(t) + 1
           /\ \A k \in 1..Len(t) : n < k /\ t[k] = x => FoundAt(t, x, n) <= k
<1> DEFINE S == {j \in (n + 1)..Len(t) : t[j] = x} \cup {Len(t) + 1}
<1>1. Len(t) \in Nat BY LenProperties
<1>2. S \in SUBSET Nat /\ S # {} /\ S \subseteq 1..Len(t) + 1 BY <1>1
<1>3. Min(S) \in S /\ \A y \in S : Min(S) <= y
  <2> HIDE DEF S
  <2> QED BY <1>2, MinFacts
<1>4. FoundAt(t, x, n) = Min(S) BY DEF FoundAt
<1>5. \A k \in 1..Len(t) : n < k /\ t[k] = x => k \in S BY <1>1
<1> HIDE DEF S
<1> QED BY <1>2, <1>3, <1>4, <1>5

\* Lines that can all be found, in order, are found by looking for the first
\* place of each.
LEMMA CarriedIsKept ==
    ASSUME NEW m \in Seq(Nat), NEW t \in Seq(Nat), Carried(m, lost, t)
    PROVE  Keeps(m, t)
<1>1. PICK f \in [Kept(m, lost) -> 1..Len(t)] : Places(m, lost, t, f)
  BY DEF Carried
<1>2. PICK n \in Nat : n = Len(m) BY LenProperties
<1>3. PICK top \in Nat : top = Len(t) BY LenProperties
<1> DEFINE Step(i, before) == IF m[i] = 0 \/ m[i] \in lost THEN before
                              ELSE FoundAt(t, m[i], before)
           F(u) == [i \in 0..n |-> IF i = 0 THEN 0
                                   ELSE IF m[i] = 0 \/ m[i] \in lost THEN u[i - 1]
                                   ELSE FoundAt(t, m[i], u[i - 1])]
           Begun(u, k) == /\ u \in [0..n -> Nat] /\ u[0] = 0
                          /\ \A i \in 1..k : u[i] = Step(i, u[i - 1])
           Can == {k \in 0..n : \E u \in [0..n -> Nat] : Begun(u, k)}
<1>4. \A i, before \in Nat : Step(i, before) \in Nat
  <2> TAKE i, before \in Nat
  <2>1. FoundAt(t, m[i], before) \in 1..top + 1 BY <1>3, FoundAtFacts
  <2> QED BY <2>1
<1> HIDE DEF Step
<1>5. 0 \in Can
  <2> DEFINE u == [i \in 0..n |-> 0]
  <2>1. u \in [0..n -> Nat] /\ u[0] = 0 OBVIOUS
  <2> HIDE DEF u
  <2>2. Begun(u, 0) BY <2>1
  <2> QED BY <2>1, <2>2
<1>6. ASSUME NEW k \in 0..n, k # n, k \in Can
      PROVE  k + 1 \in Can
  <2>1. PICK u \in [0..n -> Nat] : Begun(u, k) BY <1>6
  <2> DEFINE v == [u EXCEPT ![k + 1] = Step(k + 1, u[k])]
  <2>2. k + 1 \in 0..n /\ k + 1 \in Nat /\ u[k] \in Nat /\ k + 1 # 0 BY <1>6
  <2>3. v \in [0..n -> Nat] BY <1>4, <2>2
  <2>4. v[k + 1] = Step(k + 1, u[k]) /\ \A i \in 0..n : i # k + 1 => v[i] = u[i]
    BY <2>2
  <2> HIDE DEF v
  <2>5. v[0] = 0
    <3>1. 0 \in 0..n OBVIOUS
    <3> QED BY <2>1, <2>2, <2>4, <3>1
  <2>6. ASSUME NEW i \in 1..k + 1 PROVE v[i] = Step(i, v[i - 1])
    <3>1. i - 1 \in 0..n /\ i - 1 # k + 1 /\ v[i - 1] = u[i - 1]
      <4>1. i - 1 \in 0..n /\ i - 1 # k + 1 BY <1>6
      <4> QED BY <2>4, <4>1
    <3>2. CASE i = k + 1
      <4>1. i - 1 = k BY <3>2
      <4> QED BY <2>4, <3>1, <3>2, <4>1
    <3>3. CASE i # k + 1
      <4>1. i \in 1..k /\ i \in 0..n BY <1>6, <3>3
      <4> QED BY <2>1, <2>4, <3>1, <3>3, <4>1
    <3> QED BY <3>2, <3>3
  <2>7. Begun(v, k + 1) BY <2>3, <2>5, <2>6
  <2> QED BY <2>2, <2>3, <2>7
<1>7. \A k \in 0..n : k \in Can
  <2> HIDE DEF Can
  <2> QED BY <1>5, <1>6, CountingUp
<1>8. PICK g \in [0..n -> Nat] : Begun(g, n)
  <2>1. n \in Can
    <3> HIDE DEF Can
    <3>1. n \in 0..n OBVIOUS
    <3> QED BY <1>7, <3>1
  <2> QED BY <2>1
<1>9. g = F(g)
  <2> DEFINE Value(i) == IF i = 0 THEN 0
                         ELSE IF m[i] = 0 \/ m[i] \in lost THEN g[i - 1]
                         ELSE FoundAt(t, m[i], g[i - 1])
  <2>1. ASSUME NEW i \in 0..n PROVE g[i] = Value(i)
    <3>1. CASE i = 0 BY <1>8, <3>1
    <3>2. CASE i # 0
      <4>1. i \in 1..n BY <3>2
      <4>2. g[i] = Step(i, g[i - 1]) BY <1>8, <4>1
      <4> QED BY <3>2, <4>2 DEF Step
    <3> QED BY <3>1, <3>2
  <2>2. F(g) = [i \in 0..n |-> Value(i)] OBVIOUS
  <2> HIDE DEF Value, F
  <2>3. g = [i \in 0..n |-> Value(i)] BY <2>1
  <2> QED BY <2>2, <2>3
<1> DEFINE place == CHOOSE u : u = F(u)
<1>10. place = F(place)
  <2> HIDE DEF F
  <2> QED BY <1>9
<1>11. \A i \in 0..n : place[i] = IF i = 0 THEN 0
                                  ELSE IF m[i] = 0 \/ m[i] \in lost THEN place[i - 1]
                                  ELSE FoundAt(t, m[i], place[i - 1])
  <2> HIDE DEF place
  <2> QED BY <1>10
<1>12. Keeps(m, t) = (place[n] <= top)
  BY <1>2, <1>3 DEF Keeps, place
\* No line is found later than its place in f.
<1> DEFINE Early == {i \in 0..n : /\ place[i] \in 0..top
                                  /\ \A j \in Kept(m, lost) : i < j => place[i] < f[j]}
<1> HIDE DEF place
<1>13. 0 \in Early
  <2>1. place[0] = 0
    <3>1. 0 \in 0..n OBVIOUS
    <3> QED BY <1>11, <3>1
  <2>2. \A j \in Kept(m, lost) : 0 < f[j] BY <1>3
  <2> QED BY <2>1, <2>2
<1>14. ASSUME NEW i \in 0..n, i # n, i \in Early
       PROVE  i + 1 \in Early
  <2>1. i + 1 \in 0..n /\ (i + 1) - 1 = i /\ i + 1 # 0 /\ i + 1 \in 1..n BY <1>14
  <2>2. place[i + 1] = IF m[i + 1] = 0 \/ m[i + 1] \in lost THEN place[i]
                       ELSE FoundAt(t, m[i + 1], place[i])
    BY <1>11, <2>1
  <2>3. place[i] \in 0..top /\ \A j \in Kept(m, lost) : i < j => place[i] < f[j]
    BY <1>14
  <2>4. \A j \in Kept(m, lost) : j \in Nat /\ (i + 1 < j => i < j)
    BY <1>2 DEF Kept
  <2>5. CASE m[i + 1] = 0 \/ m[i + 1] \in lost
    BY <2>1, <2>2, <2>3, <2>4, <2>5
  <2>6. CASE ~(m[i + 1] = 0 \/ m[i + 1] \in lost)
    <3>1. i + 1 \in Kept(m, lost) BY <1>2, <2>1, <2>6 DEF Kept
    <3>2. f[i + 1] \in 1..top /\ t[f[i + 1]] = m[i + 1] BY <1>1, <1>3, <3>1 DEF Places
    <3>3. place[i] < f[i + 1]
      <4>1. i < i + 1 BY <1>14
      <4> QED BY <2>3, <3>1, <4>1
    <3>4. /\ FoundAt(t, m[i + 1], place[i]) \in 1..top + 1
          /\ \A k \in 1..top : place[i] < k /\ t[k] = m[i + 1]
                                  => FoundAt(t, m[i + 1], place[i]) <= k
      <4>1. place[i] \in Nat BY <2>3
      <4> QED BY <1>3, <4>1, FoundAtFacts
    <3>5. place[i + 1] \in 1..top + 1 /\ place[i + 1] <= f[i + 1]
      BY <2>2, <2>6, <3>2, <3>3, <3>4
    <3>6. place[i + 1] \in 0..top
      <4>1. top \in Nat BY <1>3
      <4>2. PICK a \in 1..top + 1, b \in 1..top : a = place[i + 1] /\ b = f[i + 1] /\ a <= b
        BY <3>2, <3>5
      <4> QED BY <4>1, <4>2
    <3>7. ASSUME NEW j \in Kept(m, lost), i + 1 < j
          PROVE  place[i + 1] < f[j]
      <4>1. f[i + 1] < f[j] BY <1>1, <3>1, <3>7 DEF Places
      <4>2. f[j] \in Nat BY <1>3
      <4> QED BY <3>2, <3>5, <4>1, <4>2
    <3> QED BY <2>1, <3>6, <3>7
  <2> QED BY <2>5, <2>6
<1>15. \A i \in 0..n : i \in Early
  <2> HIDE DEF Early
  <2> QED BY <1>13, <1>14, CountingUp
<1>16. place[n] \in 0..top
  <2>1. n \in 0..n OBVIOUS
  <2> QED BY <1>15, <2>1
<1>17. place[n] <= top BY <1>16
<1> QED BY <1>12, <1>17

-----------------------------------------------------------------------------
(* What the host keeps: what each operation of the terminal lets go of.    *)

\* The scrollback and the first k rows of the screen.
Upto(t, k) == t.back \o Top(t.rows, k)

\* Newlines: rows go into the scrollback, and the next ones come to the top.
LEMMA NewlinesLog ==
    ASSUME NEW t, NEW h \in Nat, NEW c \in Nat, NEW at \in Nat, c + at <= h,
           Terminal(t, h)
    PROVE  /\ Newlines(t, c).back = Upto(t, c)
           /\ Upto(Newlines(t, c), at) = Upto(t, c + at)
<1> DEFINE all == t.rows \o Blanks(c)
<1>1. t.back \in Seq(Nat) /\ t.rows \in Seq(Nat) /\ Len(t.rows) = h
  BY DEF Terminal, Screen
<1>2. Blanks(c) \in Seq(Nat) BY BlanksAreRows DEF Screen
<1>3. all \in Seq(Nat) /\ Len(all) = h + Len(Blanks(c)) /\ Len(Blanks(c)) \in Nat
  BY <1>1, <1>2, ConcatProperties, LenProperties
<1>4. \A n \in 0..h : Top(all, n) = Top(t.rows, n) BY <1>1, <1>2, TopOfJoined
<1>5. Newlines(t, c) = [back |-> t.back \o Top(all, c), rows |-> From(all, c + 1)]
  BY DEF Newlines
<1> HIDE DEF all
<1>6. /\ Newlines(t, c).back = t.back \o Top(all, c)
      /\ Newlines(t, c).rows = From(all, c + 1)
  BY <1>5
<1>7. Top(all, c) \o Top(From(all, c + 1), at) = Top(all, c + at)
  <2>1. c + at <= Len(all) BY <1>3
  <2> QED BY <1>3, <2>1, TopInParts
<1>8. Top(all, c) \in Seq(Nat) /\ Top(From(all, c + 1), at) \in Seq(Nat)
  <2>1. c \in 0..Len(all) /\ at \in 0..(Len(all) - c) BY <1>3
  <2>2. /\ Top(all, c) \in Seq(Nat) /\ From(all, c + 1) \in Seq(Nat)
        /\ Len(From(all, c + 1)) = Len(all) - c
    BY <1>3, <2>1, TwoParts
  <2> QED BY <2>1, <2>2, TwoParts
<1>9. (t.back \o Top(all, c)) \o Top(From(all, c + 1), at)
        = t.back \o (Top(all, c) \o Top(From(all, c + 1), at))
  BY <1>1, <1>8, Regroup
<1>10. c \in 0..h /\ c + at \in 0..h OBVIOUS
<1>11. Top(all, c) = Top(t.rows, c) /\ Top(all, c + at) = Top(t.rows, c + at)
  BY <1>4, <1>10
<1> QED BY <1>6, <1>7, <1>9, <1>11 DEF Upto

\* What goes when text flows from row `at` on, and then k newlines follow.
Gone(at, text, h, k) == Less(at + Len(text), h) + k
Flowed(t, at, text, h, k) ==
    t.back \o Top(Top(t.rows, at) \o text, Gone(at, text, h, k))

\* Flowing text goes the same way as rows do, after the rows above it.
LEMMA FlowLog ==
    ASSUME NEW t, NEW h \in Nat, NEW at \in 0..h, NEW text \in Seq(Nat),
           NEW k \in Nat, Gone(at, text, h, k) <= at + Len(text),
           Terminal(t, h)
    PROVE  Upto(Flow(t, at, text), k) = Flowed(t, at, text, h, k)
<1> DEFINE all == Top(t.rows, at) \o text
           up == Less(at + Len(text), h)
<1>1. t.back \in Seq(Nat) /\ t.rows \in Seq(Nat) /\ Len(t.rows) = h
  BY DEF Terminal, Screen
<1>2. at \in Nat /\ Len(text) \in Nat /\ up \in Nat BY LenProperties, LessIsNat
<1>3. Top(t.rows, at) \in Seq(Nat) /\ Len(Top(t.rows, at)) = at BY <1>1, TwoParts
<1>4. all \in Seq(Nat) /\ Len(all) = at + Len(text) BY <1>3, ConcatProperties
<1>5. Flow(t, at, text)
        = [back |-> t.back \o Top(all, up),
           rows |-> From(all, up + 1) \o From(t.rows, Len(all) + 1)]
  BY <1>1, <1>4 DEF Flow
<1> HIDE DEF all, up
<1>6. up + k <= Len(all) BY <1>4 DEF up, Gone
<1>7. up \in 0..Len(all) /\ k \in 0..(Len(all) - up) BY <1>2, <1>4, <1>6
<1>8. /\ Top(all, up) \in Seq(Nat) /\ From(all, up + 1) \in Seq(Nat)
      /\ Len(From(all, up + 1)) = Len(all) - up
  BY <1>4, <1>7, TwoParts
<1>9. From(t.rows, Len(all) + 1) \in Seq(Nat)
  <2>1. Len(all) + 1 \in Nat \ {0} BY <1>2, <1>4
  <2> QED BY <1>1, <2>1, FromRows DEF Screen
<1>10. Top(From(all, up + 1) \o From(t.rows, Len(all) + 1), k) = Top(From(all, up + 1), k)
  <2>1. PICK x \in Seq(Nat) : x = From(all, up + 1) /\ k \in 0..Len(x) BY <1>7, <1>8
  <2>2. PICK y \in Seq(Nat) : y = From(t.rows, Len(all) + 1) BY <1>9
  <2>3. k \in 0..Len(x) BY <2>1
  <2>4. Top(x \o y, k) = Top(x, k) BY <2>3, TopOfJoined
  <2> QED BY <2>1, <2>2, <2>4
<1>11. Top(From(all, up + 1), k) \in Seq(Nat)
  <2>1. PICK x \in Seq(Nat) : x = From(all, up + 1) /\ k \in 0..Len(x) BY <1>7, <1>8
  <2>2. k \in 0..Len(x) BY <2>1
  <2>3. Top(x, k) \in Seq(Nat) BY <2>2, TwoParts
  <2> QED BY <2>1, <2>3
<1>12. Top(all, up) \o Top(From(all, up + 1), k) = Top(all, up + k)
  BY <1>2, <1>4, <1>6, TopInParts
<1>13. (t.back \o Top(all, up)) \o Top(From(all, up + 1), k)
         = t.back \o (Top(all, up) \o Top(From(all, up + 1), k))
  BY <1>1, <1>8, <1>11, Regroup
<1>14. /\ Flow(t, at, text).back = t.back \o Top(all, up)
       /\ Flow(t, at, text).rows = From(all, up + 1) \o From(t.rows, Len(all) + 1)
  BY <1>5
<1>15. Flow(t, at, text).back \o Top(Flow(t, at, text).rows, k) = t.back \o Top(all, up + k)
  BY <1>10, <1>12, <1>13, <1>14
<1> QED BY <1>15 DEF all, up, Upto, Flowed, Gone

\* It only adds to the scrollback.
LEMMA FlowAdds ==
    ASSUME NEW t, NEW h \in Nat, NEW at \in 0..h, NEW text \in Seq(Nat), Terminal(t, h)
    PROVE  \E w \in Seq(Nat) : Flow(t, at, text).back = t.back \o w
<1> DEFINE all == Top(t.rows, at) \o text
           up == Less(at + Len(text), h)
<1>1. t.back \in Seq(Nat) /\ t.rows \in Seq(Nat) /\ Len(t.rows) = h
  BY DEF Terminal, Screen
<1>2. /\ at \in Nat /\ Len(text) \in Nat /\ up \in Nat
      /\ up = IF at + Len(text) <= h THEN 0 ELSE at + Len(text) - h
  <2>1. PICK n \in Nat : n = at + Len(text) /\ Len(text) \in Nat BY LenProperties
  <2>2. Less(n, h) \in Nat /\ Less(n, h) = IF n <= h THEN 0 ELSE n - h BY LessIsNat
  <2> QED BY <2>1, <2>2
<1>3. Top(t.rows, at) \in Seq(Nat) /\ Len(Top(t.rows, at)) = at BY <1>1, TwoParts
<1>4. all \in Seq(Nat) /\ Len(all) = at + Len(text) BY <1>3, ConcatProperties
<1>5. Flow(t, at, text).back = t.back \o Top(all, up) BY <1>1, <1>4 DEF Flow
<1> HIDE DEF all, up
<1>6. up \in 0..Len(all) BY <1>2, <1>4
<1>7. Top(all, up) \in Seq(Nat) BY <1>4, <1>6, TwoParts
<1> QED BY <1>5, <1>7

\* Deleted lines leave the rows above them and the scrollback alone.
LEMMA DeleteLinesZone ==
    ASSUME NEW t, NEW h \in Nat, NEW at \in Nat, NEW n \in Nat, at + n = h,
           Terminal(t, h)
    PROVE  /\ DeleteLines(t, at, n).back = t.back
           /\ Top(DeleteLines(t, at, n).rows, at) = Top(t.rows, at)
<1>1. t.rows \in Seq(Nat) /\ Len(t.rows) = h BY DEF Terminal, Screen
<1> DEFINE top == Top(t.rows, at)
           below == From(t.rows, at + n + 1)
           blank == Blanks(n)
<1>2. top \in Seq(Nat) /\ Len(top) = at
  <2>1. at \in 0..h OBVIOUS
  <2> QED BY <1>1, <2>1, TwoParts
<1>3. below \in Seq(Nat)
  <2>1. at + n + 1 \in Nat \ {0} OBVIOUS
  <2> QED BY <1>1, <2>1, FromRows DEF Screen
<1>4. blank \in Seq(Nat) BY BlanksAreRows DEF Screen
<1>5. DeleteLines(t, at, n) = [t EXCEPT !.rows = top \o below \o blank]
  BY DEF DeleteLines
<1> HIDE DEF top, below, blank
<1>6. DeleteLines(t, at, n) = [back |-> t.back, rows |-> top \o below \o blank]
  BY <1>5 DEF Terminal
<1>7. below \o blank \in Seq(Nat) BY <1>3, <1>4, ConcatProperties
<1>8. top \o below \o blank = top \o (below \o blank)
  BY <1>2, <1>3, <1>4, Regroup
<1>9. at \in 0..Len(top) BY <1>2
<1>10. Top(top \o (below \o blank), at) = Top(top, at) BY <1>2, <1>7, <1>9, TopOfJoined
<1>11. Top(top, at) = top BY <1>2, SubSeqFull DEF Top
<1> QED BY <1>6, <1>8, <1>10, <1>11 DEF top

\* So does a full repaint of the region.
LEMMA RenderFullZone ==
    ASSUME NEW t, NEW h \in Nat, NEW shown \in Seq(Nat), NEW at \in Nat,
           at = Offset(Len(shown), h), Terminal(t, h)
    PROVE  /\ RenderFull(t, shown, h).back = t.back
           /\ Top(RenderFull(t, shown, h).rows, at) = Top(t.rows, at)
<1>1. t.rows \in Seq(Nat) /\ Len(t.rows) = h BY DEF Terminal, Screen
<1> DEFINE new == Visible(shown, h)
           top == Top(t.rows, at)
           rest == From(t.rows, at + Len(new) + 1)
<1>2. new \in Seq(Nat) /\ Len(new) \in Nat BY VisibleRows, LenProperties DEF Screen
<1>3. at \in 0..h
  <2>1. Len(shown) \in Nat BY LenProperties
  <2> QED BY <2>1, RegionFits
<1>4. RenderFull(t, shown, h) = [t EXCEPT !.rows = top \o new \o rest]
  BY DEF RenderFull, Paint
<1>5. top \in Seq(Nat) /\ Len(top) = at BY <1>1, <1>3, TwoParts
<1> HIDE DEF new, top
<1>6. rest \in Seq(Nat)
  <2>1. at + Len(new) + 1 \in Nat \ {0} BY <1>2
  <2> QED BY <1>1, <2>1, FromRows DEF Screen
<1> HIDE DEF rest
<1>7. RenderFull(t, shown, h) = [back |-> t.back, rows |-> top \o new \o rest]
  BY <1>4 DEF Terminal
<1>8. new \o rest \in Seq(Nat) BY <1>2, <1>6, ConcatProperties
<1>9. top \o new \o rest = top \o (new \o rest) BY <1>2, <1>5, <1>6, Regroup
<1>10. at \in 0..Len(top) BY <1>5
<1>11. Top(top \o (new \o rest), at) = Top(top, at) BY <1>5, <1>8, <1>10, TopOfJoined
<1>12. Top(top, at) = top BY <1>5, SubSeqFull DEF Top
<1> QED BY <1>7, <1>9, <1>11, <1>12 DEF top

\* And a repaint of the rows that changed.
LEMMA RenderDiffZone ==
    ASSUME NEW t, NEW h \in Nat, NEW shown \in Seq(Nat), NEW prev \in Seq(Nat),
           NEW at \in Nat, at = Offset(Len(shown), h), Len(prev) = Len(shown),
           Terminal(t, h), Terminal(RenderDiff(t, shown, prev, h), h)
    PROVE  /\ RenderDiff(t, shown, prev, h).back = t.back
           /\ Top(RenderDiff(t, shown, prev, h).rows, at) = Top(t.rows, at)
<1> DEFINE u == RenderDiff(t, shown, prev, h)
           new == Visible(shown, h)
           old == Visible(prev, h)
           Drawn(i) == IF i > at /\ new[i - at] # old[i - at] THEN new[i - at]
                       ELSE t.rows[i]
           drawn == [i \in DOMAIN t.rows |-> Drawn(i)]
<1>1. /\ t.rows \in Seq(Nat) /\ Len(t.rows) = h /\ DOMAIN t.rows = 1..h
      /\ u.rows \in Seq(Nat) /\ Len(u.rows) = h
  BY LenProperties DEF Terminal, Screen
<1>2. at \in 0..h
  <2>1. Len(shown) \in Nat BY LenProperties
  <2> QED BY <2>1, RegionFits
<1>3. u = [t EXCEPT !.rows = drawn] BY DEF RenderDiff
<1>4. \A i \in 1..at : Drawn(i) = t.rows[i] OBVIOUS
<1> HIDE DEF u, Drawn
<1>5. \A i \in 1..h : drawn[i] = Drawn(i) BY <1>1
<1> HIDE DEF drawn
<1>6. u.back = t.back /\ u.rows = drawn BY <1>3 DEF Terminal
<1>7. Screen(Top(t.rows, at), at) /\ \A i \in 1..at : Top(t.rows, at)[i] = t.rows[i]
  BY <1>1, <1>2, TopRows
<1>8. Screen(Top(u.rows, at), at) /\ \A i \in 1..at : Top(u.rows, at)[i] = u.rows[i]
  BY <1>1, <1>2, TopRows
<1>9. \A i \in 1..at : Top(u.rows, at)[i] = Top(t.rows, at)[i]
  <2> TAKE i \in 1..at
  <2>1. i \in 1..h BY <1>2
  <2> QED BY <1>4, <1>5, <1>6, <1>7, <1>8, <2>1
<1>10. Top(u.rows, at) = Top(t.rows, at)
  <2> DEFINE a == Top(u.rows, at)
             b == Top(t.rows, at)
  <2>1. a \in Seq(Nat) /\ b \in Seq(Nat) /\ Len(a) = at /\ Len(b) = at
    BY <1>7, <1>8 DEF Screen
  <2>2. \A i \in 1..at : a[i] = b[i] BY <1>9
  <2> HIDE DEF a, b
  <2>3. a = b BY <2>1, <2>2, SeqEqual
  <2> QED BY <2>3 DEF a, b
<1> QED BY <1>6, <1>10 DEF u

LEMMA HiddenRows ==
    ASSUME NEW shown \in Seq(Nat), NEW h \in Nat
    PROVE  Hidden(shown, h) \in Seq(Nat)
<1>1. Len(shown) \in Nat BY LenProperties
<1>2. Crop(Len(shown), h) \in 0..Len(shown) BY <1>1, RegionFits
<1> QED BY <1>2, TopRows DEF Hidden, Screen

\* Hidden rows are added to the scrollback, and nothing else happens.
LEMMA PushCropAdds ==
    ASSUME NEW t, NEW h \in Nat, NEW k \in Nat, NEW shown \in Seq(Nat), Terminal(t, k)
    PROVE  /\ PushCrop(t, shown, h).back = t.back \o Hidden(shown, h)
           /\ PushCrop(t, shown, h).rows = t.rows
<1> DEFINE grown == t.back \o Hidden(shown, h)
<1>4. PushCrop(t, shown, h) = [t EXCEPT !.back = grown] BY DEF PushCrop
<1> HIDE DEF grown
<1>5. PushCrop(t, shown, h).back = grown /\ PushCrop(t, shown, h).rows = t.rows
  BY <1>4 DEF Terminal
<1> QED BY <1>5 DEF grown

-----------------------------------------------------------------------------
(* What the host keeps: the invariant.                                     *)

\* What the lines mirrored so far are looked for in: a clean zone holds none.
HostLog ==
    IF zoneDirty THEN Upto(term, Offset(view, Len(term.rows))) ELSE term.back

\* The lines mirrored so far are there, in order, unless they are excepted.
ScrollbackInv ==
    /\ mirrored \in Seq(Nat)
    /\ view # None => view \in Nat \ {0}
    /\ Len(term.rows) \in Nat \ {0} /\ Terminal(term, Len(term.rows))
    /\ zoneDirty \in BOOLEAN
    /\ view = None => zoneDirty = FALSE
    /\ Carried(mirrored, lost, HostLog)

LEMMA ZoneRows ==
    ASSUME ScrollbackInv
    PROVE  LET h == Len(term.rows)
           IN  /\ Zone \in Seq(Nat) /\ term.back \in Seq(Nat) /\ HostLog \in Seq(Nat)
               /\ term.rows \in Seq(Nat) /\ h \in Nat \ {0}
               /\ view # None => /\ Offset(view, h) \in 0..h
                                 /\ Zone = Top(term.rows, Offset(view, h))
                                 /\ Len(Zone) = Offset(view, h)
                                 /\ Upto(term, Offset(view, h)) = term.back \o Zone
               /\ Carried(mirrored, lost, term.back \o Zone)
<1> DEFINE h == Len(term.rows)
<1>1. /\ term.rows \in Seq(Nat) /\ h \in Nat \ {0}
      /\ term.back \in Seq(Nat) /\ mirrored \in Seq(Nat)
  BY DEF ScrollbackInv, Terminal, Screen
<1>2. CASE view = None
  <2>1. Zone = << >> BY <1>2 DEF Zone
  <2>2. << >> \in Seq(Nat) BY EmptySeq
  <2>3. HostLog = term.back BY <1>2 DEF ScrollbackInv, HostLog
  <2>4. term.back \o << >> = term.back BY <1>1, ConcatEmptySeq
  <2> QED BY <1>1, <1>2, <2>1, <2>2, <2>3, <2>4 DEF ScrollbackInv
<1>3. CASE view # None
  <2> DEFINE at == Offset(view, h)
  <2>1. at \in 0..h BY <1>1, <1>3, RegionFits DEF ScrollbackInv
  <2>2. Zone = Top(term.rows, at) BY <1>3 DEF Zone
  <2>3. HostLog = IF zoneDirty THEN Upto(term, at) ELSE term.back BY DEF HostLog
  <2> HIDE DEF at
  <2>4. Zone \in Seq(Nat) /\ Len(Zone) = at BY <1>1, <2>1, <2>2, TwoParts
  <2>5. term.back \o Zone \in Seq(Nat) BY <1>1, <2>4, ConcatProperties
  <2>6. Upto(term, at) = term.back \o Zone BY <2>2 DEF Upto
  <2>7. HostLog \in Seq(Nat) BY <1>1, <2>3, <2>5, <2>6
  <2>8. Carried(mirrored, lost, term.back \o Zone)
    <3>1. CASE zoneDirty BY <2>3, <2>6, <3>1 DEF ScrollbackInv
    <3>2. CASE ~zoneDirty
      <4>1. Carried(mirrored, lost, term.back) BY <2>3, <3>2 DEF ScrollbackInv
      <4> QED BY <1>1, <2>4, <4>1, CarriedOn
    <3> QED BY <3>1, <3>2
  <2> QED BY <1>1, <1>3, <2>1, <2>2, <2>4, <2>6, <2>7, <2>8 DEF at
<1> QED BY <1>2, <1>3

\* What is looked for without the zone, once the zone's lines are excepted.
LEMMA ZoneGoes ==
    ASSUME ScrollbackInv, NEW more, lost \subseteq more,
           zoneDirty => Lines(Zone) \subseteq more
    PROVE  Carried(mirrored, more, term.back)
<1>1. /\ Zone \in Seq(Nat) /\ term.back \in Seq(Nat) /\ mirrored \in Seq(Nat)
      /\ Carried(mirrored, lost, term.back \o Zone)
  BY ZoneRows DEF ScrollbackInv
<1>2. CASE zoneDirty
  <2>1. \A k \in 1..Len(Zone) : Zone[k] \in Range(mirrored) => Zone[k] \in more
    <3>1. DOMAIN Zone = 1..Len(Zone) BY <1>1, LenProperties
    <3>2. Lines(Zone) \subseteq more BY <1>2
    <3> QED BY <3>1, <3>2 DEF Lines, Range
  <2> QED BY <1>1, <2>1, CarriedBefore
<1>3. CASE ~zoneDirty
  <2>1. Carried(mirrored, lost, term.back) BY <1>3 DEF ScrollbackInv, HostLog
  <2>2. << >> \in Seq(Nat) /\ term.back \o << >> = term.back
    BY <1>1, EmptySeq, ConcatEmptySeq
  <2>3. Carried(mirrored, more, term.back \o << >>) BY <1>1, <2>1, <2>2, CarriedOn
  <2> QED BY <2>2, <2>3
<1> QED BY <1>2, <1>3

LEMMA ScrollbackInitially == Init => ScrollbackInv
<1> SUFFICES ASSUME Init PROVE ScrollbackInv OBVIOUS
<1>1. hostRows \in Nat \ {0} BY HostViewAssumption DEF Init
<1>2. Screen(Blanks(hostRows), hostRows) BY <1>1, BlanksAreRows
<1>3. /\ view = None /\ zoneDirty = FALSE /\ mirrored = << >>
      /\ term = [back |-> << >>, rows |-> Blanks(hostRows)]
  BY DEF Init
<1>4. << >> \in Seq(Nat) /\ Len(<< >>) = 0 BY EmptySeq
<1>5. Terminal(term, hostRows) /\ Len(term.rows) = hostRows
  BY <1>2, <1>3, <1>4 DEF Terminal, Screen
<1>6. Carried(<< >>, lost, HostLog)
  <2>1. Kept(<< >>, lost) = {} BY <1>4 DEF Kept
  <2> DEFINE f == [i \in Kept(<< >>, lost) |-> 1]
  <2>2. f \in [Kept(<< >>, lost) -> 1..Len(HostLog)] BY <2>1
  <2>3. Places(<< >>, lost, HostLog, f) BY <2>1, <2>2 DEF Places
  <2> QED BY <2>2, <2>3 DEF Carried
<1> QED BY <1>1, <1>3, <1>4, <1>5, <1>6 DEF ScrollbackInv

\* A step of a host whose resize is not handled yet: all that was in the zone,
\* and the new lines s, are excepted.
LEMMA DelayedKeeps ==
    ASSUME ScrollbackInv, resized, NEW t, Draws(t), NEW s \in Seq(Nat),
           mirrored' = mirrored \o s, zoneDirty' \in BOOLEAN,
           view' # None => view' \in Nat \ {0}, view' = None => zoneDirty' = FALSE,
           lost \subseteq lost', Range(s) \subseteq lost',
           zoneDirty => Lines(Zone) \subseteq lost'
    PROVE  ScrollbackInv'
<1>1. PICK h \in Nat \ {0} : h = Len(term.rows) /\ Terminal(term, h)
  BY DEF ScrollbackInv
<1>2. Terminal(term', h) BY <1>1, GarbledKeeps
<1>3. PICK w \in Seq(Nat) : term'.back = term.back \o w BY <1>1, GarbledKeeps
<1>4. /\ Len(term'.rows) = h /\ term'.rows \in Seq(Nat) /\ term'.back \in Seq(Nat)
  BY <1>2 DEF Terminal, Screen
<1>5. mirrored \in Seq(Nat) /\ term.back \in Seq(Nat) BY ZoneRows DEF ScrollbackInv
<1>6. Carried(mirrored, lost', term.back) BY ZoneGoes
<1>7. Carried(mirrored, lost', term'.back) BY <1>3, <1>5, <1>6, CarriedOn
<1>8. PICK x \in Seq(Nat) : HostLog' = term'.back \o x
  <2>1. CASE zoneDirty'
    <3> DEFINE at == Offset(view', Len(term'.rows))
    <3>1. HostLog' = Upto(term', at) BY <2>1 DEF HostLog
    <3>2. at \in 0..Len(term'.rows) BY <1>1, <1>4, <2>1, RegionFits
    <3> HIDE DEF at
    <3>3. Top(term'.rows, at) \in Seq(Nat) BY <1>4, <3>2, TwoParts
    <3> QED BY <3>1, <3>3 DEF Upto
  <2>2. CASE ~zoneDirty'
    <3>1. HostLog' = term'.back BY <2>2 DEF HostLog
    <3>2. << >> \in Seq(Nat) /\ term'.back \o << >> = term'.back
      BY <1>4, EmptySeq, ConcatEmptySeq
    <3> QED BY <3>1, <3>2
  <2> QED BY <2>1, <2>2
<1>9. Carried(mirrored \o s, lost', term'.back \o x)
  <2>1. \A i \in 1..Len(s) : s[i] \in lost'
    <3>1. DOMAIN s = 1..Len(s) BY LenProperties
    <3> QED BY <3>1 DEF Range
  <2>2. 0 \in Nat OBVIOUS
  <2> QED BY <1>4, <1>5, <1>7, <1>8, <2>1, <2>2, CarriedLines
<1>10. mirrored' \in Seq(Nat) BY <1>5, ConcatProperties
<1> QED BY <1>1, <1>2, <1>4, <1>8, <1>9, <1>10 DEF ScrollbackInv

LEMMA DelayedStays ==
    ASSUME ScrollbackInv, resized, NEW t, Draws(t), mirrored' = mirrored,
           zoneDirty' \in BOOLEAN, view' = view \/ view' = None \/ view' \in Nat \ {0},
           view' = None => zoneDirty' = FALSE,
           lost \subseteq lost', zoneDirty => Lines(Zone) \subseteq lost'
    PROVE  ScrollbackInv'
<1>1. << >> \in Seq(Nat) /\ Len(<< >>) = 0 BY EmptySeq
<1>2. Range(<< >>) = {}
  <2>1. DOMAIN << >> = {} BY <1>1, LenProperties
  <2> QED BY <2>1 DEF Range
<1>3. mirrored' = mirrored \o << >> BY ConcatEmptySeq DEF ScrollbackInv
<1>4. view' # None => view' \in Nat \ {0} BY DEF ScrollbackInv
<1> QED BY <1>1, <1>2, <1>3, <1>4, DelayedKeeps

\* The region takes the last r of the host's h rows.
Layout(at, r, h) == at \in Nat /\ r \in Nat /\ h \in Nat /\ at + r = h

\* Text that flows from row `at` on over r deleted rows, and c newlines.
Shifted(t, at, r, text, c) == Newlines(Flow(DeleteLines(t, at, r), at, text), c)

LEMMA ScrolledLog ==
    ASSUME NEW t, NEW at, NEW r, NEW h, Layout(at, r, h),
           Terminal(t, h), NEW text \in Seq(Nat), NEW c \in 0..r,
           Gone(at, text, h, c) <= Len(text)
    PROVE  /\ Terminal(Shifted(t, at, r, text, c), h)
           /\ Upto(Shifted(t, at, r, text, c), at)
                = Upto(t, at) \o Top(text, Gone(at, text, h, c))
<1> DEFINE bare == DeleteLines(t, at, r)
           flowed == Flow(bare, at, text)
           done == Newlines(flowed, c)
           zone == Top(t.rows, at)
           up == Less(at + Len(text), h)
<1> USE DEF Layout
<1>0. up \in Nat /\ up + c <= Len(text)
  <2>1. at + Len(text) \in Nat BY LenProperties
  <2> QED BY <2>1, LessIsNat DEF Gone
<1>1. Len(text) \in Nat /\ c \in Nat /\ c <= r /\ at \in 0..h BY LenProperties
<1>2. Terminal(bare, h) /\ bare.back = t.back /\ Top(bare.rows, at) = zone
  <2>1. Terminal(bare, h) BY DeleteLinesKeeps
  <2>2. bare.back = t.back /\ Top(bare.rows, at) = zone BY DeleteLinesZone
  <2> QED BY <2>1, <2>2
<1> HIDE DEF bare, up
<1>3. Terminal(flowed, h) BY <1>1, <1>2, FlowKeeps
<1>4. Upto(flowed, c + at) = bare.back \o Top(zone \o text, up + (c + at))
  <2>1. PICK k \in Nat : k = c + at /\ up + k <= at + Len(text)
    BY <1>0, <1>1
  <2>2. Upto(flowed, k) = Flowed(bare, at, text, h, k)
    <3>1. Gone(at, text, h, k) <= at + Len(text) BY <2>1 DEF Gone, up
    <3> QED BY <1>1, <1>2, <2>1, <3>1, FlowLog
  <2>3. Flowed(bare, at, text, h, k) = bare.back \o Top(zone \o text, up + k)
    BY <1>2 DEF Flowed, Gone, up
  <2> QED BY <2>1, <2>2, <2>3
<1> HIDE DEF flowed
<1>5. /\ Terminal(done, h)
      /\ Upto(done, at) = Upto(flowed, c + at)
  <2>1. c + at <= h /\ c \in Nat BY <1>1
  <2>2. Terminal(done, h) BY <1>3, <2>1, NewlinesKeep
  <2>3. Upto(done, at) = Upto(flowed, c + at)
    BY <1>3, <2>1, NewlinesLog
  <2> QED BY <2>2, <2>3
<1>6. t.back \in Seq(Nat) /\ zone \in Seq(Nat) /\ Len(zone) = at
  <2>1. t.rows \in Seq(Nat) /\ Len(t.rows) = h BY DEF Terminal, Screen
  <2> QED BY <1>1, <2>1, TwoParts DEF Terminal
<1> HIDE DEF zone
<1>7. PICK q \in 0..Len(text) : q = up + c BY <1>0, <1>1
<1>8. Top(zone \o text, up + (c + at)) = zone \o Top(text, q)
  <2>1. up + (c + at) = Len(zone) + q BY <1>0, <1>1, <1>6, <1>7
  <2>2. Top(zone \o text, Len(zone) + q) = zone \o Top(text, q) BY <1>6, <1>7, TopBeyond
  <2> QED BY <2>1, <2>2
<1>9. PICK w \in Seq(Nat) : w = Top(text, q) BY <1>7, TwoParts
<1>10. (t.back \o zone) \o w = t.back \o (zone \o w)
  <2>1. PICK b \in Seq(Nat) : b = t.back BY <1>6
  <2>2. (b \o zone) \o w = b \o (zone \o w) BY <1>6, <1>9, Regroup
  <2> QED BY <2>1, <2>2
<1>11. Upto(done, at) = Upto(t, at) \o Top(text, up + c)
  BY <1>2, <1>4, <1>5, <1>7, <1>8, <1>9, <1>10 DEF Upto, zone
<1> QED BY <1>5, <1>11 DEF zone, flowed, bare, up, Shifted, Gone

\* After the rows of v, those of u have the text and what follows it.
Follows(u, v, text) == \E x \in Seq(Nat) : u = v \o (text \o x)

\* Few lines that flow over a region of which more rows are scrolled out: what
\* follows them are rows of the region.
LEMMA ShortLog ==
    ASSUME NEW t, NEW at, NEW r, NEW h, Layout(at, r, h),
           Terminal(t, h), NEW text \in Seq(Nat), NEW c \in 0..r,
           Len(text) <= c
    PROVE  /\ Terminal(Shifted(t, at, r, text, c), h)
           /\ Follows(Upto(Shifted(t, at, r, text, c), at), Upto(t, at), text)
<1> DEFINE bare == DeleteLines(t, at, r)
           flowed == Flow(bare, at, text)
           done == Newlines(flowed, c)
           zone == Top(t.rows, at)
           all == zone \o text
           rest == From(bare.rows, Len(all) + 1)
<1> USE DEF Layout
<1>1. Len(text) \in Nat /\ c \in Nat /\ c <= r /\ at \in 0..h BY LenProperties
<1>2. Terminal(bare, h) /\ bare.back = t.back /\ Top(bare.rows, at) = zone
  <2>1. Terminal(bare, h) BY DeleteLinesKeeps
  <2>2. bare.back = t.back /\ Top(bare.rows, at) = zone BY DeleteLinesZone
  <2> QED BY <2>1, <2>2
<1>3. t.back \in Seq(Nat) /\ zone \in Seq(Nat) /\ Len(zone) = at
  <2>1. t.rows \in Seq(Nat) /\ Len(t.rows) = h BY DEF Terminal, Screen
  <2> QED BY <1>1, <2>1, TwoParts DEF Terminal
<1> HIDE DEF zone
<1>4. all \in Seq(Nat) /\ Len(all) = at + Len(text) BY <1>3, ConcatProperties
<1>5. bare.rows \in Seq(Nat) /\ Len(bare.rows) = h BY <1>2 DEF Terminal, Screen
<1> HIDE DEF bare
<1>6. rest \in Seq(Nat) /\ Len(rest) = h - Len(all)
  <2>1. Len(all) \in 0..Len(bare.rows) BY <1>1, <1>4, <1>5
  <2> QED BY <1>5, <2>1, TwoParts
<1>7. flowed = [back |-> t.back \o << >>, rows |-> all \o rest]
  <2>1. Less(Len(all), Len(bare.rows)) = 0 BY <1>1, <1>4, <1>5 DEF Less
  <2>2. Top(all, 0) = << >> BY <1>4, EmptySeq, SubSeqProperties DEF Top
  <2>3. From(all, 0 + 1) = all BY <1>4, SubSeqFull DEF From
  <2>4. flowed = LET a == Top(bare.rows, at) \o text
                     up == Less(Len(a), Len(bare.rows))
                 IN  [back |-> bare.back \o Top(a, up),
                      rows |-> From(a, up + 1) \o From(bare.rows, Len(a) + 1)]
    BY DEF Flow
  <2> HIDE DEF flowed
  <2> QED BY <1>2, <2>1, <2>2, <2>3, <2>4
<1>8. Terminal(flowed, h) BY <1>1, <1>2, FlowKeeps
<1>9. flowed.back = t.back /\ flowed.rows = all \o rest
  <2>1. t.back \o << >> = t.back BY <1>3, ConcatEmptySeq
  <2> HIDE DEF flowed, all, rest
  <2> QED BY <1>7, <2>1
<1> HIDE DEF flowed
<1>10. /\ Terminal(done, h)
       /\ Upto(done, at) = Upto(flowed, c + at)
  <2>1. c + at <= h /\ c \in Nat BY <1>1
  <2>2. Terminal(done, h) BY <1>8, <2>1, NewlinesKeep
  <2>3. Upto(done, at) = Upto(flowed, c + at)
    BY <1>8, <2>1, NewlinesLog
  <2> QED BY <2>2, <2>3
<1>11. PICK q \in 0..Len(rest) : Len(all) + q = c + at
  <2>1. c - Len(text) \in 0..Len(rest) /\ Len(all) + (c - Len(text)) = c + at
    BY <1>1, <1>4, <1>6
  <2> QED BY <2>1
<1> HIDE DEF rest
<1>12. Top(all \o rest, c + at) = all \o Top(rest, q)
  <2>1. Top(all \o rest, Len(all) + q) = all \o Top(rest, q) BY <1>4, <1>6, TopBeyond
  <2> QED BY <1>11, <2>1
<1>13. PICK x \in Seq(Nat) : x = Top(rest, q) BY <1>6, TwoParts
<1>14. t.back \o ((zone \o text) \o x) = (t.back \o zone) \o (text \o x)
  <2>1. PICK b \in Seq(Nat) : b = t.back BY <1>3
  <2>2. text \o x \in Seq(Nat) BY <1>13, ConcatProperties
  <2>3. (zone \o text) \o x = zone \o (text \o x) BY <1>3, <1>13, Regroup
  <2>4. (b \o zone) \o (text \o x) = b \o (zone \o (text \o x)) BY <1>3, <2>2, Regroup
  <2> QED BY <2>1, <2>3, <2>4
<1>15. Upto(done, at) = Upto(t, at) \o (text \o x)
  BY <1>9, <1>10, <1>12, <1>13, <1>14 DEF Upto, zone
<1>16. Follows(Upto(done, at), Upto(t, at), text) BY <1>13, <1>15, Zenon DEF Follows
<1> QED BY <1>10, <1>16 DEF flowed, bare, Shifted

\* What is left to show of a step of a running wrapper.
LEMMA ScrollbackFrom ==
    ASSUME ScreensAgree', mirrored' \in Seq(Nat), zoneDirty' \in BOOLEAN,
           view' = None => zoneDirty' = FALSE, Carried(mirrored', lost', HostLog')
    PROVE  ScrollbackInv'
BY DEF ScreensAgree, ScrollbackInv

\* A step that keeps what the mirrored lines are looked for in, or adds to it.
LEMMA LogGrows ==
    ASSUME ScrollbackInv, ScreensAgree', NEW w \in Seq(Nat), HostLog' = HostLog \o w,
           mirrored' = mirrored, lost' = lost, zoneDirty' \in BOOLEAN,
           view' = None => zoneDirty' = FALSE
    PROVE  ScrollbackInv'
<1>1. /\ mirrored \in Seq(Nat) /\ HostLog \in Seq(Nat)
      /\ Carried(mirrored, lost, HostLog)
  BY ZoneRows DEF ScrollbackInv
<1>2. Carried(mirrored, lost, HostLog \o w) BY <1>1, CarriedOn
<1>3. Carried(mirrored', lost', HostLog') BY <1>2
<1> QED BY <1>1, <1>3, ScrollbackFrom

LEMMA LogStays ==
    ASSUME ScrollbackInv, ScreensAgree', HostLog' = HostLog,
           mirrored' = mirrored, lost' = lost, zoneDirty' \in BOOLEAN,
           view' = None => zoneDirty' = FALSE
    PROVE  ScrollbackInv'
<1>1. Carried(mirrored', lost', HostLog') /\ mirrored' \in Seq(Nat)
  BY DEF ScrollbackInv
<1> QED BY <1>1, ScrollbackFrom

\* The rows that scroll off the model are rows.
LEMMA ScrolledRows ==
    ASSUME NEW n \in Nat \ {0}, ScreensAgree
    PROVE  /\ Fresh(n) \in Seq(Nat) /\ Len(Fresh(n)) = n
           /\ Top(model \o Fresh(n), n) \in Seq(Nat)
           /\ Len(Top(model \o Fresh(n), n)) = n
<1>1. Fresh(n) \in Seq(Nat) /\ Len(Fresh(n)) = n
  <2> DEFINE fresh == Fresh(n)
  <2>1. written \in Nat BY DEF ScreensAgree
  <2>2. fresh \in [1..n -> Nat] BY <2>1 DEF Fresh
  <2> HIDE DEF fresh
  <2>3. fresh \in Seq(Nat) BY <2>2
  <2>4. Len(fresh) = n BY <2>2, <2>3, LenProperties
  <2> QED BY <2>3, <2>4 DEF fresh
<1> DEFINE both == model \o Fresh(n)
<1>2. both \in Seq(Nat) /\ Len(both) = Len(model) + n
  BY <1>1, ModelIsRows, ConcatProperties
<1> HIDE DEF both
<1>3. n \in 0..Len(both) BY <1>2, ModelIsRows
<1>4. Top(both, n) \in Seq(Nat) /\ Len(Top(both, n)) = n BY <1>2, <1>3, TwoParts
<1> QED BY <1>1, <1>4 DEF both

\* The rows that the text of a batch takes in addition.
Extra(s, wide) == IF wide /\ s # << >> THEN 1 ELSE 0

\* The text of lines s: they follow each other in it, after the extra row.
LEMMA WrappedRows ==
    ASSUME NEW s \in Seq(Nat), NEW wide \in BOOLEAN
    PROVE  /\ Wrapped(s, wide) \in Seq(Nat)
           /\ Len(Wrapped(s, wide)) = Extra(s, wide) + Len(s)
           /\ \A i \in 1..Len(s) : Wrapped(s, wide)[Extra(s, wide) + i] = s[i]
<1>1. Len(s) \in Nat BY LenProperties
<1>2. CASE ~(wide /\ s # << >>) BY <1>1, <1>2 DEF Wrapped, Extra
<1>3. CASE wide /\ s # << >>
  <2>1. 1 \in 1..Len(s)
    <3>1. Len(s) # 0 BY <1>3, EmptySeq
    <3> QED BY <1>1, <3>1
  <2>2. s[1] \in Nat BY <2>1, ElementOfSeq
  <2> DEFINE one == <<s[1]>>
  <2>3. one \in Seq(Nat) /\ Len(one) = 1 BY <2>2
  <2>4. Wrapped(s, wide) = one \o s BY <1>3 DEF Wrapped
  <2> HIDE DEF one
  <2>5. Joined(one \o s, one, 1, s, Len(s)) BY <1>1, <2>3, JoinedRows DEF Screen
  <2>6. /\ one \o s \in Seq(Nat) /\ Len(one \o s) = 1 + Len(s)
        /\ \A i \in 1..Len(s) : (one \o s)[1 + i] = s[i]
    BY <2>5 DEF Joined, Screen
  <2>7. Extra(s, wide) = 1 BY <1>3 DEF Extra
  <2> QED BY <2>4, <2>6, <2>7
<1> QED BY <1>2, <1>3

\* How many rows c newlines and a text of m rows move out of a region of r rows:
\* all of the text, or all but its last row, when it has k lines and there are
\* c = Least(n, r) newlines for n >= k of them.
LEMMA BatchSize ==
    ASSUME NEW r \in Nat, NEW n \in Nat, NEW k \in 0..n, NEW d \in {0, 1},
           NEW c \in Nat, c = ClearingScroll(n, r)
    PROVE  /\ c \in 0..r
           /\ \/ d + k <= c
              \/ /\ (IF d + k <= r THEN 0 ELSE d + k - r) + c \in 0..(d + k)
                 /\ \A i \in 1..k : \/ i = k /\ Least(d + k, r) > c
                                    \/ d + i <= (IF d + k <= r THEN 0 ELSE d + k - r) + c
<1>1. c = IF n <= r THEN n ELSE r BY DEF ClearingScroll, Least
<1>2. Least(d + k, r) = IF d + k <= r THEN d + k ELSE r BY DEF Least
<1>3. CASE d + k <= r BY <1>1, <1>2, <1>3
<1>4. CASE ~(d + k <= r)
  <2>1. k >= r BY <1>4
  <2>2. c = r BY <1>1, <2>1
  <2> QED BY <1>4, <2>2
<1> QED BY <1>3, <1>4

\* After the rows of t, those of u have what was scrolled out of a region with
\* the lines s, but for those in `gone`.
ScrolledOut(t, u, s, gone) ==
    \E w \in Seq(Nat), d \in Nat :
        /\ u = t \o w
        /\ \A i \in 1..Len(s) : s[i] \in gone \/ (d + i <= Len(w) /\ w[d + i] = s[i])

\* Lines s of a batch of n that flow over the region and are scrolled out of it:
\* all of them go where they are looked for, but for the last one if lines of
\* two rows keep it in the region.
LEMMA BatchGoes ==
    ASSUME NEW t, NEW at, NEW r, NEW h, Layout(at, r, h), Terminal(t, h),
           NEW s \in Seq(Nat), NEW n \in Nat, Len(s) <= n, NEW wide \in BOOLEAN
    PROVE  LET text == Wrapped(s, wide)
               done == Shifted(t, at, r, text, ClearingScroll(n, r))
           IN  /\ Terminal(done, h)
               /\ ScrolledOut(Upto(t, at), Upto(done, at), s, LostToWrap(n, text, r))
<1>1. PICK d \in {0, 1} : d = Extra(s, wide) BY DEF Extra
<1>2. PICK text : text = Wrapped(s, wide) OBVIOUS
<1>3. PICK k \in 0..n : k = Len(s) BY LenProperties
<1>4. /\ text \in Seq(Nat) /\ Len(text) = d + k
      /\ \A i \in 1..k : text[d + i] = s[i]
  BY <1>1, <1>2, <1>3, WrappedRows
<1>5. at \in Nat /\ r \in Nat /\ h \in Nat /\ at + r = h BY DEF Layout
<1>6. PICK c \in 0..r : c = ClearingScroll(n, r) BY <1>5 DEF ClearingScroll, Least
<1> DEFINE done == Shifted(t, at, r, text, c)
           q == (IF d + k <= r THEN 0 ELSE d + k - r) + c
           gone == LostToWrap(n, text, r)
<1>7. d \in Nat OBVIOUS
<1>8. CASE d + k <= c
  <2>1. Len(text) <= c BY <1>4, <1>8
  <2>2. Terminal(done, h) /\ Follows(Upto(done, at), Upto(t, at), text)
    <3>1. text \in Seq(Nat) BY <1>4
    <3> QED BY <2>1, <3>1, ShortLog
  <2>3. PICK x \in Seq(Nat) : Upto(done, at) = Upto(t, at) \o (text \o x)
    BY <2>2, Zenon DEF Follows
  <2> HIDE DEF done
  <2>4. Joined(text \o x, text, d + k, x, Len(x))
    BY <1>4, <2>3, JoinedRows, LenProperties DEF Screen
  <2>5. PICK w \in Seq(Nat) : w = text \o x BY <2>4 DEF Joined, Screen
  <2>6. Len(w) = (d + k) + Len(x) /\ Len(x) \in Nat
    BY <2>3, <2>4, <2>5, LenProperties DEF Joined, Screen
  <2>7. ASSUME NEW i \in 1..k PROVE d + i <= Len(w) /\ w[d + i] = s[i]
    <3>1. d + i \in 1..(d + k) BY <1>3
    <3>2. w[d + i] = text[d + i] BY <2>4, <2>5, <3>1 DEF Joined
    <3>3. text[d + i] = s[i] BY <1>4
    <3>4. d + i <= Len(w) BY <1>3, <2>6
    <3> QED BY <3>2, <3>3, <3>4
  <2>8. ScrolledOut(Upto(t, at), Upto(done, at), s, gone)
    <3>1. Upto(done, at) = Upto(t, at) \o w BY <2>3, <2>5
    <3>2. \A i \in 1..Len(s) : s[i] \in gone \/ (d + i <= Len(w) /\ w[d + i] = s[i])
      BY <1>3, <2>7
    <3> HIDE DEF gone
    <3> QED BY <1>7, <3>1, <3>2, Zenon DEF ScrolledOut
  <2> QED BY <1>2, <1>6, <2>2, <2>8 DEF done
<1>9. CASE ~(d + k <= c)
  <2>1. q \in 0..(d + k) /\ \A i \in 1..k : (i = k /\ Least(d + k, r) > c) \/ d + i <= q
    <3>1. c \in Nat BY <1>5
    <3> QED BY <1>5, <1>6, <1>9, <3>1, BatchSize
  <2>2. Gone(at, text, h, c) = q
    <3>1. PICK m \in Nat : m = at + Len(text) /\ m = at + (d + k) BY <1>3, <1>4, <1>5
    <3>2. Less(m, h) = IF m <= h THEN 0 ELSE m - h BY DEF Less
    <3>3. Less(m, h) = IF d + k <= r THEN 0 ELSE d + k - r BY <1>3, <1>5, <3>1, <3>2
    <3> QED BY <3>1, <3>3 DEF Gone
  <2> HIDE DEF q
  <2>3. Terminal(done, h) /\ Upto(done, at) = Upto(t, at) \o Top(text, q)
    <3>1. Gone(at, text, h, c) <= Len(text) /\ text \in Seq(Nat) BY <1>4, <2>1, <2>2
    <3>2. /\ Terminal(Shifted(t, at, r, text, c), h)
          /\ Upto(Shifted(t, at, r, text, c), at)
               = Upto(t, at) \o Top(text, Gone(at, text, h, c))
      BY <3>1, ScrolledLog
    <3> QED BY <2>2, <3>2
  <2> HIDE DEF done
  <2>4. q \in 0..Len(text) BY <1>4, <2>1
  <2>5. PICK w \in Seq(Nat) : w = Top(text, q) /\ Len(w) = q BY <1>4, <2>4, TwoParts
  <2>6. \A i \in 1..q : w[i] = text[i] BY <1>4, <2>4, <2>5, TopRows
  <2>7. ASSUME NEW i \in 1..k
        PROVE  s[i] \in gone \/ (d + i <= Len(w) /\ w[d + i] = s[i])
    <3>1. CASE d + i <= q
      <4>1. d + i \in 1..q BY <1>3, <2>1, <3>1
      <4>2. w[d + i] = text[d + i] BY <2>6, <4>1
      <4>3. text[d + i] = s[i] BY <1>4
      <4> QED BY <2>5, <3>1, <4>2, <4>3
    <3>2. CASE i = k /\ Least(d + k, r) > c
      <4>1. gone = {text[Len(text)]} BY <1>4, <1>6, <3>2 DEF LostToWrap
      <4>2. text[Len(text)] = s[i] BY <1>4, <3>2
      <4> QED BY <4>1, <4>2
    <3> QED BY <2>1, <3>1, <3>2
  <2>8. ScrolledOut(Upto(t, at), Upto(done, at), s, gone)
    <3>1. Upto(done, at) = Upto(t, at) \o w BY <2>3, <2>5
    <3>2. \A i \in 1..Len(s) : s[i] \in gone \/ (d + i <= Len(w) /\ w[d + i] = s[i])
      BY <1>3, <2>7
    <3> HIDE DEF gone
    <3> QED BY <1>7, <3>1, <3>2, Zenon DEF ScrolledOut
  <2> QED BY <1>2, <1>6, <2>3, <2>8 DEF done
<1> QED BY <1>8, <1>9

\* The lines of a batch: those that the archive has evicted, then the others.
LEMMA BatchParts ==
    ASSUME NEW s \in Seq(Nat)
    PROVE  \E a \in Seq(Nat) : /\ s = a \o Retained(s) /\ Evicted(s) = Range(a)
                               /\ Retained(s) \in Seq(Nat)
                               /\ Len(Retained(s)) <= Len(s)
<1>1. PICK n \in Nat : n = Len(s) BY LenProperties
<1>2. PICK k \in 0..n : k = Least(n, HistoryLimit)
  BY HostViewAssumption DEF Least
<1>3. PICK e \in 0..n : e = n - k BY <1>2
<1>4. e = Less(n, HistoryLimit) BY <1>2, <1>3, HostViewAssumption DEF Less, Least
<1>5. Retained(s) = From(s, e + 1)
  <2>1. Len(s) - k + 1 = e + 1 BY <1>1, <1>2, <1>3
  <2> QED BY <1>1, <1>2, <2>1 DEF Retained, Bottom, From
<1>6. /\ Top(s, e) \o From(s, e + 1) = s
      /\ Top(s, e) \in Seq(Nat) /\ From(s, e + 1) \in Seq(Nat)
      /\ Len(From(s, e + 1)) = Len(s) - e
  BY <1>1, TwoParts
<1>7. Evicted(s) = Range(Top(s, e)) BY <1>1, <1>4 DEF Evicted
<1>8. Len(Retained(s)) <= Len(s) BY <1>1, <1>5, <1>6
<1> QED BY <1>5, <1>6, <1>7, <1>8

\* Lines that scroll off while viewing go where they are looked for, after those
\* mirrored before them.
LEMMA ScrollsKeep ==
    ASSUME NEW n \in Nat \ {0}, NEW wide \in BOOLEAN, ScreensAgree, ScreensAgree',
           ScrollbackInv, Scrolls(n, wide)
    PROVE  ScrollbackInv'
<1> DEFINE lines == Top(model \o Fresh(n), n)
           kept == Retained(lines)
           text == Wrapped(kept, wide)
<1>1. view' = view /\ hostRows' = hostRows /\ resized' = resized BY DEF Scrolls
<1>2. /\ lines \in Seq(Nat) /\ Len(lines) = n
      /\ Fresh(n) \in Seq(Nat)
  BY ScrolledRows
<1>3. resized \in BOOLEAN BY DEF ScreensAgree
<1>4. CASE view = None
  <2>1. /\ Draws(Flow(term, hostRows, Fresh(n)))
        /\ zoneDirty' = zoneDirty /\ mirrored' = mirrored /\ lost' = lost
    BY <1>4 DEF Scrolls
  <2>2. zoneDirty = FALSE BY <1>4 DEF ScrollbackInv
  <2>3. CASE resized
    BY <1>1, <1>4, <2>1, <2>2, <2>3, DelayedStays
  <2>4. CASE ~resized
    <3>1. hostRows \in Nat /\ Terminal(term, hostRows) /\ hostRows \in 0..hostRows
      BY <2>4, SettledHeight
    <3>2. PICK w \in Seq(Nat) : Flow(term, hostRows, Fresh(n)).back = term.back \o w
      BY <1>2, <3>1, FlowAdds
    <3>3. HostLog' = HostLog \o w BY <2>1, <2>2, <2>4, <3>2 DEF HostLog, Draws
    <3> QED BY <2>1, <2>2, <3>3, LogGrows
  <2> QED BY <1>3, <2>3, <2>4
<1>5. CASE view # None /\ resized
  <2>1. /\ Draws(ScrollHost(n, text, model'))
        /\ zoneDirty' = TRUE
        /\ mirrored' = mirrored \o lines
        /\ lost' = lost \cup (LostToDelay \cup Range(lines))
    BY <1>5 DEF Scrolls
  <2>2. view' # None /\ view' \in Nat \ {0} BY <1>1, <1>5 DEF ScrollbackInv
  <2> HIDE DEF lines, text
  <2>3. zoneDirty => Lines(Zone) \subseteq lost' BY <1>5, <2>1 DEF LostToDelay
  <2> QED BY <1>2, <1>5, <2>1, <2>2, <2>3, DelayedKeeps
<1>6. CASE view # None /\ ~resized
  <2> DEFINE at == Offset(view, hostRows)
             r == RegionRows(view, hostRows)
             done == Shifted(term, at, r, text, ClearingScroll(n, r))
  <2>1. /\ term' = ScrollHost(n, text, model')
        /\ zoneDirty' = TRUE
        /\ mirrored' = mirrored \o lines
        /\ lost' = lost \cup (Evicted(lines) \cup LostToWrap(n, text, r))
    BY <1>6 DEF Scrolls, Draws
  <2>2. term' = RenderFull(done, model', hostRows) BY <2>1 DEF ScrollHost, Shifted
  <2>3. /\ hostRows \in Nat /\ Terminal(term, hostRows) /\ Len(term.rows) = hostRows
        /\ Len(term'.rows) = hostRows
    BY <1>1, <1>6, SettledHeight DEF ScreensAgree, ScreenShown, Terminal, Screen
  <2>4. view \in Nat BY <1>6 DEF ScreensAgree
  <2>5. at \in Nat /\ Layout(at, r, hostRows)
    <3>1. /\ Offset(view, hostRows) \in 0..hostRows
          /\ RegionRows(view, hostRows) \in 0..hostRows
          /\ Offset(view, hostRows) + RegionRows(view, hostRows) = hostRows
      BY <2>3, <2>4, RegionFits
    <3> QED BY <2>3, <3>1 DEF Layout
  <2>6. Upto(term, at) \in Seq(Nat) /\ Carried(mirrored, lost, Upto(term, at))
        /\ mirrored \in Seq(Nat)
    <3>1. term.back \o Zone \in Seq(Nat) BY ZoneRows, ConcatProperties
    <3>2. Upto(term, at) = term.back \o Zone BY <1>6, <2>3, ZoneRows
    <3>3. Carried(mirrored, lost, term.back \o Zone) BY ZoneRows
    <3> QED BY <3>1, <3>2, <3>3 DEF ScrollbackInv
  <2>7. model' \in Seq(Nat) /\ at = Offset(Len(model'), hostRows)
    BY <1>1, <1>6 DEF ScreensAgree, Screen
  <2> HIDE DEF lines, at, r
  <2>8. PICK a \in Seq(Nat) : /\ lines = a \o kept /\ Evicted(lines) = Range(a)
                              /\ kept \in Seq(Nat) /\ Len(kept) <= n
    BY <1>2, BatchParts
  <2> HIDE DEF kept
  <2>9. /\ Terminal(done, hostRows)
        /\ ScrolledOut(Upto(term, at), Upto(done, at), kept, LostToWrap(n, text, r))
    <3>1. Terminal(done, hostRows) BY <2>3, <2>5, <2>8, BatchGoes
    <3>2. ScrolledOut(Upto(term, at), Upto(done, at), kept, LostToWrap(n, text, r))
      BY <2>3, <2>5, <2>8, BatchGoes
    <3> QED BY <3>1, <3>2
  <2> HIDE DEF done, text
  <2>10. PICK w \in Seq(Nat), d \in Nat :
            /\ Upto(done, at) = Upto(term, at) \o w
            /\ \A i \in 1..Len(kept) : \/ kept[i] \in LostToWrap(n, text, r)
                                       \/ d + i <= Len(w) /\ w[d + i] = kept[i]
    BY <2>9 DEF ScrolledOut
  <2>11. Upto(RenderFull(done, model', hostRows), at) = Upto(done, at)
    <3>1. /\ RenderFull(done, model', hostRows).back = done.back
          /\ Top(RenderFull(done, model', hostRows).rows, at) = Top(done.rows, at)
      BY <2>3, <2>5, <2>7, <2>9, RenderFullZone
    <3> QED BY <3>1 DEF Upto
  <2>12. HostLog' = Upto(term, at) \o w
    <3>1. HostLog' = Upto(term', at) BY <1>1, <2>1, <2>3 DEF HostLog, at
    <3> QED BY <2>2, <2>10, <2>11, <3>1
  <2>13. Carried(mirrored \o a, lost', Upto(term, at))
    <3>1. \A i \in 1..Len(a) : a[i] \in lost'
      <4>1. DOMAIN a = 1..Len(a) BY LenProperties
      <4>2. Range(a) \subseteq lost' BY <2>1, <2>8
      <4> QED BY <4>1, <4>2 DEF Range
    <3>2. << >> \in Seq(Nat) /\ Upto(term, at) \o << >> = Upto(term, at)
      BY <2>6, EmptySeq, ConcatEmptySeq
    <3>3. lost \subseteq lost' /\ 0 \in Nat BY <2>1
    <3>4. Carried(mirrored \o a, lost', Upto(term, at) \o << >>)
      BY <2>6, <3>1, <3>2, <3>3, CarriedLines
    <3> QED BY <3>2, <3>4
  <2>14. Carried((mirrored \o a) \o kept, lost', Upto(term, at) \o w)
    <3>1. \A i \in 1..Len(kept) : \/ kept[i] \in lost'
                                  \/ d + i <= Len(w) /\ w[d + i] = kept[i]
      BY <2>1, <2>10
    <3>2. mirrored \o a \in Seq(Nat) BY <2>6, ConcatProperties
    <3> QED BY <2>6, <2>8, <2>13, <3>1, <3>2, CarriedLines
  <2>15. (mirrored \o a) \o kept = mirrored' BY <2>1, <2>6, <2>8, Regroup
  <2>16. Carried(mirrored', lost', HostLog') BY <2>12, <2>14, <2>15
  <2>17. mirrored' \in Seq(Nat) BY <1>2, <2>1, <2>6, ConcatProperties
  <2> QED BY <1>1, <1>6, <2>1, <2>16, <2>17, ScrollbackFrom
<1> QED BY <1>3, <1>4, <1>5, <1>6

\* A rewritten row, in full or as a diff, changes neither.
LEMMA EditsKeep ==
    ASSUME NEW r, ScreensAgree, ScreensAgree', ScrollbackInv, Edits(r)
    PROVE  ScrollbackInv'
<1>1. /\ view' = view /\ hostRows' = hostRows /\ zoneDirty' = zoneDirty
      /\ resized' = resized /\ mirrored' = mirrored /\ lost' = lost \cup LostToDelay
      /\ zoneDirty \in BOOLEAN /\ (view = None => zoneDirty = FALSE)
  BY DEF Edits, ScrollbackInv
<1>2. /\ view = None => Draws([term EXCEPT !.rows[r] = written'])
      /\ view # None => /\ Draws(RenderDiff(term, model', shadow, hostRows))
                        /\ shadow' = model'
  BY DEF Edits
<1>3. CASE resized
  <2>1. zoneDirty => Lines(Zone) \subseteq lost' BY <1>1, <1>3 DEF LostToDelay
  <2>2. CASE view = None BY <1>1, <1>2, <1>3, <2>1, <2>2, DelayedStays
  <2>3. CASE view # None BY <1>1, <1>2, <1>3, <2>1, <2>3, DelayedStays
  <2> QED BY <2>2, <2>3
<1>4. ASSUME ~resized
      PROVE  /\ hostRows \in Nat /\ Terminal(term, hostRows) /\ Terminal(term', hostRows)
             /\ Len(term.rows) = hostRows /\ Len(term'.rows) = hostRows
             /\ lost' = lost
  <2>1. Terminal(term', hostRows) /\ lost' = lost
    BY <1>1, <1>4 DEF ScreensAgree, ScreenShown, LostToDelay
  <2> QED BY <1>4, <2>1, SettledHeight DEF Terminal, Screen
<1>5. CASE ~resized /\ view = None
  <2>1. term' = [term EXCEPT !.rows[r] = written'] BY <1>2, <1>5 DEF Draws
  <2>2. term'.back = term.back BY <1>4, <1>5, <2>1 DEF Terminal
  <2>3. HostLog' = HostLog BY <1>1, <1>5, <2>2 DEF HostLog
  <2> QED BY <1>1, <1>4, <1>5, <2>3, LogStays
<1>6. CASE ~resized /\ view # None
  <2> DEFINE at == Offset(view, hostRows)
  <2>1. term' = RenderDiff(term, model', shadow, hostRows) /\ shadow' = model'
    BY <1>2, <1>6 DEF Draws
  <2>2. /\ model' \in Seq(Nat) /\ Len(model') = view
        /\ shadow \in Seq(Nat) /\ Len(shadow) = view
    BY <1>1, <1>6 DEF ScreensAgree, Screen
  <2>3. at \in 0..hostRows BY <1>4, <1>6, ZoneRows
  <2>4. at = Offset(Len(model'), hostRows) BY <2>2
  <2>5. HostLog = IF zoneDirty THEN Upto(term, at) ELSE term.back
    BY <1>4, <1>6 DEF HostLog
  <2>6. HostLog' = IF zoneDirty THEN Upto(term', at) ELSE term'.back
    BY <1>1, <1>4, <1>6 DEF HostLog
  <2> HIDE DEF at
  <2>7. /\ term'.back = term.back
        /\ Top(term'.rows, at) = Top(term.rows, at)
    <3>1. at \in Nat BY <1>4, <1>6, <2>3
    <3>2. Len(shadow) = Len(model') BY <2>2
    <3>3. Terminal(RenderDiff(term, model', shadow, hostRows), hostRows)
      BY <1>4, <1>6, <2>1
    <3>4. /\ RenderDiff(term, model', shadow, hostRows).back = term.back
          /\ Top(RenderDiff(term, model', shadow, hostRows).rows, at) = Top(term.rows, at)
      BY <1>4, <1>6, <2>2, <2>4, <3>1, <3>2, <3>3, RenderDiffZone
    <3> QED BY <2>1, <3>4
  <2>8. HostLog' = HostLog BY <2>5, <2>6, <2>7 DEF Upto
  <2> QED BY <1>1, <1>4, <1>6, <2>8, LogStays
<1> QED BY <1>3, <1>5, <1>6 DEF ScreensAgree

\* What a full repaint leaves of a terminal whose cropped rows were pushed.
LEMMA CroppedZone ==
    ASSUME NEW t, NEW h \in Nat, NEW shown \in Seq(Nat), NEW at \in Nat,
           at = Offset(Len(shown), h), Terminal(t, h)
    PROVE  /\ Hidden(shown, h) \in Seq(Nat)
           /\ RenderFull(PushCrop(t, shown, h), shown, h).back = t.back \o Hidden(shown, h)
           /\ Top(RenderFull(PushCrop(t, shown, h), shown, h).rows, at) = Top(t.rows, at)
<1> DEFINE u == PushCrop(t, shown, h)
<1>1. Terminal(u, h) BY PushCropKeeps
<1>2. Hidden(shown, h) \in Seq(Nat) BY HiddenRows
<1>3. u.back = t.back \o Hidden(shown, h) BY PushCropAdds
<1>4. u.rows = t.rows BY PushCropAdds
<1> HIDE DEF u
<1>5. RenderFull(u, shown, h).back = u.back BY <1>1, RenderFullZone
<1>6. Top(RenderFull(u, shown, h).rows, at) = Top(u.rows, at) BY <1>1, RenderFullZone
<1> QED BY <1>2, <1>3, <1>4, <1>5, <1>6 DEF u

\* A new view forgets a dirty zone, whose lines are excepted from then on.
LEMMA StartViewKeeps ==
    ASSUME NEW v \in Nat \ {0}, ScreensAgree, ScreensAgree', ScrollbackInv,
           StartView(v), None \notin Nat
    PROVE  ScrollbackInv'
<1> DEFINE hidden == Hidden(model', hostRows)
<1>1. /\ view' = v /\ hostRows' = hostRows /\ mirrored' = mirrored
      /\ resized' = resized /\ zoneDirty' = FALSE
      /\ Draws(RenderFull(PushCrop(term, model', hostRows), model', hostRows))
      /\ lost' = IF zoneDirty THEN lost \cup Lines(Zone) ELSE lost
  BY DEF StartView
<1>2. lost \subseteq lost' /\ (zoneDirty => Lines(Zone) \subseteq lost') BY <1>1
<1>3. CASE resized BY <1>1, <1>2, <1>3, DelayedStays
<1>4. CASE ~resized
  <2>1. term' = RenderFull(PushCrop(term, model', hostRows), model', hostRows)
    BY <1>1, <1>4 DEF Draws
  <2>2. hostRows \in Nat /\ Terminal(term, hostRows) BY <1>4, SettledHeight
  <2>3. model' \in Seq(Nat) /\ Len(model') = v BY <1>1 DEF ScreensAgree, Screen
  <2>4. hidden \in Seq(Nat) /\ term'.back = term.back \o hidden
    <3>1. Offset(v, hostRows) \in Nat
      <4>1. Offset(v, hostRows) \in 0..hostRows BY <2>2, RegionFits
      <4> QED BY <2>2, <4>1
    <3>2. Offset(v, hostRows) = Offset(Len(model'), hostRows) BY <2>3
    <3> QED BY <2>1, <2>2, <2>3, <3>1, <3>2, CroppedZone
  <2> HIDE DEF hidden
  <2>5. mirrored \in Seq(Nat) /\ term.back \in Seq(Nat) BY ZoneRows DEF ScrollbackInv
  <2>6. Carried(mirrored, lost', term.back) BY <1>2, ZoneGoes
  <2>7. HostLog' = term.back \o hidden BY <1>1, <2>4 DEF HostLog
  <2>8. Carried(mirrored, lost', term.back \o hidden) BY <2>4, <2>5, <2>6, CarriedOn
  <2>9. Carried(mirrored', lost', HostLog') BY <1>1, <2>7, <2>8
  <2> QED BY <1>1, <2>5, <2>9, ScrollbackFrom
<1> QED BY <1>3, <1>4 DEF ScreensAgree

\* The zone pushed: all that is looked for is in the scrollback.
LEMMA PushedZone ==
    ASSUME ScrollbackInv, view # None, NEW h, h = Len(term.rows)
    PROVE  /\ Terminal(PushZone(term, view, h), h)
           /\ PushZone(term, view, h).back = HostLog
<1>1. view \in Nat /\ h \in Nat /\ Terminal(term, h) BY DEF ScrollbackInv
<1>2. Terminal(PushZone(term, view, h), h) BY <1>1, PushZoneKeeps
<1>3. CASE zoneDirty
  <2> DEFINE at == Offset(view, h)
  <2>1. at \in 0..h BY ZoneRows
  <2>2. PushZone(term, view, h) = Newlines(term, at) BY <1>3 DEF PushZone
  <2>3. HostLog = Upto(term, at) BY <1>3 DEF HostLog
  <2> HIDE DEF at
  <2>4. at \in Nat /\ 0 \in Nat /\ at + 0 <= h BY <1>1, <2>1
  <2>5. Newlines(term, at).back = Upto(term, at) BY <1>1, <2>4, NewlinesLog
  <2> QED BY <1>2, <2>2, <2>3, <2>5
<1>4. CASE ~zoneDirty BY <1>2, <1>4 DEF PushZone, HostLog
<1> QED BY <1>3, <1>4

\* The end of a view: what is looked for stays.
LEMMA EndViewKeeps ==
    ASSUME ScreensAgree, ScreensAgree', ScrollbackInv, EndView
    PROVE  ScrollbackInv'
<1> DEFINE u == PushZone(term, view, hostRows)
<1>1. /\ view # None /\ view' = None /\ zoneDirty' = FALSE
      /\ Draws(Clear(u)) /\ resized' = resized
      /\ mirrored' = mirrored /\ lost' = lost \cup LostToDelay
  BY DEF EndView
<1>2. CASE resized
  <2>1. zoneDirty => Lines(Zone) \subseteq lost' BY <1>1, <1>2 DEF LostToDelay
  <2> QED BY <1>1, <1>2, <2>1, DelayedStays
<1>3. CASE ~resized
  <2>1. term' = Clear(u) /\ lost' = lost BY <1>1, <1>3 DEF Draws, LostToDelay
  <2>2. hostRows = Len(term.rows) BY <1>3, SettledHeight
  <2>3. Terminal(u, hostRows) /\ u.back = HostLog BY <1>1, <2>2, PushedZone
  <2> HIDE DEF u
  <2>4. Clear(u).back = u.back BY <2>3 DEF Clear, Terminal
  <2>5. HostLog' = HostLog BY <1>1, <2>1, <2>3, <2>4 DEF HostLog
  <2> QED BY <1>1, <2>1, <2>5, LogStays
<1> QED BY <1>2, <1>3 DEF ScreensAgree

\* Ctrl+L: rows come between the scrollback and the zone, or after both.
LEMMA RefreshKeeps ==
    ASSUME ScreensAgree, ScreensAgree', ScrollbackInv, RefreshScrollback
    PROVE  ScrollbackInv'
<1> DEFINE hidden == Hidden(model, hostRows)
           at == Offset(view, hostRows)
<1>1. /\ view # None /\ view' = view /\ hostRows' = hostRows /\ zoneDirty' = zoneDirty
      /\ Draws(RenderFull(PushCrop(term, model, hostRows), model, hostRows))
      /\ mirrored' = mirrored /\ lost' = lost \cup LostToDelay /\ resized' = resized
  BY DEF RefreshScrollback, mirrorState
<1>2. zoneDirty \in BOOLEAN /\ (view = None => zoneDirty = FALSE) BY DEF ScrollbackInv
<1>3. CASE resized
  <2>1. zoneDirty => Lines(Zone) \subseteq lost' BY <1>1, <1>3 DEF LostToDelay
  <2> QED BY <1>1, <1>2, <1>3, <2>1, DelayedStays
<1>4. CASE ~resized
  <2>1. /\ term' = RenderFull(PushCrop(term, model, hostRows), model, hostRows)
        /\ lost' = lost
    BY <1>1, <1>4 DEF Draws, LostToDelay
  <2>2. /\ hostRows \in Nat /\ Terminal(term, hostRows) /\ Len(term.rows) = hostRows
        /\ Len(term'.rows) = hostRows
    BY <1>1, <1>4, SettledHeight DEF ScreensAgree, ScreenShown, Terminal, Screen
  <2>3. model \in Seq(Nat) /\ Len(model) = view BY <1>1, ModelIsRows
  <2>4. at \in Nat /\ at = Offset(Len(model), hostRows)
    <3>1. at \in 0..hostRows BY <1>1, <2>2, ZoneRows
    <3> QED BY <2>2, <2>3, <3>1
  <2>5. /\ hidden \in Seq(Nat) /\ term'.back = term.back \o hidden
        /\ Top(term'.rows, at) = Top(term.rows, at)
    BY <2>1, <2>2, <2>3, <2>4, CroppedZone
  <2> HIDE DEF hidden
  <2>6. /\ Zone \in Seq(Nat) /\ term.back \in Seq(Nat) /\ mirrored \in Seq(Nat)
        /\ Carried(mirrored, lost, term.back \o Zone)
    BY ZoneRows DEF ScrollbackInv
  <2>7. CASE zoneDirty
    <3>1. Top(term.rows, at) = Zone BY <1>1, <2>2, ZoneRows
    <3>2. HostLog' = Upto(term', at) BY <1>1, <2>2, <2>7 DEF HostLog
    <3>3. HostLog' = (term.back \o hidden) \o Zone BY <2>5, <3>1, <3>2 DEF Upto
    <3>4. Carried(mirrored, lost, (term.back \o hidden) \o Zone)
      BY <2>5, <2>6, CarriedAround
    <3>5. Carried(mirrored', lost', HostLog') BY <1>1, <2>1, <3>3, <3>4
    <3> QED BY <1>1, <1>2, <2>6, <3>5, ScrollbackFrom
  <2>8. CASE ~zoneDirty
    <3>1. HostLog' = HostLog \o hidden BY <1>1, <2>5, <2>8 DEF HostLog
    <3> QED BY <1>1, <1>2, <2>1, <2>5, <3>1, LogGrows
  <2> QED BY <2>7, <2>8
<1> QED BY <1>3, <1>4 DEF ScreensAgree

\* The wrapper exits: rows are added to the scrollback.
LEMMA CleanupKeeps ==
    ASSUME ScreensAgree, ScrollbackInv, Cleanup
    PROVE  ScrollbackInv'
<1>1. /\ view' = view /\ hostRows' = hostRows /\ zoneDirty' = zoneDirty
      /\ mirrored' = mirrored /\ resized' = resized
      /\ zoneDirty \in BOOLEAN /\ (view = None => zoneDirty = FALSE)
  BY DEF Cleanup, mirrorState, ScrollbackInv
<1>2. CASE view = None
  <2>1. term' = term /\ lost' = lost BY <1>2 DEF Cleanup
  <2> QED BY <1>1, <2>1 DEF ScrollbackInv, HostLog
<1>3. CASE view # None /\ resized
  <2>1. /\ Draws(Newlines(PushZone(term, view, hostRows), 1))
        /\ lost' = lost \cup LostToDelay
    BY <1>3 DEF Cleanup
  <2>2. zoneDirty => Lines(Zone) \subseteq lost' BY <1>3, <2>1 DEF LostToDelay
  <2> QED BY <1>1, <1>3, <2>1, <2>2, DelayedStays
<1>4. CASE view # None /\ ~resized
  <2> DEFINE u == PushZone(term, view, hostRows)
  <2>1. term' = Newlines(u, 1) /\ lost' = lost
    BY <1>4 DEF Cleanup, Draws, LostToDelay
  <2>2. hostRows \in Nat \ {0} /\ hostRows = Len(term.rows) /\ view \in Nat \ {0}
    BY <1>4, SettledHeight DEF ScrollbackInv
  <2>3. Terminal(u, hostRows) /\ u.back = HostLog BY <1>4, <2>2, PushedZone
  <2> HIDE DEF u
  <2>4. Terminal(term', hostRows') BY <1>1, <2>1, <2>2, <2>3, NewlinesKeep
  <2>5. Len(term'.rows) = hostRows BY <1>1, <2>4 DEF Terminal, Screen
  <2>6. PICK k \in 0..hostRows : HostLog' = Upto(u, k)
    <3> DEFINE at == Offset(view, hostRows)
    <3>1. at \in Nat /\ 1 + at \in 0..hostRows
      <4>1. PICK h \in Nat \ {0}, v \in Nat \ {0} : h = hostRows /\ v = view BY <2>2
      <4>2. Offset(v, h) \in Nat /\ 1 + Offset(v, h) \in 0..h
        BY DEF Offset, RegionRows, Least
      <4> QED BY <4>1, <4>2
    <3>2. HostLog' = IF zoneDirty THEN Upto(Newlines(u, 1), at) ELSE Newlines(u, 1).back
      BY <1>1, <2>1, <2>5 DEF HostLog
    <3> HIDE DEF at
    <3>3. 1 + at <= hostRows /\ 1 + 0 <= hostRows BY <2>2, <3>1
    <3>4. Upto(Newlines(u, 1), at) = Upto(u, 1 + at) BY <2>2, <2>3, <3>1, <3>3, NewlinesLog
    <3>5. Newlines(u, 1).back = Upto(u, 1) BY <2>2, <2>3, <3>1, <3>3, NewlinesLog
    <3>6. 1 \in 0..hostRows BY <2>2
    <3> QED BY <3>1, <3>2, <3>4, <3>5, <3>6
  <2>7. PICK w \in Seq(Nat) : w = Top(u.rows, k)
    <3>1. u.rows \in Seq(Nat) /\ k \in 0..Len(u.rows) BY <2>3, <2>6 DEF Terminal, Screen
    <3> QED BY <3>1, TwoParts
  <2>8. HostLog' = HostLog \o w BY <2>3, <2>6, <2>7 DEF Upto
  <2>9. HostLog \in Seq(Nat) BY ZoneRows
  <2>10. Carried(mirrored, lost, HostLog \o w) BY <2>9, CarriedOn DEF ScrollbackInv
  <2>11. Carried(mirrored', lost', HostLog') BY <1>1, <2>1, <2>8, <2>10
  <2>12. Terminal(term', Len(term'.rows)) /\ Len(term'.rows) \in Nat \ {0}
    BY <1>1, <2>2, <2>4, <2>5
  <2> QED BY <1>1, <1>4, <2>11, <2>12 DEF ScrollbackInv
<1> QED BY <1>2, <1>3, <1>4 DEF ScreensAgree

-----------------------------------------------------------------------------
(* What the host keeps: resizes.                                           *)

\* A lower terminal keeps its scrollback and its first rows in one piece.
LEMMA ShrunkLog ==
    ASSUME NEW t, NEW n \in Nat, NEW h \in Nat, h <= n, Terminal(t, n),
           NEW p, NEW at \in 0..h
    PROVE  /\ Resized(t, h, p).back = Upto(t, n - h)
           /\ Upto(Resized(t, h, p), at) = Upto(t, (n - h) + at)
<1>1. t.back \in Seq(Nat) /\ t.rows \in Seq(Nat) /\ Len(t.rows) = n
  BY DEF Terminal, Screen
<1>2. PICK d \in 0..n : d = n - h OBVIOUS
<1> DEFINE more == t.back \o Top(t.rows, d)
           left == Bottom(t.rows, h)
<1>3. Resized(t, h, p) = [back |-> more, rows |-> left]
  BY <1>1, <1>2 DEF Resized
<1> HIDE DEF more, left
<1>4. left = From(t.rows, d + 1)
  <2>1. Len(t.rows) - h + 1 = d + 1 BY <1>1, <1>2
  <2> QED BY <2>1 DEF Bottom, From, left
<1>5. /\ Resized(t, h, p).back = t.back \o Top(t.rows, d)
      /\ Resized(t, h, p).rows = From(t.rows, d + 1)
  <2>1. Resized(t, h, p).back = more BY <1>3
  <2>2. Resized(t, h, p).rows = left BY <1>3
  <2> QED BY <1>4, <2>1, <2>2 DEF more
<1>6. Top(t.rows, d) \in Seq(Nat) /\ Top(From(t.rows, d + 1), at) \in Seq(Nat)
  <2>1. /\ Top(t.rows, d) \in Seq(Nat) /\ From(t.rows, d + 1) \in Seq(Nat)
        /\ Len(From(t.rows, d + 1)) = Len(t.rows) - d
    BY <1>1, <1>2, TwoParts
  <2>2. at \in 0..Len(From(t.rows, d + 1)) BY <1>1, <1>2, <2>1
  <2> QED BY <2>1, <2>2, TwoParts
<1>7. Top(t.rows, d) \o Top(From(t.rows, d + 1), at) = Top(t.rows, d + at)
  <2>1. at \in Nat /\ d \in Nat /\ d + at <= Len(t.rows) BY <1>1, <1>2
  <2> QED BY <1>1, <2>1, TopInParts
<1>8. (t.back \o Top(t.rows, d)) \o Top(From(t.rows, d + 1), at)
        = t.back \o (Top(t.rows, d) \o Top(From(t.rows, d + 1), at))
  BY <1>1, <1>6, Regroup
<1> QED BY <1>2, <1>5, <1>7, <1>8 DEF Upto

\* More of the rows only adds to them.
Extends(s, t) == \E w \in Seq(Nat) : t = s \o w

LEMMA UptoMore ==
    ASSUME NEW t, NEW n \in Nat, Terminal(t, n), NEW a \in Nat, NEW b \in Nat, a <= b,
           b <= n
    PROVE  Extends(Upto(t, a), Upto(t, b))
<1>1. t.back \in Seq(Nat) /\ t.rows \in Seq(Nat) /\ Len(t.rows) = n
  BY DEF Terminal, Screen
<1>2. PICK c \in Nat : a + c = b
  <2>1. b - a \in Nat /\ a + (b - a) = b OBVIOUS
  <2> QED BY <2>1
<1>3. Top(t.rows, a) \o Top(From(t.rows, a + 1), c) = Top(t.rows, a + c)
  BY <1>1, <1>2, TopInParts
<1>4. /\ Top(t.rows, a) \in Seq(Nat) /\ From(t.rows, a + 1) \in Seq(Nat)
      /\ Len(From(t.rows, a + 1)) = Len(t.rows) - a
  <2>1. a \in 0..Len(t.rows) BY <1>1
  <2> QED BY <1>1, <2>1, TwoParts
<1>5. PICK w \in Seq(Nat) : w = Top(From(t.rows, a + 1), c)
  <2>1. c \in 0..Len(From(t.rows, a + 1)) BY <1>1, <1>2, <1>4
  <2> QED BY <1>4, <2>1, TwoParts
<1>6. (t.back \o Top(t.rows, a)) \o w = t.back \o (Top(t.rows, a) \o w)
  BY <1>1, <1>4, Regroup
<1>7. Top(t.rows, b) = Top(t.rows, a) \o w BY <1>2, <1>3, <1>5
<1>8. Upto(t, b) = Upto(t, a) \o w BY <1>6, <1>7 DEF Upto
<1> QED BY <1>8 DEF Extends

\* A higher terminal has its scrollback in two parts, the second one on screen.
GrownParts(u, t, kept, taken, blank) ==
    /\ kept \in Seq(Nat) /\ taken \in Seq(Nat) /\ blank \in Seq(Nat)
    /\ t.back = kept \o taken
    /\ u.back = kept
    /\ u.rows = taken \o (t.rows \o blank)

LEMMA GrownLog ==
    ASSUME NEW t, NEW n \in Nat, NEW h \in Nat, ~(h <= n), Terminal(t, n),
           NEW p \in Nat, p <= Less(h, n), p <= Len(t.back)
    PROVE  /\ GrownParts(Resized(t, h, p), t, Top(t.back, Len(t.back) - p),
                         Bottom(t.back, p), Blanks(h - n - p))
           /\ Len(Bottom(t.back, p)) = p
           /\ Len(Blanks(h - n - p)) = h - n - p
<1>1. t.back \in Seq(Nat) /\ t.rows \in Seq(Nat) /\ Len(t.rows) = n
  BY DEF Terminal, Screen
<1>2. PICK m \in Nat : m = Len(t.back) BY <1>1, LenProperties
<1>3. PICK d \in Nat : d = m - p /\ d <= m /\ m - d = p
  <2>1. p <= m BY <1>2
  <2>2. m - p \in Nat /\ m - p <= m /\ m - (m - p) = p BY <2>1
  <2> QED BY <2>2
<1> DEFINE kept == Top(t.back, Len(t.back) - p)
           taken == Bottom(t.back, p)
           blank == Blanks(h - n - p)
<1>4. kept = Top(t.back, d) BY <1>2, <1>3
<1>5. taken = From(t.back, d + 1) BY <1>2, <1>3 DEF Bottom, From
<1>6. /\ kept \o taken = t.back /\ kept \in Seq(Nat) /\ taken \in Seq(Nat)
      /\ Len(taken) = p
  <2>1. d \in 0..Len(t.back) BY <1>2, <1>3
  <2>2. /\ Top(t.back, d) \o From(t.back, d + 1) = t.back
        /\ Top(t.back, d) \in Seq(Nat) /\ From(t.back, d + 1) \in Seq(Nat)
        /\ Len(From(t.back, d + 1)) = Len(t.back) - d
    BY <1>1, <2>1, TwoParts
  <2> HIDE DEF kept, taken
  <2>3. Len(taken) = p BY <1>2, <1>3, <1>5, <2>2
  <2> QED BY <1>4, <1>5, <2>2, <2>3
<1>7. blank \in Seq(Nat) /\ Len(blank) = h - n - p
  <2>1. h - n - p \in Nat BY DEF Less
  <2> QED BY <2>1, BlanksAreRows DEF Screen
<1>8. Resized(t, h, p) = [back |-> kept, rows |-> taken \o t.rows \o blank]
  BY <1>1 DEF Resized
<1> HIDE DEF kept, taken, blank
<1>9. taken \o t.rows \o blank = taken \o (t.rows \o blank)
  BY <1>1, <1>6, <1>7, Regroup
<1>10. Resized(t, h, p).back = kept BY <1>8
<1>11. Resized(t, h, p).rows = taken \o t.rows \o blank BY <1>8
<1>12. GrownParts(Resized(t, h, p), t, kept, taken, blank)
  BY <1>6, <1>7, <1>9, <1>10, <1>11 DEF GrownParts
<1> QED BY <1>6, <1>7, <1>12 DEF kept, taken, blank

\* What a taller terminal still has of the scrollback and the first rows: all of
\* it if the rows taken back fit in the new zone.
LEMMA GrownKeeps ==
    ASSUME NEW u, NEW t, NEW n \in Nat, Terminal(t, n),
           NEW kept, NEW taken, NEW blank, GrownParts(u, t, kept, taken, blank),
           NEW a \in 0..n, NEW b \in Nat, Len(taken) + a <= b,
           b <= Len(taken) + n + Len(blank)
    PROVE  Extends(Upto(t, a), Upto(u, b))
<1>1. t.back \in Seq(Nat) /\ t.rows \in Seq(Nat) /\ Len(t.rows) = n
  BY DEF Terminal, Screen
<1>2. /\ kept \in Seq(Nat) /\ taken \in Seq(Nat) /\ blank \in Seq(Nat)
      /\ t.back = kept \o taken /\ u.back = kept /\ u.rows = taken \o (t.rows \o blank)
  BY DEF GrownParts
<1> DEFINE all == t.rows \o blank
<1>3. all \in Seq(Nat) /\ Len(all) = n + Len(blank) BY <1>1, <1>2, ConcatProperties
<1>4. Top(all, a) = Top(t.rows, a) BY <1>1, <1>2, TopOfJoined
<1>5. u.rows = taken \o all BY <1>2
<1> HIDE DEF all
<1>6. PICK m \in Nat : m = Len(taken) BY <1>2, LenProperties
<1>7. PICK c \in Nat : m + (a + c) = b
  <2>1. b - (m + a) \in Nat /\ m + (a + (b - (m + a))) = b BY <1>6
  <2> QED BY <2>1
<1>8. a + c <= Len(all)
  <2>1. PICK k \in Nat : k = Len(blank) BY <1>2, LenProperties
  <2> QED BY <1>3, <1>6, <1>7, <2>1
<1>9. Top(u.rows, b) = taken \o Top(all, a + c)
  <2>1. a + c \in 0..Len(all) BY <1>8
  <2>2. Top(taken \o all, Len(taken) + (a + c)) = taken \o Top(all, a + c)
    BY <1>2, <1>3, <2>1, TopBeyond
  <2> QED BY <1>5, <1>6, <1>7, <2>2
<1>10. Top(all, a) \o Top(From(all, a + 1), c) = Top(all, a + c)
  <2>1. all \in Seq(Nat) /\ a \in Nat BY <1>3
  <2> QED BY <1>8, <2>1, TopInParts
<1>11. /\ Top(all, a) \in Seq(Nat) /\ From(all, a + 1) \in Seq(Nat)
       /\ Len(From(all, a + 1)) = Len(all) - a
  <2>1. a \in 0..Len(all) BY <1>3, <1>8
  <2> QED BY <1>3, <2>1, TwoParts
<1>12. PICK w \in Seq(Nat) : w = Top(From(all, a + 1), c)
  <2>1. c \in 0..Len(From(all, a + 1)) BY <1>3, <1>8, <1>11
  <2> QED BY <1>11, <2>1, TwoParts
<1>13. PICK z \in Seq(Nat) : z = Top(all, a) BY <1>11
<1>14. kept \o (taken \o (z \o w)) = ((kept \o taken) \o z) \o w
  <2>0. kept \in Seq(Nat) /\ taken \in Seq(Nat) BY <1>2
  <2>1. z \o w \in Seq(Nat) /\ kept \o taken \in Seq(Nat) BY <2>0, ConcatProperties
  <2>2. (kept \o taken) \o (z \o w) = kept \o (taken \o (z \o w)) BY <2>0, <2>1, Regroup
  <2>3. ((kept \o taken) \o z) \o w = (kept \o taken) \o (z \o w) BY <2>1, Regroup
  <2> QED BY <2>2, <2>3
<1>15. Upto(u, b) = kept \o (taken \o (z \o w))
  BY <1>2, <1>9, <1>10, <1>12, <1>13 DEF Upto
<1>16. Upto(t, a) = (kept \o taken) \o z BY <1>2, <1>4, <1>13 DEF Upto
<1>17. Upto(u, b) = Upto(t, a) \o w BY <1>14, <1>15, <1>16
<1> QED BY <1>17 DEF Extends

\* Otherwise what is missing is the last of the rows taken back.
LosesAfter(u, t, taken, b) ==
    /\ Upto(u, b) \in Seq(Nat) /\ From(taken, b + 1) \in Seq(Nat)
    /\ t.back = Upto(u, b) \o From(taken, b + 1)

LEMMA GrownLoses ==
    ASSUME NEW u, NEW t, NEW n \in Nat, Terminal(t, n),
           NEW kept, NEW taken, NEW blank, GrownParts(u, t, kept, taken, blank),
           NEW b \in 0..Len(taken)
    PROVE  LosesAfter(u, t, taken, b)
<1>1. t.rows \in Seq(Nat) BY DEF Terminal, Screen
<1>2. /\ kept \in Seq(Nat) /\ taken \in Seq(Nat) /\ blank \in Seq(Nat)
      /\ t.back = kept \o taken /\ u.back = kept /\ u.rows = taken \o (t.rows \o blank)
  BY DEF GrownParts
<1>3. PICK rest \in Seq(Nat) : rest = t.rows \o blank BY <1>1, <1>2, ConcatProperties
<1>4. Top(u.rows, b) = Top(taken, b)
  <2>1. taken \in Seq(Nat) BY <1>2
  <2>2. Top(taken \o rest, b) = Top(taken, b) BY <2>1, TopOfJoined
  <2>3. u.rows = taken \o rest BY <1>2, <1>3
  <2> QED BY <2>2, <2>3
<1>5. /\ Top(taken, b) \o From(taken, b + 1) = taken
      /\ Top(taken, b) \in Seq(Nat) /\ From(taken, b + 1) \in Seq(Nat)
  BY <1>2, TwoParts
<1>6. kept \o Top(taken, b) \in Seq(Nat) BY <1>2, <1>5, ConcatProperties
<1>7. (kept \o Top(taken, b)) \o From(taken, b + 1)
        = kept \o (Top(taken, b) \o From(taken, b + 1))
  BY <1>2, <1>5, Regroup
<1> QED BY <1>2, <1>4, <1>5, <1>6, <1>7 DEF Upto, LosesAfter

\* Where the live region starts before and after a resize.
LEMMA ZoneMoves ==
    ASSUME NEW v \in Nat \ {0}, NEW n \in Nat \ {0}, NEW h \in Nat \ {0}
    PROVE  /\ Offset(v, n) \in 0..n /\ Offset(v, h) \in 0..h
           /\ h <= n => /\ Offset(v, n) <= (n - h) + Offset(v, h)
                        /\ (n - h) + Offset(v, h) <= n
           /\ \A p \in Nat : ~(h <= n) /\ p <= Less(h, n) =>
                 \/ p + Offset(v, n) <= Offset(v, h)
                 \/ Offset(v, n) = 0 /\ Offset(v, h) < p
BY DEF Offset, RegionRows, Least, Less

\* What is looked for is still there after the terminal has resized itself, in its
\* scrollback or in the zone that is about to be pushed there.
LEMMA TerminalResizesKeeps ==
    ASSUME NEW h \in Nat \ {0}, NEW p \in Nat, ScreensAgree', ScrollbackInv,
           TerminalResizes(h, p)
    PROVE  ScrollbackInv'
<1> DEFINE n == Len(term.rows)
           t == Resized(term, h, p)
           old == Offset(view, n)
           new == Offset(view, h)
           more == lost \cup LostToGrowth(h, p)
           kept == Top(term.back, Len(term.back) - p)
           taken == Bottom(term.back, p)
           blank == Blanks(h - n - p)
           log == IF zoneDirty THEN Upto(t, new) ELSE t.back
<1>0. /\ p <= Less(h, n) /\ p <= Len(term.back) /\ term' = t
      /\ view' = view /\ zoneDirty' = zoneDirty /\ mirrored' = mirrored /\ lost' = more
  BY DEF TerminalResizes, mirrorState
<1>1. /\ mirrored \in Seq(Nat) /\ HostLog \in Seq(Nat)
      /\ Carried(mirrored, lost, HostLog) /\ lost \subseteq more
      /\ zoneDirty \in BOOLEAN /\ (view = None => zoneDirty = FALSE)
  BY ZoneRows DEF ScrollbackInv
<1>2. n \in Nat \ {0} /\ Terminal(term, n) BY DEF ScrollbackInv
<1>3. term.rows \in Seq(Nat) /\ Len(term.rows) = n /\ term.back \in Seq(Nat)
  BY <1>2 DEF Terminal, Screen
<1>4. zoneDirty => view # None /\ view \in Nat \ {0} BY DEF ScrollbackInv
<1>5. HostLog' = log
  <2>1. Terminal(t, h)
    <3>1. h \in Nat /\ n \in Nat BY <1>2
    <3> QED BY <1>0, <1>2, <3>1, ResizedKeeps
  <2>2. Len(t.rows) = h BY <2>1 DEF Terminal, Screen
  <2> HIDE DEF t
  <2> QED BY <1>0, <2>2 DEF HostLog
<1>6. HostLog = IF zoneDirty THEN Upto(term, old) ELSE term.back BY DEF HostLog
<1>7. /\ zoneDirty => old \in 0..n /\ new \in 0..h
      /\ zoneDirty /\ h <= n => old <= (n - h) + new /\ (n - h) + new <= n
      /\ zoneDirty /\ ~(h <= n) => p + old <= new \/ (old = 0 /\ new < p)
  BY <1>0, <1>2, <1>4, ZoneMoves
<1>8. ~(h <= n) => /\ GrownParts(t, term, kept, taken, blank)
                   /\ Len(taken) = p /\ Len(blank) = h - n - p
  <2>1. h \in Nat /\ n \in Nat /\ Terminal(term, n) BY <1>2
  <2>2. p <= Less(h, n) /\ p <= Len(term.back) BY <1>0
  <2> HIDE DEF n
  <2> QED BY <2>1, <2>2, GrownLog
<1>9. LostToGrowth(h, p)
        = Lines(IF view # None /\ zoneDirty THEN From(taken, new + 1) ELSE taken)
  BY DEF LostToGrowth
<1>10. \A w \in Seq(Nat) : \A k \in 1..Len(w) : w[k] \in Range(w)
  BY LenProperties DEF Range
<1> HIDE DEF n, t, old, new, kept, taken, blank
<1>11. h <= n => /\ t.back = Upto(term, n - h)
                 /\ new \in 0..h => Upto(t, new) = Upto(term, (n - h) + new)
  BY <1>2, ShrunkLog DEF t
<1> HIDE DEF more, log
<1>12. SUFFICES Carried(mirrored, more, log)
  <2>1. Carried(mirrored', lost', HostLog') BY <1>0, <1>5, <1>12
  <2> QED BY <1>0, <1>1, <2>1, ScrollbackFrom
<1>13. ASSUME NEW w \in Seq(Nat), log = HostLog \o w
       PROVE  Carried(mirrored, more, log)
  BY <1>1, <1>13, CarriedOn
<1>14. CASE h <= n
  <2>1. CASE zoneDirty
    <3>1. PICK a \in Nat, b \in Nat : a = old /\ b = (n - h) + new /\ a <= b /\ b <= n
      BY <1>2, <1>7, <1>14, <2>1
    <3>2. PICK w \in Seq(Nat) : Upto(term, b) = Upto(term, a) \o w
      <4>1. n \in Nat /\ a <= b /\ b <= n BY <1>2, <3>1
      <4>2. Extends(Upto(term, a), Upto(term, b)) BY <1>2, <4>1, UptoMore
      <4> QED BY <4>2 DEF Extends
    <3>3. log = HostLog \o w
      BY <1>6, <1>7, <1>11, <1>14, <2>1, <3>1, <3>2 DEF log
    <3> QED BY <1>13, <3>3
  <2>2. CASE ~zoneDirty
    <3>1. PICK k \in 0..n : k = n - h BY <1>2, <1>14
    <3>2. PICK w \in Seq(Nat) : w = Top(term.rows, k) BY <1>3, <3>1, TwoParts
    <3>3. log = HostLog \o w
      BY <1>6, <1>11, <1>14, <2>2, <3>1, <3>2 DEF Upto, log
    <3> QED BY <1>13, <3>3
  <2> QED BY <2>1, <2>2
<1>15. CASE ~(h <= n)
  <2>1. /\ kept \in Seq(Nat) /\ taken \in Seq(Nat) /\ term.back = kept \o taken
        /\ t.back = kept
    BY <1>8, <1>15 DEF GrownParts
  <2>2. CASE ~zoneDirty
    <3>1. \A k \in 1..Len(taken) : taken[k] \in Range(mirrored) => taken[k] \in more
      BY <1>9, <1>10, <2>1, <2>2 DEF more, Lines
    <3>2. Carried(mirrored, lost, kept \o taken) BY <1>1, <1>6, <2>1, <2>2
    <3>3. Carried(mirrored, more, kept)
      <4>1. kept \in Seq(Nat) /\ taken \in Seq(Nat) BY <2>1
      <4> QED BY <1>1, <3>1, <3>2, <4>1, CarriedBefore
    <3> QED BY <2>1, <2>2, <3>3 DEF log
  <2>3. CASE zoneDirty /\ p + old <= new
    <3>1. Len(taken) + old <= new BY <1>8, <1>15, <2>3
    <3>2. new <= Len(taken) + n + Len(blank) BY <1>2, <1>7, <1>8, <1>15, <2>3
    <3>3. old \in 0..n /\ new \in Nat BY <1>7, <2>3
    <3>4. PICK w \in Seq(Nat) : Upto(t, new) = Upto(term, old) \o w
      <4>1. GrownParts(t, term, kept, taken, blank) /\ n \in Nat BY <1>2, <1>8, <1>15
      <4>2. Extends(Upto(term, old), Upto(t, new))
        BY <1>2, <3>1, <3>2, <3>3, <4>1, GrownKeeps
      <4> QED BY <4>2 DEF Extends
    <3>5. log = HostLog \o w BY <1>6, <2>3, <3>4 DEF log
    <3> QED BY <1>13, <3>5
  <2>4. CASE zoneDirty /\ old = 0 /\ new < p
    <3>1. new \in 0..Len(taken) BY <1>7, <1>8, <1>15, <2>4
    <3>2. /\ Upto(t, new) \in Seq(Nat) /\ From(taken, new + 1) \in Seq(Nat)
          /\ term.back = Upto(t, new) \o From(taken, new + 1)
      <4>1. GrownParts(t, term, kept, taken, blank) /\ n \in Nat BY <1>2, <1>8, <1>15
      <4>2. LosesAfter(t, term, taken, new) BY <1>2, <3>1, <4>1, GrownLoses
      <4> QED BY <4>2 DEF LosesAfter
    <3>3. HostLog = term.back
      <4>1. Top(term.rows, 0) = << >> BY <1>3, EmptySeq, SubSeqProperties DEF Top
      <4>2. term.back \o << >> = term.back BY <1>3, ConcatEmptySeq
      <4> QED BY <1>6, <2>4, <4>1, <4>2 DEF Upto
    <3>4. PICK w \in Seq(Nat) : w = From(taken, new + 1) BY <3>2
    <3>5. \A k \in 1..Len(w) : w[k] \in Range(mirrored) => w[k] \in more
      BY <1>4, <1>9, <1>10, <2>4, <3>4 DEF more, Lines
    <3>6. PICK x \in Seq(Nat) : x = Upto(t, new) BY <3>2
    <3>7. Carried(mirrored, lost, x \o w) BY <1>1, <3>2, <3>3, <3>4, <3>6
    <3>8. Carried(mirrored, more, x) BY <1>1, <3>5, <3>7, CarriedBefore
    <3> QED BY <2>4, <3>6, <3>8 DEF log
  <2> QED BY <1>7, <1>15, <2>2, <2>3, <2>4
<1> QED BY <1>14, <1>15

\* SIGWINCH: the zone is pushed, then the rows that the view hides.
LEMMA HostResizedKeeps ==
    ASSUME ScreensAgree, ScreensAgree', ScrollbackInv, HostResized
    PROVE  ScrollbackInv'
<1>1. PICK h \in Nat \ {0} : h = Len(term.rows) /\ Terminal(term, h)
  BY DEF ScreensAgree
<1> DEFINE pushed == PushZone(term, view, h)
           cropped == PushCrop(pushed, model, h)
           cleared == Clear(cropped)
<1>2. view' = view /\ mirrored' = mirrored /\ lost' = lost BY DEF HostResized
<1>3. mirrored \in Seq(Nat) /\ zoneDirty \in BOOLEAN /\ (view = None => zoneDirty = FALSE)
  BY DEF ScrollbackInv
<1>4. CASE view = None
  <2>1. term' = term /\ zoneDirty' = zoneDirty BY <1>4 DEF HostResized
  <2>2. HostLog' = HostLog BY <1>2, <2>1 DEF HostLog
  <2> QED BY <1>2, <1>3, <2>1, <2>2, LogStays
<1>5. CASE view # None
  <2>1. term' = RenderFull(cleared, model, h) /\ zoneDirty' = FALSE
    BY <1>1, <1>5 DEF HostResized
  <2>2. view \in Nat \ {0} /\ model \in Seq(Nat) /\ Len(model) = view
    BY <1>5, ModelIsRows DEF ScreensAgree
  <2>3. Terminal(pushed, h) /\ pushed.back = HostLog BY <1>1, <1>5, PushedZone
  <2> HIDE DEF pushed
  <2> DEFINE hidden == Hidden(model, h)
  <2>4. hidden \in Seq(Nat)
    <3>1. model \in Seq(Nat) /\ h \in Nat BY <2>2
    <3>2. Hidden(model, h) \in Seq(Nat) BY <3>1, HiddenRows
    <3> QED BY <3>2
  <2>5. cropped.back = pushed.back \o hidden
    <3>1. model \in Seq(Nat) /\ h \in Nat BY <2>2
    <3> QED BY <2>3, <3>1, PushCropAdds
  <2>6. Terminal(cropped, h) BY <2>2, <2>3, PushCropKeeps
  <2> HIDE DEF cropped, hidden
  <2>7. Terminal(cleared, h) BY <2>6, ClearKeeps
  <2>8. cleared.back = cropped.back BY <2>6 DEF Clear, Terminal
  <2> HIDE DEF cleared
  <2>9. RenderFull(cleared, model, h).back = cleared.back
    <3> DEFINE at == Offset(Len(model), h)
    <3>1. at \in 0..h BY <2>2, RegionFits
    <3> HIDE DEF at
    <3>2. at \in Nat BY <3>1
    <3> QED BY <2>2, <2>7, <3>2, RenderFullZone DEF at
  <2>10. HostLog' = HostLog \o hidden
    BY <2>1, <2>3, <2>5, <2>8, <2>9 DEF HostLog
  <2> QED BY <1>2, <2>1, <2>4, <2>10, LogGrows
<1> QED BY <1>4, <1>5

LEMMA ScrollbackStep ==
    ASSUME HostInv, HostInv', ScrollbackInv, [Next]_vars
    PROVE  ScrollbackInv'
<1>1. None \notin Nat /\ \A h \in Heights : h \in Nat \ {0}
  BY HostViewAssumption
<1>2. MaxLines \in Nat BY HostViewAssumption
<1>3. ASSUME NEW n \in 1..MaxLines, NEW wide \in BOOLEAN, Scrolls(n, wide)
      PROVE  ScrollbackInv'
  <2>1. ScreensAgree /\ ScreensAgree' BY <1>3 DEF HostInv, Scrolls
  <2>2. n \in Nat \ {0} BY <1>2
  <2> QED BY <1>3, <2>1, <2>2, ScrollsKeep
<1>4. ASSUME NEW r \in DOMAIN model, Edits(r) PROVE ScrollbackInv'
  <2>1. ScreensAgree /\ ScreensAgree' BY <1>4 DEF HostInv, Edits
  <2> QED BY <1>4, <2>1, EditsKeep
<1>5. ASSUME NEW v \in Heights, StartView(v) PROVE ScrollbackInv'
  <2>1. ScreensAgree /\ ScreensAgree' BY <1>5 DEF HostInv, StartView, Turn
  <2> QED BY <1>1, <1>5, <2>1, StartViewKeeps
<1>6. ASSUME EndView PROVE ScrollbackInv'
  <2>1. ScreensAgree /\ ScreensAgree' BY <1>6 DEF HostInv, EndView, Turn
  <2> QED BY <1>6, <2>1, EndViewKeeps
<1>7. ASSUME NEW h \in Heights, NEW p \in 0..MaxLines, TerminalResizes(h, p)
      PROVE  ScrollbackInv'
  <2>1. ScreensAgree' BY <1>7 DEF HostInv, TerminalResizes, Turn
  <2>2. p \in Nat BY <1>2
  <2> QED BY <1>1, <1>7, <2>1, <2>2, TerminalResizesKeeps
<1>8. ASSUME HostResized PROVE ScrollbackInv'
  <2>1. ScreensAgree /\ ScreensAgree' BY <1>8 DEF HostInv, HostResized
  <2> QED BY <1>8, <2>1, HostResizedKeeps
<1>9. ASSUME RefreshScrollback PROVE ScrollbackInv'
  <2>1. ScreensAgree /\ ScreensAgree' BY <1>9 DEF HostInv, RefreshScrollback, Turn
  <2> QED BY <1>9, <2>1, RefreshKeeps
<1>10. ASSUME Cleanup PROVE ScrollbackInv'
  <2>1. ScreensAgree BY <1>10 DEF HostInv, Cleanup
  <2> QED BY <1>10, <2>1, CleanupKeeps
<1>11. CASE UNCHANGED vars
  BY <1>11 DEF ScrollbackInv, HostLog, vars, mirrorState
<1> QED BY <1>3, <1>4, <1>5, <1>6, <1>7, <1>8, <1>9, <1>10, <1>11 DEF Next

LEMMA ScrollbackIsKept == ScrollbackInv => HostScrollback
<1> SUFFICES ASSUME ScrollbackInv PROVE Keeps(mirrored, term.back \o Zone)
  BY DEF HostScrollback
<1>1. mirrored \in Seq(Nat) BY DEF ScrollbackInv
<1>2. term.back \in Seq(Nat) /\ Zone \in Seq(Nat) BY ZoneRows
<1>3. term.back \o Zone \in Seq(Nat) BY <1>2, ConcatProperties
<1>4. Carried(mirrored, lost, term.back \o Zone) BY ZoneRows
<1> QED BY <1>1, <1>3, <1>4, CarriedIsKept

\* "Mirror the scroll for real on the host so its native scrollback accumulates"
\* (mirror.rs: `process`): every line that scrolled off while viewing is in the
\* host's scrollback or in the history zone, in order, whatever views, resizes
\* and refreshes follow, but for those that the code is known to lose.
THEOREM ScrollbackAccumulates == Spec => []HostScrollback
<1>1. Init => HostInv /\ ScrollbackInv BY HostInitially, ScrollbackInitially
<1>2. HostInv /\ ScrollbackInv /\ [Next]_vars => HostInv' /\ ScrollbackInv'
  BY HostStep, ScrollbackStep
<1> QED BY <1>1, <1>2, ScrollbackIsKept, PTL DEF Spec
=============================================================================
