------------------------------- MODULE History -------------------------------
(***************************************************************************)
(* The scrollback archive (history.rs) and a client that pages backwards   *)
(* through it as PROTOCOL.md tells clients to, while lines go on being     *)
(* archived and evicted between its requests.                              *)
(*                                                                         *)
(* A retained line is its size in bytes together with the index it was     *)
(* pushed with, so that what fetch returns can be compared with what was   *)
(* asked for.                                                              *)
(*                                                                         *)
(* As in Session, an operator named X_Y is a seeded fault that no action   *)
(* uses.                                                                   *)
(***************************************************************************)
EXTENDS Integers, Sequences, FiniteSets, FiniteSetsExt

CONSTANTS
    MaxRetained,  \* History::max_lines
    ReplyBudget,  \* REPLY_BYTE_BUDGET
    FetchLimit,   \* DEFAULT_FETCH_LIMIT
    MaxPushes,    \* bound: lines archived in one behaviour
    LineSizes,    \* bytes of a line
    Limits,       \* limits clients ask for
    Unset         \* no paging in progress / no limit given

ASSUME HistoryAssumption ==
    /\ MaxRetained \in Nat
    /\ ReplyBudget \in Nat /\ FetchLimit \in Nat \ {0}
    /\ MaxPushes \in Nat
    /\ LineSizes \subseteq Nat
    /\ Limits \subseteq Nat
    /\ Unset \notin Nat

VARIABLES
    lines,    \* History::lines
    next,     \* History::next
    splice,   \* history_next of the snapshot the client started from
    before,   \* where its next request ends, Unset if it is not paging
    got       \* the indices it holds, oldest first

historyVars == <<lines, next, splice, before, got>>

-----------------------------------------------------------------------------
(* history.rs                                                              *)

oldest == next - Len(lines)

\* push: append, then evict what is over the cap.
OverCap(n) == n > MaxRetained

Push(size) ==
    /\ next < MaxPushes
    /\ LET all == Append(lines, [index |-> next, size |-> size])
       IN  lines' = IF OverCap(Len(all)) THEN Tail(all) ELSE all
    /\ next' = next + 1
    /\ UNCHANGED <<splice, before, got>>

\* Where a request for the lines before b ends.
EndOf_Newest(b) == next
EndOf_Inclusive(b) == Max({oldest, Min({b, next - 1})})
EndOf(b) == Max({oldest, Min({b, next})})

\* The line with index i.
LineAt(i) == lines[i - oldest + 1]

\* Bytes of the lines that fetch has collected when it comes to line j.
Collected(j, end) == MapThenSumSet(LAMBDA i : LineAt(i).size, (j + 1)..(end - 1))

\* The k lines before `end` fit a reply: each but the newest in what the
\* newer ones left of the budget, which never goes below zero.
Fits_Strictly(end, k) ==
    \A j \in (end - k)..(end - 1) : LineAt(j).size + Collected(j, end) <= ReplyBudget
Fits(end, k) ==
    \A j \in (end - k)..(end - 2) :
        LineAt(j).size <= (IF Collected(j, end) <= ReplyBudget
                           THEN ReplyBudget - Collected(j, end) ELSE 0)

\* Index of the first line fetch returns.
Start(end, limit) ==
    end - Max({k \in 0..Min({limit, end - oldest}) : Fits(end, k)})

\* The limit applied to a request.
Limit(limit) == IF limit = Unset THEN FetchLimit ELSE Min({limit, FetchLimit})

-----------------------------------------------------------------------------
(* A client paging by `start`.                                             *)

\* It starts over from the extent in a snapshot.
Snapshot ==
    /\ before = Unset
    /\ splice' = next
    /\ before' = next
    /\ got' = << >>
    /\ UNCHANGED <<lines, next>>

\* One history request and its reply; `start = oldest` ends the paging.
Fetch(limit) ==
    /\ before # Unset
    /\ LET end   == EndOf(before)
           start == Start(end, Limit(limit))
       IN  /\ got' = [i \in 1..(end - start) |-> LineAt(start + i - 1).index] \o got
           /\ before' = IF start = oldest THEN Unset ELSE start
    /\ UNCHANGED <<lines, next, splice>>

HistoryInit ==
    /\ lines = << >> /\ next = 0
    /\ splice = 0 /\ before = Unset /\ got = << >>

HistoryNext ==
    \/ \E size \in LineSizes : Push(size)
    \/ Snapshot
    \/ \E limit \in Limits \cup {Unset} : Fetch(limit)

HistorySpec == HistoryInit /\ [][HistoryNext]_historyVars

\* A client that is paging goes on with requests that may return something.
FairHistorySpec ==
    HistorySpec /\ WF_historyVars(\E limit \in (Limits \cup {Unset}) \ {0} : Fetch(limit))

-----------------------------------------------------------------------------
(* Correctness.                                                            *)

\* The pages a client has put in front of one another are a gapless run of
\* lines that ends at its splice point, even if lines were evicted or added
\* between the requests.
PagesJoin == \A i \in 1..Len(got) : got[i] = splice - Len(got) + i - 1

\* "start == oldest ... means you have everything retained": when the paging
\* ends, every retained line before the splice point has been received.
NothingRetainedIsMissed ==
    before = Unset => \A i \in oldest..(splice - 1) : \E j \in 1..Len(got) : got[j] = i

\* Paging comes to an end, whatever is archived or evicted meanwhile.
PagingEnds == (before # Unset) ~> (before = Unset)
=============================================================================
