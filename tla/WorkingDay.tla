----------------------------- MODULE WorkingDay -----------------------------
(***************************************************************************)
(* The interval arithmetic behind the digest's calendar section and        *)
(* check_availability: which of a day's events are busy (busy_intervals),  *)
(* which pairs of them collide and how many minutes stay free              *)
(* (jobs/conflicts.py).  The operators are the code's algorithms; they are *)
(* compared with what they should answer on every calendar that bookings   *)
(* can lead to, in the order in which Google lists it (orderBy startTime). *)
(***************************************************************************)
EXTENDS Integers, Sequences, FiniteSets, SequencesExt

CONSTANTS
  LastMinute,  \* bound: the times of the day are 0..LastMinute
  WorkStart,   \* WORK_START_HOUR
  WorkEnd,     \* WORK_END_HOUR
  MaxEvents    \* bound: events of the day

ASSUME WorkingDayAssumption ==
  /\ LastMinute \in Nat /\ MaxEvents \in Nat
  /\ WorkStart \in 0..LastMinute /\ WorkEnd \in WorkStart..LastMinute

VARIABLE events  \* Seq(Events): what list_events answers

Times  == 0..LastMinute
Kinds  == {"timed", "allDay", "transparent"}
Events == {e \in [start : Times, end : Times, kind : Kinds] :
             /\ e.start <= e.end
             /\ e.kind = "allDay" => e.start = 0 /\ e.end = LastMinute}

DayTypeOK ==
  /\ events \in Seq(Events)
  /\ \A i, j \in DOMAIN events : i < j => events[i].start <= events[j].start

DayInit == events = <<>>

\* create_event or the user herself (external): the day gains an event.
Book(e) ==
  /\ Len(events) < MaxEvents
  /\ \E k \in 1..(Len(events) + 1) :
       /\ \A i \in 1..(k - 1) : events[i].start <= e.start
       /\ \A i \in k..Len(events) : events[i].start >= e.start
       /\ events' = InsertAt(events, k, e)

DayNext == \E e \in Events : Book(e)
DaySpec == DayInit /\ [][DayNext]_events

-----------------------------------------------------------------------------
(* The algorithms.                                                          *)

Earlier(a, b) == a[1] < b[1] \/ (a[1] = b[1] /\ a[2] < b[2])   \* of tuples

\* sorted, which is stable: an interval's place is the number of those that do
\* not come after it.
Place(s, i) ==
  Cardinality({j \in DOMAIN s : Earlier(s[j], s[i]) \/ (s[j] = s[i] /\ j <= i)})
sorted(s) ==
  [k \in 1..Cardinality(DOMAIN s) |-> s[CHOOSE i \in DOMAIN s : Place(s, i) = k]]

\* Neither all-day events nor what is marked free.
Busy(evs) == {i \in DOMAIN evs : evs[i].kind = "timed"}
busy_intervals(evs) == sorted([i \in Busy(evs) |-> <<evs[i].start, evs[i].end>>])

\* Mutant of overlaps: the break is at other_start > end.
OverlapsTouching(intervals) ==
  LET ordered == sorted(intervals)
      n == Len(ordered)
  IN  {p \in (1..n) \X (1..n) :
         /\ p[1] < p[2]
         /\ \A k \in (p[1] + 1)..p[2] : ordered[k][1] <= ordered[p[1]][2]}

\* Positions of the pairs reported, in sorted order: from i on, the inner loop
\* reports until the first event that starts when i has ended.
overlaps(intervals) ==
  LET ordered == sorted(intervals)
      n == Len(ordered)
  IN  {p \in (1..n) \X (1..n) :
         /\ p[1] < p[2]
         /\ \A k \in (p[1] + 1)..p[2] : ordered[k][1] < ordered[p[1]][2]}

Larger(a, b)  == IF a > b THEN a ELSE b
Smaller(a, b) == IF a < b THEN a ELSE b
Clipped(c)    == <<Larger(c[1], WorkStart), Smaller(c[2], WorkEnd)>>

\* Mutant of Merge: a merged block ends where its last interval does.
MergeToLast(merged, c) ==
  IF merged # <<>> /\ c[1] <= Last(merged)[2]
    THEN Append(Front(merged), <<Last(merged)[1], c[2]>>)
    ELSE Append(merged, c)

Merge(merged, c) ==
  IF merged # <<>> /\ c[1] <= Last(merged)[2]
    THEN Append(Front(merged), <<Last(merged)[1], Larger(Last(merged)[2], c[2])>>)
    ELSE Append(merged, c)

\* The blocks after k intervals: what is left of each in the working day is
\* merged with those before it.
Merged(ordered) ==
  LET merged[k \in 0..Len(ordered)] ==
        IF k = 0 THEN <<>>
        ELSE LET c == Clipped(ordered[k])
             IN  IF c[1] < c[2] THEN Merge(merged[k - 1], c) ELSE merged[k - 1]
  IN  merged

\* The minutes of the first k blocks.
Minutes(blocks) ==
  LET sum[k \in 0..Len(blocks)] ==
        IF k = 0 THEN 0 ELSE sum[k - 1] + (blocks[k][2] - blocks[k][1])
  IN  sum

\* Clipped to the working day, merged, subtracted.
free_minutes(intervals) ==
  LET ordered == sorted(intervals)
      merged  == Merged(ordered)[Len(ordered)]
  IN  (WorkEnd - WorkStart) - Minutes(merged)[Len(merged)]

-----------------------------------------------------------------------------
(* What they should answer.                                                 *)

\* "Pairs that genuinely collide.  Back-to-back is not a collision": exactly
\* the pairs of which each starts before the other has ended, however many
\* events lie between them in the sorted day.
OverlapsAreExact ==
  LET b == busy_intervals(events)
  IN  overlaps(b) =
        {p \in (DOMAIN b) \X (DOMAIN b) :
           /\ p[1] < p[2]
           /\ b[p[1]][1] < b[p[2]][2] /\ b[p[2]][1] < b[p[1]][2]}

\* The free minutes are those of the working day that no busy event covers:
\* double-booked time is not counted twice, nor time outside the day.
FreeIsUncovered ==
  LET b == busy_intervals(events)
  IN  free_minutes(b) =
        Cardinality({t \in WorkStart..(WorkEnd - 1) :
                       \A i \in DOMAIN b : ~(b[i][1] <= t /\ t < b[i][2])})
=============================================================================
