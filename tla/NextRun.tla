------------------------------ MODULE NextRun --------------------------------
(***************************************************************************)
(* What the Next-Occurrence Calculator promises (spec.md section 4.5),    *)
(* abstractly: given an entry and a reference instant, it answers once,   *)
(* with the earliest civil minute at or after the reference at which the  *)
(* entry is scheduled, or with "none" when no such minute lies within the *)
(* search horizon.  How the fields are scanned and carried is left out.   *)
(*                                                                         *)
(* An entry is a record of bit sets as load_entry fills them (index =     *)
(* value - FIRST_x, so a month index is a 0-based tm_mon) and its flags.  *)
(* An instant is [year, mon, mday, hour, min] with a 0-based mon.         *)
(***************************************************************************)
EXTENDS CronDefs, FiniteSetsExt

CONSTANTS
  Entries,      \* the entries asked about
  Starts,       \* the reference instants
  HorizonMonths \* how many months after the reference's the search may look

ASSUME HorizonMonths \in Nat

VARIABLES
  e,        \* the entry
  start,    \* the reference instant
  result,   \* the instant answered, meaningful once status = "found"
  status    \* "searching", "found" or "none"

vars == <<e, start, result, status>>

LeapYear(y) == (y % 4 = 0 /\ y % 100 # 0) \/ y % 400 = 0
MonthDays(y, m) == IF m = 1 THEN (IF LeapYear(y) THEN 29 ELSE 28)
                   ELSE IF m \in {3, 5, 8, 10} THEN 30 ELSE 31

\* The first minute of the month after instant t's.
MonthAfter(t) ==
  [year |-> IF t.mon = 11 THEN t.year + 1 ELSE t.year,
   mon  |-> (t.mon + 1) % 12, mday |-> 1, hour |-> 0, min |-> 0]

\* The instant t, or the first minute of day d of t's month if d is later.
DayFrom(t, d) == IF d = t.mday THEN t ELSE [t EXCEPT !.mday = d, !.hour = 0, !.min = 0]

\* Day of the week, 0 = Sunday (Sakamoto's method; mon is 0-based).
Weekday(y, m, d) ==
  LET k  == <<0, 3, 2, 5, 0, 3, 5, 1, 4, 6, 2, 4>>
      yy == IF m < 2 THEN y - 1 ELSE y
  IN  (yy + yy \div 4 - yy \div 100 + yy \div 400 + k[m + 1] + d) % 7

\* The traditional cron day rule: with both day fields restricted either
\* may match; with one a bare wildcard only the other is consulted.
DayScheduled(en, t) ==
  LET dom == t.mday - FIRST_DOM \in en.dom
      dow == Weekday(t.year, t.mon, t.mday) \in en.dow
      domStar == DOM_STAR \in en.flags
      dowStar == DOW_STAR \in en.flags
  IN  /\ t.mon \in en.month
      /\ \/ ~domStar /\ ~dowStar /\ (dom \/ dow)
         \/ domStar /\ ~dowStar /\ dow
         \/ ~domStar /\ dowStar /\ dom
         \/ domStar /\ dowStar

\* The scheduled minutes of hour h of t's day that are not before t.
MinutesAt(en, t, h) ==
  {m \in (IF h = t.hour THEN t.min ELSE FIRST_MINUTE)..LAST_MINUTE :
     m - FIRST_MINUTE \in en.minute}

\* The scheduled hours of t's day that still have such a minute.
HoursFrom(en, t) ==
  {h \in t.hour..LAST_HOUR : h - FIRST_HOUR \in en.hour /\ MinutesAt(en, t, h) # {}}

\* The earliest scheduled instant at or after t, looking at most k more
\* months ahead, as a set: empty past the horizon.
RECURSIVE Earliest(_, _, _)
Earliest(en, t, k) ==
  LET days == {d \in t.mday..MonthDays(t.year, t.mon) :
                 DayScheduled(en, DayFrom(t, d)) /\ HoursFrom(en, DayFrom(t, d)) # {}}
  IN  IF k < 0 THEN {}
      ELSE IF days # {}
        THEN LET u == DayFrom(t, Min(days))
                 h == Min(HoursFrom(en, u))
             IN  {[u EXCEPT !.hour = h, !.min = Min(MinutesAt(en, u, h))]}
        ELSE Earliest(en, MonthAfter(t), k - 1)

NextOccurrence(en, t) == Earliest(en, t, HorizonMonths)

Init ==
  /\ e \in Entries
  /\ start \in Starts
  /\ result = start
  /\ status = "searching"

Found ==
  /\ status = "searching" /\ status' = "found"
  /\ NextOccurrence(e, start) # {}
  /\ result' \in NextOccurrence(e, start)
  /\ UNCHANGED <<e, start>>

NotFound ==
  /\ status = "searching" /\ status' = "none"
  /\ NextOccurrence(e, start) = {}
  /\ UNCHANGED <<e, start, result>>

Next == Found \/ NotFound

\* What an answer may be, without the promise that one comes.
SafetySpec == Init /\ [][Next]_vars

\* The search is a bounded computation: it always answers.
Spec == SafetySpec /\ WF_vars(Next)

=============================================================================
