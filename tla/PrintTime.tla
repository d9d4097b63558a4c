----------------------------- MODULE PrintTime ------------------------------
(***************************************************************************)
(* crontabs::printTime (src/src/crontabs.cpp), the search for the next    *)
(* time an entry runs, after it has printed the entry's bit strings.       *)
(*                                                                         *)
(* The three struct tm copies of the current local time are tm_start,     *)
(* tm_now and tm_then (tm_year is kept as the calendar year; tm_mon is     *)
(* 0-based, tm_mday 1-based, as in struct tm).  The search is a chain of   *)
(* four field scans (month, day of month, hour, minute) joined by `goto    *)
(* restartm`; `pc` is the scan about to run.  Each scan either takes its   *)
(* field from tm_now (the field's *_STAR flag), finds a set bit at or      *)
(* after tm_now's field, or carries into the next larger field of tm_now  *)
(* and restarts at the month scan, after a give-up test.                   *)
(*                                                                         *)
(* An entry's fields are bit strings as load_entry fills them: the set of  *)
(* set bit indices, index = value - FIRST_x.  The month and day scans read *)
(* one bit past the field (i <= LAST_MONTH, i <= LAST_DOM), which lies in  *)
(* the same allocated bytes and is set only by a macro's bit_nset.         *)
(***************************************************************************)
EXTENDS CronDefs, FiniteSetsExt

CONSTANTS
  Entries,   \* the entries printTime may be given
  Starts,    \* local times printTime may be called at
  MaxCarry   \* bound on the years the month scan may carry into tm_then

ASSUME MaxCarry \in Nat \ {0}

VARIABLES
  e,         \* the entry
  tm_start,  \* the local time at the call, used only by the give-up tests
  tm_now,    \* where each field scan starts; advanced by the carries
  tm_then,   \* the result being built
  pc         \* "begin", "month", "dom", "hour", "min", "print",
             \* "done", "throw" (ptime_from_tm threw) or "fail"

vars == <<e, tm_start, tm_now, tm_then, pc>>

Tm == [year : Int, mon : Int, mday : Int, hour : Int, min : Int]

IsLeap(y) == (y % 4 = 0 /\ y % 100 # 0) \/ y % 400 = 0
DaysIn(y, m) == IF m = 1 THEN (IF IsLeap(y) THEN 29 ELSE 28)
                ELSE IF m \in {3, 5, 8, 10} THEN 30 ELSE 31

\* ptime_from_tm builds a boost::gregorian::date, which throws unless the
\* month and the day exist.
ValidTm(t) == t.mon \in 0..11 /\ t.mday \in 1..DaysIn(t.year, t.mon)

Init ==
  /\ e \in Entries
  /\ tm_start \in Starts
  /\ tm_now = tm_start
  /\ tm_then = tm_start
  /\ pc = "begin"

-----------------------------------------------------------------------------
(* Month: lines 174-199                                                    *)

MonthHits == {i \in tm_now.mon..LAST_MONTH : i \in e.month}
AtRestart == pc = "month" \/ (pc = "begin" /\ MON_STAR \notin e.flags)

MonthStar ==
  /\ pc = "begin" /\ MON_STAR \in e.flags
  /\ tm_then' = [tm_then EXCEPT !.mon = tm_now.mon]
  /\ pc' = "dom"
  /\ UNCHANGED <<e, tm_start, tm_now>>

\* A set bit is found, yet tm_then takes tm_now's month, not bit i.
MonthFound ==
  /\ AtRestart /\ MonthHits # {}
  /\ tm_then' = [tm_then EXCEPT !.mon = tm_now.mon]
  /\ pc' = "dom"
  /\ UNCHANGED <<e, tm_start, tm_now>>

\* The year is carried into tm_then but tested on tm_now.
MonthMiss ==
  /\ AtRestart /\ MonthHits = {}
  /\ tm_then.year < tm_start.year + MaxCarry
  /\ tm_then' = [tm_then EXCEPT !.year = @ + 1]
  /\ tm_now' = [tm_now EXCEPT !.mon = FIRST_MONTH, !.mday = FIRST_DOM,
                              !.hour = FIRST_HOUR, !.min = FIRST_MINUTE]
  /\ pc' = IF tm_start.year + 1 < tm_now'.year THEN "fail" ELSE "month"
  /\ UNCHANGED <<e, tm_start>>

-----------------------------------------------------------------------------
(* Day of month: lines 200-224                                             *)

\* (Mutant) the day scan starting at the first day of the month.
DomHitsFromFirst == {i \in FIRST_DOM..LAST_DOM : i \in e.dom}

DomHits == {i \in tm_now.mday..LAST_DOM : i \in e.dom}

DomStar ==
  /\ pc = "dom" /\ DOM_STAR \in e.flags
  /\ tm_then' = [tm_then EXCEPT !.mday = tm_now.mday]
  /\ pc' = "hour"
  /\ UNCHANGED <<e, tm_start, tm_now>>

DomFound ==
  /\ pc = "dom" /\ DOM_STAR \notin e.flags /\ DomHits # {}
  /\ tm_then' = [tm_then EXCEPT !.mday = Min(DomHits) + 1]
  /\ pc' = "hour"
  /\ UNCHANGED <<e, tm_start, tm_now>>

DomMiss ==
  /\ pc = "dom" /\ DOM_STAR \notin e.flags /\ DomHits = {}
  /\ tm_now' = [tm_now EXCEPT !.mon = @ + 1, !.mday = FIRST_DOM,
                              !.hour = FIRST_HOUR, !.min = FIRST_MINUTE]
  /\ pc' = IF tm_start.mon + 12 < tm_now'.mon THEN "fail" ELSE "month"
  /\ UNCHANGED <<e, tm_start, tm_then>>

-----------------------------------------------------------------------------
(* Hour: lines 225-248                                                     *)

HourHits == {i \in tm_now.hour..LAST_HOUR : i \in e.hour}

HourStar ==
  /\ pc = "hour" /\ HR_STAR \in e.flags
  /\ tm_then' = [tm_then EXCEPT !.hour = tm_now.hour]
  /\ pc' = "min"
  /\ UNCHANGED <<e, tm_start, tm_now>>

HourFound ==
  /\ pc = "hour" /\ HR_STAR \notin e.flags /\ HourHits # {}
  /\ tm_then' = [tm_then EXCEPT !.hour = Min(HourHits)]
  /\ pc' = "min"
  /\ UNCHANGED <<e, tm_start, tm_now>>

HourMiss ==
  /\ pc = "hour" /\ HR_STAR \notin e.flags /\ HourHits = {}
  /\ tm_now' = [tm_now EXCEPT !.mday = @ + 1, !.hour = FIRST_HOUR,
                              !.min = FIRST_MINUTE]
  /\ pc' = IF tm_start.hour + 24 < tm_now'.hour THEN "fail" ELSE "month"
  /\ UNCHANGED <<e, tm_start, tm_then>>

-----------------------------------------------------------------------------
(* Minute: lines 249-271                                                   *)

MinHits == {i \in tm_now.min..LAST_MINUTE : i \in e.minute}

MinStar ==
  /\ pc = "min" /\ MIN_STAR \in e.flags
  /\ tm_then' = [tm_then EXCEPT !.min = tm_now.min]
  /\ pc' = "print"
  /\ UNCHANGED <<e, tm_start, tm_now>>

MinFound ==
  /\ pc = "min" /\ MIN_STAR \notin e.flags /\ MinHits # {}
  /\ tm_then' = [tm_then EXCEPT !.min = Min(MinHits)]
  /\ pc' = "print"
  /\ UNCHANGED <<e, tm_start, tm_now>>

MinMiss ==
  /\ pc = "min" /\ MIN_STAR \notin e.flags /\ MinHits = {}
  /\ tm_now' = [tm_now EXCEPT !.hour = @ + 1, !.min = FIRST_MINUTE]
  /\ pc' = IF tm_start.min + 60 < tm_now'.min THEN "fail" ELSE "month"
  /\ UNCHANGED <<e, tm_start, tm_then>>

\* Line 272: cout << ptime_from_tm(tm_then).
Report ==
  /\ pc = "print"
  /\ pc' = IF ValidTm(tm_then) THEN "done" ELSE "throw"
  /\ UNCHANGED <<e, tm_start, tm_now, tm_then>>

Next ==
  \/ MonthStar \/ MonthFound \/ MonthMiss
  \/ DomStar \/ DomFound \/ DomMiss
  \/ HourStar \/ HourFound \/ HourMiss
  \/ MinStar \/ MinFound \/ MinMiss
  \/ Report

\* printTime is straight-line code in one thread: once a step is enabled
\* it is taken.
Spec == Init /\ [][Next]_vars /\ WF_vars(Next)

-----------------------------------------------------------------------------
(* Properties                                                              *)

Returned == pc \in {"print", "done", "throw"}

\* Time a is earlier than time b (field by field, year first).
TmBefore(a, b) ==
  LET s == <<a.year, a.mon, a.mday, a.hour, a.min>>
      t == <<b.year, b.mon, b.mday, b.hour, b.min>>
  IN  \E i \in 1..5 : s[i] < t[i] /\ \A j \in 1..(i - 1) : s[j] = t[j]

(* The time printTime reports is never earlier than the time it was       *)
(* called at, however often the field scans carry into tm_now and restart *)
(* at `restartm`: each scan starts from tm_now's field and every carry     *)
(* resets the smaller fields only together with advancing a larger one.   *)
NotBeforeStart == Returned => ~TmBefore(tm_then, tm_start)

=============================================================================
