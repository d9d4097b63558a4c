---------------------------- MODULE MCPrintTime -----------------------------
(***************************************************************************)
(* printTime on entries parsed by get_list from their field texts, called *)
(* at local times around month, year and leap-day boundaries.             *)
(***************************************************************************)
EXTENDS PrintTime, CronField

\* The bits load_entry gets from get_list for one field text.
FieldBits(t, low, high, names) ==
  LET in == t \o <<" ", "c">>
  IN  Bind(get_char(in, 1), LAMBDA c : get_list(in, low, high, names, c.ch, c.pos).bits)

\* The entry load_entry builds from five field texts (lines 406-462): the
\* *_STAR flag of a field whose first character is '*', and Sunday as both
\* bit 0 and bit 7 of the day of week.
EntryOf(mi, hr, dm, mo, dw) ==
  LET dow == FieldBits(dw, FIRST_DOW, LAST_DOW, DowNames)
      Star(t, f) == IF t[1] = "*" THEN {f} ELSE {}
  IN  [minute |-> FieldBits(mi, FIRST_MINUTE, LAST_MINUTE, NULL),
       hour   |-> FieldBits(hr, FIRST_HOUR, LAST_HOUR, NULL),
       dom    |-> FieldBits(dm, FIRST_DOM, LAST_DOM, NULL),
       month  |-> FieldBits(mo, FIRST_MONTH, LAST_MONTH, MonthNames),
       dow    |-> IF {0, 7} \cap dow # {} THEN dow \cup {0, 7} ELSE dow,
       flags  |-> Star(mi, MIN_STAR) \cup Star(hr, HR_STAR) \cup Star(dm, DOM_STAR)
                  \cup Star(mo, MON_STAR) \cup Star(dw, DOW_STAR)]

S == <<"*">>
MCEntries ==
  { EntryOf(<<"3","0">>, <<"4">>, <<"1">>, <<"1">>, S),            \* 30 4 1 1 *
    EntryOf(<<"0">>, <<"9">>, <<"1",",","1","5">>, S, <<"1">>),    \* 0 9 1,15 * 1
    EntryOf(<<"*","/","1","5">>, S, S, S, S),                      \* */15 * * * *
    EntryOf(<<"0">>, <<"3">>, S, S, S),                            \* 0 3 * * *
    EntryOf(<<"0">>, <<"0">>, <<"3","1">>, S, S),                  \* 0 0 31 * *
    EntryOf(S, S, S, S, S),                                        \* * * * * *
    EntryOf(<<"0">>, S, S, <<"j","u","n">>, S),                    \* 0 * * jun *
    EntryOf(<<"5","9">>, <<"2","3">>, S, <<"1","2">>, S),          \* 59 23 * 12 *
    EntryOf(<<"5">>, <<"*","/","2">>, S, S, S),                    \* 5 */2 * * *
    EntryOf(<<"0">>, <<"1","2">>, S, S, <<"M","o","n">>),          \* 0 12 * * Mon
    EntryOf(<<"0">>, <<"0">>, <<"1">>, S, S) }                     \* 0 0 1 * *

MCStarts ==
  {t \in [year : {2023, 2024}, mon : {0, 1, 3, 11}, mday : {1, 15, 28, 29, 30, 31},
          hour : {0, 10, 23}, min : {0, 7, 59}] : ValidTm(t)}

\* printTime seen as the Next-Occurrence Calculator: it has answered once
\* it printed a valid time ("found") or gave up ("none"); tm_then is the
\* answer.  The horizon is spec.md's four years.
NR == INSTANCE NextRun WITH
        start  <- tm_start,
        result <- IF pc = "done" THEN tm_then ELSE tm_start,
        status <- CASE pc = "done" -> "found"
                    [] pc = "fail" -> "none"
                    [] OTHER       -> "searching",
        HorizonMonths <- 48

(* printTime implements the Next-Occurrence Calculator of spec.md section *)
(* 4.5: it answers once, with the earliest minute at or after the call at *)
(* which the entry is scheduled (every field, and the day of month / day  *)
(* of week rule decided by the two *_STAR flags), or "none" only when no  *)
(* such minute lies within the horizon; and it always answers.            *)
NextRunRefinement == NR!SafetySpec


=============================================================================
