----------------------------- MODULE CronDefs -------------------------------
(***************************************************************************)
(* Definitions shared by the modules: the field bounds (macros.h, not in  *)
(* the source tree; the vixie-cron values the spec's data model states),  *)
(* the entry flags of include/crontabs.hpp and the name tables and error  *)
(* codes of src/crontabs.cpp.                                              *)
(***************************************************************************)
EXTENDS Integers

FIRST_MINUTE == 0
LAST_MINUTE  == 59
FIRST_HOUR   == 0
LAST_HOUR    == 23
FIRST_DOM    == 1
LAST_DOM     == 31
FIRST_MONTH  == 1
LAST_MONTH   == 12
FIRST_DOW    == 0
LAST_DOW     == 7

\* entry.flags bits
MIN_STAR    == "MIN_STAR"
HR_STAR     == "HR_STAR"
DOM_STAR    == "DOM_STAR"
DOW_STAR    == "DOW_STAR"
WHEN_REBOOT == "WHEN_REBOOT"
DONT_LOG    == "DONT_LOG"
MON_STAR    == "MON_STAR"
Flags == {MIN_STAR, HR_STAR, DOM_STAR, DOW_STAR, WHEN_REBOOT, DONT_LOG, MON_STAR}

\* MonthNames and DowNames (DowNames lists "Sun" twice, at 0 and 7).
MonthNames == <<<<"J","a","n">>, <<"F","e","b">>, <<"M","a","r">>, <<"A","p","r">>,
                <<"M","a","y">>, <<"J","u","n">>, <<"J","u","l">>, <<"A","u","g">>,
                <<"S","e","p">>, <<"O","c","t">>, <<"N","o","v">>, <<"D","e","c">>>>
DowNames   == <<<<"S","u","n">>, <<"M","o","n">>, <<"T","u","e">>, <<"W","e","d">>,
                <<"T","h","u">>, <<"F","r","i">>, <<"S","a","t">>, <<"S","u","n">>>>

\* ecode_e
ECodes == {"e_none", "e_minute", "e_hour", "e_dom", "e_month", "e_dow",
           "e_cmd", "e_timespec", "e_username", "e_option", "e_memory"}

=============================================================================
