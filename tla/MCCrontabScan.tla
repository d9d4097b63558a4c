---------------------------- MODULE MCCrontabScan ---------------------------
(***************************************************************************)
(* Model-checks the directory scan on directories of up to three entries  *)
(* built from the kinds of directory entry below, with fewer free         *)
(* descriptors than files, at local times on and off a month's last day.  *)
(***************************************************************************)
EXTENDS CrontabScan, TLC

\* A regular readable crontab with one good entry: 0 0 * * * u c
Good   == [regular |-> TRUE, readable |-> TRUE, text |-> <<"0"," ","0"," ","*"," ","*"," ","*"," ","u"," ","c","\n">>]
\* @daily u c: a macro, whose bit_nset also sets bit 31 (day 32)
Daily  == [regular |-> TRUE, readable |-> TRUE, text |-> <<"@","d","a","i","l","y"," ","u"," ","c","\n">>]
\* @bad u c: load_entry returns NULL
Bad    == [regular |-> TRUE, readable |-> TRUE, text |-> <<"@","b","a","d"," ","u"," ","c","\n">>]
\* 0 0 * * * u c, then 1 2 3 4 5 u c: two entries
Two    == [regular |-> TRUE, readable |-> TRUE, text |-> <<"0"," ","0"," ","*"," ","*"," ","*"," ","u"," ","c","\n","1"," ","2"," ","3"," ","4"," ","5"," ","u"," ","c","\n">>]
\* 30 4 1 1 * u c: January only
Jan    == [regular |-> TRUE, readable |-> TRUE, text |-> <<"3","0"," ","4"," ","1"," ","1"," ","*"," ","u"," ","c","\n">>]
\* a crontab the daemon may not read
Locked == [regular |-> TRUE, readable |-> FALSE, text |-> <<"0"," ","0"," ","*"," ","*"," ","*"," ","u"," ","c","\n">>]
\* a subdirectory
SubDir == [regular |-> FALSE, readable |-> TRUE, text |-> <<>>]

\* Every directory of at most n entries of the given kinds.
DirsOf(kinds, n) == UNION {[1..k -> kinds] : k \in 0..n}

MCDirs       == {NoDir} \cup DirsOf({Good, Daily, Bad, Locked, SubDir}, 3)
MCDirsTwo    == DirsOf({Two, Good}, 1)
MCDirsLeak   == DirsOf({Good, Bad}, 2)
\* A crontab that throws, then a good one.
MCDirsThrow  == {<<Daily, Good>>, <<Good, Good>>}
MCDirsJan    == DirsOf({Jan}, 1)

\* Local times: the last day of January, and the middle of March.
MCStarts ==
  {[year |-> 2023, mon |-> 0, mday |-> 31, hour |-> 10, min |-> 0],
   [year |-> 2023, mon |-> 2, mday |-> 15, hour |-> 10, min |-> 0]}

\* Midnight and 10:00 on the last day of January.
MCStartsThrow ==
  {[year |-> 2023, mon |-> 0, mday |-> 31, hour |-> 0, min |-> 0],
   [year |-> 2023, mon |-> 0, mday |-> 31, hour |-> 10, min |-> 0]}

\* getpwnam: root, whose entries get the whole environment.
MCPasswd == <<"u">> :> [uid |-> 0, dir |-> "/root", dirLen |-> 5]

=============================================================================
