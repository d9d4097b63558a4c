--------------------------- MODULE CrontabLoader ----------------------------
(***************************************************************************)
(* What the directory scan of crontabs::setPath promises, abstractly: the *)
(* directory's entries are taken one at a time, in the order the          *)
(* directory iterator gives them, each at most once; the entry of a       *)
(* regular file may be printed; the scan ends after the last entry, ends  *)
(* at once when the directory does not exist, or is aborted by an         *)
(* exception raised while the entry just printed is being scheduled.      *)
(* How a file is opened and parsed is left out.                           *)
(***************************************************************************)
EXTENDS Naturals, Sequences

CONSTANTS
  Dirs,    \* the directories the scan may be given: sequences of entries
  NoDir    \* a path that does not exist

VARIABLES
  dir,      \* the directory being scanned
  next,     \* index of the directory entry the scan is at
  printed,  \* indices of the entries whose crontab entry was printed
  status    \* "scanning", "done", "missing" or "aborted"

vars == <<dir, next, printed, status>>

Scanning == status = "scanning" /\ dir # NoDir

Init ==
  /\ dir \in Dirs
  /\ next = 1
  /\ printed = {}
  /\ status = "scanning"

Missing ==
  /\ status = "scanning" /\ dir = NoDir
  /\ status' = "missing"
  /\ UNCHANGED <<dir, next, printed>>

\* The crontab entry read from a regular file is printed.
PrintEntry ==
  /\ Scanning /\ next <= Len(dir)
  /\ dir[next].regular /\ next \notin printed
  /\ printed' = printed \cup {next}
  /\ UNCHANGED <<dir, next, status>>

Advance ==
  /\ Scanning /\ next <= Len(dir)
  /\ next' = next + 1
  /\ UNCHANGED <<dir, printed, status>>

\* Scheduling the entry just printed throws; the exception ends the scan.
Abort ==
  /\ Scanning /\ next \in printed
  /\ status' = "aborted"
  /\ UNCHANGED <<dir, next, printed>>

Finish ==
  /\ Scanning /\ next > Len(dir)
  /\ status' = "done"
  /\ UNCHANGED <<dir, next, printed>>

Next == Missing \/ PrintEntry \/ Advance \/ Abort \/ Finish

\* The scan runs in the one thread of main and always makes progress.
Spec == Init /\ [][Next]_vars /\ WF_vars(Next)

=============================================================================
