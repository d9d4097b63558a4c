---------------------------- MODULE CrontabScan -----------------------------
(***************************************************************************)
(* The directory scan of src/src/crontabs.cpp: crontabs::crontabs(dbdir)  *)
(* calls setPath, which walks the directory and calls parseCrontab on     *)
(* each regular file; parseCrontab opens the file, wraps it with fdopen,  *)
(* reads ONE entry with load_entry and, when there is one, prints its     *)
(* command and calls printTime.  main (src/src/main.cpp) catches what     *)
(* escapes.                                                                *)
(*                                                                         *)
(* load_entry and printTime are the modules LoadEntry and PrintTime,      *)
(* instantiated on variables of their own (prefixed le and pt); while      *)
(* the scan is inside one of them (spc = "load", spc = "time") it takes    *)
(* that module's steps.  A directory entry is [regular, readable,          *)
(* text]; descriptors are counted against the process limit MaxFds.        *)
(*                                                                         *)
(* The two unchecked allocations, load_entry's calloc and env_init's      *)
(* malloc, are taken to succeed here: their NULL dereference kills the    *)
(* process, which MCLoadEntry's load_entry_memory run shows on its own.   *)
(***************************************************************************)
EXTENDS Naturals, Sequences, FiniteSets

CONSTANTS
  Dirs,           \* the directories main may find at /etc/cron.d
  NoDir,          \* the directory does not exist
  MaxFds,         \* descriptors the process may still open
  Starts,         \* local times printTime may read
  MaxCarry,       \* PrintTime's bound on the month scan's year carries
  EOF, NIL, MAX_TEMPSTR, MAX_COMMAND, MAX_ENVSTR, Passwd, MallocMayFail

ASSUME MaxFds \in Nat

VARIABLES
  dir,       \* the directory's entries, in the iterator's order
  idx,       \* the directory iterator: index of the current entry
  spc,       \* where the scan is
  fds,       \* descriptors open
  visited,   \* entries passed to parseCrontab
  opened,    \* entries whose open() succeeded
  logged,    \* entries whose failure parseCrontab ELOGged
  printed,   \* entries whose command was printed
  leIn, lePos, leCh, lePc, leEcode, leEnt, lePw, leReported, leResult, leLineStart, leHeap, leEnvp,
  ptE, ptStart, ptNow, ptThen, ptPc

leVars == <<leIn, lePos, leCh, lePc, leEcode, leEnt, lePw, leReported, leResult, leLineStart, leHeap, leEnvp>>
ptVars == <<ptE, ptStart, ptNow, ptThen, ptPc>>
scanVars == <<dir, idx, spc, fds, visited, opened, logged, printed>>
vars == <<scanVars, leVars, ptVars>>

LE == INSTANCE LoadEntry WITH
        in <- leIn, pos <- lePos, ch <- leCh, pc <- lePc, ecode <- leEcode,
        ent <- leEnt, pw <- lePw, reported <- leReported, result <- leResult,
        lineStart <- leLineStart, heap <- leHeap, envp <- leEnvp, Files <- {},
        CallocMayFail <- FALSE

PT == INSTANCE PrintTime WITH
        e <- ptE, tm_start <- ptStart, tm_now <- ptNow, tm_then <- ptThen,
        pc <- ptPc, Entries <- {}

Init ==
  /\ dir \in Dirs
  /\ idx = 1
  /\ spc = "setPath"
  /\ fds = 0
  /\ visited = {} /\ opened = {} /\ logged = {} /\ printed = {}
  /\ leIn = <<>> /\ lePos = 1 /\ leCh = EOF /\ lePc = "ret" /\ leEcode = "e_none"
  /\ leEnt = LE!NoEntry /\ lePw = NIL /\ leReported = {} /\ leResult = NIL
  /\ leLineStart = 1 /\ leHeap = {} /\ leEnvp = <<>>
  /\ ptE = LE!NoEntry /\ ptStart \in Starts /\ ptNow = ptStart /\ ptThen = ptStart
  /\ ptPc = "done"

\* The iterator moves to the next directory entry.
NextFile == idx' = idx + 1 /\ spc' = "next"

-----------------------------------------------------------------------------
(* setPath, lines 99-116                                                  *)

SetPath ==
  /\ spc = "setPath"
  /\ spc' = IF dir = NoDir THEN "missing" ELSE "next"
  /\ UNCHANGED <<dir, idx, fds, visited, opened, logged, printed, leVars, ptVars>>

\* (Mutant) the iterator not advanced past an entry that is not a file.
SkipEntry_stall ==
  /\ spc = "next" /\ idx <= Len(dir) /\ ~dir[idx].regular
  /\ UNCHANGED <<idx, spc>>

SkipEntry ==
  /\ spc = "next" /\ idx <= Len(dir) /\ ~dir[idx].regular
  /\ NextFile

ParseFile ==
  /\ spc = "next" /\ idx <= Len(dir) /\ dir[idx].regular
  /\ visited' = visited \cup {idx}
  /\ spc' = "open"
  /\ UNCHANGED <<dir, idx, fds, opened, logged, printed, leVars, ptVars>>

EndOfDir ==
  /\ spc = "next" /\ idx > Len(dir)
  /\ spc' = "done"
  /\ UNCHANGED <<dir, idx, fds, visited, opened, logged, printed, leVars, ptVars>>

Skip ==
  /\ SkipEntry
  /\ UNCHANGED <<dir, fds, visited, opened, logged, printed, leVars, ptVars>>

-----------------------------------------------------------------------------
(* parseCrontab, lines 121-142                                            *)

\* open() fails on an unreadable file and, with EMFILE, when every
\* descriptor the process may have is open.
CanOpen == dir[idx].readable /\ fds < MaxFds

Open ==
  /\ spc = "open" /\ CanOpen
  /\ fds' = fds + 1
  /\ opened' = opened \cup {idx}
  /\ spc' = "fdopen"
  /\ UNCHANGED <<dir, idx, visited, logged, printed, leVars, ptVars>>

OpenFail ==
  /\ spc = "open" /\ ~CanOpen
  /\ logged' = logged \cup {idx}
  /\ NextFile
  /\ UNCHANGED <<dir, fds, visited, opened, printed, leVars, ptVars>>

\* fdopen allocates the FILE; on success load_entry starts on the file with
\* pw = NULL and env_init()'s environment.  The descriptor is never closed.
Fdopen ==
  /\ spc = "fdopen"
  /\ leIn' = dir[idx].text /\ lePos' = 1 /\ leCh' = EOF /\ lePc' = "start"
  /\ leEcode' = "e_none" /\ leEnt' = LE!NoEntry /\ lePw' = NIL
  /\ leReported' = {} /\ leResult' = NIL /\ leLineStart' = 1 /\ leHeap' = {}
  /\ leEnvp' = <<>>
  /\ spc' = "load"
  /\ UNCHANGED <<dir, idx, fds, visited, opened, logged, printed, ptVars>>

\* fdopen returns NULL: the error is logged and the open descriptor leaks.
FdopenFail ==
  /\ spc = "fdopen" /\ MallocMayFail
  /\ logged' = logged \cup {idx}
  /\ NextFile
  /\ UNCHANGED <<dir, fds, visited, opened, printed, leVars, ptVars>>

Load ==
  /\ spc = "load" /\ LE!Next
  /\ UNCHANGED <<scanVars, ptVars>>

\* load_entry returned an entry: its command is printed and printTime
\* starts on it at the local time it reads.
Loaded ==
  /\ spc = "load" /\ lePc = "ret" /\ leResult # NIL
  /\ printed' = printed \cup {idx}
  /\ ptE' = leResult /\ ptStart' \in Starts /\ ptNow' = ptStart' /\ ptThen' = ptStart'
  /\ ptPc' = "begin"
  /\ spc' = "time"
  /\ UNCHANGED <<dir, idx, fds, visited, opened, logged, leVars>>

\* load_entry returned NULL: nothing is printed, parseCrontab returns.
NotLoaded ==
  /\ spc = "load" /\ lePc = "ret" /\ leResult = NIL
  /\ NextFile
  /\ UNCHANGED <<dir, fds, visited, opened, logged, printed, leVars, ptVars>>

Time ==
  /\ spc = "time" /\ PT!Next
  /\ UNCHANGED <<scanVars, leVars>>

\* printTime returns (whether it found a time or gave up); the user name
\* is printed and the scan goes on.
Timed ==
  /\ spc = "time" /\ ptPc \in {"done", "fail"}
  /\ NextFile
  /\ UNCHANGED <<dir, fds, visited, opened, logged, printed, leVars, ptVars>>

\* ptime_from_tm threw: the exception leaves printTime, parseCrontab,
\* setPath and the constructor; main catches it and returns.
Threw ==
  /\ spc = "time" /\ ptPc = "throw"
  /\ spc' = "threw"
  /\ UNCHANGED <<dir, idx, fds, visited, opened, logged, printed, leVars, ptVars>>

Next ==
  \/ SetPath \/ Skip \/ ParseFile \/ EndOfDir
  \/ Open \/ OpenFail \/ Fdopen \/ FdopenFail
  \/ Load \/ Loaded \/ NotLoaded
  \/ Time \/ Timed \/ Threw

\* One thread runs main to its end: an enabled step is taken.
Spec == Init /\ [][Next]_vars /\ WF_vars(Next)

-----------------------------------------------------------------------------
(* Properties                                                              *)

Finished == spc \in {"done", "missing", "threw"}

\* The scan seen as the abstract loader: the iterator is `next`, and the
\* scan's end is the loader's status.
Loader == INSTANCE CrontabLoader WITH
            next <- idx,
            status <- CASE spc = "done"    -> "done"
                        [] spc = "missing" -> "missing"
                        [] spc = "threw"   -> "aborted"
                        [] OTHER           -> "scanning"

(* setPath implements the abstract loader: directory entries are taken   *)
(* one at a time in the iterator's order and never revisited, an entry is *)
(* printed only for a regular file, only an exception from scheduling the *)
(* entry just printed ends the scan early (a failed open, fdopen or      *)
(* allocation, EMFILE and a NULL entry do not), and, under weak fairness  *)
(* of the one thread, the scan ends.  The last clause holds only for      *)
(* entries whose printTime search returns: the directories this property *)
(* is checked on hold no entry whose month carry loops (ScanTerminates).  *)
LoaderRefinement == Loader!Spec

(* Every regular file in the directory is passed to parseCrontab before   *)
(* the scan ends (spec.md sections 2 and 7: a failure aborts only its own *)
(* file and the scan continues with the others).                          *)
ScanVisitsEveryFile ==
  spc \in {"done", "threw"} => \A i \in 1..Len(dir) : dir[i].regular => i \in visited

(* A readable crontab is never refused for lack of descriptors opened for *)
(* earlier files: parseCrontab's open is balanced by a close.              *)
ReadableFilesOpened ==
  \A i \in visited : dir[i].readable /\ ~(i = idx /\ spc = "open") => i \in opened

(* The scan ends: main returns after the directory scan.                  *)
ScanTerminates == <>Finished

=============================================================================
