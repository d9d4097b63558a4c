# TLA+ models of tinjac's crontab reader

tinjac (`src/`) is the start of a cron daemon. It has one component of its own,
the class `crontabs` in `src/src/crontabs.cpp`, whose parser comes from vixie-cron.
`main` builds `crontabs("/etc/cron.d", true)`. The constructor calls `setPath`,
which calls `parseCrontab` on every regular file of the directory.
`parseCrontab`:

- opens the file;
- reads **one** entry with `load_entry`;
- prints the entry's command;
- calls `printTime`, which prints the entry's bit strings and searches for the
  next time it runs.

The program is single-threaded and persists nothing. What is hard to get right
in this code:

- the character-level control flow of the parser: pushed-back characters, EOF
  used as an error code, and recovery to the end of a line;
- the goto-driven carry loop of `printTime`;
- allocation failures on the way through `load_entry`.

## Inventory

| Part | Code | State it keeps | Operations |
|---|---|---|---|
| character source | `get_char`, `unget_char`, `get_string`, `skip_comments` (791-863) | FILE position, `LineNumber` (never read) | read, push back, read a word, skip comment lines |
| field parser | `get_list`, `get_range`, `get_number`, `set_element` (607-786) | the field's bit string | parse a list of ranges, with names, steps and bounds |
| entry loader | `load_entry` (279-605) | `ch`, `ecode`, the entry `*e`, `pw` | option `-`, `@` macros, five fields, Sunday fix, user name (`getpwnam`), `pw_dup`, environment, command, `eof:` recovery |
| env / passwd helpers | `env_init`, `env_copy`, `env_set`, `env_get`, `glue_strings`, `pw_dup` (865-1069) | the environment array | copy, set-or-replace, look up, bounded concatenation |
| next-run search | `printTime` (144-273) | `tm_now`, `tm_then`, `tm_start` | month, day, hour and minute scans joined by `goto restartm`; `ptime_from_tm` |
| directory scan | constructor, `setPath`, `parseCrontab` (88-142) | the directory iterator, the FILE | open, fdopen, one `load_entry`, `printTime` |
| program | `main.cpp` | the logger | one directory scan inside try/catch |
| logging | `log.cpp`, `log.hpp` | none | formatting to syslog or stdout |
| Wt Range header (vendored) | `Request::getRanges` (Request.C 192-300) | none | split, cast and clamp the ranges of a `Range` header |

Not part of the program:
- the vendored Wt library sources and examples under `src/wt-3.1.7a/`, which
  tinjac does not call. Of them, `Request::getRanges` (the HTTP Range header)
  is modelled on its own, in `HttpRanges`.
- a gtest file for a component absent from the tree.

How the parts interact:

- `load_entry` calls the field parser five times, sharing the FILE position.
  Every helper returns the character it stopped on, or EOF, which doubles as
  "error". Whether the stopping character was pushed back decides where the
  `eof:` recovery starts.
- The entry's bit strings, including the extra bit that the macros' `bit_nset`
  sets past each field, are then read by `printTime`.
- An exception from `ptime_from_tm` unwinds through `parseCrontab` and
  `setPath` to `main`.

## Modules

| Module | Models | State / actions |
|---|---|---|
| `CronDefs` | field bounds (from `macros.h`, which is not in the tree, so they are spec-modelled), flags (`crontabs.hpp`), name tables, error codes | constants only |
| `CronField` | the character source and the field parser | pure operators from `(in, ch, pos)` to `[ch, pos, ...]`; `in` is the file as a sequence of characters, `pos` the FILE position |
| `FieldGrammar` | reference meaning of a field, written from the grammar of spec.md §4.3/§6, not from the code | `RefList`, `RefRange` |
| `MCCronField` | one `get_list` call on every field text of up to 4 characters over `0 1 3 * - , / S m`, for a number-only field and a field with names | variables `input`, `kind`, `result`; action `Parse` |
| `PrintTime` | `printTime`'s search | variables `e`, `tm_start`, `tm_now`, `tm_then`, `pc`. Each scan has three actions: `*Star` (flag set), `*Found` (a bit at or after `tm_now`'s field) and `*Miss` (carry into `tm_now` and restart, after the give-up test). `Report` is `ptime_from_tm`, which throws on a date that does not exist. |
| `MCPrintTime` | 11 entries parsed by `CronField` from their text (e.g. `30 4 1 1 *`, `0 9 1,15 * 1`, `*/15 * * * *`), started at every valid time from a grid over 2023-2024 | |
| `NextRun` | what `printTime` should compute, written from spec.md §4.5 and not from the code: the earliest minute at or after the reference instant that the entry is scheduled at (months, the cron day-of-month/day-of-week rule, hours, minutes), within `HorizonMonths` months | variables `e`, `start`, `result`, `status`; actions `Found` and `NotFound` |
| `LoadEntry` | `load_entry`, with the arguments `parseCrontab` passes: `pw = NULL`, `error_func = NULL` and the environment `env_init()` returns (empty, or NULL when its malloc fails) | one action per stretch of code between two branch points (see below). `heap` holds the blocks the call owns: `e`, the `pw_dup` copy, the environment array and the command. |
| `HttpRanges` | Wt's `Request::getRanges` and the `ByteRange`/`ByteRangeSpecifier` constructors | the operator `getRanges(hdr, filesize)`. The header is taken as `boost::split` leaves it: the number of `=` parts, whether the unit is `bytes`, and the ranges split at `,` and `-`. Each start or end string is `Empty`, a number, or `Junk` (`lexical_cast` throws). `RangeSpec` is one iteration of the loop. |
| `MCHttpRanges` | every header of up to two ranges over the strings `""`, 0..3 and `Junk`, plus one range with too few and one with too many `-`; file sizes -1 (unknown), 0, 2 and 3 | variables `hdr`, `filesize`, `done`, `result`; action `GetRanges` |
| `MCLoadEntry` | 16 kinds of line (good entries, the `-` option, macros, every error path). Each line has an empty line, a comment or a blank line before it, and nothing or a good line after it. Passwd has root and a user whose home directory is too long for `envstr`. | |
| `CrontabLoader` | the abstract directory scan: what `setPath` promises | variables `dir`, `next`, `printed`, `status`; actions `Missing`, `PrintEntry`, `Advance`, `Abort`, `Finish` |
| `CrontabScan` | the constructor, `setPath`, `parseCrontab` and `main`'s try/catch, composing `LoadEntry` (instance `LE`) and `PrintTime` (instance `PT`) on variables of their own, prefixed `le` and `pt` | scan state `dir`, `idx` (the iterator), `spc` (where the scan is), `fds`, `visited`, `opened`, `logged`, `printed`; actions below |
| `MCCrontabScan` | directory entries of seven kinds (good, `@daily`, `@bad`, two entries, January only, unreadable, subdirectory), directories of up to three entries in every order, two local start times (10:00 on 31 Jan and 15 Mar 2023; the throw run uses 00:00 and 10:00 on 31 Jan), and root as the one user | |

`LoadEntry` actions and the code they translate:

| Action | Code |
|---|---|
| `Start` / `NoMoreEntries` | 300-313 |
| `CallocNoMem` | 313-323: the `calloc` of `e` is not checked, so the write to `e->flags` crashes (`pc = "segv"`) |
| `Option` | 318-332 |
| `Macro` / `MacroNoCommand` / `MacroUnknown` | 334-402 |
| `ParseField` / `FieldError` | 403-456, one field per step |
| `CommandStart` / `CommandMissing` | 458-471 |
| `UserName` / `UserMissing` / `UserUnknown` | 473-491 |
| `PwDup` / `PwDupNoMem` | 493-497 |
| `EnvSetup` / `EnvNoMem` | 499-561 |
| `EnvCopyNull` | 499 with `env_copy(NULL)` (960-964): reading `envp[0]` crashes |
| `Command` / `CommandEof` / `CommandNoMem` | 563-589 |
| `Eof` | 591-604 |

`CrontabScan` actions and the code they translate:

| Action | Code |
|---|---|
| `SetPath` | 99-104: the existence check |
| `Skip` / `ParseFile` / `EndOfDir` | 105-116: the iterator and the regular-file test |
| `Open` / `OpenFail` | 124-127: `open` fails on an unreadable file, or with EMFILE once `fds = MaxFds` |
| `Fdopen` / `FdopenFail` | 128-132 |
| `Load`, then `Loaded` / `NotLoaded` | 133-141: one `load_entry`, then print and `printTime` |
| `Time`, then `Timed` / `Threw` | `printTime`'s steps, then its return or the exception caught in `main` (main.cpp 37-44) |

The refinement mapping takes `next` to `idx`, and `status` to `done`, `missing`
or `aborted` when the scan ended that way (else `scanning`). Every step inside
`load_entry` or `printTime` is a stuttering step of the loader.

Every allocation the code checks may fail when `MallocMayFail`; the two it does not check (`calloc` of `e`, and `env_init`'s
malloc in `parseCrontab`) may fail when `CallocMayFail` and `MallocMayFail`.
`CrontabScan` takes both to succeed, so that its runs are about the scan. The `e_option`
branch needs a non-NULL `pw`, which `parseCrontab` never passes, so it appears
only as the guard `MayDisableLogging`.

`get_number` converts with `atoi`, which glibc implements as `(int) strtol`.
`CronField` models this by what it does:

- `strtol` saturates at `LONG_MAX`;
- the cast keeps the low 32 bits, computed as two 16-bit halves because TLC's
  integers are 32-bit.

The step loop `for (i = num1; i <= num2; i += num3)` can overflow. Signed
overflow is undefined; the model takes the outcome of the usual build, a
two's-complement wrap (`SetElements`).

The parser operators bind each intermediate result once, with
`Bind(v, LAMBDA x : ...)`, the way the C code keeps it in a local variable.
This keeps TLC's evaluation linear in the length of the input.

## Runs

| Run | Expect | What it shows |
|---|---|---|
| `field_parse` | pass | `FieldMatchesReference`: on every short field text that both the grammar and `get_list` accept, the bits are exactly the grammar's. `FieldNeverEmpty`: an accepted field always selects a value. `AcceptsGrammarButNumberStep`: every text the grammar allows is accepted, provided its numbers fit the buffer and it has no step after a single number. Removing that exception makes TLC report `0/1`: the terminators of a single number (line 664) do not include `/`. `AcceptsOnlyGrammarButStarTrailing`: every accepted text is one the grammar allows, except a `*` followed by other characters. Removing that exception makes TLC report `*0`: after `*` only `/` is checked (line 654), and `Skip_Nonblanks` drops the rest. `TypeOK`: bits stay within the field. 59040 states. |
| `field_number_as_written` | violation | `4294967299` in a field of values 0..3 is accepted as 3: `atoi` keeps the low 32 bits. In the month field the same literal would be read as March. |
| `print_time` | pass | `NotBeforeStart`: over all carries and restarts, the reported time is never before the call. 59419 states. |
| `print_time_schedule` | violation | `NextRunRefinement`: `PrintTime`, with `result` mapped to `tm_then` once `printTime` has reported and `status` to `found`/`none`/`searching`, is checked against `NextRun!SafetySpec`. `0 9 1,15 * 1` asked at 00:00 on the 1st of a month (1 Jan or 1 Feb 2023, as the workers happen to find it) reports the 15th at 09:00, not the 1st at 09:00: the day scan starts at bit `tm_mday` where bit `i` is day `i+1` (line 205). The same property would reject the month taken from `tm_now` (182) and the unread day-of-week bits (201), but the trace TLC reports shows only the day scan. |
| `load_entry` | pass | `AcceptedEntryWellFormed`: a returned non-@reboot entry has five non-empty fields, and Sunday as both 0 and 7. `AcceptedEntryConsumesItsLine`: a returned entry leaves the file just past its own newline. |
| `load_entry_recovery` | violation | `0 0 * * 5-1` as the last field: `get_range` fails after reading the newline without pushing it back, so the `eof:` loop consumes the next, good, line. |
| `crontab_scan` | pass | `LoaderRefinement`: the scan, with every path through `open`, `fdopen`, `load_entry` and `printTime`, implements `CrontabLoader`. Entries come in iterator order, at most once each, and are printed only for regular files. A failed `open`, `fdopen` or allocation, EMFILE or a NULL entry does not end the scan; only an exception from `printTime` does. The scan ends, but only because the run's directories hold no entry whose `printTime` loops; that case is `scan_terminates`'s. 25013 states. |
| `scan_visits_every_file` | violation | A crontab read on 31 Jan, then a good one. TLC reports one of two traces. In one, `@daily` is read at 00:00: the day scan finds the extra bit 31 that `bit_nset` sets (line 354) and composes day 32. In the other, `0 0 * * *` is read at 10:00: hour 0 has passed, so the hour carry moves `tm_mday` to 32 (line 239). Either way `ptime_from_tm` throws, and the second file is never scanned. |
| `scan_readable_files_opened` | violation | With one free descriptor, a readable second crontab fails with EMFILE: `parseCrontab` never closes the first (line 131). |
| `scan_terminates` | violation | A January-only entry read in March: the month carry never reaches next January (line 193), so `main` never returns. This is a liveness violation: the behaviour stutters once `MaxCarry` is reached. |
| `byte_ranges_within_file` | violation | `bytes=0-2` on a 2-byte file gives the range 0-2, one byte past the end. The clamp at Request.C:269 tests `endInt > filesize` where it needs `>=`. With `>=`, all 71136 states pass. With the size unknown, an open range `n-` runs to `UINT64_MAX` ("to eof", the comment at line 258), so there only `first <= last` is required. |
| `load_entry_memory` | violation | `EntryOwnership`: `load_entry` never crashes, and when it returns NULL it owns no block. TLC first shows the unchecked `calloc` (line 313) failing, and then the next write crashing. With `calloc` taken to succeed, a line that is just `-` followed by EOF returns NULL without freeing `e` (line 331). |

Each property of a passing run is also checked against a mutant of the code: a
plausible bug in a mapped definition that TLC must catch (see
`PROJECT.json`, "mutants").

## Bounds

- **Field texts (MCCronField).** Up to 4 characters are enough for every form of
  the grammar: `a-b/c`, `a,b`, `*/s` and names. The field bounds are `0..3` or
  `1..3`, so out-of-range values and steps that overshoot occur. `MAX_TEMPSTR =
  3` puts the token-length limit inside the inputs. The violation runs use
  `MAX_TEMPSTR = 100`, the real value, so the token-length limit is not what
  they show.
- **Start times (MCPrintTime).** Months 0, 1, 3 and 11 give a year start, a
  short month, a 30-day month and a year end. Days 1, 15, 28-31 and hours and
  minutes at both ends give every carry. Leap year 2024 is included.
  `MaxCarry = 3` bounds the otherwise endless year carry; it is the only bound
  on an unbounded counter.
- **Buffers (MCLoadEntry).** `MAX_COMMAND` and `MAX_ENVSTR` have their
  `macros.h` values (1000). A home-directory length of 1000 makes `glue_strings`
  fail for HOME.
- **Numbers (field_number_as_written).** Literals around 2^31, 2^32 and 2^63,
  one of 20 digits, and small values written with leading zeros.
- **Range headers (MCHttpRanges).** Numbers 0..3 and files of 2 and 3 bytes
  cover every boundary: an end below, at and past the last byte, and a start
  inside and past the file. Suffix ranges shorter than, equal to and longer
  than the file also occur. Two ranges per header show that a syntax error in
  one discards the other. `UINT64_MAX` is TLC's largest integer, 2^31-1; it
  only has to lie above every number of the model.
- **Directories (MCCrontabScan).** The pass run uses:
  - every directory of up to three entries of five kinds, plus a missing
    directory;
  - `MaxFds = 2`, fewer descriptors than files;
  - `MallocMayFail`, which makes `fdopen` and `load_entry`'s allocations fail.

  So every order of success, rejection, EACCES, EMFILE, fdopen failure, a
  non-file and an exception occurs. The two start times are the last day of a
  month and a mid-month day; at 10:00 on 31 Jan a good entry throws, so
  the abort path is reached. Each violation run uses the smallest directories
  that show its case.

## Fairness

The program is one thread that runs `main` to its end, so `Spec` has weak
fairness on `Next`: a step that stays enabled is taken. `LoaderRefinement`
checks `CrontabLoader!Spec`, which includes the abstract loader's fairness; it
therefore also says that the scan terminates, for the directories it is checked
on, none of which holds an entry whose month carry loops. `ScanTerminates` (`<>Finished`)
is the direct statement, and it fails on the endless month carry: at `MaxCarry`
the carry step is disabled, and the stuttering that follows is the model's
picture of a loop that never ends. Every cfg sets `CHECK_DEADLOCK FALSE`,
because the modelled function, or `main`, returns, and its final state has no
successor.

## Not modelled

| Left out | Why |
|---|---|
| Printing of the bit strings (`printTime` 146-165) | output only; its loops also stop one short of each field |
| `LineNumber` | written, never read |
| `NextRun`'s fairness in the refinement | `NextRunRefinement` checks `NextRun!SafetySpec` (every answer is the right one). Termination of `printTime` is already checked by `scan_terminates` through the scan. With the fairness conjunct, TLC's tableau over the 4059 initial states does not finish in minutes. |
| The unchecked allocations in the scan | `CrontabScan` takes `calloc` and `env_init` to succeed; their failure is `load_entry_memory`'s subject |
| More than one entry per file | `parseCrontab` calls `load_entry` once (line 135), as spec.md §2 says the loader does |
| `Log`, the gtest file | see `PROJECT.json`, "components" |
| Wt's `WTime`, `WModelIndex`, `WStandardPalette` and the examples | vendored value classes and widgets that tinjac never calls. The 12 runs the project can afford go to the code tinjac runs, and to `getRanges`, the one Wt function with a boundary bug found. |
| The rest of `Request.C` | accessors for parameters, headers and uploaded files |
| The byte layout of `pw_dup`'s single allocation | `strcmp_until`, `env_copy` and `pw_dup` are operators: name equality and copies of values |

## Bounds of NextRun

`HorizonMonths = 48` lets the reference search look four years ahead. That is
more than any carry `printTime` makes under `MaxCarry = 3`, so an answer
`printTime` gives is always within the horizon that the abstract answer is
computed over.
