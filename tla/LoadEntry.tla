----------------------------- MODULE LoadEntry ------------------------------
(***************************************************************************)
(* crontabs::load_entry (src/src/crontabs.cpp): read the next entry of a  *)
(* crontab file.  `pc` is the point of the function the next step starts   *)
(* at; each action runs the code from there to the next point where the    *)
(* control flow branches on input, on getpwnam or on an allocation.        *)
(*                                                                         *)
(* parseCrontab calls load_entry with pw = NULL (so the user name column   *)
(* is always read), with error_func = NULL and with an empty environment   *)
(* from env_init; those are the arguments modelled.  An allocation that    *)
(* can fail (pw_dup, env_copy/env_set, strdup) is a nondeterministic       *)
(* failure when MallocMayFail.  User names and home directories are model  *)
(* values; a home directory's length is what glue_strings depends on.     *)
(***************************************************************************)
EXTENDS CronDefs, CronField

CONSTANTS
  NIL,            \* the null pointer
  Files,          \* crontab contents load_entry may read
  Passwd,         \* getpwnam: user name -> [uid, dir, dirLen]
  MAX_COMMAND,    \* size of load_entry's cmd buffer (macros.h)
  MAX_ENVSTR,     \* size of load_entry's envstr buffer (macros.h)
  MallocMayFail,  \* whether a checked allocation may return NULL
  CallocMayFail   \* whether the unchecked calloc of the entry may return NULL

ASSUME MAX_COMMAND \in Nat \ {0} /\ MAX_ENVSTR \in Nat \ {0}
ASSUME MallocMayFail \in BOOLEAN /\ CallocMayFail \in BOOLEAN

VARIABLES
  in,         \* the file's characters
  pos,        \* the FILE* position (index of the next unread character)
  ch,         \* load_entry's `ch`
  pc,         \* where load_entry is
  ecode,      \* load_entry's `ecode`
  ent,        \* the entry under construction (*e)
  pw,         \* load_entry's `pw`: NIL or a user name
  reported,   \* error codes written to the log
  result,     \* the returned pointer: NIL or an entry
  lineStart,  \* position of the entry's first character (history)
  heap,       \* what this call has allocated and not freed: "e" (the entry),
              \* "pwd", "envp" and "cmd" (what hangs off it)
  envp        \* the environment parseCrontab passes: env_init()'s result

vars == <<in, pos, ch, pc, ecode, ent, pw, reported, result, lineStart, heap, envp>>

error_func == NIL       \* parseCrontab passes no error callback
\* env_init: an empty environment, or NULL when its malloc fails (which
\* parseCrontab does not check).
env_init == {<<>>} \cup (IF MallocMayFail THEN {NIL} ELSE {})

\* calloc'ed entry: all bits clear, no flags, no pointers.
NoEntry == [minute |-> {}, hour |-> {}, dom |-> {}, month |-> {}, dow |-> {},
            flags |-> {}, pwd |-> NIL, env |-> <<>>, cmd |-> <<>>]

\* The five fields in the order load_entry parses them (lines 406-455).
Fields ==
  [minute |-> [low |-> FIRST_MINUTE, high |-> LAST_MINUTE, names |-> NULL,
               flag |-> MIN_STAR, err |-> "e_minute", next |-> "hour"],
   hour   |-> [low |-> FIRST_HOUR, high |-> LAST_HOUR, names |-> NULL,
               flag |-> HR_STAR, err |-> "e_hour", next |-> "dom"],
   dom    |-> [low |-> FIRST_DOM, high |-> LAST_DOM, names |-> NULL,
               flag |-> DOM_STAR, err |-> "e_dom", next |-> "month"],
   month  |-> [low |-> FIRST_MONTH, high |-> LAST_MONTH, names |-> MonthNames,
               flag |-> MON_STAR, err |-> "e_month", next |-> "dow"],
   dow    |-> [low |-> FIRST_DOW, high |-> LAST_DOW, names |-> DowNames,
               flag |-> DOW_STAR, err |-> "e_dow", next |-> "sunday"]]

\* bit_nset(bits, 0, n) sets bits 0..n inclusive: one past the field.
All(first, last) == 0..(last - first + 1)

\* The @keywords and what each sets (lines 348-389).
Macros ==
  LET z == {0}
      mk(mi, hr, dm, mo, dw, fl) ==
        [minute |-> mi, hour |-> hr, dom |-> dm, month |-> mo, dow |-> dw, flags |-> fl]
      dom == All(FIRST_DOM, LAST_DOM)    mon == All(FIRST_MONTH, LAST_MONTH)
      dow == All(FIRST_DOW, LAST_DOW)
  IN  (<<"r","e","b","o","o","t">> :> mk({}, {}, {}, {}, {}, {WHEN_REBOOT}))
   @@ (<<"y","e","a","r","l","y">> :> mk(z, z, z, z, dow, {DOW_STAR}))
   @@ (<<"a","n","n","u","a","l","l","y">> :> mk(z, z, z, z, dow, {DOW_STAR}))
   @@ (<<"m","o","n","t","h","l","y">> :> mk(z, z, z, mon, dow, {DOW_STAR}))
   @@ (<<"w","e","e","k","l","y">> :> mk(z, z, dom, mon, z, {DOW_STAR}))
   @@ (<<"d","a","i","l","y">> :> mk(z, z, dom, mon, dow, {}))
   @@ (<<"m","i","d","n","i","g","h","t">> :> mk(z, z, dom, mon, dow, {}))
   @@ (<<"h","o","u","r","l","y">> :> mk(z, All(FIRST_HOUR, LAST_HOUR), dom, mon, dow, {HR_STAR}))

\* env_get(name, env) # NULL
EnvHas(env, name) == \E i \in DOMAIN env : env[i][1] = name

\* strcmp_until(left, right, '=') = 0: the two "name=value" strings name
\* the same variable.
strcmp_until(left, right) == left[1] = right[1]

\* env_set: replace the variable's entry, or append a new one before the
\* terminating NULL.
env_set(env, name, val) ==
  IF \E i \in DOMAIN env : strcmp_until(env[i], <<name, val>>)
    THEN [i \in DOMAIN env |-> IF strcmp_until(env[i], <<name, val>>) THEN <<name, val>> ELSE env[i]]
    ELSE Append(env, <<name, val>>)

\* env_copy and pw_dup copy their argument into fresh memory; their
\* allocation failures are the actions EnvNoMem and PwDupNoMem.
env_copy(env) == env
pw_dup(p) == p

\* glue_strings(envstr, MAX_ENVSTR, a, b, '=') succeeds when "a=b" and its
\* terminating NUL fit in the buffer.
glue_strings(aLen, bLen) == aLen + 1 + bLen < MAX_ENVSTR

\* The environment lines 502-561 give the entry of user `u`: SHELL, HOME
\* and PATH only when absent, LOGNAME and USER always; a variable whose
\* "name=value" does not fit in envstr is left out (and ELOGged).
EnvFor(u) ==
  LET put(env, n, nLen, v, vLen) ==
        IF glue_strings(nLen, vLen) THEN env_set(env, n, v) ELSE env
      dflt(env, n, nLen, v, vLen) ==
        IF EnvHas(env, n) THEN env ELSE put(env, n, nLen, v, vLen)
      e1 == dflt(env_copy(envp), "SHELL", 5, "_PATH_BSHELL", 7)
      e2 == dflt(e1, "HOME", 4, Passwd[u].dir, Passwd[u].dirLen)
      e3 == dflt(e2, "PATH", 4, "_PATH_DEFPATH", 13)
      e4 == put(e3, "LOGNAME", 7, u, Len(u))
  IN  put(e4, "USER", 4, u, Len(u))

\* (Mutant) the Sunday test looking at bit 0 only.
SundayFix_zeroOnly(dow) == IF 0 \in dow THEN dow \cup {0, 7} ELSE dow

\* Lines 458-462: make Sundays equivalent.
SundayFix(dow) == IF 0 \in dow \/ 7 \in dow THEN dow \cup {0, 7} ELSE dow

Init ==
  /\ in \in Files
  /\ pos = 1
  /\ ch = EOF
  /\ pc = "start"
  /\ ecode = "e_none"
  /\ ent = NoEntry
  /\ pw = NIL
  /\ reported = {}
  /\ result = NIL
  /\ lineStart = 1
  /\ heap = {}
  /\ envp \in env_init

\* Go to the `eof:` label with an error code.
Fail(code, c, p) ==
  /\ ecode' = code /\ ch' = c /\ pos' = p /\ pc' = "eof"

-----------------------------------------------------------------------------
(* Lines 300-313: skip comments, read the first character, calloc the      *)
(* entry.  A '-' goes to the option check.                                 *)

Start ==
  /\ pc = "start"
  /\ LET p == skip_comments(in, pos)
         c == get_char(in, p)
     IN  /\ c.ch # EOF
         /\ ch' = c.ch /\ pos' = c.pos /\ lineStart' = p
         /\ pc' = IF c.ch = "-" THEN "option" ELSE "body"
  /\ ent' = NoEntry
  /\ heap' = {"e"}
  /\ UNCHANGED <<in, ecode, pw, reported, result, envp>>

\* calloc returns NULL.  Its result is not checked: the next statement on
\* every path (e->flags |= DONT_LOG, or get_list/bit_set on e's fields)
\* writes through the null pointer and the process dies ("segv").
CallocNoMem ==
  /\ pc = "start" /\ CallocMayFail
  /\ LET p == skip_comments(in, pos)
         c == get_char(in, p)
     IN  /\ c.ch # EOF
         /\ ch' = c.ch /\ pos' = c.pos /\ lineStart' = p
  /\ pc' = "segv"
  /\ UNCHANGED <<in, ecode, ent, pw, reported, result, heap, envp>>

NoMoreEntries ==
  /\ pc = "start"
  /\ LET p == skip_comments(in, pos)
         c == get_char(in, p)
     IN  /\ c.ch = EOF
         /\ ch' = c.ch /\ pos' = c.pos /\ lineStart' = p
  /\ pc' = "ret"
  /\ UNCHANGED <<in, ecode, ent, pw, reported, result, heap, envp>>

(* Lines 318-332.  pw is still the caller's NULL here, so the e_option    *)
(* branch (a non-root user crontab) cannot be taken.                       *)
MayDisableLogging == IF pw = NIL THEN TRUE ELSE Passwd[pw].uid = 0

Option ==
  /\ pc = "option"
  /\ MayDisableLogging
  /\ LET c == get_char(in, pos)
     IN  /\ ch' = c.ch /\ pos' = c.pos
         /\ pc' = IF c.ch = EOF THEN "ret" ELSE "body"
  /\ ent' = [ent EXCEPT !.flags = @ \cup {DONT_LOG}]
  /\ UNCHANGED <<in, ecode, pw, reported, result, lineStart, heap, envp>>

-----------------------------------------------------------------------------
(* Lines 334-401: an @keyword, then Skip_Blanks.                           *)

Keyword   == get_string(in, MAX_COMMAND, {" ", "\t", "\n"}, pos)
AfterWord == ScanWhile(in, Blanks, Keyword.ch, Keyword.pos)

Macro ==
  /\ pc = "body" /\ ch = "@"
  /\ Keyword.str \in DOMAIN Macros
  /\ AfterWord.ch \notin {EOF, "\n"}
  /\ LET m == Macros[Keyword.str]
     IN  ent' = [ent EXCEPT !.minute = m.minute, !.hour = m.hour, !.dom = m.dom,
                            !.month = m.month, !.dow = m.dow, !.flags = @ \cup m.flags]
  /\ ch' = AfterWord.ch /\ pos' = AfterWord.pos
  /\ pc' = "sunday"
  /\ UNCHANGED <<in, ecode, pw, reported, result, lineStart, heap, envp>>

MacroNoCommand ==
  /\ pc = "body" /\ ch = "@"
  /\ Keyword.str \in DOMAIN Macros
  /\ AfterWord.ch \in {EOF, "\n"}
  /\ Fail("e_cmd", AfterWord.ch, AfterWord.pos)
  /\ UNCHANGED <<in, ent, pw, reported, result, lineStart, heap, envp>>

MacroUnknown ==
  /\ pc = "body" /\ ch = "@"
  /\ Keyword.str \notin DOMAIN Macros
  /\ Fail("e_timespec", Keyword.ch, Keyword.pos)
  /\ UNCHANGED <<in, ent, pw, reported, result, lineStart, heap, envp>>

-----------------------------------------------------------------------------
(* Lines 403-455: the five fields, each through get_list.                  *)

InField == pc \in DOMAIN Fields \/ (pc = "body" /\ ch # "@")
Field   == IF pc = "body" THEN "minute" ELSE pc
FieldIn == LET f == Fields[Field] IN get_list(in, f.low, f.high, f.names, ch, pos)

ParseField ==
  /\ InField /\ FieldIn.ch # EOF
  /\ ent' = [ent EXCEPT ![Field] = FieldIn.bits,
                        !.flags = IF ch = "*" THEN @ \cup {Fields[Field].flag} ELSE @]
  /\ ch' = FieldIn.ch /\ pos' = FieldIn.pos
  /\ pc' = Fields[Field].next
  /\ UNCHANGED <<in, ecode, pw, reported, result, lineStart, heap, envp>>

FieldError ==
  /\ InField /\ FieldIn.ch = EOF
  /\ Fail(Fields[Field].err, EOF, FieldIn.pos)
  /\ UNCHANGED <<in, ent, pw, reported, result, lineStart, heap, envp>>

-----------------------------------------------------------------------------
(* Lines 458-471: Sundays, the premature end of line check, and the push  *)
(* back of the user name's first character.                                *)

CommandStart ==
  /\ pc = "sunday" /\ ch \notin {"\n", "*"}
  /\ ent' = [ent EXCEPT !.dow = SundayFix(@)]
  /\ pos' = unget_char(ch, pos)
  /\ pc' = IF pw = NIL THEN "user" ELSE "pwdup"
  /\ UNCHANGED <<in, ch, ecode, pw, reported, result, lineStart, heap, envp>>

CommandMissing ==
  /\ pc = "sunday" /\ ch \in {"\n", "*"}
  /\ ent' = [ent EXCEPT !.dow = SundayFix(@)]
  /\ Fail("e_cmd", ch, pos)
  /\ UNCHANGED <<in, pw, reported, result, lineStart, heap, envp>>

-----------------------------------------------------------------------------
(* Lines 473-491: the user name column and getpwnam.                       *)

UserWord == get_string(in, MAX_COMMAND, {" ", "\t", "\n"}, pos)

UserName ==
  /\ pc = "user"
  /\ UserWord.ch \notin {EOF, "\n", "*"}
  /\ UserWord.str \in DOMAIN Passwd
  /\ pw' = UserWord.str
  /\ ch' = UserWord.ch /\ pos' = UserWord.pos
  /\ pc' = "pwdup"
  /\ UNCHANGED <<in, ecode, ent, reported, result, lineStart, heap, envp>>

UserMissing ==
  /\ pc = "user"
  /\ UserWord.ch \in {EOF, "\n", "*"}
  /\ Fail("e_cmd", UserWord.ch, UserWord.pos)
  /\ UNCHANGED <<in, ent, pw, reported, result, lineStart, heap, envp>>

UserUnknown ==
  /\ pc = "user"
  /\ UserWord.ch \notin {EOF, "\n", "*"}
  /\ UserWord.str \notin DOMAIN Passwd
  /\ Fail("e_username", UserWord.ch, UserWord.pos)
  /\ UNCHANGED <<in, ent, pw, reported, result, lineStart, heap, envp>>

-----------------------------------------------------------------------------
(* Lines 493-561: pw_dup (then the password is scrubbed) and the           *)
(* environment.  Any of the allocations may fail.                          *)

PwDup ==
  /\ pc = "pwdup"
  /\ ent' = [ent EXCEPT !.pwd = pw_dup(pw)]
  /\ heap' = heap \cup {"pwd"}
  /\ pc' = "env"
  /\ UNCHANGED <<in, pos, ch, ecode, pw, reported, result, lineStart, envp>>

PwDupNoMem ==
  /\ pc = "pwdup" /\ MallocMayFail
  /\ Fail("e_memory", ch, pos)
  /\ UNCHANGED <<in, ent, pw, reported, result, lineStart, heap, envp>>

EnvSetup ==
  /\ pc = "env" /\ envp # NIL
  /\ ent' = [ent EXCEPT !.env = EnvFor(pw)]
  /\ heap' = heap \cup {"envp"}
  /\ pc' = "command"
  /\ UNCHANGED <<in, pos, ch, ecode, pw, reported, result, lineStart, envp>>

\* env_copy returns NULL (having freed its partial copy), or one of the
\* env_set calls does, and e->envp keeps the array it had.
EnvNoMem ==
  /\ pc = "env" /\ envp # NIL /\ MallocMayFail
  /\ Fail("e_memory", ch, pos)
  /\ heap' \in {heap, heap \cup {"envp"}}
  /\ UNCHANGED <<in, ent, pw, reported, result, lineStart, envp>>

\* env_copy(NULL) counts the variables through the null pointer.
EnvCopyNull ==
  /\ pc = "env" /\ envp = NIL
  /\ pc' = "segv"
  /\ UNCHANGED <<in, pos, ch, ecode, ent, pw, reported, result, lineStart, heap, envp>>

-----------------------------------------------------------------------------
(* Lines 563-589: the rest of the line is the command.                     *)

\* (Mutant) the command read with the user name's terminators.
CommandWordToBlank == get_string(in, MAX_COMMAND, {" ", "\t", "\n"}, pos)

CommandWord == get_string(in, MAX_COMMAND, {"\n"}, pos)

Command ==
  /\ pc = "command" /\ CommandWord.ch # EOF
  /\ ent' = [ent EXCEPT !.cmd = CommandWord.str]
  /\ heap' = heap \cup {"cmd"}
  /\ result' = ent'
  /\ ch' = CommandWord.ch /\ pos' = CommandWord.pos
  /\ pc' = "ret"
  /\ UNCHANGED <<in, ecode, pw, reported, lineStart, envp>>

CommandEof ==
  /\ pc = "command" /\ CommandWord.ch = EOF
  /\ Fail("e_cmd", EOF, CommandWord.pos)
  /\ UNCHANGED <<in, ent, pw, reported, result, lineStart, heap, envp>>

\* strdup(cmd) returns NULL.
CommandNoMem ==
  /\ pc = "command" /\ CommandWord.ch # EOF /\ MallocMayFail
  /\ Fail("e_memory", CommandWord.ch, CommandWord.pos)
  /\ UNCHANGED <<in, ent, pw, reported, result, lineStart, heap, envp>>

-----------------------------------------------------------------------------
(* Lines 591-604, the `eof:` label: free the entry, read on until the     *)
(* current character is a newline or the file is at its end, and log the  *)
(* error if there is an error callback.                                    *)

\* while (ch != '\n' && !feof(file)) ch = get_char(file);
\* A helper's EOF is an error code, not the end of the file: feof is false
\* unless a read really hit the end, and then reading on changes nothing.
SkipLine(c, p) ==
  IF c = "\n" THEN [ch |-> c, pos |-> p]
  ELSE LET g == get_char(in, p)
           l == ScanUntil(in, {"\n"}, g.ch, g.pos)
       IN  [ch |-> l.ch, pos |-> l.pos]

\* env_free(envp) frees each "name=value" string and the array.
env_free(h) == h \ {"envp"}

Eof ==
  /\ pc = "eof"
  /\ ch' = SkipLine(ch, pos).ch /\ pos' = SkipLine(ch, pos).pos
  /\ reported' = IF ecode # "e_none" /\ error_func # NIL
                   THEN reported \cup {ecode} ELSE reported
  /\ heap' = env_free(heap) \ {"pwd", "cmd", "e"}
  /\ pc' = "ret"
  /\ UNCHANGED <<in, ecode, ent, pw, result, lineStart, envp>>

Next ==
  \/ Start \/ CallocNoMem \/ NoMoreEntries \/ Option
  \/ Macro \/ MacroNoCommand \/ MacroUnknown
  \/ ParseField \/ FieldError
  \/ CommandStart \/ CommandMissing
  \/ UserName \/ UserMissing \/ UserUnknown
  \/ PwDup \/ PwDupNoMem \/ EnvSetup \/ EnvNoMem \/ EnvCopyNull
  \/ Command \/ CommandEof \/ CommandNoMem
  \/ Eof

\* load_entry runs to its return in one thread.
Spec == Init /\ [][Next]_vars /\ WF_vars(Next)

-----------------------------------------------------------------------------
(* Properties                                                              *)

\* Position just past the newline ending the line that starts at p (or the
\* end of the file).
LineEnd(p) ==
  LET i == SelectInSubSeq(in, p, Len(in), LAMBDA c : c = "\n")
  IN  IF i = 0 THEN Len(in) + 1 ELSE i + 1

Returned == pc = "ret"
Accepted == Returned /\ result # NIL
Rejected == Returned /\ result = NIL /\ ecode # "e_none"

(* An entry load_entry returns is one cron can schedule (spec.md section  *)
(* 3): unless it is @reboot, each of its five bit strings has a bit set,  *)
(* and Sunday is set as 0 exactly when it is set as 7, whether the fields *)
(* came from get_list or from a macro's bit_set/bit_nset.                  *)
AcceptedEntryWellFormed ==
  Accepted /\ WHEN_REBOOT \notin result.flags =>
    /\ \A f \in DOMAIN Fields : result[f] # {}
    /\ (0 \in result.dow) = (7 \in result.dow)

(* An accepted entry is exactly one line: load_entry starts on the line's *)
(* first useful character and leaves the file just past that line's       *)
(* newline, so the next call starts on the next line.                     *)
AcceptedEntryConsumesItsLine == Accepted => pos = LineEnd(lineStart)

(* A rejected entry is skipped up to the end of its own line and no       *)
(* further (spec.md section 7: parsing continues with the next line): the *)
(* `eof:` loop stops at the newline, whichever helper failed.              *)
RejectedEntrySkipsOnlyItsLine == Rejected => pos = LineEnd(lineStart)

(* load_entry owns the entry it callocs and what hangs off it (spec.md    *)
(* section 2: the loader owns the parsed entries): no step after the      *)
(* calloc writes through a NULL entry or environment, and a NULL return leaves nothing   *)
(* of this call allocated, since the `eof:` label frees envp, pwd, cmd    *)
(* and the entry whichever step failed.                                   *)
EntryOwnership ==
  /\ pc # "segv"
  /\ Returned /\ result = NIL => heap = {}

=============================================================================
