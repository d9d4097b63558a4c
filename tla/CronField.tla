----------------------------- MODULE CronField -----------------------------
(***************************************************************************)
(* The character source, the lexical helpers and the field parser of      *)
(* src/src/crontabs.cpp (get_char, unget_char, get_string, skip_comments,  *)
(* get_number, set_element, get_range, get_list).                          *)
(*                                                                         *)
(* The crontab file is a sequence `in` of one-character strings; the       *)
(* FILE* position is the index `pos` of the next unread character, so      *)
(* getc at the end of `in` yields EOF and leaves `pos` alone, and ungetc   *)
(* of the character just read steps `pos` back (ungetc(EOF) is a no-op).   *)
(* Every helper is an operator from (in, ch, pos) to a record carrying the *)
(* character it returns and the new position, the way the C functions     *)
(* thread `ch` and the FILE* through each other.                           *)
(*                                                                         *)
(* A bit string is the set of its set bit indices; set_element stores      *)
(* number `n` at index n - low, exactly as bit_set(bits, number - low).    *)
(***************************************************************************)
EXTENDS Integers, Sequences, SequencesExt, FiniteSets

CONSTANTS
  EOF,          \* the value getc returns at end of file (a model value)
  MAX_TEMPSTR   \* size of get_number's token buffer (macros.h)

ASSUME MAX_TEMPSTR \in Nat \ {0}

NULL == <<>>    \* a missing name table (PPC_NULL)

Digits  == {"0", "1", "2", "3", "4", "5", "6", "7", "8", "9"}
Upper   == <<"A","B","C","D","E","F","G","H","I","J","K","L","M",
            "N","O","P","Q","R","S","T","U","V","W","X","Y","Z">>
Lower   == <<"a","b","c","d","e","f","g","h","i","j","k","l","m",
            "n","o","p","q","r","s","t","u","v","w","x","y","z">>
Alpha   == ToSet(Upper) \cup ToSet(Lower)      \* isalpha()
Blanks  == {" ", "\t"}

\* tolower() on one character, as strcasecmp applies it.
ToLower(c) == IF c \in ToSet(Upper)
                THEN Lower[CHOOSE i \in 1..26 : Upper[i] = c]
                ELSE c

\* strcasecmp(a, b) = 0
CaseEq(a, b) == /\ Len(a) = Len(b)
                /\ \A i \in 1..Len(a) : ToLower(a[i]) = ToLower(b[i])

\* atoi() of a string of decimal digits.
DigitVal(c) == CHOOSE v \in 0..9 : <<"0","1","2","3","4","5","6","7","8","9">>[v+1] = c
Atoi(s) == FoldLeft(LAMBDA acc, c : 10 * acc + DigitVal(c), 0, s)

INT_MAX == 2147483647

\* The digits of s without its leading zeros.
Significant(s) ==
  LET i == SelectInSeq(s, LAMBDA c : c # "0")
  IN  IF i = 0 THEN <<>> ELSE SubSeq(s, i, Len(s))

\* glibc's atoi is (int) strtol(s, NULL, 10).  strtol saturates at
\* LONG_MAX = 2^63 - 1 (LP64), and the conversion to int keeps the low 32
\* bits, so a saturated value becomes -1.  The value modulo 2^32 is
\* computed as two 16-bit halves <<high, low>>.
LONG_MAX_DIGITS == <<"9","2","2","3","3","7","2","0","3","6","8","5","4","7","7","5","8","0","7">>
DigitsGT(a, b) ==
  \E i \in 1..Len(a) : DigitVal(a[i]) > DigitVal(b[i]) /\ \A j \in 1..(i - 1) : a[j] = b[j]
StrtolSaturates(s) ==
  LET t == Significant(s)
  IN  Len(t) > 19 \/ (Len(t) = 19 /\ DigitsGT(t, LONG_MAX_DIGITS))
Words32(s) ==
  FoldLeft(LAMBDA w, c : LET lo == 10 * w[2] + DigitVal(c)
                         IN  <<(10 * w[1] + lo \div 65536) % 65536, lo % 65536>>,
           <<0, 0>>, s)
atoi(s) ==
  IF StrtolSaturates(s) THEN -1
  ELSE LET w == Words32(s)
       IN  (IF w[1] >= 32768 THEN w[1] - 65536 ELSE w[1]) * 65536 + w[2]

\* The value of `e` passed to Op once evaluated: the helpers below thread
\* each result (a record of ch, pos, ...) into the rest of the function the
\* way the C code keeps it in a local variable.
Bind(v, Op(_)) == CHOOSE y \in {Op(x) : x \in {v}} : TRUE

-----------------------------------------------------------------------------
(* Character Source                                                        *)

\* get_char: getc, counting lines (the line counter is never read).
get_char(in, pos) ==
  IF pos <= Len(in) THEN [ch |-> in[pos], pos |-> pos + 1]
                    ELSE [ch |-> EOF,     pos |-> pos]

\* unget_char: ungetc of the character just read.
unget_char(ch, pos) == IF ch = EOF THEN pos ELSE pos - 1

\* Read characters while they are in S (keep = TRUE) or until one is in S
\* (keep = FALSE); `ch` is the current character.  The loops of get_number,
\* get_string, skip_comments and the Skip_Blanks/Skip_Nonblanks macros.
RECURSIVE Scan(_, _, _, _, _, _)
Scan(in, S, keep, ch, pos, acc) ==
  IF ch # EOF /\ (ch \in S) = keep
    THEN Bind([r |-> get_char(in, pos), acc |-> Append(acc, ch)],
              LAMBDA b : Scan(in, S, keep, b.r.ch, b.r.pos, b.acc))
    ELSE [str |-> acc, ch |-> ch, pos |-> pos]

ScanWhile(in, S, ch, pos) == Scan(in, S, TRUE, ch, pos, <<>>)
ScanUntil(in, S, ch, pos) == Scan(in, S, FALSE, ch, pos, <<>>)

-----------------------------------------------------------------------------
(* Lexical helpers                                                         *)

\* get_string: read up to a terminator or EOF, keeping at most size - 1
\* characters; returns the terminator (or EOF).
get_string(in, size, terms, pos) ==
  Bind(get_char(in, pos), LAMBDA r :
  Bind(ScanUntil(in, terms, r.ch, r.pos), LAMBDA s :
    [str |-> IF Len(s.str) < size THEN s.str ELSE SubSeq(s.str, 1, size - 1),
     ch  |-> s.ch, pos |-> s.pos]))

\* skip_comments: skip blank lines and lines whose first non-blank is '#',
\* leaving `pos` on the first character of a useful line (pushed back).
RECURSIVE skip_comments(_, _)
skip_comments(in, pos) ==
  Bind(get_char(in, pos), LAMBDA r :
  IF r.ch = EOF THEN r.pos
  ELSE Bind(ScanWhile(in, Blanks, r.ch, r.pos), LAMBDA b :
       IF b.ch = EOF THEN b.pos
       ELSE IF b.ch \notin {"\n", "#"} THEN unget_char(b.ch, b.pos)
       ELSE Bind(ScanUntil(in, {"\n"}, b.ch, b.pos), LAMBDA l :
            IF l.ch = EOF THEN l.pos ELSE skip_comments(in, l.pos))))

-----------------------------------------------------------------------------
(* Field parser                                                            *)

\* The failure result: get_number's `bad:` label pushes the offending
\* character back and returns EOF.
Bad(ch, pos) == [ch |-> EOF, pos |-> unget_char(ch, pos), num |-> 0]

\* (Mutant) a decimal literal taken whatever character ends it.
get_number_noterm(in, low, names, ch, pos, terms) ==
  Bind(ScanWhile(in, Digits, ch, pos), LAMBDA d :
  IF Len(d.str) >= MAX_TEMPSTR THEN Bad(d.str[MAX_TEMPSTR], pos + MAX_TEMPSTR - 1)
  ELSE IF Len(d.str) # 0 THEN [ch |-> d.ch, pos |-> d.pos, num |-> atoi(d.str)]
  ELSE Bad(ch, pos))

\* get_number: a decimal literal, or (with a name table) a name matched
\* case-insensitively; the terminator must be in `terms`.
get_number(in, low, names, ch, pos, terms) ==
  Bind(ScanWhile(in, Digits, ch, pos), LAMBDA d :
  IF Len(d.str) >= MAX_TEMPSTR THEN Bad(d.str[MAX_TEMPSTR], pos + MAX_TEMPSTR - 1)
  ELSE IF Len(d.str) # 0
    THEN IF d.ch \notin terms THEN Bad(d.ch, d.pos)
         ELSE [ch |-> d.ch, pos |-> d.pos, num |-> atoi(d.str)]
  ELSE IF names = NULL THEN Bad(ch, pos)
  ELSE Bind(ScanWhile(in, Alpha, ch, pos), LAMBDA a :
       LET hits == {i \in 1..Len(names) : CaseEq(names[i], a.str)}
       IN  IF Len(a.str) >= MAX_TEMPSTR THEN Bad(a.str[MAX_TEMPSTR], pos + MAX_TEMPSTR - 1)
           ELSE IF Len(a.str) # 0 /\ a.ch \in terms /\ hits # {}
             THEN [ch |-> a.ch, pos |-> a.pos, num |-> Min(hits) - 1 + low]
           ELSE Bad(a.ch, a.pos)))

\* (Mutant) set_element storing `number` at index number, forgetting low.
set_element_nolow(bits, low, high, number) ==
  IF number < low \/ number > high THEN EOF ELSE bits \cup {number}

\* set_element: the new bit string, or EOF when number is out of bounds.
set_element(bits, low, high, number) ==
  IF number < low \/ number > high THEN EOF ELSE bits \cup {number - low}

\* (Mutant) the loop written `i < num2`.
StepElems_below(num1, num2, num3) ==
  {num1 + k * num3 : k \in 0..((num2 - num1 - 1) \div num3)}

\* The elements the loop `for (i = num1; i <= num2; i += num3)` visits.
StepElems(num1, num2, num3) == {num1 + k * num3 : k \in 0..((num2 - num1) \div num3)}

RangeFail(bits, pos) == [ch |-> EOF, pos |-> pos, bits |-> bits]

\* The last i <= num2 the loop visits, for num1 <= num2 and num3 > 0.
LastElem(num1, num2, num3) == num1 + ((num2 - num1) \div num3) * num3

\* Lines 716-727: set every element, or push `ch` back and fail.  The
\* loop fails on the first i outside [low, high]: num1 itself, an i past
\* high, any i once a negative step (atoi of a large literal) counts down,
\* or the i that `i += num3` wraps past INT_MAX to a negative value (the
\* build's two's-complement add; signed overflow is undefined in C).
SetElements(bits, low, high, num1, num2, num3, ch, pos) ==
  IF \/ num3 < 0
     \/ set_element(bits, low, high, num1) = EOF
     \/ LastElem(num1, num2, num3) > high
     \/ num3 > INT_MAX - LastElem(num1, num2, num3)
    THEN RangeFail(bits, unget_char(ch, pos))
    ELSE [ch |-> ch, pos |-> pos,
          bits |-> bits \cup {i - low : i \in StepElems(num1, num2, num3)}]

\* The tail of get_range: the optional "/step", then the set_element loop.
RangeStep(in, bits, low, high, num1, num2, ch, pos) ==
  IF ch # "/" THEN SetElements(bits, low, high, num1, num2, 1, ch, pos)
  ELSE Bind(get_char(in, pos), LAMBDA sl :
       IF sl.ch = EOF THEN RangeFail(bits, sl.pos)
       ELSE Bind(get_number(in, 0, NULL, sl.ch, sl.pos, {",", " ", "\t", "\n"}), LAMBDA n3 :
            IF n3.ch = EOF \/ n3.num = 0 THEN RangeFail(bits, n3.pos)
            ELSE SetElements(bits, low, high, num1, num2, n3.num, n3.ch, n3.pos)))

\* (Mutant) get_range without the `num1 > num2` test.
get_range_unordered(in, bits, low, high, names, ch, pos) ==
  IF ch = "*"
    THEN Bind(get_char(in, pos), LAMBDA st :
         IF st.ch = EOF THEN RangeFail(bits, st.pos)
         ELSE RangeStep(in, bits, low, high, low, high, st.ch, st.pos))
  ELSE Bind(get_number(in, low, names, ch, pos, {",", "-", " ", "\t", "\n"}), LAMBDA n1 :
  IF n1.ch = EOF THEN RangeFail(bits, n1.pos)
  ELSE IF n1.ch # "-"
    THEN LET one == set_element(bits, low, high, n1.num)
         IN  IF one = EOF THEN RangeFail(bits, unget_char(n1.ch, n1.pos))
             ELSE [ch |-> n1.ch, pos |-> n1.pos, bits |-> one]
  ELSE Bind(get_char(in, n1.pos), LAMBDA dash :
       IF dash.ch = EOF THEN RangeFail(bits, dash.pos)
       ELSE Bind(get_number(in, low, names, dash.ch, dash.pos, {"/", ",", " ", "\t", "\n"}), LAMBDA n2 :
            IF n2.ch = EOF THEN RangeFail(bits, n2.pos)
            ELSE RangeStep(in, bits, low, high, n1.num, n2.num, n2.ch, n2.pos))))

\* get_range: "*", a number, or number "-" number, then an optional step.
get_range(in, bits, low, high, names, ch, pos) ==
  IF ch = "*"
    THEN Bind(get_char(in, pos), LAMBDA st :
         IF st.ch = EOF THEN RangeFail(bits, st.pos)
         ELSE RangeStep(in, bits, low, high, low, high, st.ch, st.pos))
  ELSE Bind(get_number(in, low, names, ch, pos, {",", "-", " ", "\t", "\n"}), LAMBDA n1 :
  IF n1.ch = EOF THEN RangeFail(bits, n1.pos)
  ELSE IF n1.ch # "-"
    THEN LET one == set_element(bits, low, high, n1.num)
         IN  IF one = EOF THEN RangeFail(bits, unget_char(n1.ch, n1.pos))
             ELSE [ch |-> n1.ch, pos |-> n1.pos, bits |-> one]
  ELSE Bind(get_char(in, n1.pos), LAMBDA dash :
       IF dash.ch = EOF THEN RangeFail(bits, dash.pos)
       ELSE Bind(get_number(in, low, names, dash.ch, dash.pos, {"/", ",", " ", "\t", "\n"}), LAMBDA n2 :
            IF n2.ch = EOF \/ n1.num > n2.num THEN RangeFail(bits, n2.pos)
            ELSE RangeStep(in, bits, low, high, n1.num, n2.num, n2.ch, n2.pos))))


\* The `while (!done)` loop of get_list over comma-separated ranges.
RECURSIVE ListLoop(_, _, _, _, _, _, _)
\* (Mutant) the loop going round without reading past the comma.
ListLoop_comma(in, bits, low, high, names, ch, pos) ==
  Bind(get_range(in, bits, low, high, names, ch, pos), LAMBDA r :
  IF r.ch # "," THEN r
  ELSE ListLoop(in, r.bits, low, high, names, r.ch, r.pos))

ListLoop(in, bits, low, high, names, ch, pos) ==
  Bind(get_range(in, bits, low, high, names, ch, pos), LAMBDA r :
  IF r.ch # "," THEN r
  ELSE Bind(get_char(in, r.pos), LAMBDA c :
       ListLoop(in, r.bits, low, high, names, c.ch, c.pos)))

\* get_list: clear the bit string, parse the ranges, then skip to and over
\* the following blanks; returns the first character after them, or EOF.
get_list(in, low, high, names, ch, pos) ==
  Bind(ListLoop(in, {}, low, high, names, ch, pos), LAMBDA r :
  IF r.ch = EOF THEN r
  ELSE Bind(ScanUntil(in, {" ", "\t", "\n"}, r.ch, r.pos), LAMBDA nb :
       Bind(ScanWhile(in, Blanks, nb.ch, nb.pos), LAMBDA bl :
            [ch |-> bl.ch, pos |-> bl.pos, bits |-> r.bits])))

=============================================================================
