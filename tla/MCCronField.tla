---------------------------- MODULE MCCronField -----------------------------
(***************************************************************************)
(* Model-checks get_list, the field parser load_entry calls once per      *)
(* calendar field, on every short field text over a small alphabet that   *)
(* has digits, the operators "*", "-", ",", "/" and letters of a name,     *)
(* against the reference grammar of FieldGrammar.                          *)
(***************************************************************************)
EXTENDS FieldGrammar

CONSTANTS
  FieldChars,   \* characters a field text is made of
  Terminators,  \* what ends the field text (a blank or a newline)
  MaxText,      \* longest field text tried
  Kinds         \* field descriptors [low, high, names] get_list is called with

ASSUME MaxText \in Nat \ {0}

\* A minute-like field with no names and a month-like field with the name
\* table <<"s", "m">> (values 1 and 2); "S" tries the case-insensitive match.
MCKinds == {[low |-> 0, high |-> 3, names |-> NULL],
            [low |-> 1, high |-> 3, names |-> <<<<"s">>, <<"m">>>>]}

Texts  == UNION {[1..n -> FieldChars] : n \in 1..MaxText}
\* Decimal literals around 2^31, 2^32 and 2^63, and small ones written long.
NumberTexts ==
  { <<"4","2","9","4","9","6","7","2","9","6">>,
    <<"4","2","9","4","9","6","7","2","9","9">>,
    <<"2","1","4","7","4","8","3","6","4","8">>,
    <<"4","2","9","4","9","6","7","2","9","5">>,
    <<"9","9","9","9","9","9","9","9","9","9","9","9","9","9","9","9","9","9","9","9">>,
    <<"0","0","0","0","0","0","0","0","0","2">>,
    <<"1","2">> }
\* The field text, its terminator, then the first character of what follows
\* (the next field or the command), as on a crontab line.
Inputs == {t \o <<c, "c">> : t \in Texts, c \in Terminators}

VARIABLES
  input,   \* the characters following the field's first character's position
  kind,    \* the field being parsed
  result   \* what get_list returned: [ch, pos, bits], or None before the call

vars == <<input, kind, result>>

None == [ch |-> "none", pos |-> 0, bits |-> {}]

Init ==
  /\ input \in Inputs
  /\ kind \in Kinds
  /\ result = None

\* load_entry reads the field's first character, then calls get_list.
Parse ==
  /\ result = None
  /\ result' = Bind(get_char(input, 1), LAMBDA c :
                  get_list(input, kind.low, kind.high, kind.names, c.ch, c.pos))
  /\ UNCHANGED <<input, kind>>

Next == Parse

Spec == Init /\ [][Next]_vars

-----------------------------------------------------------------------------
Parsed == result # None
Accepted == Parsed /\ result.ch # EOF
Ref == RefList(FieldText(input), kind.low, kind.high, kind.names)

TypeOK ==
  /\ input \in Inputs
  /\ kind \in Kinds
  /\ result.bits \subseteq 0..(kind.high - kind.low)
  /\ result.pos \in 0..(Len(input) + 1)

(* A field text the parser accepts and the grammar of spec.md gives a     *)
(* meaning to is parsed to exactly the union of its ranges' selected      *)
(* elements: get_range's "*", single number, dash range, step and name    *)
(* lookup and get_list's comma loop all agree with the grammar.            *)
FieldMatchesReference == Accepted /\ Ref.ok => result.bits = Ref.bits

(* A field the parser accepts always selects at least one value (spec.md  *)
(* section 3: an all-zero field after parsing is impossible), whatever    *)
(* the text: get_range rejects a reversed range and a zero step.           *)
FieldNeverEmpty == Accepted => result.bits # {}

\* The value of a decimal literal of at most two significant digits, else -1.
SmallValue(t) == IF Len(Significant(t)) <= 2 THEN Atoi(t) ELSE -1

(* A field that is one decimal literal is accepted only when the literal  *)
(* lies in the field's bounds, and then selects exactly its value          *)
(* (spec.md section 4.3): get_number's atoi must not turn an out-of-range  *)
(* literal into an in-range one.                                           *)
NumberParsedAsWritten ==
  Accepted /\ IsNumeral(FieldText(input)) =>
    LET v == SmallValue(FieldText(input))
    IN  v \in kind.low..kind.high /\ result.bits = {v - kind.low}

\* A range that starts with "*" followed by anything but "/" ("*0").
StarTrailing(text) ==
  \E p \in ToSet(SplitAt(text, ",")) : Len(p) > 1 /\ p[1] = "*" /\ p[2] # "/"

(* The parser is sound for the grammar of spec.md: every field text it    *)
(* accepts is one the grammar allows, over every path of get_range,      *)
(* get_number's terminators and get_list's comma loop, except a text with *)
(* a range "*" followed by other characters: after "*" get_range checks   *)
(* only for "/" (line 654), and get_list's Skip_Nonblanks drops the rest. *)
AcceptsOnlyGrammarButStarTrailing ==
  Accepted /\ ~StarTrailing(FieldText(input)) => Ref.ok

\* A range whose base is one number or name, followed by a step ("3/2").
NumberStepped(text) ==
  \E p \in ToSet(SplitAt(text, ",")) :
    LET s == SelectInSeq(p, LAMBDA c : c = "/")
    IN  s > 1 /\ SubSeq(p, 1, s - 1) # <<"*">>
              /\ "-" \notin ToSet(SubSeq(p, 1, s - 1))

\* Every number or name of the text is shorter than get_number's buffer.
TokensFit(text) ==
  \A t \in UNION {ToSet(SplitAt(r, "-")) : r \in UNION {ToSet(SplitAt(q, "/")) :
                     q \in ToSet(SplitAt(text, ","))}} :
    Len(t) < MAX_TEMPSTR

(* The parser is complete for the grammar of spec.md: every field text   *)
(* the grammar gives a meaning to, whose numbers fit get_number's buffer, *)
(* is accepted, over get_range's "*", number, dash and step paths, name   *)
(* lookup and get_list's comma loop.  The one form left out, a step after *)
(* a single number ("3/2"), is rejected by get_range (line 664: its       *)
(* terminators are ",- \t\n").                                              *)
AcceptsGrammarButNumberStep ==
  Parsed /\ Ref.ok /\ TokensFit(FieldText(input)) /\ ~NumberStepped(FieldText(input))
    => result.ch # EOF

=============================================================================
