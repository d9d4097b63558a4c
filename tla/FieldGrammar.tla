---------------------------- MODULE FieldGrammar ----------------------------
(***************************************************************************)
(* The reference meaning of one calendar field, written from the grammar  *)
(* of spec.md (sections 4.3 and 6), independently of the parser's code:   *)
(*                                                                         *)
(*   list  = range { "," range }                                           *)
(*   range = ( "*" | N | N "-" N ) [ "/" step ]                           *)
(*                                                                         *)
(* N is a decimal literal or, where the field has a name table, a name     *)
(* matched case-insensitively (its value is low + table index).  A range  *)
(* selects {n1, n1 + step, ...} up to n2; n1 > n2, a zero step and a       *)
(* selected value outside [low, high] make the field invalid.             *)
(***************************************************************************)
EXTENDS CronField

\* Split a sequence at every occurrence of `sep`.
RECURSIVE SplitAt(_, _)
SplitAt(s, sep) ==
  LET i == SelectInSeq(s, LAMBDA c : c = sep)
  IN  IF i = 0 THEN <<s>>
               ELSE <<SubSeq(s, 1, i - 1)>> \o SplitAt(SubSeq(s, i + 1, Len(s)), sep)

IsNumeral(t) == Len(t) > 0 /\ \A i \in 1..Len(t) : t[i] \in Digits

\* The value a token denotes, or -1 when it denotes none.
RefNum(t, low, names) ==
  LET hits == {i \in 1..Len(names) : CaseEq(names[i], t)}
  IN  IF IsNumeral(t) THEN Atoi(t)
      ELSE IF Len(t) > 0 /\ hits # {} THEN Min(hits) - 1 + low
      ELSE -1

\* One range: [ok |-> valid?, vals |-> the values it selects].
RefRange(p, low, high, names) ==
  LET s     == SelectInSeq(p, LAMBDA c : c = "/")
      base  == IF s = 0 THEN p ELSE SubSeq(p, 1, s - 1)
      stepT == IF s = 0 THEN <<"1">> ELSE SubSeq(p, s + 1, Len(p))
      d     == SelectInSeq(base, LAMBDA c : c = "-")
      n1    == IF base = <<"*">> THEN low
               ELSE RefNum(IF d = 0 THEN base ELSE SubSeq(base, 1, d - 1), low, names)
      n2    == IF base = <<"*">> THEN high
               ELSE IF d = 0 THEN n1
               ELSE RefNum(SubSeq(base, d + 1, Len(base)), low, names)
      step  == IF IsNumeral(stepT) THEN Atoi(stepT) ELSE 0
      vals  == {v \in n1..n2 : (v - n1) % step = 0}
  IN  IF n1 < 0 \/ n2 < 0 \/ step = 0 \/ n1 > n2
        THEN [ok |-> FALSE, vals |-> {}]
        ELSE [ok |-> \A v \in vals : low <= v /\ v <= high, vals |-> vals]

\* A whole field text: [ok |-> valid?, bits |-> bit indices it selects].
RefList(text, low, high, names) ==
  LET rs == [i \in 1..Len(SplitAt(text, ",")) |->
               RefRange(SplitAt(text, ",")[i], low, high, names)]
  IN  [ok   |-> \A i \in DOMAIN rs : rs[i].ok,
       bits |-> {v - low : v \in UNION {rs[i].vals : i \in DOMAIN rs}}]

\* The text of the field at the start of `in`: up to a blank, newline or end.
FieldText(in) ==
  LET i == SelectInSeq(in, LAMBDA c : c \in {" ", "\t", "\n"})
  IN  IF i = 0 THEN in ELSE SubSeq(in, 1, i - 1)

=============================================================================
