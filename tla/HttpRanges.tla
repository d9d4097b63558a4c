----------------------------- MODULE HttpRanges -----------------------------
(***************************************************************************)
(* Request::getRanges of the vendored Wt library                          *)
(* (src/wt-3.1.7a/src/Wt/Http/Request.C): the HTTP Range header of a       *)
(* request turned into the byte ranges of a file of `filesize` bytes       *)
(* (-1 when the size is unknown).                                          *)
(*                                                                         *)
(* The header is taken as boost::split leaves it: `parts` is the number   *)
(* of pieces split at "=", `unit` whether the first piece, trimmed, is     *)
(* "bytes" in any case (boost::iequals), and `set` the pieces of the       *)
(* second one split at "," and each split at "-".  A trimmed start or end *)
(* string is Empty (""), a number (lexical_cast<uint64_t> succeeds), or   *)
(* Junk (lexical_cast throws).                                             *)
(***************************************************************************)
EXTENDS Integers, Sequences, SequencesExt

CONSTANTS
  Empty,       \* the empty string
  Junk,        \* a string lexical_cast<uint64_t> rejects
  UINT64_MAX   \* std::numeric_limits<uint64_t>::max()

\* ByteRangeSpecifier(): no ranges, satisfiable.
ByteRangeSpecifier == [ranges |-> <<>>, satisfiable |-> TRUE]

ByteRange(first, last) == [first |-> first, last |-> last]

\* The try block: start is cast first, so a Junk start leaves endInt 0.
IsNumber(t) == t \notin {Empty, Junk}
CastStart(start) == IF IsNumber(start) THEN start ELSE 0
CastEnd(start, end) == IF start = Junk \/ ~IsNumber(end) THEN 0 ELSE end

\* One iteration of the loop over the comma-separated ranges, on the
\* accumulated [ranges, satisfiable, syntaxError].
RangeSpec(acc, range, filesize) ==
  LET start  == range[1]
      end    == range[2]
      startInt == CastStart(start)
      endInt   == CastEnd(start, end)
      acc1   == [acc EXCEPT !.syntaxError = @ \/ start = Junk \/ end = Junk]
      push(r)  == [acc1 EXCEPT !.satisfiable = TRUE, !.ranges = Append(@, r)]
      syntax   == [acc1 EXCEPT !.syntaxError = TRUE]
      suffix   == IF endInt >= filesize THEN filesize ELSE endInt
  IN
  IF Len(range) # 2 THEN [acc EXCEPT !.syntaxError = TRUE]
  ELSE IF start = Empty
    THEN IF filesize # -1 /\ end # Empty
           THEN IF suffix > 0 THEN push(ByteRange(filesize - suffix, filesize - 1))
                ELSE acc1
           ELSE syntax
  ELSE IF ~(filesize = -1 \/ startInt < filesize) THEN acc1
  ELSE IF end = Empty
    THEN push(ByteRange(startInt, IF filesize = -1 THEN UINT64_MAX ELSE filesize - 1))
  ELSE IF startInt <= endInt
    THEN push(ByteRange(startInt,
                        IF filesize >= 0 /\ endInt > filesize THEN filesize - 1 ELSE endInt))
  ELSE syntax

\* getRanges(rangeHdr, filesize).
getRanges(hdr, filesize) ==
  LET init == [ranges |-> <<>>, satisfiable |-> filesize = -1, syntaxError |-> FALSE]
      acc  == IF hdr.parts = 2 /\ hdr.unit
                THEN FoldLeft(LAMBDA a, r : RangeSpec(a, r, filesize), init, hdr.set)
                ELSE [init EXCEPT !.syntaxError = TRUE]
  IN  IF filesize = 0 THEN [ranges |-> <<>>, satisfiable |-> FALSE]
      ELSE IF acc.syntaxError THEN ByteRangeSpecifier
      ELSE [ranges |-> acc.ranges, satisfiable |-> acc.satisfiable]

=============================================================================
