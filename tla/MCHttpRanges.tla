---------------------------- MODULE MCHttpRanges ----------------------------
(***************************************************************************)
(* getRanges on every Range header of at most two ranges over the start  *)
(* and end strings "", 0..3 and one that is not a number, with one badly *)
(* split range of each kind, for files of unknown size, empty, and of two *)
(* and three bytes.                                                        *)
(***************************************************************************)
EXTENDS HttpRanges

Tokens == {Empty, Junk, 0, 1, 2, 3}
\* "a-b" for every a and b; "1" and "0-1-2" split into 1 and 3 pieces.
Pieces == [1..2 -> Tokens] \cup {<<1>>, <<0, 1, 2>>}
Headers == [parts : {1, 2, 3}, unit : BOOLEAN,
            set : UNION {[1..n -> Pieces] : n \in 1..2}]
FileSizes == {-1, 0, 2, 3}

VARIABLES hdr, filesize, done, result

vars == <<hdr, filesize, done, result>>

Init ==
  /\ hdr \in Headers
  /\ filesize \in FileSizes
  /\ done = FALSE
  /\ result = ByteRangeSpecifier

\* The request's handler calls getRanges(filesize) on the Range header.
GetRanges ==
  /\ ~done
  /\ done' = TRUE
  /\ result' = getRanges(hdr, filesize)
  /\ UNCHANGED <<hdr, filesize>>

Spec == Init /\ [][GetRanges]_vars

(* Every byte range getRanges returns is well formed, and for a file of  *)
(* known size lies in the file: first <= last <= filesize - 1 (RFC 2616   *)
(* section 14.35.1: a last-byte-pos at or past the length means the       *)
(* file's last byte).  With the size unknown (-1), Request.C's own comment *)
(* at line 258 makes "599-" run "to eof", written as UINT64_MAX, so there *)
(* only first <= last is required.  The handler serves exactly these      *)
(* bytes and announces their count.                                        *)
RangesWithinFile ==
  done =>
    \A r \in ToSet(result.ranges) :
      /\ r.first <= r.last
      /\ filesize >= 0 => r.last <= filesize - 1

=============================================================================
