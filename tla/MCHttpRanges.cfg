\* getRanges on every small Range header and file size.
CONSTANTS
  Empty = Empty
  Junk = Junk
  \* 2^64-1 does not fit TLC's integers; its largest integer is above every
  \* number of the model, which is all the comparisons of getRanges need.
  UINT64_MAX = 2147483647
SPECIFICATION Spec
\* getRanges is one call that returns: the final state has no successor.
CHECK_DEADLOCK FALSE
INVARIANT RangesWithinFile
