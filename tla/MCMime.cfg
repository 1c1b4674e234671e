\* Limits of four and five columns, so that a text of five bytes needs several
\* lines; trees of up to five messages.
SPECIFICATION Spec
CONSTANTS
  Bytes <- MCBytes
  MaxLen = 5
  WrapWidth = 2
  QpWidth = 4
  FoldWidth = 5
  WordLengths = {0, 1, 2, 4, 7}
  MaxWords = 6
  Leaves <- MCLeaves
  Hash <- MCHash
  Boundaries <- MCBoundaries
  MaxNodes = 5
  MaxParts = 3
INVARIANTS QpRoundTrips LinesFit HeaderValueRoundTrips FoldKeepsWords
INVARIANTS RoundTripsWhenClear 
CHECK_DEADLOCK FALSE
