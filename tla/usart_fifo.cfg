SPECIFICATION FairSpec
CONSTANTS
  Size = 4
  Chars = {nl, nul, a}
  NL = nl
  NUL = nul
INVARIANT TypeOK
PROPERTIES IsQueue RecordEnds
