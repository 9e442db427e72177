SPECIFICATION Spec
CONSTANTS
  t1 = t1
  t2 = t2
  all = all
  odd = odd
  Tables = {t1, t2}
  Keys = {1, 2, 3}
  Protected = {2}
  Filters = {all, odd}
  NoFilter = all
  Matches <- MCMatches
  None = None
  PageSizes = {1, 2}
  DefaultPageSize = 2
  MaxPage = 2
  MaxMoves = 2
  MaxFailures = 1
  MaxDeletions = 1
INVARIANTS
  TypeOK
  PagesContinue
  ChecksAgree
SYMMETRY Symmetry
CHECK_DEADLOCK FALSE
