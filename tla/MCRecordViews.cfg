\* Four records that enter in any order, at most three of them listed.
CONSTANTS
  r1 = r1
  r2 = r2
  r3 = r3
  r4 = r4
  sh = sh
  ls = ls
  Rec = {r1, r2, r3, r4}
  Info <- Infos
  Setting <- Settings
  TORN = TORN
  MAX_PROCESS_RECORDS = 3
  SHOWN_RECORDS = 2
  ULongMax = 15
SPECIFICATION Spec
INVARIANTS
  TypeOK
  VerdictOfOneConfiguration
  ShowsFirstMatches
  TreeSorted
