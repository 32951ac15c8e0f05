SPECIFICATION Spec
CONSTANTS
  NULL = NULL
  Tasks = {sys_evt, bluetooth}
  Writers = {sys_evt}
  Keys = {k1, k2}
  Values = {short, long, empty}
  Long = {long}
  Empty = {empty}
  Handles = {h1, h2, h3}
INVARIANTS TypeOK ResultsAreEarned ReadDeliversAlone LeaksOnlyByOverlap
PROPERTY EraseIsFinal
