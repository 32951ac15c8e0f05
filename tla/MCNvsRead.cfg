SPECIFICATION Spec
CONSTANTS
  NULL = NULL
  Tasks = {sys_evt, bluetooth}
  Writers = {sys_evt}
  Keys = {k1, k2}
  Values = {short, long}
  Long = {long}
  Empty = {}
  Handles = {h1, h2, h3}
INVARIANTS ReadDelivers
