CONSTANTS
  a = a
  b = b
  root = root
  d1 = d1
  d2 = d2
  d3 = d3
  d4 = d4
  f = f
  g = g
  Everything = all
  Absent = absent
  Whole = whole
  Elements = elements
  Root = root
  Keys <- MCKeys
  Dicts <- MCDicts
  Fields = {f, g}
  MaxPath = 3
  Requests <- MCRequests
SPECIFICATION Spec
INVARIANTS
  TypeOK
  EveryPathKept
  MergesAsASet
PROPERTY NothingForgotten
