SPECIFICATION BihashSpec
CONSTANTS
  k1 = k1
  k2 = k2
  k3 = k3
  k4 = k4
  v1 = v1
  v2 = v2
  w1 = w1
  w2 = w2
  Keys = {k1, k2, k3, k4}
  Values = {v1, v2}
  NBuckets = 2
  KvpPerPage = 1
  MaxLog2 = 5
  Writers = {w1, w2}
  Readers = {r1}
  Tables <- SomeTables
  NoKey = NoKey
  NoValue = NoValue
  None = None
INVARIANT
  SearchExact
PROPERTY
  ImplementsMap
CHECK_DEADLOCK FALSE
