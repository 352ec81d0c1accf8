SPECIFICATION MCSpec
CONSTANTS
  a = a
  b = b
  c = c
  d = d
  e = e
  Key = {a, b, c, d, e}
  v = v
  w = w
  Value = {v, w}
  NULL = NULL
  DefaultSize = 5
  MaxCapacity = 10
  hash_key <- MCHashKey
INVARIANTS
  TypeOK
  TableInv
PROPERTIES
  CallReturns
  ImplementsDictionary
