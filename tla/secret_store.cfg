SPECIFICATION Spec
CONSTANTS
  c1 = c1
  c2 = c2
  c3 = c3
  a = a
  k1 = k1
  k2 = k2
  Names = {a}
  Kids = {k1, k2}
  Commands = {c1, c2, c3}
  Does <- FirstMakes
  Nothing = Nothing
  MaxFaults = 1
SYMMETRY Alike
INVARIANTS KeyringFits RefsResolve StaysOpenable ReadsAreFresh
CHECK_DEADLOCK FALSE
