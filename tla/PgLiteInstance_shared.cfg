SPECIFICATION Spec
CONSTANTS
  h1 = h1
  h2 = h2
  h3 = h3
  h4 = h4
  i1 = i1
  i2 = i2
  i3 = i3
  None = None
  Handle = {h1, h2, h3, h4}
  Instance = {i1, i2, i3}
  Value = {v1, v2}
SYMMETRY Alike
INVARIANTS TypeOK HeldIsOpen WritesSurvive
CHECK_DEADLOCK FALSE
