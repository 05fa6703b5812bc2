SPECIFICATION Spec
CONSTANTS
  Pages = {p1, p2}
  Others = {w1}
  Offered <- MCOffered
  MaxPolls = 2
  p1 = p1
  p2 = p2
  w1 = w1
INVARIANTS
  TypeOK
  PagesCovered
  MapperInOrder
PROPERTIES
  PageSettles
CHECK_DEADLOCK FALSE
