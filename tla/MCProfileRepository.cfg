CONSTANTS
  Profiles = {f1, f2}
  Proxies = {x1, x2}
  Consoles = {c1, c2}
  Keep = 1
  None = None
SPECIFICATION Spec
SYMMETRY Symmetry
INVARIANTS
  TypeOK
PROPERTIES
  ImplementsStore
