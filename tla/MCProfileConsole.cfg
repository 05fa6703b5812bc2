CONSTANTS
  Profiles = {p1, p2}
  MaxEvents = 4
  MaxReports = 2
  MaxBehind = 1
SPECIFICATION Spec
INVARIANTS
  TypeOK
  QuietStatusIsTrue
  StoredAsShown
  ViewsAgree
SYMMETRY Symmetry
