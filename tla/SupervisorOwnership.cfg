SPECIFICATION Spec
CONSTANTS
  MainSups = {s1, s2}
  CustomSups = {c1}
  Admins = {a1}
  Nobody = Nobody
  MaxPauses = 2
CONSTRAINT StallOrLate
SYMMETRY Symmetry
INVARIANTS
  OneOwner
  FencedWhileTimely
  ReleasedIsGone
PROPERTY RenewalNotices
CHECK_DEADLOCK FALSE
