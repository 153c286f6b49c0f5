SPECIFICATION Spec
SYMMETRY EnrollmentSymmetry
CONSTANTS
  Machines = {m1, m2}
  Slots = {h1, h2}
  SitePins = {p, q}
  MaxPins = 2
  MaxEvents = 3
  None = None
INVARIANT OwnNode
PROPERTY PinHonoured
CHECK_DEADLOCK FALSE
