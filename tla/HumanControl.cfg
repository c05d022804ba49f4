\* Two Agents and two Monitors; leases expire at any moment.
SPECIFICATION Spec
CONSTANTS
  a1 = a1  a2 = a2  c1 = c1  c2 = c2  left = left  right = right  key = key
  Agents = {a1, a2}
  Conns = {c1, c2}
  Buttons = {left, right}
  Keys = {key}
  MaxOps = 6
  None = None
SYMMETRY MCSymmetry
CHECK_DEADLOCK FALSE
INVARIANTS
  TypeOK
  AgentIsPaused
  HumanHasControl
  AgentLeaseStays
  InputsReleased
