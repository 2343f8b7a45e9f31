SPECIFICATION MCSpec
CONSTANTS
  User = {"ana", "bo"}
  Publisher = "ana"
  Admin = "bo"
  Request = {r1, r2}
  MaxVersion = 2
  Run = {1, 2}
  MaxSelections = 1
  MaxRows = 2
  Owner = {"ana", "bo"}
  Payload = {"p1", "p2"}
  Writer = {w1, w2}
  MaxClock = 3
SYMMETRY Interchangeable
INVARIANTS  SelectionsScoped NewestReplacementStands
 
