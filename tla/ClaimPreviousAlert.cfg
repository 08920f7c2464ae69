SPECIFICATION Spec
CONSTANTS
  Ids = {n1, n2}
  Alerts = {a1, a2, a3}
  None = none
  MaxCalls = 3
PROPERTY DisplayClosesPrevious
