SPECIFICATION Spec
CONSTANTS
  Worker = {w1, w2, w3}
  Cashier = {"ann", "bob"}
  Shift = {1, 2}
  Sale = {"s1", "s2"}
  SaleCash <- MCSaleCash
  Slip = {"p1"}
  SlipAmount <- MCSlipAmount
  Float = 1
INVARIANTS
  ReportTrue
  ReportsNumbered
SYMMETRY Symmetry
CHECK_DEADLOCK FALSE
