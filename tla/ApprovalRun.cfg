SPECIFICATION ApprovalSpec
CONSTANTS
  clerk = clerk
  owner = owner
  Session = {r1, r2}
  User = {clerk, owner}
  Steps = 2
  MaySign <- MCMaySign
  MaxRequests = 2
INVARIANTS
  SignedStepByStep
  OrderMatchesRequests
SYMMETRY Symmetry
CHECK_DEADLOCK FALSE
