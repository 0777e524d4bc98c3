SPECIFICATION PayablesSpec
CONSTANTS
  Connection = {r1, r2}
  Bill = {2, 3}
  Invoice = {2}
  Due <- MCDue
  Payment = {1, 2}
  Entries <- MCEntries
  Credit = {c1}
  CreditAmount <- MCCreditAmount
  Uses <- MCUses
  Year = {1, 2}
  RowId = {1, 2}
  Started <- MCStarted
  MaxCrossed = 1
INVARIANTS
  WithinAmounts
  BalancesTold
SYMMETRY Symmetry
CHECK_DEADLOCK FALSE
