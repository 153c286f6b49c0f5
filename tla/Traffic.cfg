SPECIFICATION Spec
CONSTANTS
  Handlers <- OneHandler
  Admins <- OneAdmin
  Targets = {3}
  ResetDays = {1}
  NewDays = {0}
  Corrections <- Credit
  Month = 2
  MaxSigned = 7
  MaxUnsigned = 15
  MaxBytes = 1
  MaxTime = 3
  MaxRequests = 1
  MaxEvents = 2
  MaxPending = 1
  None = None
CHECK_DEADLOCK FALSE
INVARIANTS TotalsSound 
PROPERTY PeriodTotalGrows
