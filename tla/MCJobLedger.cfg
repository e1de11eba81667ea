SPECIFICATION Spec
CONSTANTS
  Jobs = {j1, j2}
  Handles = {h1, h2}
  Tokens = {t1, t2, t3}
  NoJob = NoJob
  NoToken = NoToken
  NoHandle = NoHandle
  Budgets = {2}
  Lease = 2
  MaxTime = 3
SYMMETRY Symmetry
INVARIANTS TypeOK LatestLeaseOwns BudgetHolds SuccessIsFromLastAttempt LogAgreesWithRow
PROPERTIES LeaseFence ImplementsLifecycle
