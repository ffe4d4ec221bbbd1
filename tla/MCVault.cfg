SPECIFICATION VaultSpec
CONSTANTS
  u1 = u1
  u2 = u2
  User = {u1, u2}
  Amount = {2}
  Endowment = 2
  Scale = 2
  DeadShares = 1
  FeeUnit = 8
  PctUnit = 10
  MaxSlip = 1
  Gain = 1
  MaxYield = 1
  Modes = {"open", "exit"}
SYMMETRY Holders
INVARIANTS
  CustodyBacked
  ExitNeverBlocked
PROPERTY
  NoDilution
