SPECIFICATION Spec
CONSTANTS
  u1 = u1
  u2 = u2
  u3 = u3
  u4 = u4
  User = {u1, u2, u3, u4}
  Amount = {1}
  Endowment = 1
  RefundDelay = 2
  MaxLength = 4
  NoUser = NoUser
SYMMETRY Depositors
PROPERTY OldestFirst
