SPECIFICATION MCSpec
CONSTANTS
  u1 = u1
  u2 = u2
  u3 = u3
  User = {u1, u2, u3}
  Amount = {1, 2}
  Endowment = 2
  RefundDelay = 1
  MaxLength = 6
  NoUser = NoUser
  Requests = 2
  Owner <- Owners
  Spacing = 1
  Span = 3
  MinReverts = 3
  MaxFaults = 2
INVARIANTS QueueSound ReserveCovered RefundJustified
PROPERTIES PlaceNeverWorsens ImplementsBook EveryRequestLeaves HeadLeaves
