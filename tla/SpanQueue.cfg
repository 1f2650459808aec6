SPECIFICATION Spec
CONSTANTS
  Producer = {p1, p2}
  MaxSize = 2
  MaxAdds = 3
  Null = Null
INVARIANTS
  TypeOK
  Delivery
  Bounded
  OneOwner
PROPERTY IsBoundedQueue
CHECK_DEADLOCK FALSE
