SPECIFICATION Spec
CONSTANTS
  Producer = {p1, p2}
  MaxSize = 2
  MaxAdds = 2
  Null = Null
PROPERTY RefusedOnlyWhenFull
CHECK_DEADLOCK FALSE
