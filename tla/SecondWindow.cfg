SPECIFICATION Spec
CONSTANTS
  \* The smallest budget, whose caches get one page, and one the plan divides
  \* without a byte to spare, whose caches get two.
  Totals = {1048576, 1138687}
  Lengths = {64}
  \* Half the smallest budget's ceiling for a value, 9830: two such parts and
  \* the space between them are one over it.
  Chars = {4915}
  MathChars = {2048}
  Lefts = {200000}
  MaxSections = 2
INVARIANTS HeldAtOnce
