SPECIFICATION Spec
CONSTANTS
  Half = 512
  Nodes = {n1, n2}
  Bytes = {0, 1, 2, 3, 5, 8, 13, 21, 34, 47, 55, 63, 64, 72, 89, 97, 101, 110, 119, 127, 128, 144, 160, 177, 191, 200, 213, 223, 233, 240, 250, 255}
  MaxLen = 2
  Totals = {1, 2, 3, 4}
  Threshold = 2
  MaxKeys = 7
INVARIANTS FileInv KeyHasHome
CHECK_DEADLOCK FALSE
