CONSTANTS
  Small = 2
  Huge = 4
  HugePages = {4, 8, 16, 20}
  Sizes = {1, 2, 3, 5}
  Aligns = {1, 4}
  MaxAllocs = 3
SPECIFICATION FairSpec
INVARIANTS TypeOK Disjoint Contained
PROPERTIES Returns
