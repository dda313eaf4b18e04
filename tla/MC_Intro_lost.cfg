\* The user types up to three of N, n, r and x (an invalid state).
CONSTANTS
  Input = {78, 110, 114, 120}
  MaxReads = 3
  MaxSpurious = 1
SPECIFICATION FairSpec
PROPERTY ChangeReported
