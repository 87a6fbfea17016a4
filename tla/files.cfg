SPECIFICATION FairSpec
CONSTANTS
  Clients = {c1, c2, c3}
  Old = old
  Hole = hole
  Page = page
  Name = name
  MaxPieces = 2
  ReadAhead = 2
  WriteBack = 1
  MaxOpen = 3
CHECK_DEADLOCK FALSE
INVARIANTS TypeOK StoreIsRight ReadIsRight OnlyListingsLeak
PROPERTY Answered
