\* Two people share two names; a stop or a failing write.
SPECIFICATION LiveSpec
CONSTANTS
  ann = ann
  ben = ben
  hal = hal
  kim = kim
  People = {ann, ben}
  Groups = {}
  Names = {hal, kim}
  None = None
  MaxWrites = 2
  MaxTroubles = 1
INVARIANTS
  OnlyToWriters
  IInv
PROPERTIES
  KnownIsFound
  RowsMoveOn
  TableSettles
