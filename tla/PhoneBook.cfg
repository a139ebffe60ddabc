SPECIFICATION PBSpec
CONSTANTS
  Comma = ","
  Quote = "'"
  Other = "x"
  Phone = {"p1", "p2"}
  AuxNumber <- Numbers
  MAX_PHONES_STORE = 3
  SortMod = 4
  Line <- Lines
  Size = {0, 1, 2, 3}
  Name <- Names
  MaxRead = 4
INVARIANTS SplitIsFields EntryAsStored BookIsFirst
