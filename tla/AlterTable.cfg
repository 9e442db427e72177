SPECIFICATION Spec
CONSTANTS
  a1 = a1
  a2 = a2
  id = id
  x = x
  y = y
  z = z
  int = int
  txt = txt
  Admins = {a1, a2}
  Names = {id, x, y, z}
  Types = {int, txt}
  DefaultType = int
  PrimaryKey = PrimaryKey
  Deleted = Deleted
  AnyType = AnyType
  FirstTable <- MCFirst
  NewTable <- MCNew
  InUse = {y}
  Closed = Closed
  MaxEdits = 4
  MaxAlterations = 1
INVARIANTS
  TypeOK
PROPERTIES
  ShownIsStored
  OnlyDeletedLost
SYMMETRY Symmetry
CHECK_DEADLOCK FALSE
