CONSTANTS
  None = None
  Order = {o1, o2}
  Payment = {p1, p2}
  Note = {}
  Tx = {t1}
  Channel = {"local", "legacy"}
  Operated = {}
  MaxVersion = 1
  Supply = 1
SPECIFICATION Spec
SYMMETRY Interchangeable
INVARIANTS
  TypeOK
  StockConserved
PROPERTIES
  ImplementsOrderLifecycle
